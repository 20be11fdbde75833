\* Every network of at most three controllers and two VNFs.
CONSTANTS
  MaxCtls = 3
  MaxVnfs = 2
  MaxInterrupts = 1
SPECIFICATION FairSpec
INVARIANTS TypeOK PairedUp EvenlyDivided UniqueAcceptors AddressesForeseen
PROPERTIES RunningVnfsServe NoneLeftBehind
\* A network that is up, or has been stopped, takes no more steps.
CHECK_DEADLOCK FALSE
