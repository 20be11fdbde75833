\* The script of a controller's container.
CONSTANTS
  MaxCtls = 1
  MaxVnfs = 1
  MaxInterrupts = 0
SPECIFICATION Spec
INVARIANT ControllersStay
\* A network that is up, or has been stopped, takes no more steps.
CHECK_DEADLOCK FALSE
