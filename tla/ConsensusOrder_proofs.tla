------------------------ MODULE ConsensusOrder_proofs ------------------------
(***************************************************************************)
(* The order of the rules in Consensus, and what becomes of them, for      *)
(* every number of controllers and of VNFs and for every packet, fault and *)
(* bound; and that Consensus implements OrderedRules.                      *)
(***************************************************************************)
EXTENDS Consensus_proofs, FiniteSetTheorems

-----------------------------------------------------------------------------
(***************************************************************************)
(* A queue of messages that follows a set of messages, which are done:     *)
(* none is done or twice in the queue, and the one that its controller     *)
(* asked for before it is done or before it in the queue.                  *)
(***************************************************************************)
In(q) == { q[i] : i \in 1 .. Len(q) }

Precedes(p, m) == p.host = m.host /\ p.seq + 1 = m.seq

InTurn(m, done) == m.seq = 1 \/ \E p \in done : Precedes(p, m)

Before(q, i) == { q[j] : j \in 1 .. i - 1 }

Follows(q, done) ==
    \A i \in 1 .. Len(q) :
        q[i] \notin done /\ q[i] \notin Before(q, i) /\ InTurn(q[i], done \cup Before(q, i))

LEMMA InAppend ==
    ASSUME NEW S, NEW q \in Seq(S), NEW m \in S
    PROVE  In(Append(q, m)) = In(q) \cup {m}
<1>1. /\ Len(q) \in Nat /\ Len(Append(q, m)) = Len(q) + 1
      /\ \A i \in 1 .. Len(q) : Append(q, m)[i] = q[i]
      /\ Append(q, m)[Len(q) + 1] = m
  BY AppendType
<1> DEFINE a == Append(q, m)
<1> HIDE DEF a
<1>2. ASSUME NEW i \in 1 .. Len(a) PROVE a[i] \in In(q) \cup {m}
  <2>1. i \in 1 .. Len(q) \/ i = Len(q) + 1
    BY <1>1 DEF a
  <2> QED
    BY <1>1, <2>1 DEF In, a
<1>3. ASSUME NEW i \in 1 .. Len(q) PROVE q[i] \in In(a)
  <2>1. i \in 1 .. Len(a) /\ a[i] = q[i]
    BY <1>1 DEF a
  <2> QED
    BY <2>1 DEF In
<1>4. m \in In(a)
  <2>1. Len(q) + 1 \in 1 .. Len(a) /\ a[Len(q) + 1] = m
    BY <1>1 DEF a
  <2> QED
    BY <2>1 DEF In
<1>5. In(a) \subseteq In(q) \cup {m}
  BY <1>2 DEF In
<1>6. In(q) \cup {m} \subseteq In(a)
  BY <1>3, <1>4 DEF In
<1> QED
  BY <1>5, <1>6 DEF a

LEMMA InTail ==
    ASSUME NEW S, NEW q \in Seq(S), q # <<>>
    PROVE  In(q) = In(Tail(q)) \cup {Head(q)} /\ Head(q) \in In(q)
<1>1. /\ Len(q) \in Nat \ {0} /\ Len(Tail(q)) = Len(q) - 1 /\ Head(q) = q[1]
      /\ \A i \in 1 .. Len(Tail(q)) : Tail(q)[i] = q[i + 1]
  BY HeadTailType
<1> DEFINE t == Tail(q)
<1> HIDE DEF t
<1>2. ASSUME NEW i \in 1 .. Len(t) PROVE t[i] \in In(q)
  <2>1. i + 1 \in 1 .. Len(q) /\ t[i] = q[i + 1]
    BY <1>1 DEF t
  <2> QED
    BY <2>1 DEF In
<1>3. ASSUME NEW i \in 1 .. Len(q) PROVE q[i] \in In(t) \cup {Head(q)}
  <2>1. CASE i = 1
    BY <1>1, <2>1
  <2>2. CASE i # 1
    <3>1. i - 1 \in 1 .. Len(t) /\ (i - 1) + 1 = i
      BY <1>1, <2>2 DEF t
    <3>2. t[i - 1] = q[i]
      BY <1>1, <3>1 DEF t
    <3> QED
      BY <3>1, <3>2 DEF In
  <2> QED
    BY <2>1, <2>2
<1>4. Head(q) \in In(q)
  <2>1. 1 \in 1 .. Len(q)
    BY <1>1
  <2> QED
    BY <1>1, <2>1 DEF In
<1>5. In(t) \subseteq In(q) /\ In(q) \subseteq In(t) \cup {Head(q)}
  BY <1>2, <1>3 DEF In
<1> QED
  BY <1>4, <1>5 DEF t

LEMMA InPrefix ==
    ASSUME NEW S, NEW q \in Seq(S), NEW n \in 0 .. Len(q)
    PROVE  /\ Len(SubSeq(q, 1, n)) = n /\ n \in Nat /\ Len(q) \in Nat
           /\ \A i \in 1 .. n : i \in 1 .. Len(q) /\ SubSeq(q, 1, n)[i] = q[i]
           /\ In(SubSeq(q, 1, n)) \subseteq In(q)
<1>1. Len(q) \in Nat /\ n \in Nat /\ n <= Len(q)
  OBVIOUS
<1>2. \A i \in 1 .. n : q[i] \in S
  BY <1>1
<1>3. Len(SubSeq(q, 1, n)) = n /\ \A i \in 1 .. n : SubSeq(q, 1, n)[i] = q[i]
  BY <1>1, <1>2, SubSeqProperties
<1> QED
  BY <1>1, <1>3 DEF In

\* What is sent next follows.
LEMMA FollowsAppend ==
    ASSUME NEW S, NEW q \in Seq(S), NEW done, NEW m \in S, Follows(q, done),
           m \notin done, m \notin In(q), InTurn(m, done \cup In(q))
    PROVE  Follows(Append(q, m), done)
<1> DEFINE a == Append(q, m)
           n == Len(q)
<1>1. /\ n \in Nat /\ Len(a) = n + 1 /\ a[n + 1] = m
      /\ \A i \in 1 .. n : a[i] = q[i]
  BY AppendType
<1> HIDE DEF a
<1> SUFFICES ASSUME NEW i \in 1 .. n + 1
             PROVE  a[i] \notin done /\ a[i] \notin Before(a, i)
                    /\ InTurn(a[i], done \cup Before(a, i))
  BY <1>1 DEF Follows, a
<1> HIDE DEF n
<1>2. \A j \in 1 .. i - 1 : a[j] = q[j]
  <2>1. \A j \in 1 .. i - 1 : j \in 1 .. n
    BY <1>1
  <2> QED
    BY <1>1, <2>1
<1>3. Before(a, i) = Before(q, i)
  BY <1>2 DEF Before
<1>4. CASE i \in 1 .. n
  BY <1>1, <1>3, <1>4 DEF Follows, n
<1>5. CASE i = n + 1
  <2>1. i - 1 = n
    BY <1>1, <1>5
  <2>2. Before(q, i) = In(q)
    BY <2>1 DEF Before, In, n
  <2> QED
    BY <1>1, <1>3, <1>5, <2>2
<1> QED
  BY <1>1, <1>4, <1>5

\* What leaves the queue is done.
LEMMA FollowsTail ==
    ASSUME NEW S, NEW q \in Seq(S), NEW done, q # <<>>, Follows(q, done)
    PROVE  /\ Head(q) \notin done /\ InTurn(Head(q), done)
           /\ Head(q) \notin In(Tail(q))
           /\ Follows(Tail(q), done \cup {Head(q)})
<1> DEFINE t == Tail(q)
           n == Len(q)
<1>1. /\ n \in Nat \ {0} /\ Len(t) = n - 1 /\ Head(q) = q[1]
      /\ \A i \in 1 .. n - 1 : t[i] = q[i + 1]
  BY HeadTailType
<1>2. 1 \in 1 .. n /\ Before(q, 1) = {}
  BY <1>1 DEF Before
<1>3. Head(q) \notin done /\ InTurn(Head(q), done)
  <2>1. done \cup {} = done
    OBVIOUS
  <2> QED
    BY <1>1, <1>2, <2>1 DEF Follows
<1> HIDE DEF t
<1>4. ASSUME NEW i \in 1 .. n - 1
      PROVE  /\ t[i] \notin done \cup {Head(q)} /\ t[i] \notin Before(t, i)
             /\ InTurn(t[i], (done \cup {Head(q)}) \cup Before(t, i))
  <2>1. /\ i + 1 \in 1 .. n /\ t[i] = q[i + 1] /\ (i + 1) - 1 = i /\ i \in Nat \ {0}
    BY <1>1
  <2>2. Before(q, i + 1) = {Head(q)} \cup Before(t, i)
    <3>1. ASSUME NEW j \in 1 .. i PROVE q[j] \in {Head(q)} \cup Before(t, i)
      <4>1. CASE j = 1
        BY <1>1, <4>1
      <4>2. CASE j # 1
        <5>1. j - 1 \in 1 .. i - 1 /\ j - 1 \in 1 .. n - 1 /\ (j - 1) + 1 = j
          BY <1>1, <2>1, <4>2
        <5>2. t[j - 1] = q[j]
          BY <1>1, <5>1
        <5> QED
          BY <5>1, <5>2 DEF Before
      <4> QED
        BY <4>1, <4>2
    <3>2. ASSUME NEW j \in 1 .. i - 1 PROVE t[j] \in Before(q, i + 1)
      <4>1. j + 1 \in 1 .. i /\ j \in 1 .. n - 1
        BY <1>1, <2>1
      <4>2. t[j] = q[j + 1]
        BY <1>1, <4>1
      <4> QED
        BY <2>1, <4>1, <4>2 DEF Before
    <3>3. Head(q) \in Before(q, i + 1)
      <4>1. 1 \in 1 .. i
        BY <2>1
      <4> QED
        BY <1>1, <2>1, <4>1 DEF Before
    <3>4. Before(q, i + 1) \subseteq {Head(q)} \cup Before(t, i)
      BY <2>1, <3>1 DEF Before
    <3>5. Before(t, i) \subseteq Before(q, i + 1)
      BY <3>2 DEF Before
    <3> QED
      BY <3>3, <3>4, <3>5
  <2>3. /\ q[i + 1] \notin done /\ q[i + 1] \notin Before(q, i + 1)
        /\ InTurn(q[i + 1], done \cup Before(q, i + 1))
    BY <2>1 DEF Follows
  <2>4. done \cup Before(q, i + 1) = (done \cup {Head(q)}) \cup Before(t, i)
    BY <2>2
  <2> QED
    BY <2>1, <2>2, <2>3, <2>4
<1>5. Follows(t, done \cup {Head(q)})
  BY <1>1, <1>4 DEF Follows
<1>6. Head(q) \notin In(t)
  BY <1>1, <1>4 DEF In
<1> QED
  BY <1>3, <1>5, <1>6 DEF t

\* The beginning of a queue follows.
LEMMA FollowsPrefix ==
    ASSUME NEW S, NEW q \in Seq(S), NEW done, Follows(q, done), NEW n \in 0 .. Len(q)
    PROVE  Follows(SubSeq(q, 1, n), done)
<1> DEFINE r == SubSeq(q, 1, n)
<1>1. /\ Len(r) = n /\ n \in Nat /\ Len(q) \in Nat
      /\ \A i \in 1 .. n : i \in 1 .. Len(q) /\ r[i] = q[i]
  BY InPrefix
<1> HIDE DEF r
<1> SUFFICES ASSUME NEW i \in 1 .. n
             PROVE  r[i] \notin done /\ r[i] \notin Before(r, i)
                    /\ InTurn(r[i], done \cup Before(r, i))
  BY <1>1 DEF Follows, r
<1>2. \A j \in 1 .. i - 1 : j \in 1 .. n
  BY <1>1
<1>3. Before(r, i) = Before(q, i)
  BY <1>1, <1>2 DEF Before
<1> QED
  BY <1>1, <1>3 DEF Follows

\* More is done, none of it in the queue.
LEMMA FollowsMore ==
    ASSUME NEW q, NEW done, NEW more, Follows(q, done), done \subseteq more,
           \A m \in In(q) : m \in more => m \in done
    PROVE  Follows(q, more)
<1> SUFFICES ASSUME NEW i \in 1 .. Len(q)
             PROVE  q[i] \notin more /\ q[i] \notin Before(q, i)
                    /\ InTurn(q[i], more \cup Before(q, i))
  BY DEF Follows
<1>1. q[i] \notin done /\ q[i] \notin Before(q, i) /\ InTurn(q[i], done \cup Before(q, i))
  BY DEF Follows
<1>2. q[i] \in In(q)
  BY DEF In
<1>3. InTurn(q[i], more \cup Before(q, i))
  BY <1>1 DEF InTurn
<1> QED
  BY <1>1, <1>2, <1>3

LEMMA FollowsEmpty ==
    ASSUME NEW done
    PROVE  Follows(<<>>, done) /\ In(<<>>) = {}
BY DEF Follows, In

LEMMA InType ==
    ASSUME NEW S, NEW q \in Seq(S)
    PROVE  In(q) \subseteq S
<1> SUFFICES ASSUME NEW i \in 1 .. Len(q) PROVE q[i] \in S
  BY DEF In
<1> QED
  BY LenProperties, ElementOfSeq

-----------------------------------------------------------------------------
(***************************************************************************)
(* The inductive invariant: the three queues that a request goes through   *)
(* follow one another.  They do so for ever because the last request of a  *)
(* controller that may send another is in one of them, and because a VNF   *)
(* that has stopped reads no connection any more.                          *)
(***************************************************************************)
Known(m) == m.seq \in 1 .. Len(requests[m.host]) /\ m = requests[m.host][m.seq]

KnownInv ==
    /\ \A c \in Ctls : \A n \in 1 .. Len(requests[c]) :
          requests[c][n].host = c /\ requests[c][n].seq = n
    /\ \A c \in Ctls : \A m \in In(wire[c]) : m.host = c /\ Known(m)
    /\ \A v \in Vnfs : \A m \in In(uplink[v]) : VnfOf[m.host] = v /\ Known(m)
    /\ \A m \in In(log) : Known(m)

Done(c) == In(log) \cup In(uplink[VnfOf[c]])

OrderInv ==
    /\ Follows(log, {})
    /\ \A v \in Vnfs : Follows(uplink[v], In(log))
    /\ \A c \in Ctls : Follows(wire[c], Done(c))

LastSent(c) == requests[c] # <<>> => requests[c][Len(requests[c])] \in In(wire[c]) \cup Done(c)

ConnInv ==
    \A c \in Ctls :
        /\ conn[c] = "connecting" => requests[c] = <<>>
        /\ conn[c] = "up" => VnfOf[c] \notin vnfDown
        /\ conn[c] = "lost" => VnfOf[c] \in vnfDown
        /\ conn[c] = "up" /\ c \notin ctlDown => LastSent(c)

OrdInv == KnownInv /\ OrderInv /\ ConnInv

LEMMA OrdInit == Init => OrdInv
<1> SUFFICES ASSUME Init PROVE OrdInv
  OBVIOUS
<1>1. \A c \in Ctls : VnfOf[c] \in Vnfs
  BY VnfOfType, ConsensusAssumption
<1>2. KnownInv
  <2>1. \A c \in Ctls : Len(requests[c]) = 0 /\ In(wire[c]) = {}
    BY FollowsEmpty DEF Init
  <2>2. \A v \in Vnfs : In(uplink[v]) = {}
    BY FollowsEmpty DEF Init
  <2>3. In(log) = {}
    BY FollowsEmpty DEF Init
  <2>4. \A c \in Ctls : 1 .. Len(requests[c]) = {}
    BY <2>1
  <2>5. ASSUME NEW c \in Ctls, NEW n \in 1 .. Len(requests[c])
        PROVE  requests[c][n].host = c /\ requests[c][n].seq = n
    BY <2>4
  <2>6. \A c \in Ctls : \A m \in In(wire[c]) : m.host = c /\ Known(m)
    BY <2>1
  <2>7. \A v \in Vnfs : \A m \in In(uplink[v]) : VnfOf[m.host] = v /\ Known(m)
    BY <2>2
  <2>8. \A m \in In(log) : Known(m)
    BY <2>3
  <2> QED
    BY <2>5, <2>6, <2>7, <2>8 DEF KnownInv
<1>3. OrderInv
  BY <1>1, FollowsEmpty DEF Init, OrderInv, Done
<1>4. ConnInv
  BY DEF Init, ConnInv
<1> QED
  BY <1>2, <1>3, <1>4 DEF OrdInv

LEMMA OrdUnchanged ==
    ASSUME OrdInv, UNCHANGED <<requests, wire, uplink, log, conn, ctlDown, vnfDown>>
    PROVE  OrdInv'
BY DEF OrdInv, KnownInv, Known, OrderInv, ConnInv, LastSent, Done

\* The messages in the queues have their controller's number.
LEMMA QueueTypes ==
    ASSUME TypeOK
    PROVE  /\ \A c \in Ctls : In(wire[c]) \subseteq Message /\ In(requests[c]) \subseteq Message
           /\ \A v \in Vnfs : In(uplink[v]) \subseteq Message
           /\ In(log) \subseteq Message
           /\ \A c \in Ctls : VnfOf[c] \in Vnfs /\ Done(c) \subseteq Message
<1>1. /\ \A c \in Ctls : In(wire[c]) \subseteq Message /\ In(requests[c]) \subseteq Message
      /\ \A v \in Vnfs : In(uplink[v]) \subseteq Message
      /\ In(log) \subseteq Message
  BY InType DEF TypeOK
<1>2. \A c \in Ctls : VnfOf[c] \in Vnfs
  BY VnfOfType, ConsensusAssumption
<1> QED
  BY <1>1, <1>2 DEF Done

LEMMA OrdConnect ==
    ASSUME TypeOK, OrdInv, NEW c \in Ctls, Connect(c)
    PROVE  OrdInv'
<1>1. /\ conn[c] = "connecting" /\ VnfOf[c] \notin vnfDown /\ conn' = [conn EXCEPT ![c] = "up"]
      /\ UNCHANGED <<requests, wire, uplink, log, ctlDown, vnfDown>>
  BY DEF Connect, pxVars, vnfVars
<1>2. KnownInv' /\ OrderInv'
  <2>1. KnownInv'
    BY <1>1 DEF OrdInv, KnownInv, Known
  <2>2. OrderInv'
    BY <1>1 DEF OrdInv, OrderInv, Done
  <2> QED
    BY <2>1, <2>2
<1>3. requests[c] = <<>>
  BY <1>1 DEF OrdInv, ConnInv
<1>4. ConnInv'
  BY <1>1, <1>3 DEF OrdInv, ConnInv, TypeOK, LastSent, Done
<1> QED
  BY <1>2, <1>4 DEF OrdInv

\* A request that is known stays known, and the new one is none of those.
LEMMA KnownGrows ==
    ASSUME TypeOK, NEW c \in Ctls, NEW m \in Message,
           m.host = c, m.seq = Len(requests[c]) + 1,
           requests' = [requests EXCEPT ![c] = Append(@, m)]
    PROVE  /\ Known(m)' /\ ~ Known(m)
           /\ \A k \in Message : Known(k) => Known(k)'
<1> DEFINE n == Len(requests[c])
<1>1. /\ n \in Nat /\ Len(requests'[c]) = n + 1 /\ requests'[c][n + 1] = m
      /\ \A i \in 1 .. n : requests'[c][i] = requests[c][i]
      /\ \A d \in Ctls : d # c => requests'[d] = requests[d]
  BY AppendType DEF TypeOK
<1>2. Known(m)'
  <2>1. m.seq = n + 1 /\ n + 1 \in 1 .. n + 1
    BY <1>1
  <2> QED
    BY <1>1, <2>1 DEF Known
<1>3. ~ Known(m)
  BY <1>1 DEF Known
<1>4. ASSUME NEW k \in Message, Known(k) PROVE Known(k)'
  <2>1. k.host \in Ctls /\ k.seq \in 1 .. Len(requests[k.host]) /\ k = requests[k.host][k.seq]
    BY <1>4 DEF Message, Known
  <2>2. CASE k.host = c
    <3>1. k.seq \in 1 .. n /\ k.seq \in 1 .. n + 1
      BY <1>1, <2>1, <2>2
    <3>2. requests'[c][k.seq] = k
      BY <1>1, <2>1, <2>2, <3>1
    <3> QED
      BY <1>1, <2>2, <3>1, <3>2 DEF Known
  <2>3. CASE k.host # c
    BY <1>1, <2>1, <2>3 DEF Known
  <2> QED
    BY <2>2, <2>3
<1> QED
  BY <1>2, <1>3, <1>4

LEMMA OrdRequest ==
    ASSUME TypeOK, OrdInv, NEW c \in Ctls, NEW m \in Message,
           m.host = c, m.seq = Len(requests[c]) + 1,
           requests' = [requests EXCEPT ![c] = Append(@, m)],
           wire' = IF conn[c] = "up" THEN [wire EXCEPT ![c] = Append(@, m)] ELSE wire,
           conn[c] # "connecting", c \notin ctlDown,
           UNCHANGED <<uplink, log, conn, ctlDown, vnfDown>>
    PROVE  OrdInv'
<1> DEFINE n == Len(requests[c])
<1>1. /\ n \in Nat /\ Len(requests'[c]) = n + 1 /\ requests'[c][n + 1] = m
      /\ \A i \in 1 .. n : requests'[c][i] = requests[c][i]
      /\ \A d \in Ctls : d # c => requests'[d] = requests[d]
  BY AppendType DEF TypeOK
<1>2. /\ Known(m)' /\ ~ Known(m)
      /\ \A k \in Message : Known(k) => Known(k)'
  BY KnownGrows
<1>3. /\ \A d \in Ctls : d # c => wire'[d] = wire[d]
      /\ conn[c] # "up" => wire'[c] = wire[c]
      /\ conn[c] = "up" => wire'[c] = Append(wire[c], m) /\ In(wire'[c]) = In(wire[c]) \cup {m}
  BY InAppend DEF TypeOK
<1>4. /\ \A d \in Ctls : In(wire[d]) \subseteq Message
      /\ \A v \in Vnfs : In(uplink[v]) \subseteq Message
      /\ In(log) \subseteq Message /\ VnfOf[c] \in Vnfs
  BY QueueTypes
<1>5. KnownInv'
  <2>1. ASSUME NEW d \in Ctls, NEW i \in 1 .. Len(requests'[d])
        PROVE  requests'[d][i].host = d /\ requests'[d][i].seq = i
    <3>1. CASE d # c
      BY <1>1, <2>1, <3>1 DEF OrdInv, KnownInv
    <3>2. CASE d = c /\ i \in 1 .. n
      BY <1>1, <2>1, <3>2 DEF OrdInv, KnownInv
    <3>3. CASE d = c /\ i = n + 1
      BY <1>1, <2>1, <3>3
    <3> QED
      BY <1>1, <2>1, <3>1, <3>2, <3>3
  <2>2. ASSUME NEW d \in Ctls, NEW k \in In(wire'[d])
        PROVE  k.host = d /\ Known(k)'
    <3>1. k \in In(wire[d]) \/ (d = c /\ k = m)
      BY <1>3, <2>2
    <3>2. CASE k \in In(wire[d])
      BY <1>2, <1>4, <3>2 DEF OrdInv, KnownInv
    <3> QED
      BY <1>2, <3>1, <3>2
  <2>3. ASSUME NEW v \in Vnfs, NEW k \in In(uplink[v])
        PROVE  VnfOf[k.host] = v /\ Known(k)'
    BY <1>2, <1>4, <2>3 DEF OrdInv, KnownInv
  <2>4. ASSUME NEW k \in In(log) PROVE Known(k)'
    BY <1>2, <1>4, <2>4 DEF OrdInv, KnownInv
  <2> QED
    BY <2>1, <2>2, <2>3, <2>4 DEF KnownInv
<1>6. \A d \in Ctls : Done(d)' = Done(d)
  BY DEF Done
<1>7. conn[c] = "up" => LastSent(c)
  BY DEF OrdInv, ConnInv
<1>8. OrderInv'
  <2>1. ASSUME NEW d \in Ctls PROVE Follows(wire'[d], Done(d))
    <3>1. CASE d = c /\ conn[c] = "up"
      <4>1. m \notin In(wire[c]) /\ m \notin Done(c)
        BY <1>2, <1>4 DEF OrdInv, KnownInv, Done
      <4>2. InTurn(m, Done(c) \cup In(wire[c]))
        <5>1. CASE n = 0
          BY <5>1 DEF InTurn
        <5>2. CASE n # 0
          <6>1. requests[c] # <<>> /\ n \in 1 .. n
            BY <1>1, <5>2 DEF TypeOK
          <6>2. requests[c][n] \in In(wire[c]) \cup Done(c)
            BY <1>7, <3>1, <6>1 DEF LastSent
          <6>3. Precedes(requests[c][n], m)
            BY <6>1 DEF OrdInv, KnownInv, Precedes
          <6> QED
            BY <6>2, <6>3 DEF InTurn
        <5> QED
          BY <5>1, <5>2
      <4>3. wire[c] \in Seq(Message) /\ Follows(wire[c], Done(c))
        BY DEF TypeOK, OrdInv, OrderInv
      <4> QED
        BY <1>3, <3>1, <4>1, <4>2, <4>3, FollowsAppend
    <3>2. CASE ~ (d = c /\ conn[c] = "up")
      BY <1>3, <3>2 DEF OrdInv, OrderInv
    <3> QED
      BY <3>1, <3>2
  <2> QED
    BY <1>6, <2>1 DEF OrdInv, OrderInv
<1>9. ConnInv'
  <2>1. ASSUME NEW d \in Ctls, conn[d] = "up", d \notin ctlDown PROVE LastSent(d)'
    <3>1. CASE d = c
      BY <1>1, <1>3, <2>1, <3>1 DEF LastSent
    <3>2. CASE d # c
      BY <1>1, <1>3, <1>6, <2>1, <3>2 DEF LastSent, OrdInv, ConnInv
    <3> QED
      BY <3>1, <3>2
  <2>2. ASSUME NEW d \in Ctls PROVE conn[d] = "connecting" => requests'[d] = <<>>
    BY <1>1 DEF OrdInv, ConnInv
  <2> QED
    BY <2>1, <2>2 DEF OrdInv, ConnInv
<1> QED
  BY <1>5, <1>8, <1>9 DEF OrdInv

LEMMA OrdPacketIn ==
    ASSUME TypeOK, OrdInv, NEW c \in Ctls, PacketIn(c)
    PROVE  OrdInv'
<1>1. PICK p \in Packets :
          PacketInFlood(c, p) \/ PacketInRequest(c, p) \/ PacketInSendFails(c, p)
  BY DEF PacketIn
<1>2. /\ conn[c] # "connecting" /\ c \notin ctlDown
      /\ UNCHANGED <<conn, ctlDown, uplink, log, vnfDown>>
  BY DEF PacketIn, vnfVars
<1>3. CASE PacketInRequest(c, p)
  <2>1. Request(c, p) \in Message
    BY <1>3, RequestType DEF PacketInRequest
  <2>2. Request(c, p).host = c /\ Request(c, p).seq = Len(requests[c]) + 1
    BY DEF Request
  <2> QED
    BY <1>2, <1>3, <2>1, <2>2, OrdRequest DEF PacketInRequest
<1>4. CASE PacketInFlood(c, p) \/ PacketInSendFails(c, p)
  <2>1. UNCHANGED <<requests, wire>>
    BY <1>4 DEF PacketInFlood, PacketInSendFails
  <2> QED
    BY <1>2, <2>1, OrdUnchanged
<1> QED
  BY <1>1, <1>3, <1>4

LEMMA OrdClientSubmit ==
    ASSUME TypeOK, OrdInv, NEW c \in Ctls, ClientSubmit(c)
    PROVE  OrdInv'
<1> DEFINE v == VnfOf[c]
           m == Head(wire[c])
<1>1. /\ v \in Vnfs /\ wire[c] # <<>>
      /\ wire' = [wire EXCEPT ![c] = Tail(@)]
      /\ uplink' = [uplink EXCEPT ![v] = Append(@, m)]
      /\ UNCHANGED <<requests, log, conn, ctlDown, vnfDown>>
  BY QueueTypes DEF ClientSubmit, SubmitLast, ctlVars, vnfVars
<1>2. wire[c] \in Seq(Message) /\ uplink[v] \in Seq(Message) /\ m \in Message
  BY <1>1, HeadTailType DEF TypeOK
<1>3. /\ wire'[c] = Tail(wire[c]) /\ uplink'[v] = Append(uplink[v], m)
      /\ \A d \in Ctls : d # c => wire'[d] = wire[d]
      /\ \A w \in Vnfs : w # v => uplink'[w] = uplink[w]
  BY <1>1 DEF TypeOK
<1>4. /\ In(wire[c]) = In(wire'[c]) \cup {m} /\ m \in In(wire[c])
      /\ In(uplink'[v]) = In(uplink[v]) \cup {m}
  BY <1>1, <1>2, <1>3, InTail, InAppend
<1>5. /\ m \notin Done(c) /\ InTurn(m, Done(c))
      /\ Follows(wire'[c], Done(c) \cup {m})
  BY <1>1, <1>2, <1>3, FollowsTail DEF OrdInv, OrderInv
<1>6. m.host = c /\ Known(m)
  BY <1>4 DEF OrdInv, KnownInv
<1> HIDE DEF m
<1>7. \A d \in Ctls : Done(d)' = IF VnfOf[d] = v THEN Done(d) \cup {m} ELSE Done(d)
  BY <1>1, <1>3, <1>4, QueueTypes DEF Done
<1>8. KnownInv'
  <2>1. ASSUME NEW d \in Ctls, NEW k \in In(wire'[d]) PROVE k.host = d /\ Known(k)
    <3>1. k \in In(wire[d])
      BY <1>3, <1>4, <2>1
    <3> QED
      BY <3>1 DEF OrdInv, KnownInv
  <2>2. ASSUME NEW w \in Vnfs, NEW k \in In(uplink'[w]) PROVE VnfOf[k.host] = w /\ Known(k)
    <3>1. k \in In(uplink[w]) \/ (w = v /\ k = m)
      BY <1>3, <1>4, <2>2
    <3> QED
      BY <1>6, <3>1 DEF OrdInv, KnownInv
  <2> QED
    BY <1>1, <2>1, <2>2 DEF OrdInv, KnownInv, Known
<1>9. OrderInv'
  <2>1. Follows(uplink'[v], In(log))
    <3>1. m \notin In(log) /\ m \notin In(uplink[v]) /\ InTurn(m, In(log) \cup In(uplink[v]))
      BY <1>5 DEF Done
    <3>2. Follows(uplink[v], In(log))
      BY <1>1 DEF OrdInv, OrderInv
    <3> HIDE DEF v
    <3> QED
      BY <1>2, <1>3, <3>1, <3>2, FollowsAppend
  <2>2. ASSUME NEW w \in Vnfs PROVE Follows(uplink'[w], In(log))
    BY <1>3, <2>1 DEF OrdInv, OrderInv
  <2>3. ASSUME NEW d \in Ctls PROVE Follows(wire'[d], Done(d)')
    <3>1. CASE d = c
      BY <1>5, <1>7, <3>1
    <3>2. CASE d # c
      <4>1. Follows(wire[d], Done(d))
        BY DEF OrdInv, OrderInv
      <4>2. \A k \in In(wire[d]) : k # m
        BY <1>6, <3>2 DEF OrdInv, KnownInv
      <4>3. Done(d) \subseteq Done(d)' /\ \A k \in In(wire[d]) : k \in Done(d)' => k \in Done(d)
        BY <1>7, <4>2
      <4> QED
        BY <1>3, <3>2, <4>1, <4>3, FollowsMore
    <3> QED
      BY <3>1, <3>2
  <2> QED
    BY <1>1, <2>2, <2>3 DEF OrdInv, OrderInv
<1>10. ConnInv'
  <2>1. ASSUME NEW d \in Ctls, LastSent(d) PROVE LastSent(d)'
    <3>1. In(wire[d]) \cup Done(d) \subseteq In(wire'[d]) \cup Done(d)'
      BY <1>3, <1>4, <1>7
    <3> QED
      BY <1>1, <2>1, <3>1 DEF LastSent
  <2> QED
    BY <1>1, <2>1 DEF OrdInv, ConnInv
<1> QED
  BY <1>8, <1>9, <1>10 DEF OrdInv

LEMMA OrdDecide ==
    ASSUME TypeOK, OrdInv, NEW v \in Vnfs, Decide(v)
    PROVE  OrdInv'
<1> DEFINE m == Head(uplink[v])
<1>1. /\ uplink[v] # <<>>
      /\ log' = Append(log, m)
      /\ uplink' = [uplink EXCEPT ![v] = Tail(@)]
      /\ UNCHANGED <<requests, wire, conn, ctlDown, vnfDown>>
  BY DEF Decide, ctlVars, vnfVars
<1>2. uplink[v] \in Seq(Message) /\ log \in Seq(Message) /\ m \in Message
  BY <1>1, HeadTailType DEF TypeOK
<1>3. /\ uplink'[v] = Tail(uplink[v])
      /\ \A w \in Vnfs : w # v => uplink'[w] = uplink[w]
  BY <1>1 DEF TypeOK
<1>4. /\ In(uplink[v]) = In(uplink'[v]) \cup {m} /\ m \in In(uplink[v])
      /\ In(log') = In(log) \cup {m}
  BY <1>1, <1>2, <1>3, InTail, InAppend
<1>5. /\ m \notin In(log) /\ InTurn(m, In(log))
      /\ Follows(uplink'[v], In(log) \cup {m})
  BY <1>1, <1>2, <1>3, FollowsTail DEF OrdInv, OrderInv
<1>6. VnfOf[m.host] = v /\ Known(m)
  BY <1>4 DEF OrdInv, KnownInv
<1> HIDE DEF m
<1>7. \A d \in Ctls : Done(d)' = IF VnfOf[d] = v THEN Done(d) ELSE Done(d) \cup {m}
  BY <1>1, <1>3, <1>4, QueueTypes DEF Done
<1>8. KnownInv'
  <2>1. ASSUME NEW w \in Vnfs, NEW k \in In(uplink'[w]) PROVE VnfOf[k.host] = w /\ Known(k)
    <3>1. k \in In(uplink[w])
      BY <1>3, <1>4, <2>1
    <3> QED
      BY <3>1 DEF OrdInv, KnownInv
  <2>2. ASSUME NEW k \in In(log') PROVE Known(k)
    BY <1>4, <1>6, <2>2 DEF OrdInv, KnownInv
  <2> QED
    BY <1>1, <2>1, <2>2 DEF OrdInv, KnownInv, Known
<1>9. OrderInv'
  <2>1. Follows(log', {})
    <3>1. Follows(log, {}) /\ {} \cup In(log) = In(log)
      BY DEF OrdInv, OrderInv
    <3> QED
      BY <1>1, <1>2, <1>5, <3>1, FollowsAppend
  <2>2. ASSUME NEW w \in Vnfs PROVE Follows(uplink'[w], In(log'))
    <3>1. CASE w = v
      BY <1>4, <1>5, <3>1
    <3>2. CASE w # v
      <4>1. Follows(uplink[w], In(log)) /\ \A k \in In(uplink[w]) : k # m
        BY <1>6, <3>2 DEF OrdInv, KnownInv, OrderInv
      <4>2. In(log) \subseteq In(log') /\ \A k \in In(uplink[w]) : k \in In(log') => k \in In(log)
        BY <1>4, <4>1
      <4> QED
        BY <1>3, <3>2, <4>1, <4>2, FollowsMore
    <3> QED
      BY <3>1, <3>2
  <2>3. ASSUME NEW d \in Ctls PROVE Follows(wire[d], Done(d)')
    <3>1. Follows(wire[d], Done(d))
      BY DEF OrdInv, OrderInv
    <3>2. CASE VnfOf[d] = v
      BY <1>7, <3>1, <3>2
    <3>3. CASE VnfOf[d] # v
      <4>1. \A k \in In(wire[d]) : k # m
        BY <1>6, <3>3 DEF OrdInv, KnownInv
      <4>2. Done(d) \subseteq Done(d)' /\ \A k \in In(wire[d]) : k \in Done(d)' => k \in Done(d)
        BY <1>7, <4>1
      <4> QED
        BY <3>1, <4>2, FollowsMore
    <3> QED
      BY <3>2, <3>3
  <2> QED
    BY <1>1, <2>1, <2>2, <2>3 DEF OrderInv
<1>10. ConnInv'
  <2>1. ASSUME NEW d \in Ctls, LastSent(d) PROVE LastSent(d)'
    <3>1. Done(d) \subseteq Done(d)'
      BY <1>7
    <3> QED
      BY <1>1, <2>1, <3>1 DEF LastSent
  <2> QED
    BY <1>1, <2>1 DEF OrdInv, ConnInv
<1> QED
  BY <1>8, <1>9, <1>10 DEF OrdInv

LEMMA OrdStopVnf ==
    ASSUME TypeOK, OrdInv, NEW v \in Vnfs, StopVnf(v)
    PROVE  OrdInv'
<1>1. PICK n \in 0 .. Len(uplink[v]) : uplink' = [uplink EXCEPT ![v] = SubSeq(@, 1, n)]
  BY DEF StopVnf
<1>2. /\ vnfDown' = vnfDown \cup {v}
      /\ \A d \in Ctls : VnfOf[d] = v => wire'[d] = <<>> /\ conn'[d] \in {"connecting", "lost"}
      /\ \A d \in Ctls : VnfOf[d] # v => wire'[d] = wire[d] /\ conn'[d] = conn[d]
      /\ \A d \in Ctls : conn'[d] = "connecting" => conn[d] = "connecting"
      /\ UNCHANGED <<requests, log, ctlDown>>
  BY DEF StopVnf, TypeOK
<1>3. /\ uplink'[v] = SubSeq(uplink[v], 1, n) /\ uplink[v] \in Seq(Message)
      /\ \A w \in Vnfs : w # v => uplink'[w] = uplink[w]
  BY <1>1 DEF TypeOK
<1>4. In(uplink'[v]) \subseteq In(uplink[v])
  BY <1>3, InPrefix
<1>5. \A d \in Ctls : VnfOf[d] # v => Done(d)' = Done(d)
  BY <1>2, <1>3, QueueTypes DEF Done
<1>6. KnownInv'
  <2>1. ASSUME NEW d \in Ctls, NEW k \in In(wire'[d]) PROVE k.host = d /\ Known(k)
    <3>1. k \in In(wire[d])
      BY <1>2, <2>1, FollowsEmpty
    <3> QED
      BY <3>1 DEF OrdInv, KnownInv
  <2>2. ASSUME NEW w \in Vnfs, NEW k \in In(uplink'[w]) PROVE VnfOf[k.host] = w /\ Known(k)
    <3>1. k \in In(uplink[w])
      BY <1>3, <1>4, <2>2
    <3> QED
      BY <3>1 DEF OrdInv, KnownInv
  <2> QED
    BY <1>2, <2>1, <2>2 DEF OrdInv, KnownInv, Known
<1>7. OrderInv'
  <2>1. ASSUME NEW w \in Vnfs PROVE Follows(uplink'[w], In(log))
    <3>1. Follows(uplink[w], In(log))
      BY DEF OrdInv, OrderInv
    <3> QED
      BY <1>3, <3>1, FollowsPrefix
  <2>2. ASSUME NEW d \in Ctls PROVE Follows(wire'[d], Done(d)')
    <3>1. CASE VnfOf[d] = v
      BY <1>2, <3>1, FollowsEmpty
    <3>2. CASE VnfOf[d] # v
      BY <1>2, <1>5, <3>2 DEF OrdInv, OrderInv
    <3> QED
      BY <3>1, <3>2
  <2> QED
    BY <1>2, <2>1, <2>2 DEF OrdInv, OrderInv
<1>8. ConnInv'
  <2> SUFFICES ASSUME NEW d \in Ctls
               PROVE  /\ conn'[d] = "connecting" => requests'[d] = <<>>
                      /\ conn'[d] = "up" => VnfOf[d] \notin vnfDown'
                      /\ conn'[d] = "lost" => VnfOf[d] \in vnfDown'
                      /\ conn'[d] = "up" /\ d \notin ctlDown' => LastSent(d)'
    BY DEF ConnInv
  <2>1. CASE VnfOf[d] = v
    BY <1>2, <2>1 DEF OrdInv, ConnInv
  <2>2. CASE VnfOf[d] # v
    BY <1>2, <1>5, <2>2 DEF OrdInv, ConnInv, LastSent
  <2> QED
    BY <2>1, <2>2
<1> QED
  BY <1>6, <1>7, <1>8 DEF OrdInv

LEMMA OrdCrashCtl ==
    ASSUME TypeOK, OrdInv, NEW c \in Ctls, CrashCtl(c)
    PROVE  OrdInv'
<1>1. PICK n \in 0 .. Len(wire[c]) : wire' = [wire EXCEPT ![c] = SubSeq(@, 1, n)]
  BY DEF CrashCtl
<1>2. /\ ctlDown' = ctlDown \cup {c}
      /\ UNCHANGED <<requests, uplink, log, conn, vnfDown>>
  BY DEF CrashCtl, vnfVars
<1>3. /\ wire'[c] = SubSeq(wire[c], 1, n) /\ wire[c] \in Seq(Message)
      /\ \A d \in Ctls : d # c => wire'[d] = wire[d]
  BY <1>1 DEF TypeOK
<1>4. In(wire'[c]) \subseteq In(wire[c])
  BY <1>3, InPrefix
<1>5. \A d \in Ctls : Done(d)' = Done(d)
  BY <1>2 DEF Done
<1>6. KnownInv'
  <2>1. ASSUME NEW d \in Ctls, NEW k \in In(wire'[d]) PROVE k.host = d /\ Known(k)
    <3>1. k \in In(wire[d])
      BY <1>3, <1>4, <2>1
    <3> QED
      BY <3>1 DEF OrdInv, KnownInv
  <2> QED
    BY <1>2, <2>1 DEF OrdInv, KnownInv, Known
<1>7. OrderInv'
  <2>1. ASSUME NEW d \in Ctls PROVE Follows(wire'[d], Done(d)')
    <3>1. Follows(wire[d], Done(d))
      BY DEF OrdInv, OrderInv
    <3> QED
      BY <1>3, <1>5, <3>1, FollowsPrefix
  <2> QED
    BY <1>2, <2>1 DEF OrdInv, OrderInv
<1>8. ConnInv'
  <2>1. ASSUME NEW d \in Ctls, d \notin ctlDown', LastSent(d) PROVE LastSent(d)'
    BY <1>2, <1>3, <1>5, <2>1 DEF LastSent
  <2> QED
    BY <1>2, <2>1 DEF OrdInv, ConnInv
<1> QED
  BY <1>6, <1>7, <1>8 DEF OrdInv

LEMMA OrdStep == TypeOK /\ OrdInv /\ [Next]_vars => OrdInv'
<1> SUFFICES ASSUME TypeOK, OrdInv, [Next]_vars PROVE OrdInv'
  OBVIOUS
<1>1. ASSUME NEW c \in Ctls, CtlNext(c) \/ CrashCtl(c) PROVE OrdInv'
  BY <1>1, OrdConnect, OrdPacketIn, OrdClientSubmit, OrdCrashCtl DEF CtlNext
<1>2. ASSUME NEW v \in Vnfs, Decide(v) PROVE OrdInv'
  BY <1>2, OrdDecide
<1>3. ASSUME NEW v \in Vnfs, Deliver(v) \/ HandleRequest(v) \/ PostReply(v) PROVE OrdInv'
  <2>1. UNCHANGED <<requests, wire, uplink, log, conn, ctlDown, vnfDown>>
    BY <1>3 DEF Deliver, HandleRequest, PostReply, ctlVars, pxVars
  <2> QED
    BY <2>1, OrdUnchanged
<1>4. ASSUME NEW v \in Vnfs,
             HandleMalformed(v) \/ PostFails(v) \/ ReadFails(v) \/ CrashVnf(v)
      PROVE  OrdInv'
  <2>1. StopVnf(v)
    BY <1>4 DEF HandleMalformed, PostFails, ReadFails, CrashVnf
  <2> QED
    BY <2>1, OrdStopVnf
<1>5. CASE UNCHANGED vars
  <2>1. UNCHANGED <<requests, wire, uplink, log, conn, ctlDown, vnfDown>>
    BY <1>5 DEF vars, ctlVars, pxVars, vnfVars
  <2> QED
    BY <2>1, OrdUnchanged
<1> QED
  BY <1>1, <1>2, <1>3, <1>4, <1>5 DEF Next, VnfNext

LEMMA Ordering == Spec => [](IInv /\ OrdInv)
<1>1. IInv => TypeOK
  BY DEF IInv
<1> QED
  BY <1>1, Invariance, OrdInit, OrdStep, PTL DEF Spec

-----------------------------------------------------------------------------
(* What follows from it. *)

\* The rules of one controller enter the log in the order it asked for them,
\* each once, and none before those it asked for earlier: connections that
\* break and processes that stop cut off the last ones but leave no gap.
THEOREM LogOrder == Spec => []LogInRequestOrder
<1>1. ASSUME IInv, OrdInv PROVE LogInRequestOrder
  <2> USE <1>1
  <2>1. log \in Seq(Message) /\ Len(log) \in Nat /\ DOMAIN log = 1 .. Len(log)
    BY LenProperties DEF IInv, TypeOK
  <2>2. \A c \in Ctls : DOMAIN requests[c] = 1 .. Len(requests[c])
    BY LenProperties DEF IInv, TypeOK
  <2> SUFFICES ASSUME NEW i \in 1 .. Len(log)
               PROVE  /\ log[i].seq \in DOMAIN requests[log[i].host]
                      /\ log[i] = requests[log[i].host][log[i].seq]
                      /\ log[i].seq > 1 =>
                            \E j \in 1 .. i - 1 :
                                log[j] = requests[log[i].host][log[i].seq - 1]
                      /\ \A j \in 1 .. i - 1 : log[j] # log[i]
    BY <2>1 DEF LogInRequestOrder
  <2>3. \A j \in 1 .. Len(log) : log[j] \in Message /\ Known(log[j])
    BY <2>1, ElementOfSeq DEF OrdInv, KnownInv, In
  <2>4. log[i].host \in Ctls /\ log[i].seq \in Nat
    BY <2>3 DEF Message
  <2>5. log[i].seq \in DOMAIN requests[log[i].host] /\ log[i] = requests[log[i].host][log[i].seq]
    BY <2>2, <2>3, <2>4 DEF Known
  <2>6. log[i] \notin Before(log, i) /\ InTurn(log[i], {} \cup Before(log, i))
    BY DEF OrdInv, OrderInv, Follows
  <2>7. ASSUME log[i].seq > 1
        PROVE  \E j \in 1 .. i - 1 : log[j] = requests[log[i].host][log[i].seq - 1]
    <3>1. PICK j \in 1 .. i - 1 : Precedes(log[j], log[i])
      BY <2>4, <2>6, <2>7 DEF InTurn, Before
    <3>2. j \in 1 .. Len(log)
      BY <2>1
    <3>3. log[j] \in Message /\ log[j] = requests[log[j].host][log[j].seq]
      BY <2>3, <3>2 DEF Known
    <3>4. log[j].host = log[i].host /\ log[j].seq = log[i].seq - 1
      BY <2>4, <3>1, <3>3 DEF Precedes, Message
    <3> QED
      BY <3>3, <3>4
  <2>8. \A j \in 1 .. i - 1 : log[j] # log[i]
    BY <2>6 DEF Before
  <2> QED
    BY <2>5, <2>7, <2>8
<1> QED
  BY <1>1, Ordering, PTL

\* A controller whose VNF runs answers each packet-in with a packet-out.
THEOREM DroppedOnlyWithoutVnf == Spec => []PacketDroppedOnlyWithoutVnf
<1>1. Init => PacketDroppedOnlyWithoutVnf
  BY DEF Init, PacketDroppedOnlyWithoutVnf
<1>2. ASSUME TypeOK, OrdInv, PacketDroppedOnlyWithoutVnf, [Next]_vars
      PROVE  PacketDroppedOnlyWithoutVnf'
  <2> USE <1>2
  <2>1. CASE UNCHANGED <<packetsIn, packetsOut>> /\ vnfDown \subseteq vnfDown'
    BY <2>1 DEF PacketDroppedOnlyWithoutVnf
  <2>2. ASSUME NEW c \in Ctls, PacketIn(c) PROVE PacketDroppedOnlyWithoutVnf'
    <3>1. PICK p \in Packets :
              PacketInFlood(c, p) \/ PacketInRequest(c, p) \/ PacketInSendFails(c, p)
      BY <2>2 DEF PacketIn
    <3>2. packetsIn' = [packetsIn EXCEPT ![c] = @ + 1] /\ vnfDown' = vnfDown
      BY <2>2 DEF PacketIn, vnfVars
    <3>3. CASE PacketInFlood(c, p) \/ PacketInRequest(c, p)
      <4>1. packetsOut' = [packetsOut EXCEPT ![c] = @ + 1]
        BY <3>3 DEF PacketInFlood, PacketInRequest, OnePacketOut
      <4> QED
        BY <3>2, <4>1 DEF PacketDroppedOnlyWithoutVnf, TypeOK
    <3>4. CASE PacketInSendFails(c, p)
      <4>1. packetsOut' = packetsOut /\ VnfOf[c] \in vnfDown
        BY <3>4 DEF PacketInSendFails, OrdInv, ConnInv
      <4> QED
        BY <3>2, <4>1 DEF PacketDroppedOnlyWithoutVnf, TypeOK
    <3> QED
      BY <3>1, <3>3, <3>4
  <2> QED
    BY <2>1, <2>2
       DEF Next, CtlNext, VnfNext, vars, ctlVars, pxVars, vnfVars, Connect, ClientSubmit,
           Decide, Deliver, HandleRequest, HandleMalformed, PostReply, PostFails,
           ReadFails, CrashVnf, CrashCtl, StopVnf
<1> QED
  BY <1>1, <1>2, Ordering, PTL DEF Spec, IInv

-----------------------------------------------------------------------------
(***************************************************************************)
(* As long as nothing has stopped, every request is in one of the three    *)
(* queues, and OrderInv says that it is in no two of them.                 *)
(***************************************************************************)
Somewhere(c) == In(wire[c]) \cup Done(c)

AliveInv ==
    faults = 0 /\ vnfDown = {} => \A c \in Ctls : In(requests[c]) \subseteq Somewhere(c)

LEMMA AliveStep == TypeOK /\ OrdInv /\ AliveInv /\ [Next]_vars => AliveInv'
<1> SUFFICES ASSUME TypeOK, OrdInv, AliveInv, [Next]_vars, faults' = 0, vnfDown' = {}
             PROVE  \A c \in Ctls : (In(requests[c]) \subseteq Somewhere(c))'
  BY DEF AliveInv
<1> DEFINE Still == \A d \in Ctls : (In(requests[d]) \subseteq Somewhere(d))'
<1> SUFFICES Still
  OBVIOUS
<1>1. /\ \A c \in Ctls : ~ CrashCtl(c)
      /\ \A v \in Vnfs : ~ StopVnf(v) /\ ~ ReadFails(v) /\ ~ CrashVnf(v)
  <2>1. faults + 1 # 0
    BY DEF TypeOK
  <2>2. \A kind \in {"ctl", "read", "vnf"} : ~ Fault(kind)
    BY <2>1 DEF Fault
  <2>3. \A v \in Vnfs : ~ StopVnf(v)
    BY DEF StopVnf
  <2> QED
    BY <2>2, <2>3 DEF CrashCtl, ReadFails, CrashVnf
<1>2. CASE UNCHANGED <<requests, wire, uplink, log, faults, vnfDown>>
  BY <1>2 DEF AliveInv, Somewhere, Done
<1>3. ASSUME NEW c \in Ctls, PacketIn(c) PROVE Still
  <2>1. UNCHANGED <<uplink, log, faults, vnfDown>> /\ conn[c] # "connecting"
    BY <1>3 DEF PacketIn, vnfVars
  <2>2. PICK p \in Packets :
            PacketInFlood(c, p) \/ PacketInRequest(c, p) \/ PacketInSendFails(c, p)
    BY <1>3 DEF PacketIn
  <2>3. CASE PacketInRequest(c, p)
    <3> DEFINE m == Request(c, p)
    <3>1. conn[c] = "up"
      BY <2>1 DEF OrdInv, ConnInv, TypeOK
    <3>2. m \in Message
      BY <2>3, RequestType DEF PacketInRequest
    <3> HIDE DEF m
    <3>3. /\ requests' = [requests EXCEPT ![c] = Append(@, m)]
          /\ wire' = [wire EXCEPT ![c] = Append(@, m)]
      BY <2>3, <3>1 DEF PacketInRequest, m
    <3>4. /\ In(requests'[c]) = In(requests[c]) \cup {m}
          /\ In(wire'[c]) = In(wire[c]) \cup {m}
          /\ \A d \in Ctls : d # c => requests'[d] = requests[d] /\ wire'[d] = wire[d]
      BY <3>2, <3>3, InAppend DEF TypeOK
    <3> QED
      BY <2>1, <3>4 DEF AliveInv, Somewhere, Done
  <2>4. CASE PacketInFlood(c, p) \/ PacketInSendFails(c, p)
    BY <1>2, <2>1, <2>4 DEF PacketInFlood, PacketInSendFails
  <2> QED
    BY <2>2, <2>3, <2>4
<1>4. ASSUME NEW c \in Ctls, ClientSubmit(c) PROVE Still
  <2> DEFINE v == VnfOf[c]
             m == Head(wire[c])
  <2>1. /\ v \in Vnfs /\ wire[c] # <<>>
        /\ wire' = [wire EXCEPT ![c] = Tail(@)]
        /\ uplink' = [uplink EXCEPT ![v] = Append(@, m)]
        /\ UNCHANGED <<requests, log, faults, vnfDown>>
    BY <1>4, QueueTypes DEF ClientSubmit, SubmitLast, ctlVars, vnfVars
  <2>2. wire[c] \in Seq(Message) /\ uplink[v] \in Seq(Message) /\ m \in Message
    BY <2>1, HeadTailType DEF TypeOK
  <2>3. /\ wire'[c] = Tail(wire[c]) /\ uplink'[v] = Append(uplink[v], m)
        /\ \A d \in Ctls : d # c => wire'[d] = wire[d]
        /\ \A w \in Vnfs : w # v => uplink'[w] = uplink[w]
    BY <2>1 DEF TypeOK
  <2>4. /\ In(wire[c]) = In(wire'[c]) \cup {m}
        /\ In(uplink'[v]) = In(uplink[v]) \cup {m}
    BY <2>1, <2>2, <2>3, InTail, InAppend
  <2> HIDE DEF m
  <2>5. \A d \in Ctls : In(uplink[VnfOf[d]]) \subseteq In(uplink'[VnfOf[d]])
    BY <2>3, <2>4, QueueTypes
  <2>6. m \in In(uplink'[VnfOf[c]])
    BY <2>4
  <2> QED
    BY <2>1, <2>3, <2>4, <2>5, <2>6 DEF AliveInv, Somewhere, Done
<1>5. ASSUME NEW v \in Vnfs, Decide(v) PROVE Still
  <2> DEFINE m == Head(uplink[v])
  <2>1. /\ uplink[v] # <<>>
        /\ log' = Append(log, m)
        /\ uplink' = [uplink EXCEPT ![v] = Tail(@)]
        /\ UNCHANGED <<requests, wire, faults, vnfDown>>
    BY <1>5 DEF Decide, ctlVars, vnfVars
  <2>2. uplink[v] \in Seq(Message) /\ log \in Seq(Message) /\ m \in Message
    BY <2>1, HeadTailType DEF TypeOK
  <2>3. /\ uplink'[v] = Tail(uplink[v])
        /\ \A w \in Vnfs : w # v => uplink'[w] = uplink[w]
    BY <2>1 DEF TypeOK
  <2>4. /\ In(uplink[v]) = In(uplink'[v]) \cup {m}
        /\ In(log') = In(log) \cup {m}
    BY <2>1, <2>2, <2>3, InTail, InAppend
  <2> HIDE DEF m
  <2>5. \A d \in Ctls : In(log) \cup In(uplink[VnfOf[d]]) \subseteq
                           In(log') \cup In(uplink'[VnfOf[d]])
    BY <2>3, <2>4, QueueTypes
  <2> QED
    BY <2>1, <2>5 DEF AliveInv, Somewhere, Done
<1>6. ASSUME NEW c \in Ctls, Connect(c) PROVE Still
  BY <1>2, <1>6 DEF Connect, pxVars, vnfVars
<1>7. ASSUME NEW v \in Vnfs, Deliver(v) \/ HandleRequest(v) \/ PostReply(v) PROVE Still
  BY <1>2, <1>7 DEF Deliver, HandleRequest, PostReply, ctlVars, pxVars
<1>8. CASE UNCHANGED vars
  BY <1>2, <1>8 DEF vars, ctlVars, pxVars, vnfVars
<1> QED
  BY <1>1, <1>3, <1>4, <1>5, <1>6, <1>7, <1>8
     DEF Next, CtlNext, VnfNext, HandleMalformed, PostFails

\* How often a message is in a queue that follows.
LEMMA FollowsCount ==
    ASSUME NEW S, NEW q \in Seq(S), NEW done, Follows(q, done), NEW m
    PROVE  /\ m \notin In(q) => Cardinality({ i \in DOMAIN q : q[i] = m }) = 0
           /\ m \in In(q) => Cardinality({ i \in DOMAIN q : q[i] = m }) = 1
<1>1. DOMAIN q = 1 .. Len(q) /\ Len(q) \in Nat
  BY LenProperties
<1> DEFINE Places == { i \in DOMAIN q : q[i] = m }
<1>2. ASSUME m \notin In(q) PROVE Cardinality(Places) = 0
  <2>1. Places = {}
    BY <1>1, <1>2 DEF In
  <2> QED
    BY <2>1, FS_EmptySet
<1>3. ASSUME m \in In(q) PROVE Cardinality(Places) = 1
  <2>1. PICK i \in 1 .. Len(q) : q[i] = m
    BY <1>3 DEF In
  <2>2. ASSUME NEW j \in 1 .. Len(q), q[j] = m, j < i PROVE FALSE
    <3>1. j \in 1 .. i - 1
      BY <1>1, <2>2
    <3> QED
      BY <2>1, <2>2, <3>1 DEF Follows, Before
  <2>3. ASSUME NEW j \in 1 .. Len(q), q[j] = m, i < j PROVE FALSE
    <3>1. i \in 1 .. j - 1
      BY <1>1, <2>3
    <3> QED
      BY <2>1, <2>3, <3>1 DEF Follows, Before
  <2>4. ASSUME NEW j \in Places PROVE j = i
    BY <1>1, <2>2, <2>3, <2>4
  <2>5. Places = {i}
    BY <1>1, <2>1, <2>4
  <2> QED
    BY <2>5, FS_Singleton
<1> QED
  BY <1>2, <1>3

\* What follows a set is not in it.
LEMMA FollowsDisjoint ==
    ASSUME NEW q, NEW done, Follows(q, done), NEW m \in In(q)
    PROVE  m \notin done
BY DEF Follows, In

\* As long as nothing has stopped, every request is in one place: on its
\* connection, with the proposer or in the log, and there once.
THEOREM NoRequestLost == Spec => []NothingLost
<1>1. Init => AliveInv
  <2> SUFFICES ASSUME Init, NEW c \in Ctls PROVE In(requests[c]) \subseteq Somewhere(c)
    BY DEF AliveInv
  <2>1. In(requests[c]) = {}
    BY FollowsEmpty DEF Init
  <2> QED
    BY <2>1
<1>2. ASSUME TypeOK, OrdInv, AliveInv PROVE NothingLost
  <2> USE <1>2
  <2> SUFFICES ASSUME faults = 0, vnfDown = {}, NEW c \in Ctls, NEW n \in DOMAIN requests[c]
               PROVE  LET m   == requests[c][n]
                          up  == uplink[VnfOf[c]]
                          Places(q) == Cardinality({ i \in DOMAIN q : q[i] = m })
                      IN  Places(wire[c]) + Places(up) + Places(log) = 1
    BY DEF NothingLost
  <2> DEFINE m == requests[c][n]
             up == uplink[VnfOf[c]]
             Places(q) == Cardinality({ i \in DOMAIN q : q[i] = m })
  <2>1. m \in In(requests[c])
    <3>1. DOMAIN requests[c] = 1 .. Len(requests[c])
      BY LenProperties DEF TypeOK
    <3> QED
      BY <3>1 DEF In
  <2>2. m \in In(wire[c]) \/ m \in In(log) \/ m \in In(up)
    BY <2>1 DEF AliveInv, Somewhere, Done
  <2>3. /\ Follows(wire[c], Done(c)) /\ Follows(up, In(log)) /\ Follows(log, {})
        /\ wire[c] \in Seq(Message) /\ up \in Seq(Message) /\ log \in Seq(Message)
    BY QueueTypes DEF OrdInv, OrderInv, TypeOK
  <2>4. /\ m \in In(wire[c]) => m \notin In(log) /\ m \notin In(up)
        /\ m \in In(up) => m \notin In(log)
    BY <2>3, FollowsDisjoint DEF Done
  <2> HIDE DEF m, up
  <2>5. /\ m \notin In(wire[c]) => Places(wire[c]) = 0
        /\ m \in In(wire[c]) => Places(wire[c]) = 1
    BY <2>3, FollowsCount
  <2>6. (m \notin In(up) => Places(up) = 0) /\ (m \in In(up) => Places(up) = 1)
    BY <2>3, FollowsCount
  <2>7. (m \notin In(log) => Places(log) = 0) /\ (m \in In(log) => Places(log) = 1)
    BY <2>3, FollowsCount
  <2> HIDE DEF Places
  <2>8. Places(wire[c]) + Places(up) + Places(log) = 1
    BY <2>2, <2>4, <2>5, <2>6, <2>7
  <2> QED
    BY <2>8 DEF Places, m, up
<1> QED
  BY <1>1, <1>2, AliveStep, Ordering, PTL DEF Spec, IInv
-----------------------------------------------------------------------------
(***************************************************************************)
(* Where the numbers in a message have one digit each, nothing of it is    *)
(* cut off: TwentiethHost shows what happens otherwise.                    *)
(***************************************************************************)
OneDigit ==
    /\ \A p \in PortNos : p < 10
    /\ \A c \in Ctls : c < 10

LEMMA WholeFrame ==
    ASSUME OneDigit, NEW m \in Message
    PROVE  FoundHost(m) = m.host /\ m.host \in Nat /\ FoundHost(m) # NoHost
<1>1. /\ m.rule.in_port \in PortNos /\ m.rule.out_port \in PortNos /\ m.host \in Ctls
  BY DEF Message, Rule
<1>2. m.host \in Nat /\ m.host < 10
  <2>1. NumCtls \in Nat /\ m.host \in 2 .. NumCtls + 1
    BY <1>1, ConsensusAssumption DEF ControllerHosts, CtlHostBase
  <2>2. m.host < 10
    BY <1>1 DEF OneDigit
  <2> QED
    BY <2>1, <2>2
<1>3. /\ Digits(m.rule.in_port) = 1 /\ Digits(m.rule.out_port) = 1 /\ Digits(m.host) = 1
  BY <1>1, <1>2 DEF OneDigit, Digits
<1>4. Cut(m.rule, m.host) = 0
  BY <1>3 DEF Cut, MessageLength, FixedPart, FrameSize
<1> QED
  BY <1>2, <1>3, <1>4 DEF FoundHost, FrameHost, NoHost

\* A rule is posted to the controller that asked for it, by the manager of
\* the VNF that this controller sent it to.
THEOREM RequesterPosted ==
    ASSUME OneDigit
    PROVE  Spec => []PostedToRequester
<1>1. ASSUME IInv PROVE PostedToRequester
  <2> USE <1>1
  <2> SUFFICES ASSUME NEW v \in Vnfs, NEW e \in posted[v]
               PROVE  e.iid \in DOMAIN log /\ e.host = log[e.iid].host /\ VnfOf[e.host] = v
    BY DEF PostedToRequester
  <2>1. /\ e.iid \in 1 .. Len(handled[v]) /\ e.host = FoundHost(handled[v][e.iid])
        /\ e.host \in MyDomain[v]
    BY DEF IInv, PostedInv
  <2>2. /\ Len(handled[v]) <= Len(log) /\ handled[v][e.iid] = log[e.iid]
        /\ Len(handled[v]) \in Nat /\ Len(log) \in Nat /\ log \in Seq(Message)
    BY <2>1, LenProperties DEF IInv, Agreement, TypeOK
  <2>3. e.iid \in 1 .. Len(log)
    BY <2>1, <2>2
  <2>4. log[e.iid] \in Message
    BY <2>2, <2>3, ElementOfSeq
  <2>5. e.host = log[e.iid].host
    BY <2>1, <2>2, <2>4, WholeFrame
  <2>6. VnfOf[e.host] = v
    BY <2>1, MyDomainType, VnfOfType
  <2> QED
    BY <2>2, <2>3, <2>5, <2>6
<1> QED
  BY <1>1, Invariance, PTL

\* As long as no VNF fails by itself, a VNF stops only because a controller of
\* its own domain has: to post a rule to a controller that others manage is
\* not its business, and no message of theirs can end it.
THEOREM StopsOnlyWithOwnController ==
    ASSUME OneDigit
    PROVE  Spec => []StopsWithOwnController
<1>1. Init => StopsWithOwnController
  BY DEF Init, StopsWithOwnController
<1>2. ASSUME IInv, StopsWithOwnController, [Next]_vars
      PROVE  StopsWithOwnController'
  <2> SUFFICES ASSUME Faults \subseteq {"ctl", "race"}, NEW v \in vnfDown'
               PROVE  \E c \in ctlDown' : VnfOf[c] = v
    BY DEF StopsWithOwnController
  <2>1. \A w \in vnfDown : \E c \in ctlDown : VnfOf[c] = w
    BY <1>2 DEF StopsWithOwnController
  <2>2. ASSUME NEW w \in Vnfs, PostFails(w) PROVE \E c \in ctlDown' : VnfOf[c] = v
    <3>1. /\ posting[w] /\ PostTarget(w) \in ctlDown /\ ctlDown' = ctlDown
          /\ vnfDown' = vnfDown \cup {w}
      BY <2>2 DEF PostFails, StopVnf
    <3>2. PostTarget(w) \in MyDomain[w]
      BY <1>2, <3>1 DEF IInv, PostingInv
    <3>3. VnfOf[PostTarget(w)] = w
      BY <3>2, MyDomainType, VnfOfType
    <3> QED
      BY <2>1, <3>1, <3>3
  <2>3. ASSUME NEW w \in Vnfs PROVE ~ HandleMalformed(w)
    <3>1. SUFFICES ASSUME inbox[w] # <<>> PROVE FoundHost(Head(inbox[w])) # NoHost
      BY DEF HandleMalformed
    <3>2. Head(inbox[w]) \in Message
      BY <1>2, <3>1, HeadTailType DEF IInv, TypeOK
    <3> QED
      BY <3>2, WholeFrame
  <2>4. ASSUME NEW w \in Vnfs PROVE ~ ReadFails(w) /\ ~ CrashVnf(w)
    BY DEF ReadFails, CrashVnf, Fault
  <2>5. CASE vnfDown' = vnfDown /\ ctlDown \subseteq ctlDown'
    BY <2>1, <2>5
  <2> QED
    BY <1>2, <2>2, <2>3, <2>4, <2>5
       DEF Next, CtlNext, VnfNext, vars, ctlVars, pxVars, vnfVars, Connect, PacketIn,
           ClientSubmit, Decide, Deliver, HandleRequest, PostReply, CrashCtl
<1> QED
  BY <1>1, <1>2, Invariance, PTL DEF Spec

\* A rule for the domain of v whose frame holds the requester's address.
Owned(v, m) == m.host \in MyDomain[v] /\ FoundHost(m) = m.host

(***************************************************************************)
(* What a manager has handled for a controller of its domain was posted,   *)
(* where the frame of the rule holds the whole address of that controller. *)
(***************************************************************************)
THEOREM OwnRulesArePosted == Spec => []OwnRulesPosted
<1>1. Init => OwnRulesPosted
  BY DEF Init, OwnRulesPosted
<1>2. ASSUME IInv, OwnRulesPosted, [Next]_vars
      PROVE  OwnRulesPosted'
  <2> USE <1>2
  <2>1. CASE UNCHANGED <<handled, posting, posted, vnfDown>>
    BY <2>1 DEF OwnRulesPosted, Owned
  <2>2. ASSUME NEW w \in Vnfs, StopVnf(w) PROVE OwnRulesPosted'
    <3>1. /\ UNCHANGED <<handled, posted>> /\ vnfDown' = vnfDown \cup {w}
          /\ \A v \in Vnfs : v # w => posting'[v] = posting[v]
      BY <2>2 DEF StopVnf, IInv, TypeOK
    <3>2. ASSUME NEW v \in Vnfs, NEW i \in 1 .. Len(handled[v]),
                 Owned(v, handled[v][i])
          PROVE  \/ \E e \in posted[v] : e.iid = i
                 \/ i = Len(handled[v]) /\ (posting'[v] \/ v \in vnfDown')
      <4>1. \/ \E e \in posted[v] : e.iid = i
            \/ i = Len(handled[v]) /\ (posting[v] \/ v \in vnfDown)
        BY <3>2 DEF OwnRulesPosted, Owned
      <4> QED
        BY <3>1, <4>1
    <3> QED
      BY <3>1, <3>2 DEF OwnRulesPosted, Owned
  <2>3. ASSUME NEW w \in Vnfs, HandleRequest(w) PROVE OwnRulesPosted'
    <3> DEFINE m == Head(inbox[w])
               h == Len(handled[w])
    <3>1. /\ w \notin vnfDown /\ ~ posting[w] /\ inbox[w] # <<>>
          /\ handled' = [handled EXCEPT ![w] = Append(@, m)]
          /\ posting' = [posting EXCEPT ![w] = FoundHost(m) \in MyDomain[w]]
          /\ UNCHANGED <<posted, vnfDown>>
      BY <2>3 DEF HandleRequest, InMyDomain, Reading
    <3>2. m \in Message /\ handled[w] \in Seq(Message)
      BY <3>1, HeadTailType DEF IInv, TypeOK
    <3> HIDE DEF m
    <3>3. /\ h \in Nat /\ Len(handled'[w]) = h + 1 /\ handled'[w][h + 1] = m
          /\ \A i \in 1 .. h : handled'[w][i] = handled[w][i]
          /\ posting'[w] = (FoundHost(m) \in MyDomain[w])
          /\ \A v \in Vnfs : v # w => handled'[v] = handled[v] /\ posting'[v] = posting[v]
      BY <3>1, <3>2, AppendType DEF IInv, TypeOK
    <3>4. ASSUME NEW i \in 1 .. h + 1, Owned(w, handled'[w][i])
          PROVE  (\E e \in posted[w] : e.iid = i) \/ (i = h + 1 /\ posting'[w])
      <4>1. CASE i = h + 1
        BY <3>3, <3>4, <4>1 DEF Owned
      <4>2. CASE i # h + 1
        <5>1. i \in 1 .. h
          BY <3>3, <4>2
        <5> QED
          BY <3>1, <3>3, <3>4, <5>1 DEF OwnRulesPosted, Owned
      <4> QED
        BY <4>1, <4>2
    <3>5. ASSUME NEW v \in Vnfs, NEW i \in 1 .. Len(handled'[v]),
                 Owned(v, handled'[v][i])
          PROVE  \/ \E e \in posted[v] : e.iid = i
                 \/ i = Len(handled'[v]) /\ (posting'[v] \/ v \in vnfDown)
      <4>1. CASE v = w
        BY <3>3, <3>4, <3>5, <4>1
      <4>2. CASE v # w
        <5>1. handled'[v] = handled[v] /\ posting'[v] = posting[v]
          BY <3>3, <4>2
        <5> QED
          BY <3>5, <5>1 DEF OwnRulesPosted, Owned
      <4> QED
        BY <4>1, <4>2
    <3> QED
      BY <3>1, <3>5 DEF OwnRulesPosted, Owned
  <2>4. ASSUME NEW w \in Vnfs, PostReply(w) PROVE OwnRulesPosted'
    <3> DEFINE e == [iid |-> Len(handled[w]), host |-> PostTarget(w), status |-> FlowAddStatus]
    <3>1. /\ handled' = handled /\ vnfDown' = vnfDown
          /\ posting' = [posting EXCEPT ![w] = FALSE]
          /\ posted' = [posted EXCEPT ![w] = @ \cup {e}]
          /\ w \notin vnfDown
      BY <2>4 DEF PostReply
    <3>2. e.iid = Len(handled[w])
      OBVIOUS
    <3> HIDE DEF e
    <3>3. /\ posted'[w] = posted[w] \cup {e}
          /\ \A v \in Vnfs : v # w => posted'[v] = posted[v] /\ posting'[v] = posting[v]
      BY <3>1 DEF IInv, TypeOK
    <3> QED
      BY <3>1, <3>2, <3>3 DEF OwnRulesPosted, Owned
  <2> QED
    BY <2>1, <2>2, <2>3, <2>4
       DEF Next, CtlNext, VnfNext, vars, ctlVars, pxVars, vnfVars, Connect, PacketIn,
           ClientSubmit, Decide, Deliver, HandleMalformed, PostFails, ReadFails,
           CrashVnf, CrashCtl
<1> QED
  BY <1>1, <1>2, Invariance, PTL DEF Spec

-----------------------------------------------------------------------------
(* Consensus implements OrderedRules. *)

\* While a manager posts a rule, it has not posted it yet.
FreshInv ==
    \A v \in Vnfs : posting[v] => \A e \in posted[v] : e.iid # Len(handled[v])

LEMMA FreshStep == IInv /\ FreshInv /\ [Next]_vars => FreshInv'
<1> SUFFICES ASSUME IInv, FreshInv, [Next]_vars PROVE FreshInv'
  OBVIOUS
<1>1. CASE UNCHANGED <<handled, posting, posted>>
  BY <1>1 DEF FreshInv
<1>2. ASSUME NEW w \in Vnfs, StopVnf(w) PROVE FreshInv'
  <2>1. /\ UNCHANGED <<handled, posted>> /\ ~ posting'[w]
        /\ \A v \in Vnfs : v # w => posting'[v] = posting[v]
    BY <1>2 DEF StopVnf, IInv, TypeOK
  <2>2. ASSUME NEW v \in Vnfs, posting'[v]
        PROVE  \A e \in posted[v] : e.iid # Len(handled[v])
    BY <2>1, <2>2 DEF FreshInv
  <2> QED
    BY <2>1, <2>2 DEF FreshInv
<1>3. ASSUME NEW w \in Vnfs, HandleRequest(w) PROVE FreshInv'
  <2>1. /\ inbox[w] # <<>> /\ posted' = posted
        /\ handled' = [handled EXCEPT ![w] = Append(@, Head(inbox[w]))]
        /\ \A v \in Vnfs : v # w => posting'[v] = posting[v]
    BY <1>3 DEF HandleRequest, IInv, TypeOK
  <2>2. Head(inbox[w]) \in Message /\ handled[w] \in Seq(Message)
    BY <2>1, HeadTailType DEF IInv, TypeOK
  <2>3. /\ Len(handled[w]) \in Nat /\ Len(handled'[w]) = Len(handled[w]) + 1
        /\ \A v \in Vnfs : v # w => handled'[v] = handled[v]
    BY <2>1, <2>2, AppendType DEF IInv, TypeOK
  <2>4. ASSUME NEW v \in Vnfs, posting'[v], NEW e \in posted[v]
        PROVE  e.iid # Len(handled'[v])
    <3>1. CASE v = w
      <4>1. e.iid \in 1 .. Len(handled[w])
        BY <3>1, <2>4 DEF IInv, PostedInv
      <4> QED
        BY <2>3, <3>1, <4>1
    <3>2. CASE v # w
      BY <2>1, <2>3, <2>4, <3>2 DEF FreshInv
    <3> QED
      BY <3>1, <3>2
  <2> QED
    BY <2>1, <2>4 DEF FreshInv
<1>4. ASSUME NEW w \in Vnfs, PostReply(w) PROVE FreshInv'
  <2>1. /\ handled' = handled /\ ~ posting'[w]
        /\ \A v \in Vnfs : v # w => posted'[v] = posted[v] /\ posting'[v] = posting[v]
    BY <1>4 DEF PostReply, IInv, TypeOK
  <2>2. ASSUME NEW v \in Vnfs, posting'[v]
        PROVE  \A e \in posted'[v] : e.iid # Len(handled[v])
    BY <2>1, <2>2 DEF FreshInv
  <2> QED
    BY <2>1, <2>2 DEF FreshInv
<1> QED
  BY <1>1, <1>2, <1>3, <1>4
     DEF Next, CtlNext, VnfNext, vars, ctlVars, pxVars, vnfVars, Connect, PacketIn,
         ClientSubmit, Decide, Deliver, HandleMalformed, PostFails, ReadFails,
         CrashVnf, CrashCtl

\* A packet-in for a known address is a request; any other asks for nothing.
LEMMA RequestStep ==
    ASSUME IInv, NEW c \in Ctls, PacketIn(c)
    PROVE  Ordered!Request(c) \/ UNCHANGED Ordered!vars
<1>1. UNCHANGED <<log, handled, posted>>
  BY DEF PacketIn, vnfVars
<1>2. PICK p \in Packets :
         PacketInFlood(c, p) \/ PacketInRequest(c, p) \/ PacketInSendFails(c, p)
  BY DEF PacketIn
<1>3. CASE PacketInRequest(c, p)
  <2>1. Request(c, p) \in Message
    BY <1>3, RequestType DEF PacketInRequest, IInv
  <2>2. Request(c, p).rule \in Rule
    BY <2>1 DEF Message
  <2>3. Request(c, p) = [rule |-> Request(c, p).rule, host |-> c, seq |-> Len(requests[c]) + 1]
    BY DEF Request
  <2>4. requests' = [requests EXCEPT ![c] = Append(@, Request(c, p))]
    BY <1>3 DEF PacketInRequest
  <2> QED
    BY <1>1, <2>2, <2>3, <2>4 DEF Ordered!Request
<1>4. CASE PacketInFlood(c, p) \/ PacketInSendFails(c, p)
  BY <1>1, <1>4 DEF PacketInFlood, PacketInSendFails, Ordered!vars
<1> QED
  BY <1>2, <1>3, <1>4

\* The value that the proposer takes next is the first request of its
\* controller that is not decided.
LEMMA DecideStep ==
    ASSUME IInv, OrdInv, NEW v \in Vnfs, Decide(v)
    PROVE  \E c \in Ctls : Ordered!Decide(c)
<1> DEFINE m == Head(uplink[v])
<1>1. /\ uplink[v] # <<>> /\ log' = Append(log, m)
      /\ UNCHANGED <<requests, handled, posted>>
  BY DEF Decide, ctlVars, vnfVars
<1>2. /\ uplink[v] \in Seq(Message) /\ log \in Seq(Message) /\ m \in Message
      /\ DOMAIN log = 1 .. Len(log)
  BY <1>1, HeadTailType, LenProperties DEF IInv, TypeOK
<1>3. m \notin In(log) /\ InTurn(m, In(log)) /\ m \in In(uplink[v])
  BY <1>1, <1>2, InTail, FollowsTail DEF OrdInv, OrderInv
<1> HIDE DEF m
<1>4. Known(m)
  BY <1>3 DEF OrdInv, KnownInv
<1>5. m.host \in Ctls /\ m.seq \in Nat
  BY <1>2 DEF Message
<1>6. DOMAIN requests[m.host] = 1 .. Len(requests[m.host])
  BY <1>5, LenProperties DEF IInv, TypeOK
<1>7. m.seq \in DOMAIN requests[m.host] /\ requests[m.host][m.seq] = m
  BY <1>4, <1>6 DEF Known
<1>8. ~ Ordered!InLog(m)
  BY <1>2, <1>3 DEF Ordered!InLog, In
<1>9. ASSUME m.seq > 1 PROVE Ordered!InLog(requests[m.host][m.seq - 1])
  <2>1. PICK p \in In(log) : Precedes(p, m)
    BY <1>3, <1>5, <1>9 DEF InTurn
  <2>2. PICK i \in 1 .. Len(log) : log[i] = p
    BY <2>1 DEF In
  <2>3. Known(p) /\ p \in Message
    BY <1>2, <2>1, <2>2, ElementOfSeq DEF OrdInv, KnownInv
  <2>4. p = requests[m.host][m.seq - 1]
    BY <1>5, <2>1, <2>3 DEF Precedes, Known, Message
  <2> QED
    BY <1>2, <2>2, <2>4 DEF Ordered!InLog
<1>10. Ordered!Decide(m.host)
  BY <1>1, <1>7, <1>8, <1>9 DEF Ordered!Decide
<1> QED
  BY <1>5, <1>10

\* What a manager reads next is the instance after the last it has handled.
LEMMA ApplyStep ==
    ASSUME IInv, NEW v \in Vnfs, HandleRequest(v)
    PROVE  Ordered!Apply(v)
<1>1. /\ inbox[v] # <<>>
      /\ handled' = [handled EXCEPT ![v] = Append(@, Head(inbox[v]))]
      /\ UNCHANGED <<requests, log, posted>>
  BY DEF HandleRequest, ctlVars, pxVars
<1>2. /\ Len(inbox[v]) \in Nat \ {0} /\ Head(inbox[v]) = inbox[v][1]
      /\ Len(handled[v]) \in Nat /\ Len(log) \in Nat
  BY <1>1, HeadTailType, LenProperties DEF IInv, TypeOK
<1>3. /\ delivered[v] \in Nat /\ delivered[v] <= Len(log)
      /\ Len(handled[v]) + Len(inbox[v]) <= delivered[v]
  BY DEF IInv, TypeOK, DeliveryInv
<1>4. Len(handled[v]) < Len(log)
  <2>1. \A h \in Nat, n \in Nat \ {0}, d \in Nat, l \in Nat :
           h + n <= d /\ d <= l => h < l
    OBVIOUS
  <2> QED
    BY <1>2, <1>3, <2>1
<1>5. 1 \in 1 .. Len(inbox[v])
  BY <1>2
<1>6. Head(inbox[v]) = log[Len(handled[v]) + 1]
  BY <1>2, <1>5 DEF IInv, InboxInv
<1> QED
  BY <1>1, <1>4, <1>6 DEF Ordered!Apply

\* The answer to a post is the one to the last rule handled, from the
\* controller that asked for it.
LEMMA PostStep ==
    ASSUME OneDigit, IInv, FreshInv, NEW v \in Vnfs, PostReply(v)
    PROVE  Ordered!Post(v)
<1> DEFINE i == Len(handled[v])
           t == PostTarget(v)
<1>1. /\ posting[v] /\ UNCHANGED <<requests, log, handled>>
      /\ posted' = [posted EXCEPT ![v] = @ \cup
            {[iid |-> i, host |-> t, status |-> FlowAddStatus]}]
  BY DEF PostReply, ctlVars, pxVars
<1>2. /\ handled[v] \in Seq(Message) /\ handled[v] # <<>> /\ t \in MyDomain[v]
      /\ i \in Nat /\ i <= Len(log) /\ Len(log) \in Nat
  BY <1>1, LenProperties DEF IInv, TypeOK, PostingInv, Agreement
<1>3. i > 0 /\ i \in 1 .. i
  BY <1>2, EmptySeq
<1>4. handled[v][i] \in Message /\ handled[v][i] = log[i]
  BY <1>2, <1>3, ElementOfSeq DEF IInv, Agreement
<1>5. t = log[i].host
  BY <1>4, WholeFrame DEF PostTarget
<1>6. VnfOf[t] = v
  BY <1>2, MyDomainType, VnfOfType
<1>7. \A e \in posted[v] : e.iid # i
  BY <1>1 DEF FreshInv
<1>8. FlowAddStatus \in {200, 500}
  BY DEF FlowAddStatus
<1> HIDE DEF i, t
<1> QED
  BY <1>1, <1>3, <1>5, <1>6, <1>7, <1>8 DEF Ordered!Post, i

LEMMA OrderedStep ==
    ASSUME OneDigit, IInv, OrdInv, FreshInv, [Next]_vars
    PROVE  [Ordered!Next]_(Ordered!vars)
<1>1. ASSUME NEW c \in Ctls, PacketIn(c) PROVE [Ordered!Next]_(Ordered!vars)
  BY <1>1, RequestStep DEF Ordered!Next
<1>2. ASSUME NEW v \in Vnfs, Decide(v) PROVE [Ordered!Next]_(Ordered!vars)
  BY <1>2, DecideStep DEF Ordered!Next
<1>3. ASSUME NEW v \in Vnfs, HandleRequest(v) PROVE [Ordered!Next]_(Ordered!vars)
  BY <1>3, ApplyStep DEF Ordered!Next
<1>4. ASSUME NEW v \in Vnfs, PostReply(v) PROVE [Ordered!Next]_(Ordered!vars)
  BY <1>4, PostStep DEF Ordered!Next
<1>5. CASE UNCHANGED <<requests, log, handled, posted>>
  BY <1>5 DEF Ordered!vars
<1>6. ASSUME NEW v \in Vnfs, StopVnf(v) PROVE UNCHANGED <<requests, log, handled, posted>>
  BY <1>6 DEF StopVnf
<1> QED
  BY <1>1, <1>2, <1>3, <1>4, <1>5, <1>6
     DEF Next, CtlNext, VnfNext, vars, ctlVars, pxVars, vnfVars, Connect, ClientSubmit,
         Deliver, HandleMalformed, PostFails, ReadFails, CrashVnf, CrashCtl

\* The system of controllers, libpaxos and VNF managers, whatever it loses,
\* keeps what OrderedRules promises: one sequence of rules, each controller's
\* in its own order, gone through by every manager, each rule posted at most
\* once, by the manager in charge, to the controller that asked for it.
THEOREM Implements ==
    ASSUME OneDigit
    PROVE  Spec => OrderedSpec
<1>1. Init => Ordered!Init
  BY DEF Init, Ordered!Init
<1>2. Init => FreshInv
  BY DEF Init, FreshInv
<1>3. IInv /\ OrdInv /\ FreshInv /\ [Next]_vars => [Ordered!Next]_(Ordered!vars)
  BY OrderedStep
<1> QED
  BY <1>1, <1>2, <1>3, FreshStep, Ordering, PTL DEF Spec, OrderedSpec, Ordered!Spec
=============================================================================
