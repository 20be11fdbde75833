--------------------------- MODULE OfctlRest_proofs ---------------------------
(***************************************************************************)
(* OfctlRest, for any threads, requests, switches and parts: its waiters   *)
(* first, then what the answers are made of.                               *)
(***************************************************************************)
EXTENDS OfctlRest, SequenceTheorems, TLAPS

\* WaitersAreWaiting, entry by entry.
LEMMA EntryByEntry ==
    WaitersAreWaiting <=>
        \A w : w \in waiters <=>
            \E t \in Threads : Unanswered(t) /\ w = WaiterOf(t)
<1>1. \A w : w \in {WaiterOf(t) : t \in {u \in Threads : Unanswered(u)}} <=>
                 \E t \in Threads : Unanswered(t) /\ w = WaiterOf(t)
  BY Zenon
<1>2. QED BY <1>1, Zenon DEF WaitersAreWaiting

LEMMA EntryByEntryNext ==
    WaitersAreWaiting' <=>
        \A w : w \in waiters' <=>
            \E t \in Threads : Unanswered(t)' /\ w = WaiterOf(t)'
<1>1. \A w : w \in {WaiterOf(t)' : t \in {u \in Threads : Unanswered(u)'}} <=>
                 \E t \in Threads : Unanswered(t)' /\ w = WaiterOf(t)'
  BY Zenon
<1>2. QED BY <1>1, Zenon DEF WaitersAreWaiting

\* A request for statistics that is not refused names a switch that is connected.
LEMMA AskedSwitch ==
    ASSUME NEW r \in Requests, IsStats(r), StatusOf(r) = 200
    PROVE  r.dpid \in dpset
BY DEF StatusOf, StatsStatus

LEMMA InitRestInv == Init => RestInv
<1> SUFFICES ASSUME Init PROVE RestInv
  OBVIOUS
<1>1. ThreadTypes
  BY DEF Init, ThreadTypes
<1>2. \A t \in Threads : ~Pending(t) /\ ~isSet[t]
  BY DEF Init, Pending
<1>3. WaitersAreWaiting
  BY <1>2 DEF Init, WaitersAreWaiting, Unanswered
<1>4. QED
  BY <1>1, <1>2, <1>3 DEF RestInv, IdleIsUnset, XidsTaken, XidsUnique

(***************************************************************************)
(* Asking: the new xid is above every xid taken on that datapath, so the   *)
(* registration replaces nobody's entry.                                   *)
(***************************************************************************)
LEMMA AskStep ==
    ASSUME RestInv, NEW t \in Threads, NEW r \in Requests, AskStats(t, r)
    PROVE  RestInv'
<1> DEFINE d == r.dpid
           x == lastXid[d] + 1
           new == [dp |-> d, xid |-> x, thread |-> t]
<1>1. d \in Datapaths /\ d \in dpset
  BY AskedSwitch DEF AskStats, RestInv, ThreadTypes
<1>2. lastXid[d] \in Nat /\ x \in Nat
  BY <1>1 DEF RestInv, ThreadTypes
<1>3. /\ stage[t] = "idle" /\ ~isSet[t] /\ ~Pending(t)
      /\ \A u \in Threads \ {t} : u # t
  BY DEF AskStats, RestInv, IdleIsUnset, Pending
<1>4. /\ stage' = [stage EXCEPT ![t] = "waiting"]
      /\ request' = [request EXCEPT ![t] = [dp |-> d, xid |-> x, kind |-> ReplyKind(r)]]
      /\ lastXid' = [lastXid EXCEPT ![d] = x]
      /\ waiters' = Register(waiters, new)
      /\ isSet' = isSet /\ dpset' = dpset
  BY DEF AskStats
<1>5. ReplyKind(r) \in Kinds
  BY DEF ReplyKind, Kinds
<1>6. ThreadTypes'
  BY <1>1, <1>2, <1>4, <1>5 DEF RestInv, ThreadTypes
<1>7. /\ stage'[t] = "waiting" /\ request'[t].dp = d /\ request'[t].xid = x
      /\ \A u \in Threads \ {t} : stage'[u] = stage[u] /\ request'[u] = request[u]
  BY <1>4 DEF RestInv, ThreadTypes
<1>8. /\ Pending(t)'
      /\ \A u \in Threads \ {t} : Pending(u)' <=> Pending(u)
  BY <1>7 DEF Pending
<1>9. \A u \in Threads \ {t} : Pending(u) =>
          request[u].xid \in Nat /\ request[u].dp \in Datapaths
  BY DEF RestInv, ThreadTypes, XidsTaken, NoRequest
<1>10. \A u \in Threads \ {t} : Pending(u) /\ request[u].dp = d => request[u].xid < x
  BY <1>2, <1>9 DEF RestInv, XidsTaken
<1>11. IdleIsUnset'
  BY <1>3, <1>4, <1>7 DEF RestInv, IdleIsUnset
<1>12. XidsTaken'
  <2> SUFFICES ASSUME NEW u \in Threads, Pending(u)'
               PROVE  request'[u].dp \in Datapaths /\ request'[u].xid <= lastXid'[request'[u].dp]
    BY DEF XidsTaken
  <2>1. lastXid'[d] = x /\ \A e \in Datapaths \ {d} : lastXid'[e] = lastXid[e]
    BY <1>1, <1>4 DEF RestInv, ThreadTypes
  <2>2. CASE u = t
    BY <1>1, <1>2, <1>7, <2>1, <2>2
  <2>3. CASE u # t
    <3>1. Pending(u) /\ request'[u] = request[u]
      BY <1>7, <1>8, <2>3
    <3>2. request[u].dp \in Datapaths /\ request[u].xid <= lastXid[request[u].dp]
      BY <3>1 DEF RestInv, XidsTaken
    <3>3. CASE request[u].dp = d
      BY <1>2, <1>9, <1>10, <2>1, <2>3, <3>1, <3>2, <3>3
    <3>4. CASE request[u].dp # d
      BY <2>1, <3>1, <3>2, <3>4
    <3>5. QED BY <3>3, <3>4
  <2>4. QED BY <2>2, <2>3
<1>13. XidsUnique'
  <2> SUFFICES ASSUME NEW u \in Threads, NEW v \in Threads,
                      Pending(u)', Pending(v)',
                      request'[u].dp = request'[v].dp,
                      request'[u].xid = request'[v].xid
               PROVE  u = v
    BY DEF XidsUnique
  <2>1. \A w \in Threads \ {t} : Pending(w)' =>
            request'[w].dp # d \/ request'[w].xid # x
    BY <1>2, <1>7, <1>8, <1>9, <1>10
  <2>2. CASE u = t \/ v = t
    BY <1>7, <2>1, <2>2
  <2>3. CASE u # t /\ v # t
    BY <1>7, <1>8, <2>3 DEF RestInv, XidsUnique
  <2>4. QED BY <2>2, <2>3
<1>14. WaitersAreWaiting'
  <2>1. \A u \in Threads \ {t} :
            (Unanswered(u)' <=> Unanswered(u)) /\ WaiterOf(u)' = WaiterOf(u)
    BY <1>4, <1>7, <1>8 DEF Unanswered, WaiterOf
  <2>2. ~Unanswered(t) /\ Unanswered(t)' /\ WaiterOf(t)' = new
    BY <1>3, <1>4, <1>7, <1>8 DEF Unanswered, WaiterOf
  <2>3. \A u \in Threads : Unanswered(u) =>
            WaiterOf(u).dp # new.dp \/ WaiterOf(u).xid # new.xid
    <3> SUFFICES ASSUME NEW u \in Threads, Unanswered(u), request[u].dp = d
                 PROVE  request[u].xid # x
      BY DEF WaiterOf
    <3>1. u # t /\ Pending(u)
      BY <2>2 DEF Unanswered
    <3>2. QED BY <1>2, <1>9, <1>10, <3>1
  <2>4. \A w : w \in waiters <=> \E u \in Threads : Unanswered(u) /\ w = WaiterOf(u)
    BY EntryByEntry DEF RestInv
  <2>5. \A w : w \in waiters' <=>
            \/ w \in waiters /\ (w.dp # new.dp \/ w.xid # new.xid)
            \/ w = new
    BY <1>4 DEF Register
  <2>6. \A w \in waiters : w.dp # new.dp \/ w.xid # new.xid
    BY <2>3, <2>4
  <2>7. \A w : w \in waiters' <=> w \in waiters \/ w = new
    BY <2>5, <2>6
  <2>8. \A w : w \in waiters' <=>
            \E u \in Threads : Unanswered(u)' /\ w = WaiterOf(u)'
    BY <2>1, <2>2, <2>4, <2>7, Zenon
  <2>9. QED BY <2>8, EntryByEntryNext
<1>15. QED BY <1>6, <1>11, <1>12, <1>13, <1>14 DEF RestInv

\* Who is pending, what it asked, the locks and the waiters are left alone; xids
\* may be taken.
LEMMA QuietStep ==
    ASSUME RestInv, dpset' \subseteq Datapaths,
           stage' \in [Threads -> {"idle", "waiting", "woken", "done"}],
           \A t \in Threads : /\ Pending(t)' <=> Pending(t)
                              /\ stage'[t] = "idle" => stage[t] = "idle",
           lastXid' \in [Datapaths -> Nat],
           \A d \in Datapaths : lastXid[d] <= lastXid'[d],
           UNCHANGED <<waiters, request, isSet>>
    PROVE  RestInv'
<1>1. ThreadTypes' /\ IdleIsUnset'
  BY DEF RestInv, ThreadTypes, IdleIsUnset
<1>2. XidsTaken' /\ XidsUnique'
  <2>1. \A t \in Threads : Pending(t) =>
            request[t].xid \in Nat /\ request[t].dp \in Datapaths
    BY DEF RestInv, ThreadTypes, XidsTaken, NoRequest
  <2>2. \A d \in Datapaths : lastXid[d] \in Nat /\ lastXid'[d] \in Nat
    BY DEF RestInv, ThreadTypes
  <2>3. XidsTaken'
    BY <2>1, <2>2 DEF RestInv, XidsTaken
  <2> QED
    BY <2>3 DEF RestInv, XidsUnique
<1>3. \A t \in Threads :
          (Unanswered(t)' <=> Unanswered(t)) /\ WaiterOf(t)' = WaiterOf(t)
  BY DEF Unanswered, WaiterOf
<1>4. \A w : w \in waiters <=> \E t \in Threads : Unanswered(t) /\ w = WaiterOf(t)
  BY EntryByEntry DEF RestInv
<1>5. \A w : w \in waiters' <=> \E t \in Threads : Unanswered(t)' /\ w = WaiterOf(t)'
  BY <1>3, <1>4
<1>6. QED BY <1>1, <1>2, <1>5, EntryByEntryNext DEF RestInv

(***************************************************************************)
(* Deleting the entry of a pair (d, x) that nobody is unanswered under     *)
(* after the step, all others being as they were.                          *)
(***************************************************************************)
LEMMA ForgetStep ==
    ASSUME RestInv, NEW d, NEW x,
           waiters' = Forget(d, x), request' = request,
           \A t \in Threads :
               Unanswered(t)' <=>
                   Unanswered(t) /\ (request[t].dp # d \/ request[t].xid # x)
    PROVE  WaitersAreWaiting'
<1>1. \A w : w \in waiters <=> \E t \in Threads : Unanswered(t) /\ w = WaiterOf(t)
  BY EntryByEntry DEF RestInv
<1>2. \A w : w \in waiters' <=> w \in waiters /\ (w.dp # d \/ w.xid # x)
  BY DEF Forget
<1>3. \A t \in Threads : /\ WaiterOf(t)' = WaiterOf(t)
                         /\ WaiterOf(t).dp = request[t].dp
                         /\ WaiterOf(t).xid = request[t].xid
  BY DEF WaiterOf
<1>4. \A w : w \in waiters' <=> \E t \in Threads : Unanswered(t)' /\ w = WaiterOf(t)'
  <2>1. \A w : w \in waiters' => \E t \in Threads : Unanswered(t)' /\ w = WaiterOf(t)'
    BY <1>1, <1>2, <1>3
  <2>2. \A t \in Threads : Unanswered(t)' => WaiterOf(t)' \in waiters'
    BY <1>1, <1>2, <1>3
  <2>3. QED BY <2>1, <2>2
<1>5. QED BY <1>4, EntryByEntryNext

\* Giving up deletes the entry of the thread itself, which is there.
LEMMA AnswerStatsStep ==
    ASSUME RestInv, NEW t \in Threads, AnswerStats(t)
    PROVE  RestInv'
<1>1. /\ stage[t] = "woken" /\ Pending(t)
      /\ stage' = [stage EXCEPT ![t] = "done"]
      /\ UNCHANGED <<lastXid, request, isSet, dpset>>
  BY DEF AnswerStats, Respond, Pending, network
<1>2. /\ ~Pending(t)' /\ stage'[t] = "done"
      /\ \A u \in Threads \ {t} : stage'[u] = stage[u] /\ (Pending(u)' <=> Pending(u))
  BY <1>1 DEF RestInv, ThreadTypes, Pending
<1>3. ThreadTypes' /\ IdleIsUnset'
  BY <1>1, <1>2 DEF RestInv, ThreadTypes, IdleIsUnset
<1>4. \A u \in Threads : Pending(u)' => Pending(u)
  BY <1>2
<1>5. XidsTaken' /\ XidsUnique'
  BY <1>1, <1>4 DEF RestInv, XidsTaken, XidsUnique
<1>6. CASE isSet[t]
  <2>1. waiters' = waiters
    BY <1>6 DEF AnswerStats
  <2>2. \A u \in Threads :
            (Unanswered(u)' <=> Unanswered(u)) /\ WaiterOf(u)' = WaiterOf(u)
    BY <1>1, <1>2, <1>6 DEF Unanswered, WaiterOf
  <2>3. \A w : w \in waiters <=> \E u \in Threads : Unanswered(u) /\ w = WaiterOf(u)
    BY EntryByEntry DEF RestInv
  <2>4. \A w : w \in waiters' <=> \E u \in Threads : Unanswered(u)' /\ w = WaiterOf(u)'
    BY <2>1, <2>2, <2>3
  <2>5. QED BY <1>3, <1>5, <2>4, EntryByEntryNext DEF RestInv
<1>7. CASE ~isSet[t]
  <2>1. waiters' = Forget(request[t].dp, request[t].xid)
    BY <1>7 DEF AnswerStats
  <2>2. \A u \in Threads \ {t} : Pending(u) =>
            request[u].dp # request[t].dp \/ request[u].xid # request[t].xid
    BY <1>1 DEF RestInv, XidsUnique
  <2>3. \A u \in Threads :
            Unanswered(u)' <=>
                /\ Unanswered(u)
                /\ request[u].dp # request[t].dp \/ request[u].xid # request[t].xid
    BY <1>1, <1>2, <2>2 DEF Unanswered
  <2>4. WaitersAreWaiting'
    BY <1>1, <2>1, <2>3, ForgetStep
  <2>5. QED BY <1>3, <1>5, <2>4 DEF RestInv
<1>8. QED BY <1>6, <1>7

\* The last part of an answer: the entry goes and the lock of its thread is set.
LEMMA CompleteStep ==
    ASSUME RestInv, NEW d \in Datapaths, NEW m,
           WaitersFor(d, m) # {}, Complete(WaitersFor(d, m), d, m),
           UNCHANGED <<lastXid, request, stage, dpset>>
    PROVE  RestInv'
<1> DEFINE ws == WaitersFor(d, m)
<1>1. /\ waiters' = Forget(d, m.xid)
      /\ isSet' = [t \in Threads |-> isSet[t] \/ \E w \in ws : w.thread = t]
  BY DEF Complete
<1>2. \A w : w \in waiters <=> \E t \in Threads : Unanswered(t) /\ w = WaiterOf(t)
  BY EntryByEntry DEF RestInv
<1>3. \A t \in Threads :
          (\E w \in ws : w.thread = t) <=>
              Unanswered(t) /\ request[t].dp = d /\ request[t].xid = m.xid
  <2>1. \A t \in Threads : /\ WaiterOf(t).dp = request[t].dp
                           /\ WaiterOf(t).xid = request[t].xid
                           /\ WaiterOf(t).thread = t
    BY DEF WaiterOf
  <2>2. \A w : w \in ws <=> w \in waiters /\ w.dp = d /\ w.xid = m.xid
    BY DEF WaitersFor
  <2>3. ASSUME NEW t \in Threads, NEW w \in ws, w.thread = t
        PROVE  Unanswered(t) /\ request[t].dp = d /\ request[t].xid = m.xid
    BY <1>2, <2>1, <2>2, <2>3
  <2>4. ASSUME NEW t \in Threads, Unanswered(t), request[t].dp = d, request[t].xid = m.xid
        PROVE  \E w \in ws : w.thread = t
    <3>1. WaiterOf(t) \in ws
      BY <1>2, <2>1, <2>2, <2>4
    <3>2. QED BY <2>1, <3>1
  <2>5. QED BY <2>3, <2>4
<1>4. isSet' \in [Threads -> BOOLEAN] /\ ThreadTypes'
  BY <1>1 DEF RestInv, ThreadTypes
<1>5. \A t \in Threads : Pending(t)' <=> Pending(t)
  BY DEF Pending
<1>6. XidsTaken' /\ XidsUnique'
  BY <1>5 DEF RestInv, XidsTaken, XidsUnique
<1>7. \A t \in Threads :
          isSet'[t] <=> \/ isSet[t]
                        \/ Unanswered(t) /\ request[t].dp = d /\ request[t].xid = m.xid
  BY <1>1, <1>3, Zenon
<1>8. IdleIsUnset'
  BY <1>7 DEF RestInv, IdleIsUnset, Unanswered, Pending
<1>9. WaitersAreWaiting'
  <2>1. \A t \in Threads :
            Unanswered(t)' <=>
                Unanswered(t) /\ (request[t].dp # d \/ request[t].xid # m.xid)
    BY <1>5, <1>7 DEF Unanswered
  <2>2. QED BY <1>1, <2>1, ForgetStep
<1>10. QED BY <1>4, <1>6, <1>8, <1>9 DEF RestInv

LEMMA NextRestInv == RestInv /\ [Next]_vars => RestInv'
<1> SUFFICES ASSUME RestInv, [Next]_vars PROVE RestInv'
  OBVIOUS
<1> USE DEF network, thread
<1>1. ASSUME NEW t \in Threads, NEW r \in Requests, Answer(t, r)
      PROVE  RestInv'
  BY <1>1, QuietStep DEF Answer, Respond, RestInv, ThreadTypes, Pending
<1>2. ASSUME NEW t \in Threads, NEW r \in Requests, Command(t, r)
      PROVE  RestInv'
  <2> DEFINE d == r.dpid
  <2>1. /\ stage[t] = "idle" /\ stage' = [stage EXCEPT ![t] = "done"]
        /\ lastXid' = [lastXid EXCEPT ![d] = @ + 1]
        /\ UNCHANGED <<waiters, dpset, request, isSet>>
    BY <1>2 DEF Command, Respond
  <2>2. /\ DOMAIN lastXid' = Datapaths /\ lastXid' = [e \in Datapaths |-> lastXid'[e]]
        /\ \A e \in Datapaths : lastXid'[e] = IF e = d THEN lastXid[e] + 1 ELSE lastXid[e]
    BY <2>1 DEF RestInv, ThreadTypes
  <2>3. \A e \in Datapaths : lastXid[e] \in Nat
    BY DEF RestInv, ThreadTypes
  <2>4. /\ lastXid' \in [Datapaths -> Nat]
        /\ \A e \in Datapaths : lastXid[e] <= lastXid'[e]
    BY <2>2, <2>3
  <2> HIDE DEF d
  <2> QED
    BY <2>1, <2>4, QuietStep DEF RestInv, ThreadTypes, Pending
<1>3. ASSUME NEW t \in Threads, NEW r \in Requests, AskStats(t, r)
      PROVE  RestInv'
  BY <1>3, AskStep
<1>4. ASSUME NEW t \in Threads, WaitEnds(t)
      PROVE  RestInv'
  BY <1>4, QuietStep DEF WaitEnds, RestInv, ThreadTypes, Pending
<1>5. ASSUME NEW t \in Threads, WaitAgain(t)
      PROVE  RestInv'
  BY <1>5, QuietStep DEF WaitAgain, RestInv, ThreadTypes, Pending
<1>6. ASSUME NEW t \in Threads, AnswerStats(t)
      PROVE  RestInv'
  BY <1>6, AnswerStatsStep
<1>7. ASSUME NEW d \in Datapaths, Disconnect(d) \/ Reconnect(d) \/ TakeCommand(d) \/ Reply(d)
      PROVE  RestInv'
  BY <1>7, QuietStep
     DEF Disconnect, Reconnect, TakeCommand, Reply, RestInv, ThreadTypes, Pending
<1>8. ASSUME NEW d \in Datapaths, stats_reply_handler(d)
      PROVE  RestInv'
  <2> DEFINE m == Head(fromSwitch[d])
  <2>1. UNCHANGED <<lastXid, request, stage, dpset>>
    BY <1>8 DEF stats_reply_handler, NextEvent
  <2>2. CASE UNCHANGED <<waiters, isSet>>
    BY <2>1, <2>2, QuietStep DEF RestInv, ThreadTypes, Pending
  <2>3. CASE WaitersFor(d, m) # {} /\ Complete(WaitersFor(d, m), d, m)
    BY <2>1, <2>3, CompleteStep
  <2>4. QED BY <1>8, <2>2, <2>3 DEF stats_reply_handler
<1>9. ASSUME NEW d \in Datapaths, features_reply_handler(d)
      PROVE  RestInv'
  <2> DEFINE m == Head(fromSwitch[d])
  <2>1. UNCHANGED <<lastXid, request, stage, dpset>>
    BY <1>9 DEF features_reply_handler, NextEvent
  <2>2. CASE UNCHANGED <<waiters, isSet>>
    BY <2>1, <2>2, QuietStep DEF RestInv, ThreadTypes, Pending
  <2>3. CASE WaitersFor(d, m) # {} /\ Complete(WaitersFor(d, m), d, m)
    BY <2>1, <2>3, CompleteStep
  <2>4. QED BY <1>9, <2>2, <2>3 DEF features_reply_handler
<1>10. CASE UNCHANGED vars
  BY <1>10, QuietStep DEF vars, RestInv, ThreadTypes, Pending
<1>11. QED
  BY <1>1, <1>2, <1>3, <1>4, <1>5, <1>6, <1>7, <1>8, <1>9, <1>10 DEF Next, Thread

(***************************************************************************)
(* The table self.waiters holds exactly the threads that wait for the rest *)
(* of an answer, however handlers, timeouts and new requests interleave:   *)
(* no xid is shared, so what a handler or a thread that gives up deletes   *)
(* is the one entry of that thread.                                        *)
(***************************************************************************)
THEOREM WaitersCorrect == Spec => []WaitersAreWaiting
<1>1. RestInv => WaitersAreWaiting
  BY DEF RestInv
<1>2. QED BY InitRestInv, NextRestInv, <1>1, PTL DEF Spec

-----------------------------------------------------------------------------
(***************************************************************************)
(* What the answers hold.  Between the controller and a switch, q holds    *)
(* the commands and requests the switch has, p the parts that are not      *)
(* handled.  No two requests have an xid in common, and the parts of one   *)
(* answer are numbered upwards, those to be sent after those that were.    *)
(***************************************************************************)
IsAsk(m) == m.kind # "command"

Asks(q, last) ==
    \A m \in q : IsAsk(m) =>
        /\ m.xid <= last
        /\ 1 <= m.next /\ m.next <= MaxParts
        /\ m.kind = "features" => m.next = 1
        /\ \A n \in q : IsAsk(n) /\ n.xid = m.xid => n = m

Parts(p, last) ==
    \A i \in 1 .. Len(p) :
        /\ p[i].xid <= last /\ p[i].part <= MaxParts
        /\ p[i].kind = "features" => p[i].last
        /\ \A j \in 1 .. i - 1 : p[j].xid = p[i].xid => p[j].part < p[i].part

Apart(q, p) ==
    \A m \in q, i \in 1 .. Len(p) : IsAsk(m) /\ p[i].xid = m.xid => p[i].part < m.next

Queues(q, p, last) == Asks(q, last) /\ Parts(p, last) /\ Apart(q, p)

(***************************************************************************)
(* What a thread may expect that holds n parts of the answer to xid x, a   *)
(* request of kind k: part n + 1, and each later part behind the one it    *)
(* follows.                                                                *)
(***************************************************************************)
Sent(p, i, x, y) == \E j \in 1 .. i : p[j].xid = x /\ p[j].part + 1 = y

Coming(q, p, n, x, k) ==
    /\ \A m \in q : IsAsk(m) /\ m.xid = x =>
          m.kind = k /\ (m.next = n + 1 \/ Sent(p, Len(p), x, m.next))
    /\ \A i \in 1 .. Len(p) : p[i].xid = x =>
          /\ p[i].kind = k /\ n < p[i].part
          /\ p[i].part = n + 1 \/ Sent(p, i - 1, x, p[i].part)

LEMMA AppendAt ==
    ASSUME NEW S, NEW q \in Seq(S), NEW m \in S
    PROVE  /\ Append(q, m) \in Seq(S)
           /\ Len(q) \in Nat /\ Len(Append(q, m)) = Len(q) + 1
           /\ \A i \in 1 .. Len(q) : Append(q, m)[i] = q[i] /\ q[i] \in S
           /\ Append(q, m)[Len(q) + 1] = m
BY AppendProperties, ElementOfSeq, LenProperties

LEMMA TailAt ==
    ASSUME NEW S, NEW q \in Seq(S), q # <<>>
    PROVE  /\ Head(q) \in S /\ Tail(q) \in Seq(S)
           /\ Len(q) \in Nat \ {0} /\ Len(Tail(q)) = Len(q) - 1
           /\ Head(q) = q[1]
           /\ \A i \in 1 .. Len(q) - 1 : Tail(q)[i] = q[i + 1]
BY HeadTailProperties, EmptySeq

LEMMA PrefixAt ==
    ASSUME NEW S, NEW q \in Seq(S), NEW n \in 0 .. Len(q)
    PROVE  /\ SubSeq(q, 1, n) \in Seq(S)
           /\ Len(SubSeq(q, 1, n)) = n /\ n \in Nat /\ Len(q) \in Nat /\ n <= Len(q)
           /\ \A i \in 1 .. n : SubSeq(q, 1, n)[i] = q[i]
<1>1. Len(q) \in Nat /\ n \in Nat /\ n <= Len(q)
  BY LenProperties
<1>2. \A i \in 1 .. n : q[i] \in S
  BY <1>1, ElementOfSeq
<1> QED
  BY <1>1, <1>2, SubSeqProperties

LEMMA PartAt ==
    ASSUME NEW p \in Seq(Part), NEW i \in 1 .. Len(p)
    PROVE  p[i] \in Part /\ p[i].xid \in Nat /\ p[i].part \in Nat
<1>1. p[i] \in Part
  BY ElementOfSeq
<1> QED
  BY <1>1 DEF Part

\* A command takes an xid and goes to the switch.
LEMMA SendCommand ==
    ASSUME NEW q \in SUBSET Sending, NEW p \in Seq(Part), NEW last \in Nat, NEW m,
           ~ IsAsk(m), Queues(q, p, last)
    PROVE  /\ Queues(q \cup {m}, p, last + 1)
           /\ \A n, x, k : Coming(q, p, n, x, k) => Coming(q \cup {m}, p, n, x, k)
<1>1. \A o \in q : o.xid \in Nat
  BY DEF Sending
<1>2. \A i \in 1 .. Len(p) : p[i].xid \in Nat
  BY PartAt
<1>3. Asks(q \cup {m}, last + 1)
  BY <1>1 DEF Queues, Asks
<1>4. Parts(p, last + 1)
  BY <1>2 DEF Queues, Parts
<1>5. Apart(q \cup {m}, p)
  BY DEF Queues, Apart
<1>6. \A n, x, k : Coming(q, p, n, x, k) => Coming(q \cup {m}, p, n, x, k)
  BY DEF Coming
<1> QED
  BY <1>3, <1>4, <1>5, <1>6 DEF Queues

\* A request takes a fresh xid: nothing with it is on the way.
LEMMA SendAsk ==
    ASSUME NEW q \in SUBSET Sending, NEW p \in Seq(Part), NEW last \in Nat, NEW k \in Kinds,
           Queues(q, p, last)
    PROVE  LET a == q \cup {Message(k, last + 1)}
           IN  /\ Queues(a, p, last + 1)
               /\ Coming(a, p, 0, last + 1, k)
               /\ \A n, h : \A x \in Nat : x <= last /\ Coming(q, p, n, x, h) => Coming(a, p, n, x, h)
<1> DEFINE m == Message(k, last + 1)
           a == q \cup {m}
<1>1. m.kind = k /\ m.xid = last + 1 /\ m.next = 1 /\ IsAsk(m)
  BY DEF Message, IsAsk, Kinds
<1>2. \A o \in q : IsAsk(o) => o.xid \in Nat /\ o.xid <= last
  BY DEF Queues, Asks, Sending
<1>3. \A i \in 1 .. Len(p) : p[i].xid \in Nat /\ p[i].xid <= last
  BY PartAt DEF Queues, Parts
<1> HIDE DEF m
<1>4. Asks(a, last + 1)
  BY <1>1, <1>2, RestAssumption DEF Queues, Asks
<1>5. Parts(p, last + 1)
  BY <1>3 DEF Queues, Parts
<1>6. Apart(a, p)
  BY <1>1, <1>3 DEF Queues, Apart
<1>7. Coming(a, p, 0, last + 1, k)
  BY <1>1, <1>2, <1>3 DEF Coming
<1>8. ASSUME NEW n, NEW h, NEW x \in Nat, x <= last, Coming(q, p, n, x, h)
      PROVE  Coming(a, p, n, x, h)
  BY <1>1, <1>8 DEF Coming
<1> QED
  BY <1>4, <1>5, <1>6, <1>7, <1>8 DEF Queues, m

\* The switch takes a command.
LEMMA TakeMessage ==
    ASSUME NEW q, NEW p, NEW last, NEW m, Queues(q, p, last)
    PROVE  /\ Queues(q \ {m}, p, last)
           /\ \A n, x, k : Coming(q, p, n, x, k) => Coming(q \ {m}, p, n, x, k)
BY DEF Queues, Asks, Apart, Coming

\* The connection ends: what the switch has and the last parts are lost.
LEMMA LoseRest ==
    ASSUME NEW p \in Seq(Part), NEW n \in 0 .. Len(p), NEW last, Parts(p, last)
    PROVE  /\ Queues({}, SubSeq(p, 1, n), last)
           /\ \A q, i, x, k : Coming(q, p, i, x, k) => Coming({}, SubSeq(p, 1, n), i, x, k)
<1> DEFINE s == SubSeq(p, 1, n)
<1>1. /\ Len(s) = n /\ n \in Nat /\ Len(p) \in Nat /\ n <= Len(p)
      /\ \A i \in 1 .. n : s[i] = p[i]
  BY PrefixAt
<1> HIDE DEF s
<1>2. \A i \in 1 .. n : /\ i \in 1 .. Len(p) /\ s[i] = p[i]
                        /\ \A j \in 1 .. i - 1 : s[j] = p[j]
  BY <1>1
<1>3. Queues({}, s, last)
  BY <1>1, <1>2 DEF Queues, Asks, Parts, Apart
<1>4. ASSUME NEW q, NEW i, NEW x, NEW k, Coming(q, p, i, x, k)
      PROVE  Coming({}, s, i, x, k)
  BY <1>1, <1>2, <1>4 DEF Coming, Sent
<1> QED
  BY <1>3, <1>4 DEF s

\* The switch sends the next part of an answer.
LEMMA SendPart ==
    ASSUME NEW q \in SUBSET Sending, NEW p \in Seq(Part), NEW top,
           NEW m \in q, NEW last \in BOOLEAN,
           IsAsk(m), m.kind = "features" \/ m.next = MaxParts => last,
           Queues(q, p, top)
    PROVE  LET b == (q \ {m}) \cup Rest(m, last)
               r == Append(p, PartOf(m, last))
           IN  /\ b \subseteq Sending /\ r \in Seq(Part)
               /\ Queues(b, r, top)
               /\ \A n \in Nat : \A x, k : Coming(q, p, n, x, k) => Coming(b, r, n, x, k)
<1> DEFINE o == PartOf(m, last)
           b == (q \ {m}) \cup Rest(m, last)
           r == Append(p, o)
           len == Len(p)
<1>1. /\ m.kind \in Kinds /\ m.xid \in Nat /\ m.next \in Nat
      /\ m.next <= MaxParts /\ m.xid <= top /\ 1 <= m.next /\ MaxParts \in Nat
      /\ m.kind = "features" => last
  BY RestAssumption DEF Sending, IsAsk, Queues, Asks
<1>2. /\ o \in Part /\ o.kind = m.kind /\ o.xid = m.xid /\ o.part = m.next /\ o.last = last
  BY <1>1 DEF PartOf, Part
<1> HIDE DEF o
<1>3. /\ r \in Seq(Part) /\ len \in Nat /\ Len(r) = len + 1 /\ r[len + 1] = o
      /\ \A i \in 1 .. len : r[i] = p[i] /\ p[i].xid \in Nat /\ p[i].part \in Nat
  BY <1>2, AppendAt, PartAt
<1> HIDE DEF r, len
<1>4. ASSUME NEW c \in b
      PROVE  \/ c \in q /\ c # m
             \/ /\ ~ last /\ c \in Sending /\ c.kind = m.kind /\ c.xid = m.xid
                /\ c.next = m.next + 1 /\ m.next < MaxParts
  <2>1. CASE c \in Rest(m, last)
    <3>1. ~ last /\ c = [m EXCEPT !.next = @ + 1]
      BY <2>1 DEF Rest
    <3>2. m.next < MaxParts
      BY <1>1, <3>1
    <3>3. m \in Sending
      OBVIOUS
    <3> QED
      BY <1>1, <3>1, <3>2, <3>3 DEF Sending
  <2> QED
    BY <2>1
<1>5. \A i \in 1 .. len + 1 : i = len + 1 \/ i \in 1 .. len
  BY <1>3
<1>6. \A c \in q : IsAsk(c) /\ c.xid = m.xid => c = m
  BY DEF Queues, Asks
<1>7. Asks(b, top)
  <2> SUFFICES ASSUME NEW c \in b, IsAsk(c)
               PROVE  /\ c.xid <= top /\ 1 <= c.next /\ c.next <= MaxParts
                      /\ c.kind = "features" => c.next = 1
                      /\ \A e \in b : IsAsk(e) /\ e.xid = c.xid => e = c
    BY DEF Asks
  <2>1. /\ c.xid <= top /\ 1 <= c.next /\ c.next <= MaxParts
        /\ c.kind = "features" => c.next = 1
    BY <1>1, <1>4 DEF Queues, Asks
  <2>2. ASSUME NEW e \in b, IsAsk(e), e.xid = c.xid PROVE e = c
    <3>1. CASE c \in q /\ e \in q
      BY <2>2, <3>1 DEF Queues, Asks
    <3>2. CASE c \notin q \/ e \notin q
      <4>1. c.xid = m.xid /\ e.xid = m.xid
        BY <1>4, <2>2, <3>2
      <4>2. c \in Rest(m, last) /\ e \in Rest(m, last)
        BY <1>6, <2>2, <4>1
      <4> QED
        BY <4>2 DEF Rest
    <3> QED
      BY <3>1, <3>2
  <2> QED
    BY <2>1, <2>2
<1>8. Parts(r, top)
  <2> SUFFICES ASSUME NEW i \in 1 .. len + 1
               PROVE  /\ r[i].xid <= top /\ r[i].part <= MaxParts
                      /\ r[i].kind = "features" => r[i].last
                      /\ \A j \in 1 .. i - 1 : r[j].xid = r[i].xid => r[j].part < r[i].part
    BY <1>3 DEF Parts
  <2>1. CASE i = len + 1
    <3>1. \A j \in 1 .. i - 1 : j \in 1 .. len
      BY <1>3, <2>1
    <3> QED
      BY <1>1, <1>2, <1>3, <2>1, <3>1 DEF Queues, Apart, len
  <2>2. CASE i \in 1 .. len
    <3>1. i \in 1 .. Len(p) /\ r[i] = p[i] /\ \A j \in 1 .. i - 1 : r[j] = p[j]
      BY <1>3, <2>2 DEF len
    <3> QED
      BY <3>1 DEF Queues, Parts
  <2> QED
    BY <1>5, <2>1, <2>2
<1>9. Apart(b, r)
  <2> SUFFICES ASSUME NEW c \in b, NEW i \in 1 .. len + 1, IsAsk(c), r[i].xid = c.xid
               PROVE  r[i].part < c.next
    BY <1>3 DEF Apart
  <2>1. CASE i = len + 1
    BY <1>1, <1>2, <1>3, <1>4, <1>6, <2>1
  <2>2. CASE i \in 1 .. len
    <3>1. i \in 1 .. Len(p) /\ r[i] = p[i] /\ p[i].part \in Nat
      BY <1>3, <2>2 DEF len
    <3>2. CASE c \in q
      BY <3>1, <3>2 DEF Queues, Apart
    <3>3. CASE c.xid = m.xid /\ c.next = m.next + 1
      <4>1. p[i].part < m.next
        BY <3>1, <3>3 DEF Queues, Apart
      <4> QED
        BY <1>1, <3>1, <3>3, <4>1
    <3> QED
      BY <1>4, <3>2, <3>3
  <2> QED
    BY <1>5, <2>1, <2>2
<1>10. ASSUME NEW n \in Nat, NEW x, NEW k, Coming(q, p, n, x, k)
       PROVE  Coming(b, r, n, x, k)
  <2>1. ASSUME NEW y, Sent(p, len, x, y) PROVE Sent(r, len + 1, x, y)
    <3>1. PICK j \in 1 .. len : p[j].xid = x /\ p[j].part + 1 = y
      BY <2>1 DEF Sent
    <3>2. j \in 1 .. len + 1 /\ r[j] = p[j]
      BY <1>3
    <3> QED
      BY <3>1, <3>2 DEF Sent
  <2>2. m.xid = x => m.kind = k /\ (m.next = n + 1 \/ Sent(p, len, x, m.next))
    BY <1>10 DEF Coming, len
  <2>3. ASSUME NEW c \in b, IsAsk(c), c.xid = x
        PROVE  c.kind = k /\ (c.next = n + 1 \/ Sent(r, len + 1, x, c.next))
    <3>1. CASE c \in q
      BY <1>10, <2>1, <2>3, <3>1 DEF Coming, len
    <3>2. CASE c.kind = m.kind /\ c.xid = m.xid /\ c.next = m.next + 1
      <4>1. len + 1 \in 1 .. len + 1 /\ r[len + 1].xid = x /\ r[len + 1].part + 1 = c.next
        BY <1>2, <1>3, <2>3, <3>2
      <4> QED
        BY <2>2, <2>3, <3>2, <4>1 DEF Sent
    <3> QED
      BY <1>4, <3>1, <3>2
  <2>4. ASSUME NEW i \in 1 .. len + 1, r[i].xid = x
        PROVE  /\ r[i].kind = k /\ n < r[i].part
               /\ r[i].part = n + 1 \/ Sent(r, i - 1, x, r[i].part)
    <3>1. CASE i = len + 1
      <4>1. i - 1 = len /\ m.xid = x /\ r[i].kind = m.kind /\ r[i].part = m.next
        BY <1>2, <1>3, <2>4, <3>1
      <4>2. CASE m.next = n + 1
        BY <2>2, <4>1, <4>2
      <4>3. CASE Sent(p, len, x, m.next)
        <5>1. PICK j \in 1 .. len : p[j].xid = x /\ p[j].part + 1 = m.next
          BY <4>3 DEF Sent
        <5>2. r[j] = p[j] /\ p[j].part \in Nat
          BY <1>3
        <5>3. n < p[j].part
          BY <1>10, <5>1 DEF Coming, len
        <5> QED
          BY <1>1, <2>2, <4>1, <5>1, <5>2, <5>3 DEF Sent
      <4> QED
        BY <2>2, <4>1, <4>2, <4>3
    <3>2. CASE i \in 1 .. len
      <4>1. r[i] = p[i] /\ i \in 1 .. Len(p) /\ \A j \in 1 .. i - 1 : r[j] = p[j]
        BY <1>3, <3>2 DEF len
      <4> QED
        BY <1>10, <2>4, <4>1 DEF Coming, Sent
    <3> QED
      BY <1>5, <3>1, <3>2
  <2> QED
    BY <1>3, <2>3, <2>4 DEF Coming
<1>11. b \subseteq Sending
  BY <1>4
<1> QED
  BY <1>3, <1>7, <1>8, <1>9, <1>10, <1>11 DEF o, r, Queues

(***************************************************************************)
(* The first part of a queue is the next one for the thread that waits for *)
(* its xid, and those behind it follow on.                                 *)
(***************************************************************************)
LEMMA HandleFirst ==
    ASSUME NEW q \in SUBSET Sending, NEW p \in Seq(Part), p # <<>>, NEW last,
           Queues(q, p, last)
    PROVE  LET m == Head(p)
               s == Tail(p)
           IN  /\ Queues(q, s, last) /\ m.part <= MaxParts
               /\ m.kind = "features" => m.last
               /\ \A n, x, k : Coming(q, p, n, x, k) /\ m.xid # x => Coming(q, s, n, x, k)
               /\ \A n \in Nat : \A x, k : Coming(q, p, n, x, k) /\ m.xid = x =>
                     m.kind = k /\ m.part = n + 1 /\ Coming(q, s, n + 1, x, k)
<1> DEFINE m == Head(p)
           s == Tail(p)
           len == Len(p)
<1>1. /\ s \in Seq(Part) /\ len \in Nat \ {0} /\ Len(s) = len - 1 /\ m = p[1]
      /\ \A i \in 1 .. len - 1 : s[i] = p[i + 1]
  BY TailAt
<1>2. \A i \in 1 .. len : p[i].xid \in Nat /\ p[i].part \in Nat
  BY PartAt
<1>3. 1 \in 1 .. len /\ 1 - 1 = 0
  BY <1>1
<1> HIDE DEF m, s
<1>4. \A i \in 1 .. len - 1 : i + 1 \in 1 .. len /\ (i + 1) - 1 = i
  BY <1>1
<1>5. Parts(s, last)
  <2> SUFFICES ASSUME NEW i \in 1 .. len - 1
               PROVE  /\ s[i].xid <= last /\ s[i].part <= MaxParts
                      /\ s[i].kind = "features" => s[i].last
                      /\ \A j \in 1 .. i - 1 : s[j].xid = s[i].xid => s[j].part < s[i].part
    BY <1>1 DEF Parts
  <2>1. \A j \in 1 .. i - 1 : j \in 1 .. len - 1 /\ j + 1 \in 1 .. (i + 1) - 1
    BY <1>1
  <2> QED
    BY <1>1, <1>4, <2>1 DEF Queues, Parts
<1>6. Apart(q, s)
  BY <1>1, <1>4 DEF Queues, Apart
<1>7. m.part <= MaxParts /\ (m.kind = "features" => m.last)
  BY <1>1, <1>3 DEF Queues, Parts
<1>8. ASSUME NEW i \in 0 .. len - 1, NEW x, NEW y, Sent(p, i + 1, x, y)
      PROVE  Sent(s, i, x, y) \/ (m.xid = x /\ m.part + 1 = y)
  <2>1. PICK j \in 1 .. i + 1 : p[j].xid = x /\ p[j].part + 1 = y
    BY <1>8 DEF Sent
  <2>2. CASE j = 1
    BY <1>1, <2>1, <2>2
  <2>3. CASE j # 1
    <3>1. j - 1 \in 1 .. i /\ j - 1 \in 1 .. len - 1 /\ (j - 1) + 1 = j
      BY <1>1, <2>3
    <3>2. s[j - 1] = p[j]
      BY <1>1, <3>1
    <3> QED
      BY <2>1, <3>1, <3>2 DEF Sent
  <2> QED
    BY <2>2, <2>3
<1>9. len - 1 \in 0 .. len - 1 /\ (len - 1) + 1 = len
  BY <1>1
<1>10. ASSUME NEW n, NEW x, NEW k, Coming(q, p, n, x, k), m.xid # x
       PROVE  Coming(q, s, n, x, k)
  <2>1. \A c \in q : IsAsk(c) /\ c.xid = x =>
            c.kind = k /\ (c.next = n + 1 \/ Sent(s, len - 1, x, c.next))
    BY <1>8, <1>9, <1>10 DEF Coming
  <2>2. ASSUME NEW i \in 1 .. len - 1, s[i].xid = x
        PROVE  /\ s[i].kind = k /\ n < s[i].part
               /\ s[i].part = n + 1 \/ Sent(s, i - 1, x, s[i].part)
    <3>1. /\ s[i] = p[i + 1] /\ i + 1 \in 1 .. len /\ (i + 1) - 1 = (i - 1) + 1
          /\ i - 1 \in 0 .. len - 1
      BY <1>1, <1>4
    <3> QED
      BY <1>8, <1>10, <2>2, <3>1 DEF Coming
  <2> QED
    BY <1>1, <2>1, <2>2 DEF Coming
<1>11. ASSUME NEW n \in Nat, NEW x, NEW k, Coming(q, p, n, x, k), m.xid = x
       PROVE  m.kind = k /\ m.part = n + 1 /\ Coming(q, s, n + 1, x, k)
  <2>1. m.kind = k /\ m.part = n + 1
    <3>1. ~ Sent(p, 0, x, p[1].part)
      BY DEF Sent
    <3> QED
      BY <1>1, <1>3, <1>11, <3>1 DEF Coming
  <2>2. ASSUME NEW c \in q, IsAsk(c), c.xid = x
        PROVE  c.kind = k /\ (c.next = (n + 1) + 1 \/ Sent(s, len - 1, x, c.next))
    <3>1. c.next # n + 1
      BY <1>1, <1>3, <1>11, <2>1, <2>2 DEF Queues, Apart
    <3>2. c.kind = k /\ Sent(p, len, x, c.next)
      BY <1>11, <2>2, <3>1 DEF Coming
    <3> QED
      BY <1>8, <1>9, <2>1, <3>2
  <2>3. ASSUME NEW i \in 1 .. len - 1, s[i].xid = x
        PROVE  /\ s[i].kind = k /\ n + 1 < s[i].part
               /\ s[i].part = (n + 1) + 1 \/ Sent(s, i - 1, x, s[i].part)
    <3>1. /\ s[i] = p[i + 1] /\ i + 1 \in 1 .. len /\ (i + 1) - 1 = (i - 1) + 1
          /\ i - 1 \in 0 .. len - 1 /\ 1 \in 1 .. (i + 1) - 1
      BY <1>1, <1>4
    <3>2. n + 1 < s[i].part
      BY <1>1, <1>2, <1>11, <2>1, <2>3, <3>1 DEF Queues, Parts
    <3>3. s[i].kind = k /\ Sent(p, (i + 1) - 1, x, s[i].part)
      BY <1>2, <1>11, <2>3, <3>1, <3>2 DEF Coming
    <3> QED
      BY <1>8, <2>1, <3>1, <3>2, <3>3
  <2> QED
    BY <1>1, <2>1, <2>2, <2>3 DEF Coming
<1> QED
  BY <1>5, <1>6, <1>7, <1>10, <1>11 DEF m, s, Queues

-----------------------------------------------------------------------------
(***************************************************************************)
(* The inductive invariant.  A thread that waits holds parts 1 .. n of its *)
(* answer, and what is on the way to it goes on from there.                *)
(***************************************************************************)
QueueInv == \A d \in Datapaths : Queues(toSwitch[d], fromSwitch[d], lastXid[d])

IdleInv == \A t \in Threads : stage[t] = "idle" => msgs[t] = <<>>

WaitInv ==
    \A t \in Threads : Unanswered(t) =>
        LET r == request[t]
        IN  Coming(toSwitch[r.dp], fromSwitch[r.dp], Len(msgs[t]), r.xid, r.kind)

AnswerInv == TypeOK /\ QueueInv /\ IdleInv /\ WaitInv /\ WholeAnswer

LEMMA InitAnswerInv == Init => AnswerInv
<1> SUFFICES ASSUME Init PROVE AnswerInv
  OBVIOUS
<1>1. TypeOK
  <2>1. Len(<<>>) = 0 /\ 0 <= MaxParts /\ \A S : <<>> \in Seq(S)
    BY RestAssumption
  <2> QED
    BY <2>1 DEF Init, TypeOK
<1>2. 1 .. Len(<<>>) = {} /\ DOMAIN <<>> = {}
  OBVIOUS
<1>3. QueueInv
  BY <1>2 DEF Init, QueueInv, Queues, Asks, Parts, Apart
<1>4. IdleInv /\ WaitInv
  BY DEF Init, IdleInv, WaitInv, Unanswered, Pending
<1>5. WholeAnswer
  BY <1>2 DEF Init, WholeAnswer, InOrder
<1> QED
  BY <1>1, <1>3, <1>4, <1>5 DEF AnswerInv

\* What a thread that waits has asked for.
LEMMA AskedFor ==
    ASSUME RestInv, NEW t \in Threads, Unanswered(t)
    PROVE  /\ request[t].dp \in Datapaths /\ request[t].xid \in Nat
           /\ request[t].xid <= lastXid[request[t].dp]
<1>1. request[t].dp \in Datapaths /\ request[t].xid <= lastXid[request[t].dp]
  BY DEF RestInv, XidsTaken, Unanswered
<1>2. request[t] # NoRequest
  BY <1>1, RestAssumption DEF NoRequest
<1>3. request[t] \in [dp : Datapaths, xid : Nat, kind : Kinds]
  BY <1>2 DEF RestInv, ThreadTypes
<1> QED
  BY <1>1, <1>3

(***************************************************************************)
(* A step that leaves alone what the threads hold, and of the queues those *)
(* of other switches than d.                                               *)
(***************************************************************************)
LEMMA QueueStep ==
    ASSUME RestInv, AnswerInv, TypeOK', NEW d \in Datapaths, NEW q, NEW p, NEW last,
           toSwitch' = [toSwitch EXCEPT ![d] = q],
           fromSwitch' = [fromSwitch EXCEPT ![d] = p],
           lastXid' = [lastXid EXCEPT ![d] = last],
           UNCHANGED <<request, msgs, isSet>>,
           \A t \in Threads : stage'[t] = stage[t] \/ stage'[t] = "done",
           Queues(q, p, last),
           \A t \in Threads : Unanswered(t) /\ request[t].dp = d =>
               Coming(q, p, Len(msgs[t]), request[t].xid, request[t].kind)
    PROVE  AnswerInv'
<1>1. /\ toSwitch'[d] = q /\ fromSwitch'[d] = p /\ lastXid'[d] = last
      /\ \A e \in Datapaths : e # d => /\ toSwitch'[e] = toSwitch[e]
                                       /\ fromSwitch'[e] = fromSwitch[e]
                                       /\ lastXid'[e] = lastXid[e]
  BY DEF AnswerInv, TypeOK
<1>2. QueueInv'
  <2> SUFFICES ASSUME NEW e \in Datapaths
               PROVE  Queues(toSwitch'[e], fromSwitch'[e], lastXid'[e])
    BY DEF QueueInv
  <2>1. CASE e = d
    BY <1>1, <2>1
  <2>2. CASE e # d
    BY <1>1, <2>2 DEF AnswerInv, QueueInv
  <2> QED
    BY <2>1, <2>2
<1>3. IdleInv'
  BY DEF AnswerInv, IdleInv
<1>4. WaitInv'
  <2> SUFFICES ASSUME NEW t \in Threads, Unanswered(t)'
               PROVE  Coming(toSwitch'[request[t].dp], fromSwitch'[request[t].dp],
                             Len(msgs[t]), request[t].xid, request[t].kind)
    BY DEF WaitInv
  <2>1. Unanswered(t)
    BY DEF Unanswered, Pending
  <2>2. CASE request[t].dp = d
    BY <1>1, <2>1, <2>2
  <2>3. CASE request[t].dp # d
    <3>1. request[t].dp \in Datapaths
      BY <2>1, AskedFor
    <3> QED
      BY <1>1, <2>1, <2>3, <3>1 DEF AnswerInv, WaitInv
  <2> QED
    BY <2>2, <2>3
<1>5. WholeAnswer'
  BY DEF AnswerInv, WholeAnswer, InOrder
<1> QED
  BY <1>2, <1>3, <1>4, <1>5 DEF AnswerInv

\* A step that leaves all queues alone and makes nobody wait.
LEMMA StageStep ==
    ASSUME AnswerInv, TypeOK',
           UNCHANGED <<toSwitch, fromSwitch, lastXid, request, msgs, isSet>>,
           \A t \in Threads : /\ stage'[t] = "idle" => stage[t] = "idle"
                              /\ stage'[t] \in {"waiting", "woken"} =>
                                    stage[t] \in {"waiting", "woken"}
    PROVE  AnswerInv'
<1>1. QueueInv' /\ IdleInv'
  BY DEF AnswerInv, QueueInv, IdleInv
<1>2. WaitInv'
  <2> SUFFICES ASSUME NEW t \in Threads, Unanswered(t)'
               PROVE  Coming(toSwitch[request[t].dp], fromSwitch[request[t].dp],
                             Len(msgs[t]), request[t].xid, request[t].kind)
    BY DEF WaitInv
  <2>1. Unanswered(t)
    BY DEF Unanswered, Pending
  <2> QED
    BY <2>1 DEF AnswerInv, WaitInv
<1>3. WholeAnswer'
  BY DEF AnswerInv, WholeAnswer, InOrder
<1> QED
  BY <1>1, <1>2, <1>3 DEF AnswerInv

-----------------------------------------------------------------------------
(* Types *)

NetTypes ==
    /\ dpset \subseteq Datapaths
    /\ lastXid \in [Datapaths -> Nat]
    /\ toSwitch \in [Datapaths -> SUBSET Sending]
    /\ fromSwitch \in [Datapaths -> Seq(Part)]

StageTypes ==
    /\ stage \in [Threads -> {"idle", "waiting", "woken", "done"}]
    /\ status \in [Threads -> {0, 200, 400, 404, 500, 501}]

AskTypes ==
    /\ waiters \subseteq Waiter
    /\ request \in [Threads -> [dp : Datapaths, xid : Nat, kind : Kinds] \cup {NoRequest}]
    /\ isSet \in [Threads -> BOOLEAN]

ListTypes ==
    /\ msgs \in [Threads -> Seq(Part)]
    /\ seen \in [Threads -> Nat]
    /\ \A t \in Threads : seen[t] <= Len(msgs[t]) /\ Len(msgs[t]) <= MaxParts

LEMMA TypeParts ==
    /\ TypeOK <=> NetTypes /\ StageTypes /\ AskTypes /\ ListTypes
    /\ TypeOK' <=> NetTypes' /\ StageTypes' /\ AskTypes' /\ ListTypes'
BY Zenon DEF TypeOK, NetTypes, StageTypes, AskTypes, ListTypes

LEMMA NetUnchanged ==
    ASSUME NetTypes, UNCHANGED <<dpset, lastXid, toSwitch, fromSwitch>>
    PROVE  NetTypes'
BY DEF NetTypes

LEMMA StageUnchanged ==
    ASSUME StageTypes, UNCHANGED <<stage, status>>
    PROVE  StageTypes'
BY DEF StageTypes

LEMMA AskUnchanged ==
    ASSUME AskTypes, waiters' \subseteq waiters, UNCHANGED <<request, isSet>>
    PROVE  AskTypes'
BY DEF AskTypes

LEMMA ListUnchanged ==
    ASSUME ListTypes, UNCHANGED <<msgs, seen>>
    PROVE  ListTypes'
BY DEF ListTypes

LEMMA StatusType ==
    ASSUME NEW r \in Requests
    PROVE  StatusOf(r) \in {0, 200, 400, 404, 500, 501}
BY DEF StatusOf, StatsStatus, CommandStatus, MethodStatus

\* A command that is not refused names a switch that is connected.
LEMMA CommandedSwitch ==
    ASSUME TypeOK, NEW r \in Requests, IsCommand(r), StatusOf(r) = 200
    PROVE  r.dpid \in Datapaths
<1>1. r.dpid \in dpset
  <2>1. CASE IsStats(r)
    BY <2>1 DEF StatusOf, StatsStatus
  <2>2. CASE ~ IsStats(r)
    BY <2>2 DEF StatusOf, CommandStatus
  <2> QED
    BY <2>1, <2>2
<1> QED
  BY <1>1 DEF TypeOK

-----------------------------------------------------------------------------
(* One lemma per kind of action *)

LEMMA ThreadKeepsAnswers ==
    ASSUME RestInv, AnswerInv, NEW t \in Threads,
           Thread(t) \/ \E r \in Requests : Answer(t, r)
    PROVE  AnswerInv'
<1> USE DEF thread, network
<1>0. NetTypes /\ StageTypes /\ AskTypes /\ ListTypes
  BY TypeParts DEF AnswerInv
<1>1. ASSUME NEW r \in Requests, Answer(t, r) PROVE AnswerInv'
  <2>1. /\ stage' = [stage EXCEPT ![t] = "done"] /\ status' = [status EXCEPT ![t] = StatusOf(r)]
        /\ UNCHANGED <<waiters, lastXid, request, msgs, seen, isSet, dpset, toSwitch, fromSwitch>>
    BY <1>1 DEF Answer, Respond
  <2>2. StageTypes' /\ \A u \in Threads : stage'[u] = stage[u] \/ stage'[u] = "done"
    BY <1>0, <2>1, StatusType DEF StageTypes
  <2>3. TypeOK'
    BY <1>0, <2>1, <2>2, TypeParts, NetUnchanged, AskUnchanged, ListUnchanged
  <2> QED
    BY <2>1, <2>2, <2>3, StageStep
<1>2. CASE WaitEnds(t)
  <2>1. /\ stage[t] = "waiting" /\ stage' = [stage EXCEPT ![t] = "woken"]
        /\ UNCHANGED <<waiters, lastXid, request, msgs, seen, isSet, status, dpset, toSwitch,
                       fromSwitch>>
    BY <1>2 DEF WaitEnds
  <2>2. /\ StageTypes'
        /\ \A u \in Threads : stage'[u] = stage[u] \/ (u = t /\ stage'[u] = "woken")
    BY <1>0, <2>1 DEF StageTypes
  <2>3. TypeOK'
    BY <1>0, <2>1, <2>2, TypeParts, NetUnchanged, AskUnchanged, ListUnchanged
  <2> QED
    BY <2>1, <2>2, <2>3, StageStep
<1>3. CASE WaitAgain(t)
  <2>1. /\ seen' = [seen EXCEPT ![t] = Len(msgs[t])]
        /\ stage[t] = "woken" /\ stage' = [stage EXCEPT ![t] = "waiting"]
        /\ UNCHANGED <<waiters, lastXid, request, msgs, isSet, status, dpset, toSwitch, fromSwitch>>
    BY <1>3 DEF WaitAgain
  <2>2. /\ StageTypes'
        /\ \A u \in Threads : stage'[u] = stage[u] \/ (u = t /\ stage'[u] = "waiting")
    BY <1>0, <2>1 DEF StageTypes
  <2>3. \A u \in Threads : Len(msgs[u]) \in Nat
    BY <1>0, LenProperties DEF ListTypes
  <2>4. ListTypes'
    BY <1>0, <2>1, <2>3 DEF ListTypes
  <2>5. TypeOK'
    BY <1>0, <2>1, <2>2, <2>4, TypeParts, NetUnchanged, AskUnchanged
  <2> QED
    BY <2>1, <2>2, <2>5, StageStep
<1>4. CASE AnswerStats(t)
  <2>1. /\ waiters' \subseteq waiters
        /\ stage' = [stage EXCEPT ![t] = "done"] /\ status' = [status EXCEPT ![t] = 200]
        /\ UNCHANGED <<lastXid, request, msgs, seen, isSet, dpset, toSwitch, fromSwitch>>
    BY <1>4 DEF AnswerStats, Respond, Forget
  <2>2. StageTypes' /\ \A u \in Threads : stage'[u] = stage[u] \/ stage'[u] = "done"
    BY <1>0, <2>1 DEF StageTypes
  <2>3. TypeOK'
    BY <1>0, <2>1, <2>2, TypeParts, NetUnchanged, AskUnchanged, ListUnchanged
  <2> QED
    BY <2>1, <2>2, <2>3, StageStep
<1> QED
  BY <1>1, <1>2, <1>3, <1>4 DEF Thread

\* What the invariant says of one switch.
LEMMA AtSwitch ==
    ASSUME AnswerInv, NEW d \in Datapaths
    PROVE  /\ toSwitch[d] \in SUBSET Sending /\ fromSwitch[d] \in Seq(Part) /\ lastXid[d] \in Nat
           /\ Queues(toSwitch[d], fromSwitch[d], lastXid[d])
           /\ \A u \in Threads : Unanswered(u) /\ request[u].dp = d =>
                 Coming(toSwitch[d], fromSwitch[d], Len(msgs[u]), request[u].xid,
                        request[u].kind)
           /\ \A u \in Threads : msgs[u] \in Seq(Part) /\ Len(msgs[u]) \in Nat
<1>1. \A u \in Threads : msgs[u] \in Seq(Part) /\ Len(msgs[u]) \in Nat
  BY LenProperties DEF AnswerInv, TypeOK
<1> QED
  BY <1>1 DEF AnswerInv, TypeOK, QueueInv, WaitInv

LEMMA CommandKeepsAnswers ==
    ASSUME RestInv, AnswerInv, NEW t \in Threads, NEW r \in Requests, Command(t, r)
    PROVE  AnswerInv'
<1> DEFINE d == r.dpid
           x == lastXid[d] + 1
           m == Message("command", x)
           q == toSwitch[d] \cup {m}
           p == fromSwitch[d]
<1>0. TypeOK /\ NetTypes /\ StageTypes /\ AskTypes /\ ListTypes
  BY TypeParts DEF AnswerInv
<1>1. d \in Datapaths
  BY <1>0, CommandedSwitch DEF Command
<1>2. toSwitch[d] \in SUBSET Sending /\ p \in Seq(Part) /\ lastXid[d] \in Nat
  BY <1>1, AtSwitch
<1>3. m \in Sending /\ ~ IsAsk(m)
  BY <1>2 DEF Sending, IsAsk, Message
<1>4. /\ toSwitch' = [toSwitch EXCEPT ![d] = q] /\ lastXid' = [lastXid EXCEPT ![d] = x]
      /\ stage' = [stage EXCEPT ![t] = "done"] /\ status' = [status EXCEPT ![t] = 200]
      /\ UNCHANGED <<waiters, dpset, fromSwitch, request, msgs, seen, isSet>>
  BY DEF Command, Respond
<1>5. fromSwitch' = [fromSwitch EXCEPT ![d] = p]
  BY <1>0, <1>4 DEF NetTypes
<1> HIDE DEF m
<1>6. TypeOK'
  <2>1. NetTypes' /\ StageTypes'
    BY <1>0, <1>1, <1>2, <1>3, <1>4 DEF NetTypes, StageTypes
  <2> QED
    BY <1>0, <1>4, <2>1, TypeParts, AskUnchanged, ListUnchanged
<1>7. Queues(toSwitch[d], p, lastXid[d])
  BY <1>1, AtSwitch
<1>8. /\ Queues(q, p, x)
      /\ \A n, y, k : Coming(toSwitch[d], p, n, y, k) => Coming(q, p, n, y, k)
  BY <1>2, <1>3, <1>7, SendCommand
<1>9. ASSUME NEW u \in Threads, Unanswered(u), request[u].dp = d
      PROVE  Coming(q, p, Len(msgs[u]), request[u].xid, request[u].kind)
  BY <1>1, <1>8, <1>9, AtSwitch
<1>10. \A u \in Threads : stage'[u] = stage[u] \/ stage'[u] = "done"
  BY <1>0, <1>4 DEF StageTypes
<1> HIDE DEF q, p, x, d
<1> QED
  BY <1>1, <1>4, <1>5, <1>6, <1>8, <1>9, <1>10, QueueStep

LEMMA ConnectionKeepsAnswers ==
    ASSUME RestInv, AnswerInv, NEW d \in Datapaths, Disconnect(d) \/ Reconnect(d)
    PROVE  AnswerInv'
<1> USE DEF thread, network
<1>0. NetTypes /\ StageTypes /\ AskTypes /\ ListTypes
  BY TypeParts DEF AnswerInv
<1>1. CASE Reconnect(d)
  <2>1. /\ dpset' = dpset \cup {d}
        /\ UNCHANGED <<waiters, lastXid, toSwitch, fromSwitch, stage, request, msgs, seen, isSet,
                       status>>
    BY <1>1 DEF Reconnect
  <2>2. NetTypes'
    BY <1>0, <2>1 DEF NetTypes
  <2>3. TypeOK'
    BY <1>0, <2>1, <2>2, TypeParts, StageUnchanged, AskUnchanged, ListUnchanged
  <2> QED
    BY <2>1, <2>3, StageStep
<1>2. CASE Disconnect(d)
  <2>1. PICK keep \in 0 .. Len(fromSwitch[d]) : Lose(d, keep)
    BY <1>2 DEF Disconnect
  <2> DEFINE p == SubSeq(fromSwitch[d], 1, keep)
             q == {}
  <2>2. fromSwitch[d] \in Seq(Part) /\ p \in Seq(Part)
    BY <1>0, PrefixAt DEF NetTypes
  <2>3. /\ toSwitch' = [toSwitch EXCEPT ![d] = q] /\ fromSwitch' = [fromSwitch EXCEPT ![d] = p]
        /\ dpset' \subseteq dpset
        /\ UNCHANGED <<waiters, lastXid, stage, request, msgs, seen, isSet, status>>
    BY <1>2, <2>1 DEF Disconnect, Lose
  <2>4. lastXid' = [lastXid EXCEPT ![d] = lastXid[d]]
    BY <1>0, <2>3 DEF NetTypes
  <2>5. TypeOK'
    <3>1. NetTypes'
      BY <1>0, <2>2, <2>3 DEF NetTypes
    <3> QED
      BY <1>0, <2>3, <3>1, TypeParts, StageUnchanged, AskUnchanged, ListUnchanged
  <2>6. Parts(fromSwitch[d], lastXid[d])
    BY DEF AnswerInv, QueueInv, Queues
  <2>7. /\ Queues(q, p, lastXid[d])
        /\ \A o, n, x, k : Coming(o, fromSwitch[d], n, x, k) => Coming(q, p, n, x, k)
    BY <2>2, <2>6, LoseRest
  <2>8. ASSUME NEW u \in Threads, Unanswered(u), request[u].dp = d
        PROVE  Coming(q, p, Len(msgs[u]), request[u].xid, request[u].kind)
    BY <2>7, <2>8, AtSwitch
  <2>9. \A u \in Threads : stage'[u] = stage[u] \/ stage'[u] = "done"
    BY <2>3
  <2> HIDE DEF p, q
  <2> QED
    BY <2>3, <2>4, <2>5, <2>7, <2>8, <2>9, QueueStep
<1> QED
  BY <1>1, <1>2

LEMMA SwitchKeepsAnswers ==
    ASSUME RestInv, AnswerInv, NEW d \in Datapaths, TakeCommand(d) \/ Reply(d)
    PROVE  AnswerInv'
<1> USE DEF thread, network
<1>0. NetTypes /\ StageTypes /\ AskTypes /\ ListTypes
  BY TypeParts DEF AnswerInv
<1>1. /\ toSwitch[d] \in SUBSET Sending /\ fromSwitch[d] \in Seq(Part) /\ lastXid[d] \in Nat
      /\ Queues(toSwitch[d], fromSwitch[d], lastXid[d])
  BY AtSwitch
<1>2. /\ UNCHANGED <<waiters, lastXid, dpset, stage, request, msgs, seen, isSet, status>>
      /\ lastXid' = [lastXid EXCEPT ![d] = lastXid[d]]
  BY <1>0 DEF TakeCommand, Reply, NetTypes
<1>3. PICK q \in SUBSET Sending, p \in Seq(Part) :
         /\ toSwitch' = [toSwitch EXCEPT ![d] = q]
         /\ fromSwitch' = [fromSwitch EXCEPT ![d] = p]
         /\ Queues(q, p, lastXid[d])
         /\ \A n \in Nat : \A x, k : Coming(toSwitch[d], fromSwitch[d], n, x, k)
               => Coming(q, p, n, x, k)
  <2>1. CASE TakeCommand(d)
    <3>1. PICK m \in toSwitch[d] : toSwitch' = [toSwitch EXCEPT ![d] = @ \ {m}]
      BY <2>1 DEF TakeCommand
    <3>2. fromSwitch' = [fromSwitch EXCEPT ![d] = fromSwitch[d]]
      BY <1>0, <2>1 DEF TakeCommand, NetTypes
    <3>3. /\ Queues(toSwitch[d] \ {m}, fromSwitch[d], lastXid[d])
          /\ \A n, x, k : Coming(toSwitch[d], fromSwitch[d], n, x, k)
                => Coming(toSwitch[d] \ {m}, fromSwitch[d], n, x, k)
      BY <1>1, TakeMessage
    <3>4. toSwitch[d] \ {m} \in SUBSET Sending
      BY <1>1
    <3> QED
      BY <1>1, <3>1, <3>2, <3>3, <3>4
  <2>2. CASE Reply(d)
    <3>1. PICK m \in toSwitch[d], last \in BOOLEAN :
            /\ IsAsk(m) /\ (m.kind = "features" \/ m.next = MaxParts => last)
            /\ fromSwitch' = [fromSwitch EXCEPT ![d] = Append(@, PartOf(m, last))]
            /\ toSwitch' = [toSwitch EXCEPT ![d] = (@ \ {m}) \cup Rest(m, last)]
      BY <2>2 DEF Reply, IsAsk
    <3> DEFINE s == toSwitch[d]
               f == fromSwitch[d]
               b == (s \ {m}) \cup Rest(m, last)
               r == Append(f, PartOf(m, last))
               top == lastXid[d]
    <3>2. s \in SUBSET Sending /\ f \in Seq(Part) /\ m \in s /\ Queues(s, f, top)
      BY <1>1
    <3> HIDE DEF s, f, top
    <3>3. /\ b \subseteq Sending /\ r \in Seq(Part)
          /\ Queues(b, r, top)
          /\ \A n \in Nat : \A x, k : Coming(s, f, n, x, k) => Coming(b, r, n, x, k)
      BY <3>1, <3>2, SendPart
    <3> HIDE DEF b, r
    <3>4. toSwitch' = [toSwitch EXCEPT ![d] = b] /\ fromSwitch' = [fromSwitch EXCEPT ![d] = r]
      BY <3>1 DEF b, r, s, f
    <3> QED
      BY <3>3, <3>4 DEF s, f, top
  <2> QED
    BY <2>1, <2>2
<1>4. TypeOK'
  <2>1. NetTypes'
    BY <1>0, <1>2, <1>3 DEF NetTypes
  <2> QED
    BY <1>0, <1>2, <2>1, TypeParts, StageUnchanged, AskUnchanged, ListUnchanged
<1>5. ASSUME NEW u \in Threads, Unanswered(u), request[u].dp = d
      PROVE  Coming(q, p, Len(msgs[u]), request[u].xid, request[u].kind)
  BY <1>3, <1>5, AtSwitch
<1>6. \A u \in Threads : stage'[u] = stage[u] \/ stage'[u] = "done"
  BY <1>2
<1> QED
  BY <1>2, <1>3, <1>4, <1>5, <1>6, QueueStep

\* Asking: no part and no other request has the new xid.
LEMMA AskKeepsAnswers ==
    ASSUME RestInv, AnswerInv, NEW t \in Threads, NEW r \in Requests, AskStats(t, r)
    PROVE  AnswerInv'
<1> DEFINE d == r.dpid
           x == lastXid[d] + 1
           k == ReplyKind(r)
           w == [dp |-> d, xid |-> x, thread |-> t]
           q == toSwitch[d] \cup {Message(k, x)}
           p == fromSwitch[d]
<1>0. TypeOK /\ NetTypes /\ StageTypes /\ AskTypes /\ ListTypes
  BY TypeParts DEF AnswerInv
<1>1. d \in Datapaths
  BY <1>0, AskedSwitch DEF AskStats, NetTypes
<1>2. /\ toSwitch[d] \in SUBSET Sending /\ p \in Seq(Part) /\ lastXid[d] \in Nat
      /\ Queues(toSwitch[d], p, lastXid[d])
  BY <1>1, AtSwitch
<1>3. x \in Nat /\ k \in Kinds
  BY <1>2 DEF ReplyKind, Kinds
<1>4. q \in SUBSET Sending
  BY <1>2, <1>3 DEF Sending, Message
<1>5. /\ stage[t] = "idle" /\ stage' = [stage EXCEPT ![t] = "waiting"]
      /\ lastXid' = [lastXid EXCEPT ![d] = x]
      /\ waiters' = Register(waiters, w)
      /\ toSwitch' = [toSwitch EXCEPT ![d] = q]
      /\ request' = [request EXCEPT ![t] = [dp |-> d, xid |-> x, kind |-> k]]
      /\ UNCHANGED <<dpset, fromSwitch, msgs, seen, isSet, status>>
  BY DEF AskStats
<1>6. msgs[t] = <<>> /\ ~ isSet[t]
  BY <1>5 DEF AnswerInv, IdleInv, RestInv, IdleIsUnset
<1>7. /\ Queues(q, p, x)
      /\ Coming(q, p, 0, x, k)
      /\ \A n, h : \A y \in Nat : y <= lastXid[d] /\ Coming(toSwitch[d], p, n, y, h)
            => Coming(q, p, n, y, h)
  <2> DEFINE s == toSwitch[d]
             last == lastXid[d]
  <2>1. s \in SUBSET Sending /\ last \in Nat /\ Queues(s, p, last) /\ p \in Seq(Part) /\ k \in Kinds
    BY <1>2, <1>3
  <2> HIDE DEF s, last, k, p
  <2>2. LET a == s \cup {Message(k, last + 1)}
        IN  /\ Queues(a, p, last + 1)
            /\ Coming(a, p, 0, last + 1, k)
            /\ \A n, h : \A y \in Nat : y <= last /\ Coming(s, p, n, y, h) => Coming(a, p, n, y, h)
    BY <2>1, SendAsk
  <2> QED
    BY <2>2 DEF s, last
<1>8. TypeOK'
  <2>1. NetTypes'
    BY <1>0, <1>1, <1>3, <1>4, <1>5 DEF NetTypes
  <2>2. StageTypes'
    BY <1>0, <1>5 DEF StageTypes
  <2>3. w \in Waiter
    BY <1>1, <1>3 DEF Waiter
  <2>4. waiters' \subseteq Waiter
    BY <1>0, <1>5, <2>3 DEF AskTypes, Register
  <2>5. [dp |-> d, xid |-> x, kind |-> k] \in [dp : Datapaths, xid : Nat, kind : Kinds]
    BY <1>1, <1>3
  <2> HIDE DEF d, x, k
  <2>6. AskTypes'
    BY <1>0, <1>5, <2>4, <2>5 DEF AskTypes
  <2> QED
    BY <1>0, <1>5, <2>1, <2>2, <2>6, TypeParts, ListUnchanged
<1>9. /\ lastXid'[d] = x /\ toSwitch'[d] = q /\ fromSwitch'[d] = p
      /\ \A e \in Datapaths : e # d => /\ lastXid'[e] = lastXid[e]
                                       /\ toSwitch'[e] = toSwitch[e]
                                       /\ fromSwitch'[e] = fromSwitch[e]
  BY <1>0, <1>1, <1>5 DEF NetTypes
<1>10. /\ stage'[t] = "waiting"
       /\ request'[t].dp = d /\ request'[t].xid = x /\ request'[t].kind = k
       /\ \A u \in Threads : u # t => stage'[u] = stage[u] /\ request'[u] = request[u]
  BY <1>0, <1>5 DEF StageTypes, AskTypes
<1>11. p = fromSwitch[d]
  OBVIOUS
<1> HIDE DEF q, p, x, k, d, w
<1>12. QueueInv'
  <2> SUFFICES ASSUME NEW e \in Datapaths
               PROVE  Queues(toSwitch'[e], fromSwitch'[e], lastXid'[e])
    BY DEF QueueInv
  <2>1. CASE e = d
    BY <1>7, <1>9, <2>1
  <2>2. CASE e # d
    BY <1>9, <2>2 DEF AnswerInv, QueueInv
  <2> QED
    BY <2>1, <2>2
<1>13. IdleInv'
  BY <1>5, <1>10 DEF AnswerInv, IdleInv
<1>14. WaitInv'
  <2> SUFFICES ASSUME NEW u \in Threads, Unanswered(u)'
               PROVE  Coming(toSwitch'[request'[u].dp], fromSwitch'[request'[u].dp],
                             Len(msgs[u]), request'[u].xid, request'[u].kind)
    BY <1>5 DEF WaitInv
  <2>1. CASE u = t
    <3>1. Len(msgs[u]) = 0
      BY <1>6, <2>1
    <3> QED
      BY <1>7, <1>9, <1>10, <2>1, <3>1
  <2>2. CASE u # t
    <3>1. request'[u] = request[u] /\ Unanswered(u)
      BY <1>5, <1>10, <2>2 DEF Unanswered, Pending
    <3>2. /\ request[u].dp \in Datapaths /\ request[u].xid \in Nat
          /\ request[u].xid <= lastXid[request[u].dp]
      BY <3>1, AskedFor
    <3>3. Coming(toSwitch[request[u].dp], fromSwitch[request[u].dp],
                 Len(msgs[u]), request[u].xid, request[u].kind)
      BY <3>1 DEF AnswerInv, WaitInv
    <3>4. CASE request[u].dp = d
      BY <1>7, <1>9, <1>11, <3>1, <3>2, <3>3, <3>4
    <3>5. CASE request[u].dp # d
      BY <1>9, <3>1, <3>2, <3>3, <3>5
    <3> QED
      BY <3>4, <3>5
  <2> QED
    BY <2>1, <2>2
<1>15. WholeAnswer'
  <2> SUFFICES ASSUME NEW u \in Threads
               PROVE  InOrder(u)' /\ (isSet'[u] <=> \E i \in DOMAIN msgs'[u] : msgs'[u][i].last)
    BY DEF WholeAnswer
  <2>1. CASE u = t
    <3>1. DOMAIN msgs'[u] = {} /\ ~ isSet'[u]
      BY <1>5, <1>6, <2>1
    <3> QED
      BY <3>1 DEF InOrder
  <2>2. CASE u # t
    BY <1>5, <1>10, <2>2 DEF InOrder, AnswerInv, WholeAnswer
  <2> QED
    BY <2>1, <2>2
<1> QED
  BY <1>8, <1>12, <1>13, <1>14, <1>15 DEF AnswerInv

\* Whose entry a part finds in self.waiters.
Awaits(t, d, m) == Unanswered(t) /\ request[t].dp = d /\ request[t].xid = m.xid

LEMMA PartFinds ==
    ASSUME RestInv, NEW d \in Datapaths, NEW m, NEW t \in Threads
    PROVE  (\E w \in WaitersFor(d, m) : w.thread = t) <=> Awaits(t, d, m)
<1>1. \A w : w \in waiters <=> \E u \in Threads : Unanswered(u) /\ w = WaiterOf(u)
  BY EntryByEntry DEF RestInv
<1>2. \A u \in Threads : /\ WaiterOf(u).dp = request[u].dp
                         /\ WaiterOf(u).xid = request[u].xid
                         /\ WaiterOf(u).thread = u
  BY DEF WaiterOf
<1>3. \A w : w \in WaitersFor(d, m) <=> w \in waiters /\ w.dp = d /\ w.xid = m.xid
  BY DEF WaitersFor
<1>4. ASSUME NEW w \in WaitersFor(d, m), w.thread = t PROVE Awaits(t, d, m)
  BY <1>1, <1>2, <1>3, <1>4 DEF Awaits
<1>5. ASSUME Awaits(t, d, m) PROVE \E w \in WaitersFor(d, m) : w.thread = t
  <2>1. WaiterOf(t) \in WaitersFor(d, m)
    BY <1>1, <1>2, <1>3, <1>5 DEF Awaits
  <2> QED
    BY <1>2, <2>1
<1> QED
  BY <1>4, <1>5

\* The first part of a queue, and what is left behind it.
LEMMA FirstPart ==
    ASSUME RestInv, AnswerInv, NEW d \in Datapaths, fromSwitch[d] # <<>>
    PROVE  LET m == Head(fromSwitch[d])
               s == Tail(fromSwitch[d])
           IN  /\ m \in Part /\ s \in Seq(Part)
               /\ Queues(toSwitch[d], s, lastXid[d]) /\ m.part <= MaxParts
               /\ m.kind = "features" => m.last
               /\ \A t \in Threads : Unanswered(t) /\ request[t].dp = d =>
                     IF request[t].xid = m.xid
                     THEN /\ m.kind = request[t].kind /\ m.part = Len(msgs[t]) + 1
                          /\ Coming(toSwitch[d], s, Len(msgs[t]) + 1, request[t].xid,
                                    request[t].kind)
                     ELSE Coming(toSwitch[d], s, Len(msgs[t]), request[t].xid, request[t].kind)
<1> DEFINE q == toSwitch[d]
           p == fromSwitch[d]
           m == Head(p)
           s == Tail(p)
           last == lastXid[d]
<1>1. /\ q \in SUBSET Sending /\ p \in Seq(Part) /\ p # <<>> /\ Queues(q, p, last)
      /\ \A t \in Threads : Unanswered(t) /\ request[t].dp = d =>
            Coming(q, p, Len(msgs[t]), request[t].xid, request[t].kind)
      /\ \A t \in Threads : Len(msgs[t]) \in Nat
  BY AtSwitch
<1> HIDE DEF q, p, last
<1>2. m \in Part /\ s \in Seq(Part)
  BY <1>1, TailAt
<1>3. /\ Queues(q, s, last) /\ m.part <= MaxParts
      /\ m.kind = "features" => m.last
      /\ \A n, x, k : Coming(q, p, n, x, k) /\ m.xid # x => Coming(q, s, n, x, k)
      /\ \A n \in Nat : \A x, k : Coming(q, p, n, x, k) /\ m.xid = x =>
            m.kind = k /\ m.part = n + 1 /\ Coming(q, s, n + 1, x, k)
  BY <1>1, HandleFirst
<1> HIDE DEF m, s
<1>4. ASSUME NEW t \in Threads, Unanswered(t), request[t].dp = d
      PROVE  IF request[t].xid = m.xid
             THEN /\ m.kind = request[t].kind /\ m.part = Len(msgs[t]) + 1
                  /\ Coming(q, s, Len(msgs[t]) + 1, request[t].xid, request[t].kind)
             ELSE Coming(q, s, Len(msgs[t]), request[t].xid, request[t].kind)
  BY <1>1, <1>3, <1>4
<1> QED
  BY <1>2, <1>3, <1>4 DEF m, s, q, p, last

\* The first parts of the answer to xid x.
Beginning(l, x, k) ==
    \A i \in DOMAIN l : /\ l[i].part = i /\ l[i].xid = x /\ l[i].kind = k
                        /\ l[i].last => i = Len(l)

HasLast(l) == \E i \in DOMAIN l : l[i].last

LEMMA ListGrows ==
    ASSUME NEW l \in Seq(Part), NEW m \in Part, NEW x, NEW k,
           m.xid = x, m.kind = k, m.part = Len(l) + 1, Beginning(l, x, k), ~ HasLast(l)
    PROVE  /\ Append(l, m) \in Seq(Part) /\ Len(Append(l, m)) = Len(l) + 1
           /\ Beginning(Append(l, m), x, k)
           /\ m.last <=> HasLast(Append(l, m))
<1> DEFINE a == Append(l, m)
           n == Len(l)
<1>1. /\ a \in Seq(Part) /\ n \in Nat /\ Len(a) = n + 1
      /\ \A i \in 1 .. n : a[i] = l[i]
      /\ a[n + 1] = m
  BY AppendAt
<1>2. DOMAIN a = 1 .. n + 1 /\ DOMAIN l = 1 .. n
  BY <1>1, LenProperties
<1> HIDE DEF a, n
<1>3. \A i \in 1 .. n + 1 : i = n + 1 \/ i \in 1 .. n
  BY <1>1
<1>4. n + 1 \in 1 .. n + 1
  BY <1>1
<1>5. ASSUME NEW i \in 1 .. n + 1
      PROVE  /\ a[i].part = i /\ a[i].xid = x /\ a[i].kind = k
             /\ a[i].last => i = n + 1
  <2>1. CASE i = n + 1
    BY <1>1, <2>1 DEF n
  <2>2. CASE i \in 1 .. n
    BY <1>1, <1>2, <2>2 DEF Beginning, HasLast
  <2> QED
    BY <1>3, <2>1, <2>2
<1>6. m.last <=> HasLast(a)
  BY <1>1, <1>2, <1>4, <1>5 DEF HasLast
<1>7. Beginning(a, x, k)
  BY <1>1, <1>2, <1>5 DEF Beginning
<1> QED
  BY <1>1, <1>6, <1>7 DEF a, n

\* What a thread holds once it has got the first part of a queue.
LEMMA PartAdded ==
    ASSUME RestInv, AnswerInv, NEW d \in Datapaths, fromSwitch[d] # <<>>,
           NEW t \in Threads, Awaits(t, d, Head(fromSwitch[d]))
    PROVE  LET m == Head(fromSwitch[d])
               a == Append(msgs[t], m)
           IN  /\ a \in Seq(Part) /\ Len(a) = Len(msgs[t]) + 1
               /\ Beginning(a, request[t].xid, request[t].kind)
               /\ m.last <=> HasLast(a)
<1> DEFINE m == Head(fromSwitch[d])
           l == msgs[t]
           x == request[t].xid
           k == request[t].kind
<1>1. ~ isSet[t] /\ Unanswered(t) /\ request[t].dp = d /\ m.xid = x
  BY DEF Awaits, Unanswered
<1>2. Beginning(l, x, k) /\ ~ HasLast(l)
  BY <1>1 DEF AnswerInv, WholeAnswer, InOrder, Beginning, HasLast
<1>3. l \in Seq(Part)
  BY DEF AnswerInv, TypeOK
<1>4. m \in Part /\ m.kind = k /\ m.part = Len(l) + 1
  BY <1>1, FirstPart
<1>5. m.xid = x
  BY <1>1
<1> HIDE DEF l, m, x, k
<1>6. /\ Append(l, m) \in Seq(Part) /\ Len(Append(l, m)) = Len(l) + 1
      /\ Beginning(Append(l, m), x, k)
      /\ m.last <=> HasLast(Append(l, m))
  BY <1>2, <1>3, <1>4, <1>5, ListGrows
<1> QED
  BY <1>6 DEF l, m, x, k

(***************************************************************************)
(* A part is handled: it is the next one for the thread whose entry it     *)
(* finds, and is dropped if it finds none.                                 *)
(***************************************************************************)
LEMMA PartStep ==
    ASSUME RestInv, AnswerInv, NEW d \in Datapaths, NEW m,
           fromSwitch[d] # <<>>, m = Head(fromSwitch[d]),
           fromSwitch' = [fromSwitch EXCEPT ![d] = Tail(@)],
           UNCHANGED <<lastXid, dpset, toSwitch, stage, request, seen, status>>,
           msgs' \in [Threads -> Seq(Part)], waiters' \subseteq waiters,
           isSet' \in [Threads -> BOOLEAN],
           \A t \in Threads :
               msgs'[t] = IF Awaits(t, d, m) THEN Append(msgs[t], m) ELSE msgs[t],
           \A t \in Threads : isSet'[t] <=> isSet[t] \/ (Awaits(t, d, m) /\ m.last)
    PROVE  AnswerInv'
<1> DEFINE s == Tail(fromSwitch[d])
<1>0. TypeOK /\ NetTypes /\ StageTypes /\ AskTypes /\ ListTypes
  BY TypeParts DEF AnswerInv
<1>1. /\ m \in Part /\ s \in Seq(Part)
      /\ Queues(toSwitch[d], s, lastXid[d]) /\ m.part <= MaxParts
  BY FirstPart
<1>2. ASSUME NEW t \in Threads, Awaits(t, d, m)
      PROVE  /\ Unanswered(t) /\ request[t].dp = d
             /\ m.part = Len(msgs[t]) + 1
             /\ Coming(toSwitch[d], s, Len(msgs[t]) + 1, request[t].xid, request[t].kind)
  BY <1>2, FirstPart DEF Awaits
<1>3. ASSUME NEW t \in Threads, Unanswered(t), request[t].dp = d, ~ Awaits(t, d, m)
      PROVE  Coming(toSwitch[d], s, Len(msgs[t]), request[t].xid, request[t].kind)
  BY <1>3, FirstPart DEF Awaits
<1>4. fromSwitch'[d] = s /\ \A e \in Datapaths : e # d => fromSwitch'[e] = fromSwitch[e]
  BY <1>0 DEF NetTypes
<1>5. ASSUME NEW t \in Threads
      PROVE  /\ msgs[t] \in Seq(Part) /\ Len(msgs[t]) \in Nat /\ seen[t] <= Len(msgs[t])
             /\ Len(msgs[t]) <= MaxParts /\ seen[t] \in Nat
  BY <1>0, LenProperties DEF ListTypes
<1>6. ASSUME NEW t \in Threads
      PROVE  /\ Beginning(msgs[t], request[t].xid, request[t].kind)
             /\ isSet[t] <=> HasLast(msgs[t])
  BY DEF AnswerInv, WholeAnswer, InOrder, Beginning, HasLast
<1> HIDE DEF s
<1>7. ASSUME NEW t \in Threads, Awaits(t, d, m)
      PROVE  /\ Len(msgs'[t]) = Len(msgs[t]) + 1
             /\ Beginning(msgs'[t], request[t].xid, request[t].kind)
             /\ isSet'[t] <=> HasLast(msgs'[t])
  <2>1. msgs'[t] = Append(msgs[t], m)
    BY <1>7
  <2>2. isSet'[t] <=> m.last
    BY <1>2, <1>7 DEF Unanswered
  <2>3. /\ Len(Append(msgs[t], m)) = Len(msgs[t]) + 1
        /\ Beginning(Append(msgs[t], m), request[t].xid, request[t].kind)
        /\ m.last <=> HasLast(Append(msgs[t], m))
    BY <1>7, PartAdded
  <2> QED
    BY <2>1, <2>2, <2>3
<1>8. TypeOK'
  <2>1. NetTypes'
    BY <1>0, <1>1 DEF NetTypes, s
  <2>2. AskTypes'
    BY <1>0 DEF AskTypes
  <2>3. ASSUME NEW t \in Threads
        PROVE  seen[t] <= Len(msgs'[t]) /\ Len(msgs'[t]) <= MaxParts
    <3>1. CASE Awaits(t, d, m)
      BY <1>1, <1>2, <1>5, <1>7, <3>1, RestAssumption
    <3>2. CASE ~ Awaits(t, d, m)
      BY <1>5, <3>2
    <3> QED
      BY <3>1, <3>2
  <2>4. ListTypes'
    BY <1>0, <2>3 DEF ListTypes
  <2> QED
    BY <1>0, <2>1, <2>2, <2>4, TypeParts, StageUnchanged
<1>9. QueueInv'
  <2> SUFFICES ASSUME NEW e \in Datapaths
               PROVE  Queues(toSwitch[e], fromSwitch'[e], lastXid[e])
    BY DEF QueueInv
  <2>1. CASE e = d
    BY <1>1, <1>4, <2>1
  <2>2. CASE e # d
    BY <1>4, <2>2 DEF AnswerInv, QueueInv
  <2> QED
    BY <2>1, <2>2
<1>10. IdleInv'
  <2> SUFFICES ASSUME NEW t \in Threads, stage[t] = "idle" PROVE msgs'[t] = <<>>
    BY DEF IdleInv
  <2>1. ~ Awaits(t, d, m)
    BY DEF Awaits, Unanswered, Pending
  <2> QED
    BY <2>1 DEF AnswerInv, IdleInv
<1>11. WaitInv'
  <2> SUFFICES ASSUME NEW t \in Threads, Unanswered(t)'
               PROVE  Coming(toSwitch[request[t].dp], fromSwitch'[request[t].dp],
                             Len(msgs'[t]), request[t].xid, request[t].kind)
    BY DEF WaitInv
  <2>1. Unanswered(t)
    BY DEF Unanswered, Pending
  <2>2. request[t].dp \in Datapaths
    BY <2>1, AskedFor
  <2>3. CASE Awaits(t, d, m)
    BY <1>2, <1>4, <1>7, <2>3
  <2>4. CASE ~ Awaits(t, d, m)
    <3>1. msgs'[t] = msgs[t]
      BY <2>4
    <3>2. CASE request[t].dp = d
      BY <1>3, <1>4, <2>1, <2>4, <3>1, <3>2
    <3>3. CASE request[t].dp # d
      BY <1>4, <2>1, <2>2, <3>1, <3>3 DEF AnswerInv, WaitInv
    <3> QED
      BY <3>2, <3>3
  <2> QED
    BY <2>3, <2>4
<1>12. WholeAnswer'
  <2>1. ASSUME NEW t \in Threads
        PROVE  /\ Beginning(msgs'[t], request[t].xid, request[t].kind)
               /\ isSet'[t] <=> HasLast(msgs'[t])
    <3>1. CASE Awaits(t, d, m)
      BY <1>7, <3>1
    <3>2. CASE ~ Awaits(t, d, m)
      <4>1. msgs'[t] = msgs[t] /\ (isSet'[t] <=> isSet[t])
        BY <3>2
      <4> QED
        BY <1>6, <4>1
    <3> QED
      BY <3>1, <3>2
  <2> QED
    BY <2>1 DEF WholeAnswer, InOrder, Beginning, HasLast
<1> QED
  BY <1>8, <1>9, <1>10, <1>11, <1>12 DEF AnswerInv

LEMMA HandlerKeepsAnswers ==
    ASSUME RestInv, AnswerInv, NEW d \in Datapaths,
           stats_reply_handler(d) \/ features_reply_handler(d)
    PROVE  AnswerInv'
<1> DEFINE m == Head(fromSwitch[d])
           ws == WaitersFor(d, m)
<1>1. /\ fromSwitch[d] # <<>> /\ fromSwitch' = [fromSwitch EXCEPT ![d] = Tail(@)]
      /\ UNCHANGED <<lastXid, dpset, toSwitch, stage, request, seen, status>>
      /\ Collect(ws, m)
  BY DEF stats_reply_handler, features_reply_handler, NextEvent
<1>2. m \in Part /\ (m.kind = "features" => m.last)
  BY <1>1, FirstPart
<1>3. \/ UNCHANGED <<waiters, isSet>> /\ (ws = {} \/ ~ m.last)
      \/ m.last /\ Complete(ws, d, m)
  BY <1>2 DEF stats_reply_handler, features_reply_handler, NextEvent, MoreToCome
<1>4. \A t \in Threads : (\E w \in ws : w.thread = t) <=> Awaits(t, d, m)
  BY PartFinds
<1>5. isSet \in [Threads -> BOOLEAN]
  BY DEF AnswerInv, TypeOK
<1> HIDE DEF m, ws
<1>6. /\ waiters' \subseteq waiters /\ isSet' \in [Threads -> BOOLEAN]
      /\ \A t \in Threads : isSet'[t] <=> isSet[t] \/ (Awaits(t, d, m) /\ m.last)
  <2>1. CASE UNCHANGED <<waiters, isSet>> /\ (ws = {} \/ ~ m.last)
    BY <1>4, <1>5, <2>1
  <2>2. CASE m.last /\ Complete(ws, d, m)
    <3>1. waiters' \subseteq waiters
      BY <2>2 DEF Complete, Forget
    <3>2. isSet' = [t \in Threads |-> isSet[t] \/ \E w \in ws : w.thread = t]
      BY <2>2 DEF Complete
    <3>3. \A t \in Threads : isSet'[t] = (isSet[t] \/ \E w \in ws : w.thread = t)
      BY <3>2, Zenon
    <3>4. isSet' \in [Threads -> BOOLEAN]
      BY <1>5, <3>2
    <3> QED
      BY <1>4, <2>2, <3>1, <3>3, <3>4, Zenon
  <2> QED
    BY <1>3, <2>1, <2>2
<1>7. m = Head(fromSwitch[d])
  BY DEF m
<1>8. /\ msgs' \in [Threads -> Seq(Part)]
      /\ \A t \in Threads :
            msgs'[t] = IF Awaits(t, d, m) THEN Append(msgs[t], m) ELSE msgs[t]
  <2>1. msgs' = [t \in Threads |->
                    IF \E w \in ws : w.thread = t THEN Append(msgs[t], m) ELSE msgs[t]]
    BY <1>1 DEF Collect, Received
  <2>2. \A t \in Threads : msgs[t] \in Seq(Part) /\ Append(msgs[t], m) \in Seq(Part)
    BY <1>2, AppendProperties DEF AnswerInv, TypeOK
  <2> QED
    BY <1>4, <2>1, <2>2
<1> QED
  BY <1>1, <1>6, <1>7, <1>8, PartStep

LEMMA NextAnswerInv == RestInv /\ AnswerInv /\ [Next]_vars => AnswerInv'
<1> SUFFICES ASSUME RestInv, AnswerInv, [Next]_vars PROVE AnswerInv'
  OBVIOUS
<1>1. CASE UNCHANGED vars
  <2>1. UNCHANGED <<waiters, lastXid, stage, request, msgs, seen, isSet, status, dpset, toSwitch,
                    fromSwitch>>
    BY <1>1 DEF vars, thread, network
  <2>2. TypeOK'
    BY <2>1, TypeParts, NetUnchanged, StageUnchanged, AskUnchanged, ListUnchanged DEF AnswerInv
  <2> QED
    BY <2>1, <2>2, StageStep
<1> QED
  BY <1>1, ThreadKeepsAnswers, CommandKeepsAnswers, AskKeepsAnswers, ConnectionKeepsAnswers,
     SwitchKeepsAnswers, HandlerKeepsAnswers DEF Next

LEMMA AnswersInvariant == Spec => [](RestInv /\ AnswerInv)
<1>1. Init => RestInv /\ AnswerInv
  BY InitRestInv, InitAnswerInv
<1>2. RestInv /\ AnswerInv /\ [Next]_vars => (RestInv /\ AnswerInv)'
  BY NextRestInv, NextAnswerInv
<1> QED
  BY <1>1, <1>2, PTL DEF Spec

(***************************************************************************)
(* The values of ofctl_rest.py have their types, a thread has counted no   *)
(* more messages than its list holds, and no list outgrows an answer.      *)
(***************************************************************************)
THEOREM RestTypes == Spec => []TypeOK
<1>1. RestInv /\ AnswerInv => TypeOK
  BY DEF AnswerInv
<1> QED
  BY AnswersInvariant, <1>1, PTL

(***************************************************************************)
(* The list of a thread is the beginning of the answer to its own request  *)
(* and the whole of it exactly when its lock is set, in whatever order     *)
(* switches take requests, and whatever timeouts, lost connections and     *)
(* parts of other answers come between its own.                            *)
(***************************************************************************)
THEOREM AnswersWhole == Spec => []WholeAnswer
<1>1. RestInv /\ AnswerInv => WholeAnswer
  BY DEF AnswerInv
<1> QED
  BY AnswersInvariant, <1>1, PTL
=============================================================================
