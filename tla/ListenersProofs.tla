-------------------------- MODULE ListenersProofs --------------------------
(***************************************************************************)
(* Proofs about Listeners, for every set of records and of loops.          *)
(*                                                                         *)
(* ListedIsServed and LiveIsListed are proved together: each needs the     *)
(* other, and LiveIsListed needs to know that a Delete has disconnected    *)
(* what it has visited.  LastStatusIsTrue is not inductive either: it      *)
(* rests on what the last status of a record is at each point of a loop.   *)
(***************************************************************************)
EXTENDS Listeners, TLAPS

\* What Delete has visited is not listening.
DeletedIsStopped ==
  call.op = "delete" => \A id \in call.asked \ call.left : table[id] = NoLoop

\* The table and the goroutines agree.
TableInv == /\ ListedIsServed
            /\ LiveIsListed
            /\ DeletedIsStopped

\* A clean record has at most one loop, and its last status follows that loop.
OneLoop == \A id \in clean : \A g, h \in LoopsOf(id) : g = h

StatusFollows ==
  \A id \in clean :
    /\ LoopsOf(id) = {} => last[id] # "LISTENING"
    /\ \A g \in LoopsOf(id) : pc[g] \in {"serve", "backoff", "closing"} => last[id] = "LISTENING"

StatusInv == OneLoop /\ StatusFollows

-----------------------------------------------------------------------------
\* Every step of a handler or a goroutine keeps the types.
LEMMA TypeStep == TypeOK /\ [Next]_vars => TypeOK'
<1> SUFFICES ASSUME TypeOK, [Next]_vars PROVE TypeOK'
  OBVIOUS
<1> USE DEF TypeOK, loopVars, Idle
<1>1. ASSUME NEW S \in SUBSET Ids, UpdateConnected(S) \/ UpdateDisconnected(S) \/ Delete(S)
      PROVE  TypeOK'
  BY <1>1 DEF UpdateConnected, UpdateDisconnected, Delete, Begin
<1>2. ASSUME NEW id \in Ids, Store(id) PROVE TypeOK'
  BY <1>2 DEF Store
<1>3. ASSUME NEW id \in Ids, ConnectSkips(id) \/ ConnectFails(id) PROVE TypeOK'
  BY <1>3 DEF ConnectSkips, ConnectFails, Visit
<1>4. ASSUME NEW id \in Ids, disconnectLocked(id) PROVE TypeOK'
  BY <1>4 DEF disconnectLocked, SetNotListening, Visit
<1>5. ASSUME NEW id \in Ids, NEW g \in Loops,
             connectTCPTunnelLocked(g, id) \/ connectUDPTunnelLocked(g, id)
      PROVE  TypeOK'
  BY <1>5 DEF connectTCPTunnelLocked, connectUDPTunnelLocked, OpenLoop, Visit
<1>6. CASE Return
  BY <1>6 DEF Return
<1>7. ASSUME NEW g \in Loops, LoopReset(g) \/ LoopAnnounce(g) PROVE TypeOK'
  BY <1>7 DEF LoopReset, LoopAnnounce, At, Publish, Lost
<1>8. ASSUME NEW g \in Loops,
             AcceptClosed(g) \/ BackoffOver(g) \/ AcceptTimeout(g) \/ ManagerEnds(g)
      PROVE  TypeOK'
  BY <1>8 DEF AcceptClosed, BackoffOver, AcceptTimeout, ManagerEnds, At
<1>9. ASSUME NEW g \in Loops, BackoffCancelled(g) \/ LoopClosed(g) PROVE TypeOK'
  BY <1>9 DEF BackoffCancelled, LoopClosed, At, Publish, Lost
<1>10. ASSUME NEW g \in Loops, CloseSocket(g) PROVE TypeOK'
  BY <1>10 DEF CloseSocket
<1>11. ASSUME NEW g \in Loops, AcceptPanics(g) PROVE TypeOK'
  BY <1>11 DEF AcceptPanics
<1>12. CASE UNCHANGED vars
  BY <1>12 DEF vars
<1> QED
  BY <1>1, <1>2, <1>3, <1>4, <1>5, <1>6, <1>7, <1>8, <1>9, <1>10, <1>11, <1>12
     DEF Next, HandlerStep, LoopStep

(***************************************************************************)
(* Spec => []TypeOK: no interleaving of handlers and goroutines takes the  *)
(* server out of its types, a handler leaves no identifiers behind, and no *)
(* socket is closed under a listener whose context is alive.               *)
(***************************************************************************)
THEOREM TypeCorrect == Spec => []TypeOK
<1>1. Init => TypeOK
  BY ListenersAssumption DEF Init, TypeOK, Idle
<1> QED
  BY <1>1, TypeStep, PTL DEF Spec

-----------------------------------------------------------------------------
(***************************************************************************)
(* The table and the goroutines agree under every step.                    *)
(***************************************************************************)
LEMMA TableStep == TypeOK /\ TableInv /\ [Next]_vars => TableInv'
<1> SUFFICES ASSUME TypeOK, TableInv, [Next]_vars PROVE TableInv'
  OBVIOUS
<1> USE ListenersAssumption DEF TypeOK, TableInv, ListedIsServed, LiveIsListed, DeletedIsStopped,
        loopVars, Listening, Idle
<1>1. ASSUME NEW S \in SUBSET Ids, UpdateConnected(S) \/ UpdateDisconnected(S) \/ Delete(S)
      PROVE  TableInv'
  BY <1>1 DEF UpdateConnected, UpdateDisconnected, Delete, Begin
<1>2. ASSUME NEW id \in Ids, Store(id) PROVE TableInv'
  BY <1>2 DEF Store
<1>3. ASSUME NEW id \in Ids, ConnectSkips(id) \/ ConnectFails(id) PROVE TableInv'
  BY <1>3 DEF ConnectSkips, ConnectFails, Visit
<1>4. ASSUME NEW id \in Ids, disconnectLocked(id) PROVE TableInv'
  <2>1. ListedIsServed'
    BY <1>4 DEF disconnectLocked, SetNotListening
  <2>2. LiveIsListed'
    BY <1>4 DEF disconnectLocked, SetNotListening
  <2>3. DeletedIsStopped'
    BY <1>4 DEF disconnectLocked, SetNotListening, Visit
  <2> QED
    BY <2>1, <2>2, <2>3
<1>5. ASSUME NEW id \in Ids, NEW g \in Loops, connectTCPTunnelLocked(g, id) PROVE TableInv'
  <2> USE DEF connectTCPTunnelLocked, OpenLoop, Visit, Gone
  <2>1. ListedIsServed'
    BY <1>5
  <2>2. LiveIsListed'
    BY <1>5
  <2>3. DeletedIsStopped'
    BY <1>5
  <2> QED
    BY <2>1, <2>2, <2>3
<1>6. ASSUME NEW id \in Ids, NEW g \in Loops, connectUDPTunnelLocked(g, id) PROVE TableInv'
  <2> USE DEF connectUDPTunnelLocked, OpenLoop, Visit, Gone
  <2>1. ListedIsServed'
    BY <1>6
  <2>2. LiveIsListed'
    BY <1>6
  <2>3. DeletedIsStopped'
    BY <1>6
  <2> QED
    BY <2>1, <2>2, <2>3
<1>7. CASE Return
  <2>1. ListedIsServed'
    BY <1>7 DEF Return
  <2>2. LiveIsListed'
    BY <1>7 DEF Return
  <2>3. DeletedIsStopped'
    BY <1>7 DEF Return
  <2> QED
    BY <2>1, <2>2, <2>3
<1>8. ASSUME NEW g \in Loops, LoopReset(g) \/ LoopAnnounce(g) PROVE TableInv'
  BY <1>8 DEF LoopReset, LoopAnnounce, At
<1>9. ASSUME NEW g \in Loops, AcceptClosed(g) \/ BackoffOver(g) \/ AcceptTimeout(g) \/ ManagerEnds(g)
      PROVE  TableInv'
  BY <1>9 DEF AcceptClosed, BackoffOver, AcceptTimeout, ManagerEnds, At
<1>10. ASSUME NEW g \in Loops, BackoffCancelled(g) \/ LoopClosed(g) PROVE TableInv'
  BY <1>10 DEF BackoffCancelled, LoopClosed, At
<1>11. ASSUME NEW g \in Loops, CloseSocket(g) PROVE TableInv'
  BY <1>11 DEF CloseSocket
<1>12. ASSUME NEW g \in Loops, AcceptPanics(g) PROVE TableInv'
  BY <1>12 DEF AcceptPanics
<1>13. CASE UNCHANGED vars
  BY <1>13 DEF vars
<1> QED
  BY <1>1, <1>2, <1>3, <1>4, <1>5, <1>6, <1>7, <1>8, <1>9, <1>10, <1>11, <1>12, <1>13
     DEF Next, HandlerStep, LoopStep

\* The invariant of the table holds throughout.
LEMMA TableInvariant == Spec => []TableInv
<1>1. Init => TableInv
  BY DEF Init, TableInv, ListedIsServed, LiveIsListed, DeletedIsStopped, Listening, Idle
<1> QED
  BY <1>1, TableStep, TypeCorrect, PTL DEF Spec

(***************************************************************************)
(* Spec => []ListedIsServed: what GetStatus reports as listening has a     *)
(* running accept loop, an open socket and a live context, whatever        *)
(* handlers, loops and panics interleave.                                  *)
(***************************************************************************)
THEOREM ListedAreServed == Spec => []ListedIsServed
<1>1. TableInv => ListedIsServed
  BY DEF TableInv
<1> QED
  BY <1>1, TableInvariant, PTL

(***************************************************************************)
(* Spec => []LiveIsListed: a TCP accept loop that has not been cancelled   *)
(* is always the one in the table of an existing record, so Update and     *)
(* Delete can stop it; no loop is ever orphaned.                           *)
(***************************************************************************)
THEOREM LiveAreListed == Spec => []LiveIsListed
<1>1. TableInv => LiveIsListed
  BY DEF TableInv
<1> QED
  BY <1>1, TableInvariant, PTL

(***************************************************************************)
(* Where no UDP listener is live, GetStatus reports every active tunnel,   *)
(* as api.proto:86 says: what it leaves out is the UDP listeners, which    *)
(* connectUDPTunnelLocked does not enter in the table, and nothing else.   *)
(***************************************************************************)
THEOREM OnlyUDPIsUnreported == Spec => [](live \cap udp = {} => ActiveIsReported)
<1>1. TypeOK /\ TableInv => (live \cap udp = {} => ActiveIsReported)
  BY ListenersAssumption DEF TypeOK, TableInv, LiveIsListed, ActiveIsReported, Listening
<1> QED
  BY <1>1, TableInvariant, TypeCorrect, PTL

-----------------------------------------------------------------------------
(***************************************************************************)
(* How far a loop that has been cancelled is from its end: the steps left  *)
(* to its goroutine and the close of its socket.                           *)
(***************************************************************************)
Rank(g) == (CASE pc[g] = "reset"    -> 5
              [] pc[g] = "announce" -> 4
              [] pc[g] = "backoff"  -> 3
              [] pc[g] = "serve"    -> 2
              [] pc[g] = "closing"  -> 1
              [] OTHER              -> 0) + (IF g \in open THEN 1 ELSE 0)

\* The steps of the goroutines of g.
Own(g) == LoopStep(g) \/ CloseSocket(g) \/ AcceptTimeout(g) \/ ManagerEnds(g)

\* A cancelled loop stays cancelled until nothing is left of it, nobody takes it
\* back, and its own steps take it forward.
StoppedWindsDown(g) ==
  g \notin live /\ ~Gone(g) =>
    /\ g \notin live'
    /\ Rank(g) \in 1..6
    /\ Rank(g)' \in 0..6
    /\ Rank(g)' <= Rank(g)
    /\ Own(g) => Rank(g)' < Rank(g)

(***************************************************************************)
(* A loop that has been cancelled only winds down: until nothing is left   *)
(* of it no handler and no other loop revives it or takes it back, and     *)
(* every step of its own goroutines brings it closer to its end.  A wait   *)
(* after a timeout and a retried Accept are such steps, so it takes at     *)
(* most six; with the fairness of Spec that is StoppedEnds.                *)
(***************************************************************************)
THEOREM StoppedLoopsWindDown == Spec => [][\A g \in Loops : StoppedWindsDown(g)]_vars
<1>1. TypeOK /\ [Next]_vars => [\A g \in Loops : StoppedWindsDown(g)]_vars
  <2> SUFFICES ASSUME TypeOK, Next, NEW g \in Loops, g \notin live, ~Gone(g)
               PROVE  /\ g \notin live'
                      /\ Rank(g) \in 1..6
                      /\ Rank(g)' \in 0..6
                      /\ Rank(g)' <= Rank(g)
                      /\ Own(g) => Rank(g)' < Rank(g)
    BY DEF StoppedWindsDown
  <2>1. Rank(g) \in 1..6
    BY DEF TypeOK, Gone, Rank
  <2>2. Rank(g)' \in 0..6
    BY TypeStep DEF TypeOK, Rank
  <2>3. Own(g) => Rank(g)' < Rank(g)
    BY DEF TypeOK, Own, LoopStep, LoopReset, LoopAnnounce, AcceptClosed, BackoffOver, BackoffCancelled,
           LoopClosed, CloseSocket, AcceptTimeout, ManagerEnds, At, Rank
  <2>4. g \notin live' /\ Rank(g)' <= Rank(g)
    <3>1. ASSUME UNCHANGED <<pc, live, open>>
          PROVE  g \notin live' /\ Rank(g)' <= Rank(g)
      BY <2>1, <3>1 DEF Rank
    <3>2. ASSUME NEW S \in SUBSET Ids, UpdateConnected(S) \/ UpdateDisconnected(S) \/ Delete(S)
          PROVE  UNCHANGED <<pc, live, open>>
      BY <3>2 DEF UpdateConnected, UpdateDisconnected, Delete, Begin, loopVars
    <3>3. ASSUME NEW id \in Ids, Store(id) \/ ConnectSkips(id) \/ ConnectFails(id)
          PROVE  UNCHANGED <<pc, live, open>>
      BY <3>3 DEF Store, ConnectSkips, ConnectFails, loopVars
    <3>4. ASSUME NEW id \in Ids, disconnectLocked(id)
          PROVE  g \notin live' /\ Rank(g)' <= Rank(g)
      BY <2>1, <3>4 DEF disconnectLocked, SetNotListening, Rank
    <3>5. ASSUME NEW id \in Ids, NEW h \in Loops,
                 connectTCPTunnelLocked(h, id) \/ connectUDPTunnelLocked(h, id)
          PROVE  g \notin live' /\ Rank(g)' <= Rank(g)
      <4>1. OpenLoop(h, id)
        BY <3>5 DEF connectTCPTunnelLocked, connectUDPTunnelLocked
      <4>2. h # g
        BY <4>1 DEF OpenLoop
      <4>3. pc'[g] = pc[g] /\ (g \in open' <=> g \in open) /\ g \notin live'
        BY <4>1, <4>2 DEF OpenLoop, TypeOK
      <4> QED
        BY <2>1, <4>3 DEF Rank
    <3>6. CASE Return
      BY <3>1, <3>6 DEF Return, loopVars
    <3>7. ASSUME NEW h \in Loops, Own(h)
          PROVE  g \notin live' /\ Rank(g)' <= Rank(g)
      <4>1. g \notin live'
        BY <3>7 DEF Own, LoopStep, LoopReset, LoopAnnounce, AcceptClosed, BackoffOver,
                    BackoffCancelled, LoopClosed, CloseSocket, AcceptTimeout, ManagerEnds
      <4>2. CASE h = g
        BY <2>1, <2>2, <2>3, <3>7, <4>1, <4>2
      <4>3. CASE h # g
        <5>1. pc'[g] = pc[g] /\ (g \in open' <=> g \in open)
          BY <3>7, <4>3 DEF Own, LoopStep, LoopReset, LoopAnnounce, AcceptClosed, BackoffOver,
               BackoffCancelled, LoopClosed, CloseSocket, AcceptTimeout, ManagerEnds, At, TypeOK
        <5> QED
          BY <2>1, <4>1, <5>1 DEF Rank
      <4> QED
        BY <4>2, <4>3
    <3>8. ASSUME NEW h \in Loops, AcceptPanics(h)
          PROVE  g \notin live' /\ Rank(g)' <= Rank(g)
      BY <2>1, <3>8 DEF AcceptPanics, Rank
    <3> QED
      BY <3>1, <3>2, <3>3, <3>4, <3>5, <3>6, <3>7, <3>8 DEF Next, HandlerStep, Own
  <2> QED
    BY <2>1, <2>2, <2>3, <2>4
<1> QED
  BY <1>1, TypeCorrect, PTL DEF Spec

-----------------------------------------------------------------------------
(***************************************************************************)
(* The last status of a clean record follows its loop under every step.    *)
(***************************************************************************)
LEMMA StatusStep == TypeOK /\ StatusInv /\ [Next]_vars => StatusInv'
<1> SUFFICES ASSUME TypeOK, StatusInv, [Next]_vars PROVE StatusInv'
  OBVIOUS
<1> USE DEF TypeOK, StatusInv, OneLoop, StatusFollows, LoopsOf, loopVars
<1>1. ASSUME NEW S \in SUBSET Ids, UpdateConnected(S) \/ UpdateDisconnected(S) \/ Delete(S)
      PROVE  StatusInv'
  BY <1>1 DEF UpdateConnected, UpdateDisconnected, Delete, Begin
<1>2. ASSUME NEW id \in Ids, Store(id) PROVE StatusInv'
  BY <1>2 DEF Store
<1>3. ASSUME NEW id \in Ids, ConnectSkips(id) \/ ConnectFails(id) PROVE StatusInv'
  BY <1>3 DEF ConnectSkips, ConnectFails
<1>4. ASSUME NEW id \in Ids, disconnectLocked(id) PROVE StatusInv'
  BY <1>4 DEF disconnectLocked
<1>5. ASSUME NEW id \in Ids, NEW g \in Loops,
             connectTCPTunnelLocked(g, id) \/ connectUDPTunnelLocked(g, id)
      PROVE  StatusInv'
  <2>1. OpenLoop(g, id) /\ last' = last
    BY <1>5 DEF connectTCPTunnelLocked, connectUDPTunnelLocked
  <2>2. OneLoop'
    BY <2>1 DEF OpenLoop, Gone
  <2>3. StatusFollows'
    BY <2>1 DEF OpenLoop, Gone
  <2> QED
    BY <2>2, <2>3
<1>6. CASE Return
  BY <1>6 DEF Return
<1>7. ASSUME NEW g \in Loops, LoopReset(g) PROVE StatusInv'
  BY <1>7 DEF LoopReset, At, Publish, Lost
<1>8. ASSUME NEW g \in Loops, LoopAnnounce(g) PROVE StatusInv'
  BY <1>8 DEF LoopAnnounce, At, Publish, Lost
<1>9. ASSUME NEW g \in Loops, AcceptClosed(g) \/ BackoffOver(g) \/ AcceptTimeout(g) \/ ManagerEnds(g)
      PROVE  StatusInv'
  BY <1>9 DEF AcceptClosed, BackoffOver, AcceptTimeout, ManagerEnds, At
<1>10. ASSUME NEW g \in Loops, BackoffCancelled(g) PROVE StatusInv'
  BY <1>10 DEF BackoffCancelled, At, Lost
<1>11. ASSUME NEW g \in Loops, LoopClosed(g) PROVE StatusInv'
  BY <1>11 DEF LoopClosed, At, Publish, Lost
<1>12. ASSUME NEW g \in Loops, CloseSocket(g) PROVE StatusInv'
  BY <1>12 DEF CloseSocket
<1>13. ASSUME NEW g \in Loops, AcceptPanics(g) PROVE StatusInv'
  BY <1>13 DEF AcceptPanics
<1>14. CASE UNCHANGED vars
  BY <1>14 DEF vars
<1> QED
  BY <1>1, <1>2, <1>3, <1>4, <1>5, <1>6, <1>7, <1>8, <1>9, <1>10, <1>11, <1>12, <1>13, <1>14
     DEF Next, HandlerStep, LoopStep

(***************************************************************************)
(* Spec => []LastStatusIsTrue: for a record whose loop began alone and     *)
(* lost no event, the last status event tells whether it is listening once *)
(* its goroutines are at rest.                                             *)
(***************************************************************************)
THEOREM LastStatusHolds == Spec => []LastStatusIsTrue
<1>1. Init => StatusInv
  BY DEF Init, StatusInv, OneLoop, StatusFollows, LoopsOf
<1>2. StatusInv => LastStatusIsTrue
  BY DEF StatusInv, StatusFollows, LastStatusIsTrue, AtRest, LastIsTrue
<1> QED
  BY <1>1, <1>2, StatusStep, TypeCorrect, PTL DEF Spec
=============================================================================
