------------------------- MODULE BroadcasterProofs -------------------------
(***************************************************************************)
(* Proofs about Broadcaster, for every set of connections and streams and  *)
(* every bound on the events.                                              *)
(***************************************************************************)
EXTENDS Broadcaster, TLAPS

USE BroadcasterAssumption

\* The form of Append and Tail the proofs below need.
LEMMA AppendType == ASSUME NEW S, NEW q \in Seq(S), NEW e \in S
                    PROVE  /\ Append(q, e) \in Seq(S)
                           /\ Len(Append(q, e)) = Len(q) + 1
                           /\ \A i \in 1..Len(q) : Append(q, e)[i] = q[i]
                           /\ Append(q, e)[Len(q) + 1] = e
  OBVIOUS

\* Head and Tail of a sequence that is not empty.
LEMMA TailType == ASSUME NEW S, NEW q \in Seq(S), q # <<>>
                  PROVE  /\ Head(q) \in S /\ Head(q) = q[1]
                         /\ Tail(q) \in Seq(S)
                         /\ Len(q) \in Nat \ {0}
                         /\ Len(Tail(q)) = Len(q) - 1
                         /\ Tail(q) = <<>> => Len(q) = 1
                         /\ \A i \in 1..Len(Tail(q)) : Tail(q)[i] = q[i + 1]
<1>1. /\ Head(q) \in S /\ Head(q) = q[1]
      /\ Tail(q) \in Seq(S)
      /\ Len(q) \in Nat \ {0}
      /\ Len(Tail(q)) = Len(q) - 1
      /\ \A i \in 1..Len(Tail(q)) : Tail(q)[i] = q[i + 1]
  OBVIOUS
<1>2. ASSUME Len(q) # 1 PROVE 1 \in DOMAIN Tail(q) /\ 1 \notin DOMAIN <<>>
  BY <1>1, <1>2
<1>3. ASSUME Len(q) # 1 PROVE Tail(q) # <<>>
  BY <1>2, <1>3, Zenon
<1> QED
  BY <1>1, <1>3

\* A publisher is within the bound until run takes its event.
OfferInv == \A c \in Conns : offer[c] = "update" => count[c] < MaxEvents

\* While run sends an update there is one event to send.
LEMMA UpdateTodo == ASSUME TypeOK, pc = "update"
                    PROVE  Len(todo) = 1 /\ todo # <<>> /\ Head(todo) = todo[1]
                           /\ Head(todo) \in 1..MaxEvents
<1>1. todo \in Seq(1..MaxEvents) /\ Len(todo) = 1
  BY DEF TypeOK
<1>2. 1 \in DOMAIN todo /\ 1 \notin DOMAIN <<>>
  BY <1>1
<1>3. todo # <<>>
  BY <1>2, Zenon
<1> QED
  BY <1>1, <1>3, TailType

-----------------------------------------------------------------------------
(***************************************************************************)
(* Spec => []TypeOK: run's local variables are what each of its loops      *)
(* expects, so it never takes the head of an empty history.                *)
(***************************************************************************)
LEMMA TypeStep == TypeOK /\ OfferInv /\ [Next]_vars => TypeOK' /\ OfferInv'
<1> SUFFICES ASSUME TypeOK, OfferInv, [Next]_vars PROVE TypeOK' /\ OfferInv'
  OBVIOUS
<1> USE DEF TypeOK, OfferInv, busVars, streamVars
<1>1. CASE Stop
  BY <1>1 DEF Stop
<1>2. CASE RunShutdown
  BY <1>2 DEF RunShutdown, shutdown
<1>3. ASSUME NEW s \in Subs, HistorySend(s) PROVE TypeOK' /\ OfferInv'
  <2>1. Head(todo) \in 1..MaxEvents /\ Tail(todo) \in Seq(1..MaxEvents)
    BY <1>3 DEF HistorySend
  <2>2. Append(received[s], Head(todo)) \in Seq(1..MaxEvents)
    BY <2>1, AppendType
  <2>3. received' \in [Subs -> Seq(1..MaxEvents)]
    BY <1>3, <2>2 DEF HistorySend, Deliver
  <2>4. reader' \in [Subs -> {"new", "joining", "ranging", "sending", "done"}]
    BY <1>3 DEF HistorySend, Deliver
  <2> QED
    BY <1>3, <2>1, <2>3, <2>4 DEF HistorySend
<1>4. ASSUME NEW s \in Subs, HistoryCancelled(s) PROVE TypeOK' /\ OfferInv'
  BY <1>4 DEF HistoryCancelled, unsubscribe
<1>5. CASE HistoryShutdown
  BY <1>5 DEF HistoryShutdown, shutdown
<1>6. ASSUME NEW s \in Subs, UpdateSend(s) PROVE TypeOK' /\ OfferInv'
  <2>1. Head(todo) \in 1..MaxEvents
    BY <1>6, UpdateTodo DEF UpdateSend
  <2>2. Append(received[s], Head(todo)) \in Seq(1..MaxEvents)
    BY <2>1, AppendType
  <2>3. received' \in [Subs -> Seq(1..MaxEvents)]
    BY <1>6, <2>2 DEF UpdateSend, Deliver
  <2>4. reader' \in [Subs -> {"new", "joining", "ranging", "sending", "done"}]
    BY <1>6 DEF UpdateSend, Deliver
  <2> QED
    BY <1>6, <2>3, <2>4 DEF UpdateSend
<1>7. ASSUME NEW s \in Subs, UpdateCancelled(s) \/ UpdateTimeout(s) PROVE TypeOK' /\ OfferInv'
  BY <1>7 DEF UpdateCancelled, UpdateTimeout
<1>8. CASE UpdateAborted
  BY <1>8 DEF UpdateAborted
<1>9. CASE UpdateDone
  BY <1>9 DEF UpdateDone, unsubscribe
<1>10. ASSUME NEW c \in Conns, Offer(c, "update") \/ Offer(c, "reset") \/ Withdraw(c)
       PROVE  TypeOK' /\ OfferInv'
  BY <1>10 DEF Offer, Withdraw
<1>11. ASSUME NEW c \in Conns, RunUpdate(c) PROVE TypeOK' /\ OfferInv'
  <2>1. count[c] + 1 \in 1..MaxEvents
    BY <1>11 DEF RunUpdate
  <2>2. Append(history[c], count[c] + 1) \in Seq(1..MaxEvents)
    BY <2>1, AppendType
  <2>3. history' \in [Conns -> Seq(1..MaxEvents)]
    BY <1>11, <2>2 DEF RunUpdate
  <2>4. count' \in [Conns -> 0..MaxEvents]
    BY <1>11, <2>1 DEF RunUpdate
  <2>5. <<count[c] + 1>> \in Seq(1..MaxEvents) /\ Len(<<count[c] + 1>>) = 1
    BY <2>1
  <2>6. OfferInv'
    BY <1>11 DEF RunUpdate
  <2>7. CASE byID[c] = {}
    BY <1>11, <2>3, <2>4, <2>6, <2>7 DEF RunUpdate
  <2>8. CASE byID[c] # {}
    <3>1. todo' \in Seq(1..MaxEvents) /\ Len(todo') = 1 /\ pc' = "update"
      BY <1>11, <2>5, <2>8 DEF RunUpdate
    <3>2. left' \subseteq Subs
      BY <1>11, <2>8 DEF RunUpdate
    <3> QED
      BY <1>11, <2>3, <2>4, <2>6, <3>1, <3>2 DEF RunUpdate
  <2> QED
    BY <2>7, <2>8
<1>12. ASSUME NEW c \in Conns, RunReset(c) PROVE TypeOK' /\ OfferInv'
  <2>1. since' \in [Conns -> 1..(MaxEvents + 1)]
    BY <1>12 DEF RunReset
  <2>2. history' \in [Conns -> Seq(1..MaxEvents)]
    BY <1>12 DEF RunReset
  <2> QED
    BY <1>12, <2>1, <2>2 DEF RunReset
<1>13. ASSUME NEW s \in Subs, RunSubscribe(s) PROVE TypeOK' /\ OfferInv'
  <2>1. reader' \in [Subs -> {"new", "joining", "ranging", "sending", "done"}]
    BY <1>13 DEF RunSubscribe
  <2>2. byID' \in [Conns -> SUBSET Subs] /\ first' \in [Subs -> 1..(MaxEvents + 1)]
    BY <1>13 DEF RunSubscribe
  <2>3. history[topic[s]] \in Seq(1..MaxEvents)
    OBVIOUS
  <2>4. CASE history[topic[s]] = <<>>
    BY <1>13, <2>1, <2>2, <2>4 DEF RunSubscribe
  <2>5. CASE history[topic[s]] # <<>>
    BY <1>13, <2>1, <2>2, <2>3, <2>5 DEF RunSubscribe
  <2> QED
    BY <2>4, <2>5
<1>14. ASSUME NEW s \in Subs, Subscribe(s) \/ SubscribeCancelled(s) \/ Cancel(s)
       PROVE  TypeOK' /\ OfferInv'
  BY <1>14 DEF Subscribe, SubscribeCancelled, Cancel
<1>15. ASSUME NEW s \in Subs, SendDone(s) \/ SendFails(s) \/ StreamEnds(s)
       PROVE  TypeOK' /\ OfferInv'
  BY <1>15 DEF SendDone, SendFails, StreamEnds
<1>16. CASE UNCHANGED vars
  BY <1>16 DEF vars
<1> QED
  BY <1>1, <1>2, <1>3, <1>4, <1>5, <1>6, <1>7, <1>8, <1>9, <1>10, <1>11, <1>12, <1>13, <1>14,
     <1>15, <1>16 DEF Next, Serve

(***************************************************************************)
(* run's local variables, the histories and the streams keep their types:  *)
(* in particular run is in its loops with something to send and a          *)
(* subscriber to send it to.                                               *)
(***************************************************************************)
THEOREM TypeCorrect == Spec => []TypeOK
<1>1. Init => TypeOK /\ OfferInv
  BY DEF Init, TypeOK, OfferInv
<1> QED
  BY <1>1, TypeStep, PTL DEF Spec

-----------------------------------------------------------------------------
(***************************************************************************)
(* RegisteredIsOpen.  A stream is registered under its own connection      *)
(* only, so unsubscribe forgets it altogether; a stream whose channel is   *)
(* closed or registered has passed its Subscribe, so it never comes back.  *)
(***************************************************************************)
RegInv == /\ \A c \in Conns : \A s \in byID[c] :
               topic[s] = c /\ s \notin closed /\ reader[s] \notin {"new", "joining"}
          /\ \A s \in closed : reader[s] \notin {"new", "joining"}
          /\ \A s \in left \cup cleanup \cup sub : s \in byID[topic[s]]

\* unsubscribe, with the streams that run still needs outside of S.
LEMMA UnsubscribeReg ==
  ASSUME TypeOK, RegInv, NEW S \in SUBSET Subs, unsubscribe(S),
         topic' = topic, reader' = reader,
         \A s \in S : reader[s] \notin {"new", "joining"},
         left' \cup cleanup' \cup sub' = {}
  PROVE  RegInv'
<1>1. \A s \in closed' : reader'[s] \notin {"new", "joining"}
  BY DEF unsubscribe, RegInv
<1>2. ASSUME NEW c \in Conns, NEW s \in byID'[c]
      PROVE  topic'[s] = c /\ s \notin closed' /\ reader'[s] \notin {"new", "joining"}
  <2>1. s \in byID[c] /\ s \notin S
    BY <1>2 DEF unsubscribe
  <2> QED
    BY <2>1 DEF unsubscribe, RegInv
<1> QED
  BY <1>1, <1>2 DEF RegInv

\* shutdown leaves nobody registered.
LEMMA ShutdownReg ==
  ASSUME TypeOK, RegInv, shutdown, topic' = topic, reader' = reader,
         left' \cup cleanup' \cup sub' = {}
  PROVE  RegInv'
  BY DEF RegInv, shutdown

\* Every step keeps the registration invariant.
LEMMA RegStep == TypeOK /\ TypeOK' /\ RegInv /\ [Next]_vars => RegInv'
<1> SUFFICES ASSUME TypeOK, TypeOK', RegInv, [Next]_vars PROVE RegInv'
  OBVIOUS
<1> USE DEF busVars, streamVars
<1>1. CASE Stop
  BY <1>1 DEF Stop, RegInv
<1>2. CASE RunShutdown
  <2>1. left' \cup cleanup' \cup sub' = {}
    BY <1>2 DEF RunShutdown, shutdown, TypeOK
  <2> QED
    BY <1>2, <2>1, ShutdownReg DEF RunShutdown
<1>3. ASSUME NEW s \in Subs, HistorySend(s) PROVE RegInv'
  BY <1>3 DEF HistorySend, Deliver, RegInv, TypeOK
<1>4. ASSUME NEW s \in Subs, HistoryCancelled(s) PROVE RegInv'
  <2>1. left' \cup cleanup' \cup sub' = {}
    BY <1>4 DEF HistoryCancelled, TypeOK
  <2>2. reader[s] \notin {"new", "joining"}
    BY <1>4 DEF HistoryCancelled, RegInv, TypeOK
  <2> QED
    BY <1>4, <2>1, <2>2, UnsubscribeReg DEF HistoryCancelled
<1>5. CASE HistoryShutdown
  <2>1. left' \cup cleanup' \cup sub' = {}
    BY <1>5 DEF HistoryShutdown, shutdown, TypeOK
  <2> QED
    BY <1>5, <2>1, ShutdownReg DEF HistoryShutdown
<1>6. ASSUME NEW s \in Subs, UpdateSend(s) PROVE RegInv'
  BY <1>6 DEF UpdateSend, Deliver, RegInv, TypeOK
<1>7. ASSUME NEW s \in Subs, UpdateCancelled(s) \/ UpdateTimeout(s) PROVE RegInv'
  BY <1>7 DEF UpdateCancelled, UpdateTimeout, RegInv
<1>8. CASE UpdateAborted
  BY <1>8 DEF UpdateAborted, RegInv
<1>9. CASE UpdateDone
  <2>1. left' \cup cleanup' \cup sub' = {}
    BY <1>9 DEF UpdateDone, TypeOK
  <2>2. \A s \in cleanup : reader[s] \notin {"new", "joining"}
    BY DEF RegInv, TypeOK
  <2>3. cleanup \in SUBSET Subs
    BY DEF TypeOK
  <2> QED
    BY <1>9, <2>1, <2>2, <2>3, UnsubscribeReg DEF UpdateDone
<1>10. ASSUME NEW c \in Conns, Offer(c, "update") \/ Offer(c, "reset") \/ Withdraw(c)
       PROVE  RegInv'
  BY <1>10 DEF Offer, Withdraw, RegInv
<1>11. ASSUME NEW c \in Conns, RunUpdate(c) PROVE RegInv'
  <2>1. \A s \in left' \cup cleanup' \cup sub' : s \in byID'[topic'[s]]
    BY <1>11 DEF RunUpdate, RegInv, TypeOK
  <2> QED
    BY <1>11, <2>1 DEF RunUpdate, RegInv
<1>12. ASSUME NEW c \in Conns, RunReset(c) PROVE RegInv'
  BY <1>12 DEF RunReset, RegInv
<1>13. ASSUME NEW s \in Subs, RunSubscribe(s) PROVE RegInv'
  <2>1. s \notin closed /\ topic[s] \in Conns
    BY <1>13 DEF RunSubscribe, RegInv, TypeOK
  <2>2. ASSUME NEW d \in Conns, NEW u \in byID'[d]
        PROVE  topic'[u] = d /\ u \notin closed' /\ reader'[u] \notin {"new", "joining"}
    BY <1>13, <2>1, <2>2 DEF RunSubscribe, RegInv, TypeOK
  <2>3. \A u \in closed' : reader'[u] \notin {"new", "joining"}
    BY <1>13, <2>1 DEF RunSubscribe, RegInv, TypeOK
  <2>4. \A u \in left' \cup cleanup' \cup sub' : u \in byID'[topic'[u]]
    BY <1>13, <2>1 DEF RunSubscribe, RegInv, TypeOK
  <2> QED
    BY <2>2, <2>3, <2>4 DEF RegInv
<1>14. ASSUME NEW s \in Subs, Subscribe(s) \/ SubscribeCancelled(s) \/ Cancel(s)
       PROVE  RegInv'
  <2>1. CASE Subscribe(s)
    BY <2>1 DEF Subscribe, RegInv, TypeOK
  <2>2. CASE SubscribeCancelled(s)
    BY <2>2 DEF SubscribeCancelled, RegInv, TypeOK
  <2>3. CASE Cancel(s)
    BY <2>3 DEF Cancel, RegInv
  <2> QED
    BY <1>14, <2>1, <2>2, <2>3
<1>15. ASSUME NEW s \in Subs, SendDone(s) \/ SendFails(s) \/ StreamEnds(s)
       PROVE  RegInv'
  <2>1. \A u \in Subs : reader'[u] \in {"new", "joining"} => reader[u] \in {"new", "joining"}
    BY <1>15 DEF SendDone, SendFails, StreamEnds, TypeOK
  <2>2. UNCHANGED <<byID, topic, closed, left, cleanup, sub>>
    BY <1>15 DEF SendDone, SendFails, StreamEnds
  <2> QED
    BY <2>1, <2>2 DEF RegInv, TypeOK
<1>16. CASE UNCHANGED vars
  BY <1>16 DEF vars, RegInv
<1> QED
  BY <1>1, <1>2, <1>3, <1>4, <1>5, <1>6, <1>7, <1>8, <1>9, <1>10, <1>11, <1>12, <1>13, <1>14,
     <1>15, <1>16 DEF Next, Serve

\* The registration invariant holds throughout.
LEMMA RegInvariant == Spec => []RegInv
<1>1. Init => RegInv
  BY DEF Init, RegInv
<1> QED
  BY <1>1, RegStep, TypeCorrect, PTL DEF Spec

(***************************************************************************)
(* Spec => []RegisteredIsOpen: run never sends on a channel it has closed  *)
(* and never closes one twice.                                             *)
(***************************************************************************)
THEOREM RegisteredAreOpen == Spec => []RegisteredIsOpen
<1>1. TypeOK /\ RegInv => RegisteredIsOpen
  BY DEF TypeOK, RegInv, RegisteredIsOpen, Registered
<1> QED
  BY <1>1, RegInvariant, TypeCorrect, PTL

-----------------------------------------------------------------------------
(***************************************************************************)
(* NoGap and CaughtUp.  The history of a connection is the run of events   *)
(* from its last Reset to its newest.  Owed(s) is the next event stream s  *)
(* should be given; the invariant says where it stands in each of run's    *)
(* loops.                                                                  *)
(***************************************************************************)
HistoryInv ==
  \A c \in Conns : /\ Len(history[c]) = count[c] + 1 - since[c]
                   /\ \A i \in 1..Len(history[c]) : history[c][i] = since[c] + i - 1

NothingYet == \A s \in Subs : reader[s] \in {"new", "joining"} => received[s] = <<>>

Owed(s) == first[s] + Len(received[s])

InOrder(s) == \A i \in 1..Len(received[s]) : received[s][i] = first[s] + i - 1

Standing(s) ==
  IF s \in sub
  THEN /\ Owed(s) + Len(todo) = count[topic[s]] + 1
       /\ \A i \in 1..Len(todo) : todo[i] = Owed(s) + i - 1
  ELSE IF s \in left
  THEN Owed(s) = todo[1] /\ todo[1] = count[topic[s]]
  ELSE s \in cleanup \/ Owed(s) = count[topic[s]] + 1

StreamInv == /\ HistoryInv
             /\ NothingYet
             /\ alive => \A s \in Subs : InOrder(s)
             /\ alive => \A c \in Conns : \A s \in byID[c] : Standing(s)

\* What a stream is owed is counted by naturals.
LEMMA OwedType == ASSUME TypeOK, NEW s \in Subs
                  PROVE  Len(received[s]) \in Nat /\ first[s] \in Nat /\ Owed(s) \in Nat
<1>1. received[s] \in Seq(1..MaxEvents) /\ first[s] \in 1..(MaxEvents + 1)
  BY DEF TypeOK
<1>2. Len(received[s]) \in Nat
  BY <1>1
<1> QED
  BY <1>1, <1>2 DEF Owed

\* The delivery of the event a stream is owed.
LEMMA DeliverOwed ==
  ASSUME TypeOK, NEW s \in Subs, NEW e \in 1..MaxEvents, Deliver(s, e), first' = first,
         InOrder(s), e = Owed(s)
  PROVE  /\ InOrder(s)'
         /\ Owed(s)' = Owed(s) + 1
         /\ \A u \in Subs \ {s} : received'[u] = received[u]
<1>1. received[s] \in Seq(1..MaxEvents) /\ received'[s] = Append(received[s], e)
  BY DEF TypeOK, Deliver
<1>2. /\ Len(received'[s]) = Len(received[s]) + 1
      /\ \A i \in 1..Len(received[s]) : received'[s][i] = received[s][i]
      /\ received'[s][Len(received[s]) + 1] = e
  BY <1>1, AppendType
<1>3. Len(received[s]) \in Nat /\ first[s] \in Nat
  BY <1>1 DEF TypeOK
<1>4. InOrder(s)'
  <2> SUFFICES ASSUME NEW i \in 1..Len(received'[s]) PROVE received'[s][i] = first[s] + i - 1
    BY DEF InOrder
  <2>1. CASE i \in 1..Len(received[s])
    BY <1>2, <2>1 DEF InOrder
  <2>2. CASE i = Len(received[s]) + 1
    BY <1>2, <1>3, <2>2 DEF Owed
  <2> QED
    BY <1>2, <1>3, <2>1, <2>2
<1>5. Owed(s)' = Owed(s) + 1
  BY <1>2, <1>3 DEF Owed
<1>6. \A u \in Subs \ {s} : received'[u] = received[u]
  BY DEF TypeOK, Deliver
<1> QED
  BY <1>4, <1>5, <1>6

\* A step of a stream or a publisher that exchanges nothing with run.
LEMMA QuietStep ==
  ASSUME TypeOK, StreamInv, alive' => alive,
         UNCHANGED <<byID, history, sub, todo, left, cleanup, count, since, topic, received, first>>,
         \A u \in Subs : reader'[u] \in {"new", "joining"} => reader[u] \in {"new", "joining"}
  PROVE  StreamInv'
<1>1. HistoryInv' /\ NothingYet'
  BY DEF StreamInv, HistoryInv, NothingYet
<1>2. ASSUME alive' PROVE (\A s \in Subs : InOrder(s)) /\ \A c \in Conns : \A s \in byID[c] : Standing(s)
  BY <1>2 DEF StreamInv
<1> QED
  BY <1>1, <1>2 DEF StreamInv, InOrder, Standing, Owed

\* A step of run that finds the server stopped.
LEMMA DeadStep ==
  ASSUME StreamInv, ~alive', UNCHANGED <<history, count, since, reader, received>>
  PROVE  StreamInv'
  BY DEF StreamInv, HistoryInv, NothingYet

\* The end of one of run's loops: S is unsubscribed and was all it had left to do.
LEMMA LoopEnds ==
  ASSUME TypeOK, StreamInv, NEW S \in SUBSET Subs, unsubscribe(S),
         sub \cup left \cup cleanup \subseteq S, sub' \cup left' \cup cleanup' = {},
         UNCHANGED <<alive, history, count, since, reader, topic, received, first>>
  PROVE  StreamInv'
<1>1. HistoryInv' /\ NothingYet'
  BY DEF StreamInv, HistoryInv, NothingYet
<1>2. ASSUME alive' PROVE \A s \in Subs : InOrder(s)'
  BY <1>2 DEF StreamInv, InOrder
<1>3. ASSUME alive', NEW c \in Conns, NEW s \in byID'[c] PROVE Standing(s)'
  <2>1. s \in byID[c] /\ s \notin S
    BY <1>3 DEF unsubscribe
  <2>2. Owed(s) = count[topic[s]] + 1
    BY <1>3, <2>1 DEF StreamInv, Standing
  <2> QED
    BY <2>2 DEF Standing, Owed
<1> QED
  BY <1>1, <1>2, <1>3 DEF StreamInv

\* Sending one event of the history keeps the streams in order.
LEMMA HistorySendStep ==
  ASSUME TypeOK, TypeOK', RegInv, StreamInv, NEW s \in Subs, HistorySend(s)
  PROVE  StreamInv'
<1>1. sub = {s} /\ left = {} /\ cleanup = {} /\ todo # <<>>
  BY DEF HistorySend, TypeOK
<1>0. todo \in Seq(1..MaxEvents)
  BY DEF TypeOK
<1>2. /\ Head(todo) \in 1..MaxEvents /\ Head(todo) = todo[1]
      /\ Len(todo) \in Nat \ {0} /\ Tail(todo) \in Seq(1..MaxEvents)
      /\ Len(Tail(todo)) = Len(todo) - 1
      /\ Tail(todo) = <<>> => Len(todo) = 1
      /\ \A i \in 1..Len(Tail(todo)) : Tail(todo)[i] = todo[i + 1]
  BY <1>0, <1>1, TailType
<1>3. HistoryInv'
  BY DEF StreamInv, HistoryInv, HistorySend
<1>4. NothingYet'
  BY DEF StreamInv, NothingYet, HistorySend, Deliver, TypeOK
<1>5. ASSUME alive'
      PROVE  (\A u \in Subs : InOrder(u)') /\ \A c \in Conns : \A u \in byID'[c] : Standing(u)'
  <2>1. s \in byID[topic[s]] /\ topic[s] \in Conns /\ alive
    BY <1>1, <1>5 DEF RegInv, TypeOK, HistorySend
  <2>2. /\ Owed(s) + Len(todo) = count[topic[s]] + 1
        /\ \A i \in 1..Len(todo) : todo[i] = Owed(s) + i - 1
        /\ InOrder(s)
    BY <1>1, <2>1 DEF StreamInv, Standing
  <2>3. Owed(s) \in Nat /\ count[topic[s]] \in Nat
    <3>1. count[topic[s]] \in 0..MaxEvents
      BY <2>1 DEF TypeOK
    <3> QED
      BY <3>1, OwedType
  <2>4. Head(todo) = Owed(s)
    BY <1>2, <2>2, <2>3
  <2>5. /\ InOrder(s)' /\ Owed(s)' = Owed(s) + 1
        /\ \A u \in Subs \ {s} : received'[u] = received[u]
    BY <1>2, <2>2, <2>4, DeliverOwed DEF HistorySend
  <2>6. \A u \in Subs : InOrder(u)'
    BY <2>1, <2>5 DEF StreamInv, InOrder, HistorySend
  <2>7. Standing(s)'
    <3>1. CASE Tail(todo) = <<>>
      <4>1. Len(todo) = 1
        BY <1>2, <3>1
      <4>2. Owed(s)' = count[topic[s]] + 1
        BY <2>2, <2>3, <2>5, <4>1
      <4> QED
        BY <1>1, <3>1, <4>2 DEF Standing, HistorySend
    <3>2. CASE Tail(todo) # <<>>
      <4>1. sub' = {s} /\ todo' = Tail(todo) /\ count' = count /\ topic' = topic
        BY <1>1, <3>2 DEF HistorySend
      <4>2. Owed(s)' + Len(todo') = count[topic[s]] + 1
        BY <1>2, <2>2, <2>3, <2>5, <4>1
      <4>3. ASSUME NEW i \in 1..Len(todo') PROVE todo'[i] = Owed(s)' + i - 1
        <5>1. i \in Nat /\ i + 1 \in 1..Len(todo) /\ todo'[i] = todo[i + 1]
          BY <1>2, <4>1, <4>3
        <5> QED
          BY <2>2, <2>3, <2>5, <5>1
      <4> QED
        BY <4>1, <4>2, <4>3 DEF Standing
    <3> QED
      BY <3>1, <3>2
  <2>8. ASSUME NEW c \in Conns, NEW u \in byID'[c], u # s PROVE Standing(u)'
    <3>1. u \in Subs /\ u \in byID[c] /\ Standing(u)
      BY <2>1, <2>8 DEF StreamInv, HistorySend, TypeOK
    <3>2. u \notin sub' /\ left' = {} /\ cleanup' = {}
      BY <1>1, <2>8 DEF HistorySend
    <3>3. Owed(u) = count[topic[u]] + 1
      BY <1>1, <2>8, <3>1 DEF Standing
    <3>4. Owed(u)' = Owed(u)
      BY <2>5, <2>8, <3>1 DEF Owed, HistorySend
    <3> QED
      BY <3>2, <3>3, <3>4 DEF Standing, HistorySend
  <2> QED
    BY <2>6, <2>7, <2>8
<1> QED
  BY <1>3, <1>4, <1>5 DEF StreamInv

\* Sending an update keeps the streams in order.
LEMMA UpdateSendStep ==
  ASSUME TypeOK, TypeOK', RegInv, StreamInv, NEW s \in Subs, UpdateSend(s)
  PROVE  StreamInv'
<1>1. sub = {} /\ s \in left /\ pc = "update" /\ sub' = {} /\ left' = left \ {s} /\ cleanup' = cleanup
  BY DEF UpdateSend, TypeOK
<1>2. Head(todo) = todo[1] /\ Head(todo) \in 1..MaxEvents
  BY <1>1, UpdateTodo
<1>3. HistoryInv'
  BY DEF StreamInv, HistoryInv, UpdateSend
<1>4. NothingYet'
  BY DEF StreamInv, NothingYet, UpdateSend, Deliver, TypeOK
<1>5. ASSUME alive'
      PROVE  (\A u \in Subs : InOrder(u)') /\ \A c \in Conns : \A u \in byID'[c] : Standing(u)'
  <2>1. s \in byID[topic[s]] /\ topic[s] \in Conns /\ alive
    BY <1>1, <1>5 DEF RegInv, TypeOK, UpdateSend
  <2>2. Owed(s) = todo[1] /\ todo[1] = count[topic[s]] /\ InOrder(s)
    BY <1>1, <2>1 DEF StreamInv, Standing
  <2>3. /\ InOrder(s)' /\ Owed(s)' = Owed(s) + 1
        /\ \A u \in Subs \ {s} : received'[u] = received[u]
    BY <1>2, <2>2, DeliverOwed DEF UpdateSend
  <2>4. \A u \in Subs : InOrder(u)'
    BY <2>1, <2>3 DEF StreamInv, InOrder, UpdateSend
  <2>5. Standing(s)'
    BY <1>1, <2>2, <2>3 DEF Standing, UpdateSend
  <2>6. ASSUME NEW c \in Conns, NEW u \in byID'[c], u # s PROVE Standing(u)'
    <3>1. u \in Subs /\ u \in byID[c] /\ Standing(u)
      BY <2>1, <2>6 DEF StreamInv, UpdateSend, TypeOK
    <3>2. Owed(u)' = Owed(u)
      BY <2>3, <2>6, <3>1 DEF Owed, UpdateSend
    <3> QED
      BY <1>1, <2>6, <3>1, <3>2 DEF Standing, UpdateSend
  <2> QED
    BY <2>4, <2>5, <2>6
<1> QED
  BY <1>3, <1>4, <1>5 DEF StreamInv

\* Receiving an event keeps the streams in order.
LEMMA RunUpdateStep ==
  ASSUME TypeOK, TypeOK', RegInv, StreamInv, NEW c \in Conns, RunUpdate(c)
  PROVE  StreamInv'
<1>1. /\ sub = {} /\ left = {} /\ cleanup = {}
      /\ sub' = {} /\ cleanup' = {} /\ left' = byID[c]
      /\ byID' = byID /\ topic' = topic /\ reader' = reader /\ received' = received
      /\ first' = first /\ alive' = alive /\ since' = since
      /\ byID[c] # {} => todo' = <<count[c] + 1>>
  BY DEF RunUpdate, TypeOK, streamVars
<1>2. count'[c] = count[c] + 1 /\ \A d \in Conns \ {c} : count'[d] = count[d]
  BY DEF RunUpdate, TypeOK
<1>3. count[c] \in Nat /\ since[c] \in Nat /\ count[c] + 1 \in 1..MaxEvents
  <2>1. count[c] \in Nat /\ since[c] \in Nat
    BY DEF TypeOK
  <2>2. count'[c] \in 0..MaxEvents
    BY DEF TypeOK
  <2> QED
    BY <1>2, <2>1, <2>2
<1>4. HistoryInv'
  <2>1. history[c] \in Seq(1..MaxEvents)
    BY DEF TypeOK
  <2>2. /\ Len(history'[c]) = Len(history[c]) + 1
        /\ \A i \in 1..Len(history[c]) : history'[c][i] = history[c][i]
        /\ history'[c][Len(history[c]) + 1] = count[c] + 1
    <3>1. history'[c] = Append(history[c], count[c] + 1)
      BY DEF RunUpdate, TypeOK
    <3> QED
      BY <1>3, <2>1, <3>1, AppendType
  <2>3. Len(history[c]) \in Nat
    BY <2>1
  <2>4. /\ Len(history[c]) = count[c] + 1 - since[c]
        /\ \A i \in 1..Len(history[c]) : history[c][i] = since[c] + i - 1
    BY DEF StreamInv, HistoryInv
  <2>5. Len(history'[c]) = count'[c] + 1 - since'[c]
    BY <1>1, <1>2, <1>3, <2>2, <2>3, <2>4
  <2>6. ASSUME NEW i \in 1..Len(history'[c]) PROVE history'[c][i] = since'[c] + i - 1
    <3>1. CASE i \in 1..Len(history[c])
      BY <1>1, <2>2, <2>4, <3>1
    <3>2. CASE i = Len(history[c]) + 1
      BY <1>1, <1>3, <2>2, <2>3, <2>4, <3>2
    <3> QED
      BY <2>2, <2>3, <3>1, <3>2
  <2>7. \A d \in Conns \ {c} : history'[d] = history[d]
    BY DEF RunUpdate, TypeOK
  <2>8. ASSUME NEW d \in Conns \ {c}
        PROVE  /\ Len(history'[d]) = count'[d] + 1 - since'[d]
               /\ \A i \in 1..Len(history'[d]) : history'[d][i] = since'[d] + i - 1
    BY <1>1, <1>2, <2>7, <2>8 DEF StreamInv, HistoryInv
  <2> QED
    BY <2>5, <2>6, <2>8 DEF HistoryInv
<1>5. NothingYet'
  BY <1>1 DEF StreamInv, NothingYet
<1>6. ASSUME alive' PROVE \A u \in Subs : InOrder(u)'
  BY <1>1, <1>6 DEF StreamInv, InOrder
<1>7. ASSUME alive', NEW d \in Conns, NEW u \in byID'[d] PROVE Standing(u)'
  <2>1. u \in byID[d] /\ topic[u] = d /\ Owed(u) = count[d] + 1 /\ Owed(u)' = Owed(u)
    BY <1>1, <1>7 DEF RegInv, StreamInv, Standing, Owed
  <2>2. CASE d = c
    <3>1. todo' = <<count[c] + 1>> /\ u \in left'
      BY <1>1, <2>1, <2>2
    <3>2. todo'[1] = count[c] + 1
      BY <3>1
    <3> QED
      BY <1>1, <1>2, <2>1, <2>2, <3>1, <3>2 DEF Standing
  <2>3. CASE d # c
    <3>1. u \notin left'
      BY <1>1, <2>1, <2>3 DEF RegInv
    <3> QED
      BY <1>1, <1>2, <2>1, <2>3, <3>1 DEF Standing
  <2> QED
    BY <2>2, <2>3
<1> QED
  BY <1>4, <1>5, <1>6, <1>7 DEF StreamInv

\* A subscription starts a stream in order.
LEMMA RunSubscribeStep ==
  ASSUME TypeOK, TypeOK', RegInv, StreamInv, NEW s \in Subs, RunSubscribe(s)
  PROVE  StreamInv'
<1> DEFINE c == topic[s]
<1>0. c \in Conns /\ history[c] \in Seq(1..MaxEvents) /\ pc = "select"
  BY DEF RunSubscribe, TypeOK
<1>1. /\ c \in Conns
      /\ sub = {} /\ left = {} /\ cleanup = {} /\ left' = {} /\ cleanup' = {}
      /\ topic' = topic /\ received' = received /\ count' = count /\ alive' = alive
      /\ sub' \subseteq {s}
  <2>1. sub = {} /\ left = {} /\ cleanup = {}
    BY <1>0 DEF TypeOK
  <2>2. sub' \subseteq {s}
    BY <2>1 DEF RunSubscribe
  <2> QED
    BY <1>0, <2>1, <2>2 DEF RunSubscribe
<1>2. received[s] = <<>>
  BY DEF RunSubscribe, StreamInv, NothingYet
<1>3. first'[s] = since[c] /\ since[c] \in Nat /\ count[c] \in Nat
      /\ \A u \in Subs \ {s} : first'[u] = first[u]
  <2>1. first'[s] = since[c] /\ \A u \in Subs \ {s} : first'[u] = first[u]
    BY DEF RunSubscribe, TypeOK
  <2>2. since[c] \in 1..(MaxEvents + 1) /\ count[c] \in 0..MaxEvents
    BY <1>1 DEF TypeOK
  <2> QED
    BY <2>1, <2>2
<1>4. Len(received[s]) = 0
  BY <1>2
<1>5. Owed(s)' = since[c]
  BY <1>1, <1>3, <1>4 DEF Owed
<1>6. /\ Len(history[c]) = count[c] + 1 - since[c]
      /\ \A i \in 1..Len(history[c]) : history[c][i] = since[c] + i - 1
  BY <1>1 DEF StreamInv, HistoryInv
<1>7. Standing(s)'
  <2>1. CASE history[c] = <<>>
    <3>1. Len(history[c]) = 0
      BY <2>1
    <3>2. sub' = {}
      BY <1>1, <2>1 DEF RunSubscribe
    <3>3. Owed(s)' = count[c] + 1
      BY <1>3, <1>5, <1>6, <3>1
    <3> QED
      BY <1>1, <3>2, <3>3 DEF Standing
  <2>2. CASE history[c] # <<>>
    <3>1. sub' = {s} /\ todo' = history[c]
      BY <2>2 DEF RunSubscribe
    <3>2. Owed(s)' + Len(todo') = count[c] + 1
      BY <1>3, <1>5, <1>6, <3>1
    <3>3. \A i \in 1..Len(todo') : todo'[i] = Owed(s)' + i - 1
      BY <1>5, <1>6, <3>1
    <3> QED
      BY <1>1, <3>1, <3>2, <3>3 DEF Standing
  <2> QED
    BY <2>1, <2>2
<1>8. HistoryInv'
  BY DEF StreamInv, HistoryInv, RunSubscribe
<1>9. NothingYet'
  BY DEF StreamInv, NothingYet, RunSubscribe, TypeOK
<1>10. ASSUME alive' PROVE \A u \in Subs : InOrder(u)'
  <2>1. InOrder(s)'
    BY <1>1, <1>4 DEF InOrder
  <2>2. ASSUME NEW u \in Subs \ {s} PROVE InOrder(u)'
    BY <1>1, <1>3, <1>10 DEF StreamInv, InOrder
  <2> QED
    BY <2>1, <2>2
<1>11. ASSUME alive', NEW d \in Conns, NEW u \in byID'[d], u # s PROVE Standing(u)'
  <2>1. u \in byID[d] /\ u \in Subs
    BY <1>1, <1>11 DEF RunSubscribe, TypeOK
  <2>2. Owed(u) = count[topic[u]] + 1
    BY <1>1, <1>11, <2>1 DEF StreamInv, Standing
  <2>3. Owed(u)' = Owed(u)
    BY <1>1, <1>3, <1>11, <2>1 DEF Owed
  <2> QED
    BY <1>1, <1>11, <2>2, <2>3 DEF Standing
<1> QED
  BY <1>7, <1>8, <1>9, <1>10, <1>11 DEF StreamInv

\* Every step keeps the invariant of the streams.
LEMMA StreamStep == TypeOK /\ TypeOK' /\ RegInv /\ StreamInv /\ [Next]_vars => StreamInv'
<1> SUFFICES ASSUME TypeOK, TypeOK', RegInv, StreamInv, [Next]_vars PROVE StreamInv'
  OBVIOUS
<1> USE DEF busVars, streamVars
<1>1. CASE Stop
  BY <1>1, QuietStep DEF Stop
<1>2. CASE RunShutdown \/ HistoryShutdown
  BY <1>2, DeadStep DEF RunShutdown, HistoryShutdown, shutdown
<1>3. ASSUME NEW s \in Subs, HistorySend(s) PROVE StreamInv'
  BY <1>3, HistorySendStep
<1>4. ASSUME NEW s \in Subs, HistoryCancelled(s) PROVE StreamInv'
  <2>1. sub \cup left \cup cleanup \subseteq {s} /\ sub' \cup left' \cup cleanup' = {}
    BY <1>4 DEF HistoryCancelled, TypeOK
  <2>2. {s} \in SUBSET Subs
    OBVIOUS
  <2> QED
    BY <1>4, <2>1, <2>2, LoopEnds DEF HistoryCancelled
<1>5. ASSUME NEW s \in Subs, UpdateSend(s) PROVE StreamInv'
  BY <1>5, UpdateSendStep
<1>6. ASSUME NEW s \in Subs, UpdateCancelled(s) \/ UpdateTimeout(s) PROVE StreamInv'
  <2>1. /\ left' = left \ {s} /\ cleanup' = cleanup \cup {s}
        /\ UNCHANGED <<alive, byID, history, sub, todo, count, since, reader, topic, received, first>>
        /\ sub = {}
    BY <1>6 DEF UpdateCancelled, UpdateTimeout, TypeOK
  <2>2. HistoryInv' /\ NothingYet'
    BY <2>1 DEF StreamInv, HistoryInv, NothingYet
  <2>3. ASSUME alive' PROVE \A u \in Subs : InOrder(u)'
    BY <2>1, <2>3 DEF StreamInv, InOrder
  <2>4. ASSUME alive', NEW c \in Conns, NEW u \in byID'[c] PROVE Standing(u)'
    <3>1. Standing(u) /\ Owed(u)' = Owed(u)
      BY <2>1, <2>4 DEF StreamInv, Owed
    <3> QED
      BY <2>1, <3>1 DEF Standing
  <2> QED
    BY <2>2, <2>3, <2>4 DEF StreamInv
<1>7. CASE UpdateAborted
  BY <1>7, DeadStep DEF UpdateAborted
<1>8. CASE UpdateDone
  <2>1. sub \cup left \cup cleanup \subseteq cleanup /\ sub' \cup left' \cup cleanup' = {}
        /\ cleanup \in SUBSET Subs
    BY <1>8 DEF UpdateDone, TypeOK
  <2> QED
    BY <1>8, <2>1, LoopEnds DEF UpdateDone
<1>9. ASSUME NEW c \in Conns, Offer(c, "update") \/ Offer(c, "reset") \/ Withdraw(c)
      PROVE  StreamInv'
  BY <1>9, QuietStep DEF Offer, Withdraw
<1>10. ASSUME NEW c \in Conns, RunUpdate(c) PROVE StreamInv'
  BY <1>10, RunUpdateStep
<1>11. ASSUME NEW c \in Conns, RunReset(c) PROVE StreamInv'
  <2>1. HistoryInv'
    <3>1. history'[c] = <<>> /\ since'[c] = count[c] + 1 /\ count' = count
          /\ \A d \in Conns \ {c} : history'[d] = history[d] /\ since'[d] = since[d]
      BY <1>11 DEF RunReset, TypeOK
    <3>2. Len(history'[c]) = 0 /\ count[c] \in Nat
      BY <3>1 DEF TypeOK
    <3> QED
      BY <3>1, <3>2 DEF StreamInv, HistoryInv
  <2>2. NothingYet'
    BY <1>11 DEF RunReset, StreamInv, NothingYet
  <2> QED
    BY <1>11, <2>1, <2>2 DEF RunReset, StreamInv, InOrder, Standing, Owed
<1>12. ASSUME NEW s \in Subs, RunSubscribe(s) PROVE StreamInv'
  BY <1>12, RunSubscribeStep
<1>13. ASSUME NEW s \in Subs, Subscribe(s) \/ SubscribeCancelled(s) \/ Cancel(s)
       PROVE  StreamInv'
  <2>1. \A u \in Subs : reader'[u] \in {"new", "joining"} => reader[u] \in {"new", "joining"}
    BY <1>13 DEF Subscribe, SubscribeCancelled, Cancel, TypeOK
  <2> QED
    BY <1>13, <2>1, QuietStep DEF Subscribe, SubscribeCancelled, Cancel
<1>14. ASSUME NEW s \in Subs, SendDone(s) \/ SendFails(s) \/ StreamEnds(s)
       PROVE  StreamInv'
  <2>1. \A u \in Subs : reader'[u] \in {"new", "joining"} => reader[u] \in {"new", "joining"}
    BY <1>14 DEF SendDone, SendFails, StreamEnds, TypeOK
  <2> QED
    BY <1>14, <2>1, QuietStep DEF SendDone, SendFails, StreamEnds
<1>15. CASE UNCHANGED vars
  BY <1>15, QuietStep DEF vars
<1> QED
  BY <1>1, <1>2, <1>3, <1>4, <1>5, <1>6, <1>7, <1>8, <1>9, <1>10, <1>11, <1>12, <1>13, <1>14, <1>15
     DEF Next, Serve

\* The invariant of the streams holds throughout.
LEMMA StreamInvariant == Spec => []StreamInv
<1>1. Init => StreamInv
  BY DEF Init, StreamInv, HistoryInv, NothingYet, InOrder, Standing
<1> QED
  BY <1>1, StreamStep, RegInvariant, TypeCorrect, PTL DEF Spec

(***************************************************************************)
(* Spec => []NoGap: while the server runs, what a stream has received is   *)
(* an unbroken run of its connection's events, starting with the first one *)
(* after the last Reset before it joined.                                  *)
(***************************************************************************)
THEOREM StreamsHaveNoGap == Spec => []NoGap
<1>1. TypeOK /\ StreamInv => NoGap
  <2> SUFFICES ASSUME TypeOK, StreamInv, alive, NEW s \in Subs, NEW i \in DOMAIN received[s]
               PROVE  received[s][i] = first[s] + i - 1
    BY DEF NoGap
  <2>1. received[s] \in Seq(1..MaxEvents)
    BY DEF TypeOK
  <2>2. i \in 1..Len(received[s])
    BY <2>1
  <2> QED
    BY <2>2 DEF StreamInv, InOrder
<1> QED
  BY <1>1, StreamInvariant, TypeCorrect, PTL

(***************************************************************************)
(* Spec => []CaughtUp: each time run returns to its select while the       *)
(* server runs, no registered stream is behind.                            *)
(***************************************************************************)
THEOREM StreamsCatchUp == Spec => []CaughtUp
<1>1. TypeOK /\ RegInv /\ StreamInv => CaughtUp
  <2> SUFFICES ASSUME TypeOK, RegInv, StreamInv, alive, pc = "select", NEW s \in Registered
               PROVE  first[s] + Len(received[s]) = count[topic[s]] + 1
    BY DEF CaughtUp
  <2>1. sub = {} /\ left = {} /\ cleanup = {}
    BY DEF TypeOK
  <2>2. PICK c \in Conns : s \in byID[c]
    BY DEF Registered
  <2> QED
    BY <2>1, <2>2 DEF StreamInv, Standing, Owed
<1> QED
  BY <1>1, StreamInvariant, RegInvariant, TypeCorrect, PTL

-----------------------------------------------------------------------------
(***************************************************************************)
(* A stream that is registered receives, sends, or is over and known to    *)
(* be: StatusUpdates never returns without the end of its context.         *)
(***************************************************************************)
OverIsCancelled == \A s \in Subs : reader[s] = "done" => s \in cancelled

\* Every step keeps the streams that are over cancelled.
LEMMA OverStep == TypeOK /\ OverIsCancelled /\ [Next]_vars => OverIsCancelled'
<1> SUFFICES ASSUME TypeOK, OverIsCancelled, [Next]_vars PROVE OverIsCancelled'
  OBVIOUS
<1> USE DEF OverIsCancelled, TypeOK
<1>1. CASE Stop \/ RunShutdown \/ HistoryShutdown \/ UpdateAborted \/ UpdateDone
  BY <1>1 DEF Stop, RunShutdown, HistoryShutdown, UpdateAborted, UpdateDone, streamVars
<1>2. ASSUME NEW s \in Subs, HistorySend(s) \/ UpdateSend(s) PROVE OverIsCancelled'
  BY <1>2 DEF HistorySend, UpdateSend, Deliver
<1>3. ASSUME NEW s \in Subs, HistoryCancelled(s) \/ UpdateCancelled(s) \/ UpdateTimeout(s)
      PROVE  OverIsCancelled'
  BY <1>3 DEF HistoryCancelled, UpdateCancelled, UpdateTimeout, streamVars
<1>4. ASSUME NEW c \in Conns, Offer(c, "update") \/ Offer(c, "reset") \/ Withdraw(c)
      PROVE  OverIsCancelled'
  BY <1>4 DEF Offer, Withdraw, streamVars
<1>5. ASSUME NEW c \in Conns, RunUpdate(c) \/ RunReset(c) PROVE OverIsCancelled'
  BY <1>5 DEF RunUpdate, RunReset, streamVars
<1>6. ASSUME NEW s \in Subs, Subscribe(s) \/ SubscribeCancelled(s) \/ Cancel(s)
      PROVE  OverIsCancelled'
  BY <1>6 DEF Subscribe, SubscribeCancelled, Cancel
<1>7. ASSUME NEW s \in Subs, SendDone(s) \/ SendFails(s) \/ StreamEnds(s)
      PROVE  OverIsCancelled'
  BY <1>7 DEF SendDone, SendFails, StreamEnds
<1>8. ASSUME NEW s \in Subs, RunSubscribe(s) PROVE OverIsCancelled'
  BY <1>8 DEF RunSubscribe
<1>9. CASE UNCHANGED vars
  BY <1>9 DEF vars, streamVars
<1> QED
  BY <1>1, <1>2, <1>3, <1>4, <1>5, <1>6, <1>7, <1>8, <1>9 DEF Next, Serve

\* run can send to s, or give it up.
Ready(s) == reader[s] = "ranging" \/ s \in cancelled

\* Sending the history, run has one stream before it, which is ready or in a Send.
WaitsForASend ==
  pc = "history" => \E s \in Subs : /\ sub = {s} /\ s \notin closed
                                    /\ Ready(s) \/ reader[s] = "sending"

(***************************************************************************)
(* All that can hold up run, and with it every publisher, is the Send of   *)
(* one stream to its client: the loop that sends the history has no        *)
(* deadline (events.go:112), but the stream it waits for is receiving, or  *)
(* over and known to be, or inside that Send, and its channel is open.     *)
(* With the fairness of streams that is half of PublishersGoOn; the loop   *)
(* of update has its deadline.                                             *)
(***************************************************************************)
THEOREM RunWaitsForASendOnly == Spec => []WaitsForASend
<1>1. Init => OverIsCancelled
  BY DEF Init, OverIsCancelled
<1>2. TypeOK /\ RegInv /\ OverIsCancelled => WaitsForASend
  <2> SUFFICES ASSUME TypeOK, RegInv, OverIsCancelled, pc = "history"
               PROVE  \E s \in Subs : /\ sub = {s} /\ s \notin closed
                                      /\ Ready(s) \/ reader[s] = "sending"
    BY DEF WaitsForASend
  <2>1. PICK s \in Subs : sub = {s}
    BY DEF TypeOK
  <2>2. s \in byID[topic[s]] /\ topic[s] \in Conns
    BY <2>1 DEF RegInv, TypeOK
  <2>3. s \notin closed /\ reader[s] \notin {"new", "joining"}
    BY <2>2 DEF RegInv
  <2>4. Ready(s) \/ reader[s] = "sending"
    BY <2>3 DEF OverIsCancelled, Ready, TypeOK
  <2> QED
    BY <2>1, <2>3, <2>4
<1> QED
  BY <1>1, <1>2, OverStep, RegInvariant, TypeCorrect, PTL DEF Spec
=============================================================================
