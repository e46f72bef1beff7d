---------------------------- MODULE Broadcaster ----------------------------
(***************************************************************************)
(* The event broadcaster (api/events.go) and the streams it feeds          *)
(* (StatusUpdates in api/listener_server.go).                              *)
(*                                                                         *)
(* One goroutine, run, owns the history of every connection and the        *)
(* subscribers.  Publishers (the accept loops and the handlers) and        *)
(* subscribers meet it on unbuffered channels, so an exchange is one       *)
(* action of both sides.  While run sends to one subscriber it serves      *)
(* nobody else, which is where the interleavings are.                      *)
(*                                                                         *)
(* Events of a connection are numbered in the order run receives them.     *)
(***************************************************************************)
EXTENDS Integers, Sequences, FiniteSets

CONSTANTS Conns,      \* the connection ids
          Subs,       \* the StatusUpdates streams, one call each
          MaxEvents   \* bound: the events published for a connection

ASSUME BroadcasterAssumption == MaxEvents \in Nat

VARIABLES
  alive,      \* the context of NewServer has not been cancelled
  pc,         \* where run is: its select, sending history, sending an update, returned
  byID,       \* events.byID: the subscribers of each connection
  history,    \* events.history
  sub,        \* history: the subscriber that is being sent the history (a set of at most one)
  todo,       \* history: what is left of it;  update: the event, as a sequence
  left,       \* update: the subscribers not yet visited
  cleanup,    \* update: the subscribers to be removed
  offer,      \* the call a publisher of each connection is blocked in
  reader,     \* where each stream is
  topic,      \* the connection of each stream
  cancelled,  \* the streams whose context is cancelled
  closed,     \* the streams whose channel is closed
  received,   \* the events each stream has received from its channel
  count,      \* the number of events run has received for each connection
  since,      \* the first event of each connection after its last Reset
  first       \* for each stream the first event it is owed

busVars == <<alive, pc, byID, history, sub, todo, left, cleanup, count, since>>
streamVars == <<reader, topic, cancelled, closed, received, first>>
vars == <<busVars, streamVars, offer>>

\* The types, and what run's local variables are in each of its loops.
TypeOK == /\ alive \in BOOLEAN
          /\ pc \in {"select", "history", "update", "returned"}
          /\ byID \in [Conns -> SUBSET Subs]
          /\ history \in [Conns -> Seq(1..MaxEvents)]
          /\ sub \subseteq Subs
          /\ todo \in Seq(1..MaxEvents)
          /\ left \subseteq Subs
          /\ cleanup \subseteq Subs
          /\ offer \in [Conns -> {"none", "update", "reset"}]
          /\ reader \in [Subs -> {"new", "joining", "ranging", "sending", "done"}]
          /\ topic \in [Subs -> Conns]
          /\ cancelled \subseteq Subs
          /\ closed \subseteq Subs
          /\ received \in [Subs -> Seq(1..MaxEvents)]
          /\ count \in [Conns -> 0..MaxEvents]
          /\ since \in [Conns -> 1..(MaxEvents + 1)]
          /\ first \in [Subs -> 1..(MaxEvents + 1)]
          /\ IF pc = "history" THEN todo # <<>> /\ \E s \in Subs : sub = {s} ELSE sub = {}
          /\ IF pc = "update" THEN Len(todo) = 1 ELSE left = {} /\ cleanup = {}

\* Which connection a stream is for is settled by its request.
Init == /\ alive = TRUE
        /\ pc = "select"
        /\ byID = [c \in Conns |-> {}]
        /\ history = [c \in Conns |-> <<>>]
        /\ sub = {}
        /\ todo = <<>>
        /\ left = {}
        /\ cleanup = {}
        /\ offer = [c \in Conns |-> "none"]
        /\ reader = [s \in Subs |-> "new"]
        /\ topic \in [Subs -> Conns]
        /\ cancelled = {}
        /\ closed = {}
        /\ received = [s \in Subs |-> <<>>]
        /\ count = [c \in Conns |-> 0]
        /\ since = [c \in Conns |-> 1]
        /\ first = [s \in Subs |-> 1]

-----------------------------------------------------------------------------
(***************************************************************************)
(* Publishers: Update and Reset wait until run takes the value or the      *)
(* context of the call ends.                                               *)
(***************************************************************************)
Offer(c, op) == /\ offer[c] = "none"
                /\ op = "update" => count[c] < MaxEvents
                /\ offer' = [offer EXCEPT ![c] = op]
                /\ UNCHANGED <<busVars, streamVars>>

Withdraw(c) == /\ offer[c] # "none"
               /\ offer' = [offer EXCEPT ![c] = "none"]
               /\ UNCHANGED <<busVars, streamVars>>

-----------------------------------------------------------------------------
(***************************************************************************)
(* Streams: StatusUpdates subscribes, then forwards what the channel gives *)
(* to the client.  Send may take any time; when it fails the handler       *)
(* returns, which cancels the context of the stream.                       *)
(***************************************************************************)
Subscribe(s) == /\ reader[s] = "new"
                /\ reader' = [reader EXCEPT ![s] = "joining"]
                /\ UNCHANGED <<busVars, topic, cancelled, closed, received, first, offer>>

SubscribeCancelled(s) == /\ reader[s] = "joining"
                         /\ s \in cancelled
                         /\ reader' = [reader EXCEPT ![s] = "done"]
                         /\ UNCHANGED <<busVars, topic, cancelled, closed, received, first, offer>>

Cancel(s) == /\ reader[s] \in {"joining", "ranging", "sending"}
             /\ s \notin cancelled
             /\ cancelled' = cancelled \cup {s}
             /\ UNCHANGED <<busVars, reader, topic, closed, received, first, offer>>

SendDone(s) == /\ reader[s] = "sending"
               /\ reader' = [reader EXCEPT ![s] = "ranging"]
               /\ UNCHANGED <<busVars, topic, cancelled, closed, received, first, offer>>

SendFails(s) == /\ reader[s] = "sending"
                /\ reader' = [reader EXCEPT ![s] = "done"]
                /\ cancelled' = cancelled \cup {s}
                /\ UNCHANGED <<busVars, topic, closed, received, first, offer>>

\* range ends when the channel is closed.
StreamEnds(s) == /\ reader[s] = "ranging"
                 /\ s \in closed
                 /\ reader' = [reader EXCEPT ![s] = "done"]
                 /\ cancelled' = cancelled \cup {s}
                 /\ UNCHANGED <<busVars, topic, closed, received, first, offer>>

\* The exchange of one event on a subscriber's channel.
Deliver(s, e) == /\ reader[s] = "ranging"
                 /\ received' = [received EXCEPT ![s] = Append(@, e)]
                 /\ reader' = [reader EXCEPT ![s] = "sending"]

-----------------------------------------------------------------------------
(***************************************************************************)
(* run: the cases of its select.                                           *)
(***************************************************************************)
\* The server's context ends.
Stop == /\ alive
        /\ alive' = FALSE
        /\ UNCHANGED <<pc, byID, history, sub, todo, left, cleanup, count, since, streamVars, offer>>

\* A mutant: shutdown forgets the subscribers without closing their channels.
shutdown_noClose == /\ ~alive
                    /\ byID' = [c \in Conns |-> {}]
                    /\ pc' = "returned"
                    /\ sub' = {}
                    /\ todo' = <<>>
                    /\ UNCHANGED closed

\* shutdown closes every registered channel.
shutdown == /\ ~alive
            /\ closed' = closed \cup UNION {byID[c] : c \in Conns}
            /\ byID' = [c \in Conns |-> {}]
            /\ pc' = "returned"
            /\ sub' = {}
            /\ todo' = <<>>

RunShutdown == /\ pc = "select"
               /\ shutdown
               /\ UNCHANGED <<alive, history, left, cleanup, count, since, reader, topic, cancelled,
                              received, first, offer>>

\* A mutant: the event is not recorded in the history.
RunUpdate_noHistory(c) ==
  /\ pc = "select"
  /\ offer[c] = "update"
  /\ offer' = [offer EXCEPT ![c] = "none"]
  /\ count' = [count EXCEPT ![c] = @ + 1]
  /\ IF byID[c] = {}
     THEN UNCHANGED <<pc, todo, left>>
     ELSE /\ pc' = "update"
          /\ todo' = <<count[c] + 1>>
          /\ left' = byID[c]
  /\ UNCHANGED <<alive, byID, history, sub, cleanup, since, streamVars>>

\* An event arrives: append it to the history, then update the subscribers.
RunUpdate(c) ==
  /\ pc = "select"
  /\ offer[c] = "update"
  /\ offer' = [offer EXCEPT ![c] = "none"]
  /\ count' = [count EXCEPT ![c] = @ + 1]
  /\ history' = [history EXCEPT ![c] = Append(@, count[c] + 1)]
  /\ IF byID[c] = {}
     THEN UNCHANGED <<pc, todo, left>>
     ELSE /\ pc' = "update"
          /\ todo' = <<count[c] + 1>>
          /\ left' = byID[c]
  /\ UNCHANGED <<alive, byID, sub, cleanup, since, streamVars>>

RunReset(c) ==
  /\ pc = "select"
  /\ offer[c] = "reset"
  /\ offer' = [offer EXCEPT ![c] = "none"]
  /\ history' = [history EXCEPT ![c] = <<>>]
  /\ since' = [since EXCEPT ![c] = count[c] + 1]
  /\ UNCHANGED <<alive, pc, byID, sub, todo, left, cleanup, count, streamVars>>

\* A subscriber arrives: register it, then send it the history.
RunSubscribe(s) ==
  LET c == topic[s] IN
  /\ pc = "select"
  /\ reader[s] = "joining"
  /\ reader' = [reader EXCEPT ![s] = "ranging"]
  /\ byID' = [byID EXCEPT ![c] = @ \cup {s}]
  /\ first' = [first EXCEPT ![s] = since[c]]
  /\ IF history[c] = <<>>
     THEN UNCHANGED <<pc, sub, todo>>
     ELSE /\ pc' = "history"
          /\ sub' = {s}
          /\ todo' = history[c]
  /\ UNCHANGED <<alive, history, left, cleanup, count, since, topic, cancelled, closed, received, offer>>

\* unsubscribe: close the channels of S and forget them.
unsubscribe(S) == /\ closed' = closed \cup S
                  /\ byID' = [c \in Conns |-> byID[c] \ S]

-----------------------------------------------------------------------------
(***************************************************************************)
(* run: the loop send_history.  It has no deadline.                        *)
(***************************************************************************)
\* A mutant: the end of the history does not end the loop.
HistorySend_noEnd(s) ==
  /\ pc = "history" /\ s \in sub
  /\ Deliver(s, Head(todo))
  /\ todo' = Tail(todo)
  /\ UNCHANGED <<alive, pc, sub, byID, history, left, cleanup, count, since, topic, cancelled,
                 closed, first, offer>>

HistorySend(s) ==
  /\ pc = "history" /\ s \in sub
  /\ Deliver(s, Head(todo))
  /\ todo' = Tail(todo)
  /\ IF Tail(todo) = <<>>
     THEN pc' = "select" /\ sub' = {}
     ELSE UNCHANGED <<pc, sub>>
  /\ UNCHANGED <<alive, byID, history, left, cleanup, count, since, topic, cancelled, closed, first, offer>>

\* A mutant: a cancelled subscriber's channel is closed and stays registered.
HistoryCancelled_stillRegistered(s) ==
  /\ pc = "history" /\ s \in sub
  /\ s \in cancelled
  /\ closed' = closed \cup {s}
  /\ pc' = "select" /\ sub' = {} /\ todo' = <<>>
  /\ UNCHANGED <<alive, byID, history, left, cleanup, count, since, reader, topic, cancelled,
                 received, first, offer>>

\* A mutant: the loop does not watch the subscriber's context.
HistoryCancelled_never(s) == FALSE /\ UNCHANGED vars

HistoryCancelled(s) ==
  /\ pc = "history" /\ s \in sub
  /\ s \in cancelled
  /\ unsubscribe({s})
  /\ pc' = "select" /\ sub' = {} /\ todo' = <<>>
  /\ UNCHANGED <<alive, history, left, cleanup, count, since, reader, topic, cancelled,
                 received, first, offer>>

HistoryShutdown ==
  /\ pc = "history"
  /\ shutdown
  /\ UNCHANGED <<alive, history, left, cleanup, count, since, reader, topic, cancelled,
                 received, first, offer>>

-----------------------------------------------------------------------------
(***************************************************************************)
(* run: update visits the subscribers of the event in any order.           *)
(***************************************************************************)
UpdateSend(s) ==
  /\ pc = "update" /\ s \in left
  /\ s \notin cancelled
  /\ Deliver(s, Head(todo))
  /\ left' = left \ {s}
  /\ UNCHANGED <<alive, pc, byID, history, sub, todo, cleanup, count, since, topic, cancelled,
                 closed, first, offer>>

\* The context of the subscriber has ended, before the select or during it.
UpdateCancelled(s) ==
  /\ pc = "update" /\ s \in left
  /\ s \in cancelled
  /\ left' = left \ {s}
  /\ cleanup' = cleanup \cup {s}
  /\ UNCHANGED <<alive, pc, byID, history, sub, todo, count, since, streamVars, offer>>

\* A mutant: a subscriber that is late is skipped and stays subscribed.
UpdateTimeout_skips(s) ==
  /\ pc = "update" /\ s \in left
  /\ reader[s] # "ranging"
  /\ left' = left \ {s}
  /\ UNCHANGED <<alive, pc, byID, history, sub, todo, cleanup, count, since, streamVars, offer>>

\* updateDeadline passes: the subscriber was not receiving.
UpdateTimeout(s) ==
  /\ pc = "update" /\ s \in left
  /\ reader[s] # "ranging"
  /\ left' = left \ {s}
  /\ cleanup' = cleanup \cup {s}
  /\ UNCHANGED <<alive, pc, byID, history, sub, todo, count, since, streamVars, offer>>

\* The server's context has ended: update returns without the clean up.
UpdateAborted ==
  /\ pc = "update" /\ left # {}
  /\ ~alive
  /\ pc' = "select" /\ todo' = <<>> /\ left' = {} /\ cleanup' = {}
  /\ UNCHANGED <<alive, byID, history, sub, count, since, streamVars, offer>>

UpdateDone ==
  /\ pc = "update" /\ left = {}
  /\ unsubscribe(cleanup)
  /\ pc' = "select" /\ todo' = <<>> /\ cleanup' = {}
  /\ UNCHANGED <<alive, history, sub, left, count, since, reader, topic, cancelled, received, first, offer>>

-----------------------------------------------------------------------------
\* The steps run takes once it has received something.
Serve == \/ \E s \in Subs : HistorySend(s) \/ HistoryCancelled(s)
                            \/ UpdateSend(s) \/ UpdateCancelled(s) \/ UpdateTimeout(s)
         \/ HistoryShutdown \/ UpdateAborted \/ UpdateDone

Next == \/ Stop \/ RunShutdown \/ Serve
        \/ \E c \in Conns : \/ Offer(c, "update") \/ Offer(c, "reset") \/ Withdraw(c)
                            \/ RunUpdate(c) \/ RunReset(c)
        \/ \E s \in Subs : \/ Subscribe(s) \/ SubscribeCancelled(s) \/ Cancel(s)
                           \/ SendDone(s) \/ SendFails(s) \/ StreamEnds(s) \/ RunSubscribe(s)

(***************************************************************************)
(* Fairness.  run is a goroutine and takes the steps that are ready; its   *)
(* select chooses at random among the ready cases, so a case that is ready *)
(* again and again is taken (strong fairness).  A stream gets on with its  *)
(* next receive when Send returns; that Send returns is the obligation the *)
(* API puts on clients (api.proto:89, "a client has to subscribe and       *)
(* continuously listen to the broadcasted updates").                       *)
(***************************************************************************)
RunFairness == /\ WF_vars(Serve)
               /\ WF_vars(RunShutdown)
               /\ \A c \in Conns : SF_vars(RunUpdate(c)) /\ SF_vars(RunReset(c))
               /\ \A s \in Subs : SF_vars(RunSubscribe(s))

StreamFairness == \A s \in Subs : /\ WF_vars(StreamEnds(s))
                                  /\ WF_vars(SubscribeCancelled(s))
                                  /\ WF_vars(SendDone(s) \/ SendFails(s))

Spec == Init /\ [][Next]_vars /\ RunFairness /\ StreamFairness

-----------------------------------------------------------------------------
(***************************************************************************)
(* Properties.                                                             *)
(***************************************************************************)
Registered == UNION {byID[c] : c \in Conns}

(***************************************************************************)
(* A channel that is registered is open: run never sends to a stream it    *)
(* has closed.  close() sets the channel to nil (events.go:34-41), and run *)
(* would wait on it for its deadline, or in the history for ever.          *)
(***************************************************************************)
RegisteredIsOpen == /\ Registered \cap closed = {}
                    /\ left \cup cleanup \cup sub \subseteq Registered

(***************************************************************************)
(* As long as the server runs, a stream gives its client the events since  *)
(* the last Reset before it joined and then every later event, in order,   *)
(* none twice and none left out: a stream that cannot keep up ends, it     *)
(* never skips an event.                                                   *)
(***************************************************************************)
NoGap == alive => \A s \in Subs : \A i \in DOMAIN received[s] :
                    received[s][i] = first[s] + i - 1

(***************************************************************************)
(* Whenever run is back at its select, every registered stream has been    *)
(* given all it is owed, up to the newest event of its connection.         *)
(***************************************************************************)
CaughtUp == (alive /\ pc = "select") =>
              \A s \in Registered : first[s] + Len(received[s]) = count[topic[s]] + 1

(***************************************************************************)
(* Nobody waits for ever on the broadcaster: a publisher blocked in Update *)
(* or Reset (which may hold the server's lock) goes on, unless run has     *)
(* returned.                                                               *)
(***************************************************************************)
PublishersGoOn == \A c \in Conns : offer[c] # "none" ~> (offer[c] = "none" \/ pc = "returned")

(***************************************************************************)
(* When the server stops every stream ends, wherever run was: its handler  *)
(* leaves the range over its channel (events.go:145-152).                  *)
(***************************************************************************)
StopEndsStreams ==
  (~alive) ~> \A s \in Subs : reader[s] \notin {"ranging", "sending"}
=============================================================================
