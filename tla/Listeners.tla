----------------------------- MODULE Listeners -----------------------------
(***************************************************************************)
(* The listener half of the API server: Update, Delete and GetStatus       *)
(* (api/listener_server.go), the listener table (api/listener.go) and the  *)
(* goroutines that serve a listener (tunnelAcceptLoop and tunnelEvents in  *)
(* api/tunnel.go, onContextCancel, the UDP goroutine).                     *)
(*                                                                         *)
(* The handlers hold the server's lock; the goroutines never take it.  A   *)
(* handler only cancels a context: the socket is closed by one goroutine   *)
(* and the end of the loop is announced by another, at any later time.     *)
(*                                                                         *)
(* The broadcaster is reduced to the last listener status its history of a *)
(* record holds (module Broadcaster has the rest); events that carry only  *)
(* an error, and the events of individual peers, do not change it.         *)
(***************************************************************************)
EXTENDS Integers, FiniteSets

CONSTANTS Ids,        \* the records
          FixedPort,  \* those that ask for a port; the others get a free one
          Loops,      \* bound: the listeners that exist at a time
          NoLoop      \* no listener

ASSUME ListenersAssumption == /\ FixedPort \subseteq Ids
                              /\ IsFiniteSet(Loops)
                              /\ NoLoop \notin Loops

VARIABLES
  conn,      \* config.byID: the protocol of each record, "absent" when there is none
  table,     \* listenerStatus: the loop of a record that is listening
  call,      \* the handler that holds the lock: its operation, the ids left and asked for
  owner,     \* the record a loop was opened for
  udp,       \* the loops that serve UDP
  pc,        \* where the goroutine of each loop is
  live,      \* the loops whose context is not cancelled
  open,      \* the loops whose socket is open
  last,      \* the last status of each record in the broadcaster's history
  clean      \* the records whose present loop began alone and lost no event since

loopVars == <<owner, udp, pc, live, open>>
vars == <<conn, table, call, loopVars, last, clean>>

Idle == [op |-> "none", left |-> {}, asked |-> {}]

TypeOK == /\ conn \in [Ids -> {"absent", "TCP", "UDP"}]
          /\ table \in [Ids -> Loops \cup {NoLoop}]
          /\ call \in [op : {"none", "connect", "disconnect", "delete"},
                       left : SUBSET Ids, asked : SUBSET Ids]
          /\ call.left \subseteq call.asked
          /\ call.op = "none" => call = Idle
          /\ owner \in [Loops -> Ids]
          /\ udp \subseteq Loops
          /\ pc \in [Loops -> {"reset", "announce", "serve", "backoff", "closing", "returned"}]
          /\ live \subseteq open
          /\ open \subseteq Loops
          /\ last \in [Ids -> {"none", "LISTENING", "CLOSED"}]
          /\ clean \subseteq Ids

Init == /\ conn \in [Ids -> {"TCP", "UDP"}]
        /\ table = [id \in Ids |-> NoLoop]
        /\ call = Idle
        /\ owner \in [Loops -> Ids]
        /\ udp = {}
        /\ pc = [g \in Loops |-> "returned"]
        /\ live = {}
        /\ open = {}
        /\ last = [id \in Ids |-> "none"]
        /\ clean = Ids

\* The goroutine has returned and the socket is closed: nothing is left of it.
Gone(g) == pc[g] = "returned" /\ g \notin open

\* The goroutines that serve, or served, a record and have not returned.
LoopsOf(id) == {g \in Loops : owner[g] = id /\ pc[g] # "returned"}

Listening(id) == table[id] # NoLoop

-----------------------------------------------------------------------------
(***************************************************************************)
(* The handlers.  Update and Delete take the lock and walk their ids.      *)
(***************************************************************************)
Begin(op, S) == /\ call.op = "none"
                /\ call' = [op |-> op, left |-> S, asked |-> S]
                /\ UNCHANGED <<conn, table, loopVars, last, clean>>

\* The first conjunct is the bound: there are loops left for all of S.
UpdateConnected(S) == /\ Cardinality(S) <= Cardinality({g \in Loops : Gone(g)})
                      /\ Begin("connect", S)

UpdateDisconnected(S) == Begin("disconnect", S)

\* Delete lists existing records only.
Delete(S) == (\A id \in S : conn[id] # "absent") /\ Begin("delete", S)

Visit(op, id) == /\ call.op = op
                 /\ id \in call.left
                 /\ call' = [call EXCEPT !.left = @ \ {id}]

\* connectLocked: the record is listening already.
ConnectSkips(id) == /\ Visit("connect", id)
                    /\ Listening(id)
                    /\ UNCHANGED <<conn, table, loopVars, last, clean>>

\* There is no such record, its URLs are refused, or net.Listen fails.
ConnectFails(id) == /\ Visit("connect", id)
                    /\ ~Listening(id)
                    /\ UNCHANGED <<conn, table, loopVars, last, clean>>

\* A port that is asked for can be taken by one open socket only.
PortTaken(id) == id \in FixedPort /\ \E g \in open : owner[g] = id

\* A new listener, its context and its goroutines.
OpenLoop(g, id) == /\ Gone(g)
                   /\ owner' = [owner EXCEPT ![g] = id]
                   /\ pc' = [pc EXCEPT ![g] = "reset"]
                   /\ live' = live \cup {g}
                   /\ open' = open \cup {g}
                   /\ clean' = IF LoopsOf(id) = {} THEN clean \cup {id} ELSE clean \ {id}

\* A mutant: the table is not told of the new listener.
ConnectTCP_notListed(g, id) ==
  /\ Visit("connect", id)
  /\ conn[id] = "TCP" /\ ~Listening(id) /\ ~PortTaken(id)
  /\ OpenLoop(g, id)
  /\ udp' = udp \ {g}
  /\ UNCHANGED <<conn, table, last>>

\* SetListening cannot fail here: connectLocked has just seen no entry.
connectTCPTunnelLocked(g, id) ==
  /\ Visit("connect", id)
  /\ conn[id] = "TCP" /\ ~Listening(id) /\ ~PortTaken(id)
  /\ OpenLoop(g, id)
  /\ udp' = udp \ {g}
  /\ table' = [table EXCEPT ![id] = g]
  /\ UNCHANGED <<conn, last>>

\* The UDP listener does not enter the table.
connectUDPTunnelLocked(g, id) ==
  /\ Visit("connect", id)
  /\ conn[id] = "UDP" /\ ~Listening(id) /\ ~PortTaken(id)
  /\ OpenLoop(g, id)
  /\ udp' = udp \cup {g}
  /\ UNCHANGED <<conn, table, last>>

\* A mutant: the context is cancelled and the entry stays.
SetNotListening_noDelete(id) == /\ live' = live \ {table[id]}
                                /\ UNCHANGED table

\* SetNotListening: cancel the loop in the table and delete the entry.  With no
\* entry it returns an error and changes nothing; nobody fails on that error.
SetNotListening(id) == /\ live' = live \ {table[id]}
                       /\ table' = [table EXCEPT ![id] = NoLoop]

disconnectLocked(id) ==
  /\ Visit("disconnect", id) \/ Visit("delete", id)
  /\ SetNotListening(id)
  /\ UNCHANGED <<conn, owner, udp, pc, open, last, clean>>

\* The handler returns; Delete has removed the records by then.
Return == /\ call.op # "none"
          /\ call.left = {}
          /\ call' = Idle
          /\ conn' = [id \in Ids |-> IF call.op = "delete" /\ id \in call.asked
                                     THEN "absent" ELSE conn[id]]
          /\ UNCHANGED <<table, loopVars, last, clean>>

\* Upsert changes a record, or Import stores one; the listeners are not told.
Store(id) == /\ call.op = "none"
             /\ \E p \in {"TCP", "UDP"} : conn' = [conn EXCEPT ![id] = p]
             /\ UNCHANGED <<table, call, loopVars, last, clean>>

-----------------------------------------------------------------------------
(***************************************************************************)
(* The goroutines of a loop.                                               *)
(***************************************************************************)
At(g, from, to) == /\ pc[g] = from
                   /\ pc' = [pc EXCEPT ![g] = to]

\* The event reaches the broadcaster, or it does not.
Publish(g, status) == /\ last' = [last EXCEPT ![owner[g]] = status]
                      /\ UNCHANGED clean
Lost(g) == /\ clean' = clean \ {owner[g]}
           /\ UNCHANGED last

\* onListening, first half.  With a cancelled context the select of Reset may
\* take either case.
LoopReset(g) == /\ At(g, "reset", "announce")
                /\ Publish(g, "none") \/ (g \notin live /\ Lost(g))
                /\ UNCHANGED <<conn, table, call, owner, udp, live, open>>

\* onListening, second half: the event LISTENING.
LoopAnnounce(g) == /\ At(g, "announce", "serve")
                   /\ Publish(g, "LISTENING") \/ (g \notin live /\ Lost(g))
                   /\ UNCHANGED <<conn, table, call, owner, udp, live, open>>

\* A mutant: the error of a closed socket is retried.
AcceptClosed_retries(g) == /\ At(g, "serve", "backoff")
                           /\ g \notin udp \cup open
                           /\ UNCHANGED <<conn, table, call, owner, udp, live, open, last, clean>>

\* Accept fails because the socket was closed, which only a cancelled context does.
AcceptClosed(g) == /\ At(g, "serve", "closing")
                   /\ g \notin udp \cup open
                   /\ UNCHANGED <<conn, table, call, owner, udp, live, open, last, clean>>

\* Accept fails with a timeout: return if the context has ended, else wait.
AcceptTimeout(g) == /\ At(g, "serve", IF g \in live THEN "backoff" ELSE "closing")
                    /\ g \in open \ udp
                    /\ UNCHANGED <<conn, table, call, owner, udp, live, open, last, clean>>

BackoffOver(g) == /\ At(g, "backoff", "serve")
                  /\ UNCHANGED <<conn, table, call, owner, udp, live, open, last, clean>>

\* The context ends during the wait: the loop returns and announces nothing.
BackoffCancelled(g) == /\ At(g, "backoff", "returned")
                       /\ g \notin live
                       /\ Lost(g)
                       /\ UNCHANGED <<conn, table, call, owner, udp, live, open>>

\* RunUDPSessionManager returns with an error of the socket; nothing else ends it,
\* as nobody holds the cancel function of its context.
ManagerEnds(g) == /\ At(g, "serve", "closing")
                  /\ g \in udp
                  /\ UNCHANGED <<conn, table, call, owner, udp, live, open, last, clean>>

\* A mutant: the closing event is published as a listening one.
LoopClosed_wrongStatus(g) == /\ At(g, "closing", "returned")
                             /\ Publish(g, "LISTENING") \/ Lost(g)
                             /\ live' = live \ {g}
                             /\ UNCHANGED <<conn, table, call, owner, udp, open>>

\* onTunnelClosed: the event CLOSED, given up after a second.  The UDP goroutine
\* then cancels its context; that of a TCP loop is cancelled already.
LoopClosed(g) == /\ At(g, "closing", "returned")
                 /\ Publish(g, "CLOSED") \/ Lost(g)
                 /\ live' = live \ {g}
                 /\ UNCHANGED <<conn, table, call, owner, udp, open>>

\* A mutant: the socket is closed without waiting for the context.
CloseSocket_early(g) == /\ g \in open
                        /\ open' = open \ {g}
                        /\ UNCHANGED <<conn, table, call, owner, udp, pc, live, last, clean>>

\* onContextCancel, or the AfterFunc of the UDP listener.
CloseSocket(g) == /\ g \in open \ live
                  /\ open' = open \ {g}
                  /\ UNCHANGED <<conn, table, call, owner, udp, pc, live, last, clean>>

(***************************************************************************)
(* Accept fails with an error that is no timeout (no file descriptors, for *)
(* one) while the context is alive: the loop goes on with a nil connection *)
(* and the goroutine that should serve it panics.  The process dies; its   *)
(* successor has the records and nothing else.                             *)
(***************************************************************************)
AcceptPanics(g) == /\ g \in live \ udp
                   /\ pc[g] = "serve"
                   /\ table' = [id \in Ids |-> NoLoop]
                   /\ call' = Idle
                   /\ pc' = [h \in Loops |-> "returned"]
                   /\ live' = {}
                   /\ open' = {}
                   /\ last' = [id \in Ids |-> "none"]
                   /\ clean' = Ids
                   /\ UNCHANGED <<conn, owner, udp>>

-----------------------------------------------------------------------------
HandlerStep == \/ \E id \in Ids : ConnectSkips(id) \/ ConnectFails(id) \/ disconnectLocked(id)
               \/ \E id \in Ids, g \in Loops : \/ connectTCPTunnelLocked(g, id)
                                               \/ connectUDPTunnelLocked(g, id)
               \/ Return

LoopStep(g) == \/ LoopReset(g) \/ LoopAnnounce(g) \/ AcceptClosed(g)
               \/ BackoffOver(g) \/ BackoffCancelled(g) \/ LoopClosed(g)

Next == \/ \E S \in SUBSET Ids : UpdateConnected(S) \/ UpdateDisconnected(S) \/ Delete(S)
        \/ \E id \in Ids : Store(id)
        \/ HandlerStep
        \/ \E g \in Loops : LoopStep(g) \/ CloseSocket(g) \/ AcceptTimeout(g)
                            \/ ManagerEnds(g) \/ AcceptPanics(g)

(***************************************************************************)
(* Goroutines and handlers run on when they can.  Nothing makes a client   *)
(* call, an Accept time out or a UDP socket fail.  An Accept that times    *)
(* out for ever while its socket is open is cut short by CloseSocket.      *)
(***************************************************************************)
Spec == Init /\ [][Next]_vars
        /\ WF_vars(HandlerStep)
        /\ \A g \in Loops : WF_vars(LoopStep(g)) /\ WF_vars(CloseSocket(g))

-----------------------------------------------------------------------------
(***************************************************************************)
(* Properties.                                                             *)
(***************************************************************************)
(***************************************************************************)
(* GetStatus never lies about a TCP listener: a record in the table has a  *)
(* loop of its own that is running, with its socket open and its context   *)
(* alive.                                                                  *)
(***************************************************************************)
ListedIsServed ==
  \A id \in Ids : Listening(id) =>
    LET g == table[id] IN /\ g \in (live \cap open) \ udp
                          /\ owner[g] = id
                          /\ pc[g] \notin {"closing", "returned"}

(***************************************************************************)
(* A TCP listener can always be stopped: a loop whose context is alive is  *)
(* the one the table has for its record, so a record has at most one, and  *)
(* none is left of a record that was deleted.                              *)
(***************************************************************************)
LiveIsListed ==
  \A g \in live \ udp : table[owner[g]] = g /\ conn[owner[g]] # "absent"

(***************************************************************************)
(* When the last loop of a record began alone and lost no event, the last  *)
(* status the broadcaster has is true once the goroutines have come to     *)
(* rest: LISTENING exactly when a listener is up.                          *)
(***************************************************************************)
AtRest(id) == \A g \in LoopsOf(id) : g \in live /\ pc[g] = "serve"

LastIsTrue(id) == last[id] = "LISTENING" <=> LoopsOf(id) # {}

LastStatusIsTrue == \A id \in clean : AtRest(id) => LastIsTrue(id)

(***************************************************************************)
(* A listener that is told to stop does: its socket closes and its loop    *)
(* returns, from wherever the cancellation finds it.                       *)
(***************************************************************************)
StoppedEnds == \A g \in Loops : g \notin live ~> Gone(g)

-----------------------------------------------------------------------------
(***************************************************************************)
(* What the repository says of itself and the code does not do.            *)
(***************************************************************************)
(***************************************************************************)
(* "GetStatus returns current listener status for active tunnels"          *)
(* (api.proto:86): a tunnel that is active, of either protocol, is in the  *)
(* table GetStatus reads.                                                  *)
(***************************************************************************)
ActiveIsReported == \A g \in live : pc[g] = "serve" => Listening(owner[g])
=============================================================================
