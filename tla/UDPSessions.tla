----------------------------- MODULE UDPSessions -----------------------------
(***************************************************************************)
(* The UDP side of a tunnel: the session manager (tunnel/tunnel_udp.go),   *)
(* the tunneler that falls back from HTTP/3 to HTTP/1                      *)
(* (tunnel/tunnel_fallback.go) and the two loops that a session runs once  *)
(* it is connected (TunnelUDP in tunnel/tunnel_http3.go and                *)
(* tunnel/tunnel_http1.go).                                                *)
(*                                                                         *)
(* Three goroutines, read, dispatch and write, and one goroutine for each  *)
(* session share channels of capacity one and a context.  Sessions share   *)
(* the list of tunnelers.  A datagram is its address and a number that     *)
(* counts what was read from, or answered to, that address.                *)
(*                                                                         *)
(* The socket, the proxy and the clients are external.  So is all of       *)
(* runWithJWT but its order: TunnelAuth models it.                         *)
(***************************************************************************)
EXTENDS Integers, Sequences, FiniteSets

CONSTANTS Addrs,        \* the clients
          Sessions,     \* bound: the session objects; a finished one is used again
          MaxRead,      \* bound: the datagrams read, for each client
          MaxReplies,   \* bound: the replies, for each client
          NoSession

ASSUME UDPAssumption == /\ MaxRead \in [Addrs -> Nat]
                        /\ MaxReplies \in [Addrs -> Nat]
                        /\ NoSession \notin Sessions
                        /\ Addrs # {}

VARIABLES up,         \* the context of the manager's group is not done
          reader,     \* where read is, and the datagram it holds
          in,         \* mgr.in
          dispatcher, \* where dispatch is, the session and the datagram it handles
          sessions,   \* dispatch's map
          writer,     \* where write is, and the datagram it holds
          out,        \* mgr.out
          state,      \* where the goroutine of each session is
          addr,       \* udpSession.addr
          sin,        \* udpSession.in
          again,      \* whether the session has authenticated
          ts,         \* the copy of the tunnelers it works with
          loops,      \* which of its two loops still run
          tunnelers,  \* fallbackUDPTunneler.tunnelers
          read,       \* how many datagrams were read from each client
          sent,       \* the last of them that was sent to the proxy
          replies,    \* how many replies to each client came from the proxy
          got         \* the last of them that was written to the client

managerVars == <<reader, in, dispatcher, sessions, writer, out>>
sessionVars == <<state, addr, sin, again, ts, loops>>
countVars == <<read, sent, replies, got>>
vars == <<up, managerVars, sessionVars, tunnelers, countVars>>

Datagrams == [addr : Addrs, n : Nat]

\* What a session writes: where to, for which client, and which one.
Replies == [addr : Addrs, from : Addrs, n : Nat]

\* A channel of capacity one, or the datagram that a goroutine holds.
AtMostOne(S) == {q \in Seq(S) : Len(q) <= 1}

States == {"none", "auth", "pick", "try", "open", "stopping"}

AllTunnelers == <<"http3", "http1">>

\* A goroutine that sends, handles or writes has something to.
ManagerOK ==
  /\ up \in BOOLEAN
  /\ reader \in [at : {"read", "send", "end"}, held : AtMostOne(Datagrams)]
  /\ in \in AtMostOne(Datagrams)
  /\ dispatcher \in [at : {"select", "handle", "end"}, s : Sessions \cup {NoSession},
                     held : AtMostOne(Datagrams)]
  /\ sessions \in [Addrs -> Sessions \cup {NoSession}]
  /\ writer \in [at : {"select", "write", "end"}, held : AtMostOne(Replies)]
  /\ out \in AtMostOne(Replies)
  /\ dispatcher.at = "handle" => dispatcher.s \in Sessions
  /\ writer.at = "write" => writer.held # <<>>

SessionsOK ==
  /\ state \in [Sessions -> States]
  /\ addr \in [Sessions -> Addrs]
  /\ sin \in [Sessions -> AtMostOne(Datagrams)]
  /\ again \in [Sessions -> BOOLEAN]
  /\ ts \in [Sessions -> {AllTunnelers, Tail(AllTunnelers), <<>>}]
  /\ loops \in [Sessions -> SUBSET {"local", "remote"}]
  /\ tunnelers \in {AllTunnelers, Tail(AllTunnelers), <<>>}

CountsOK ==
  /\ read \in [Addrs -> Nat]
  /\ sent \in [Addrs -> Nat]
  /\ replies \in [Addrs -> Nat]
  /\ got \in [Addrs -> Nat]

TypeOK == ManagerOK /\ SessionsOK /\ CountsOK

Init == /\ up = TRUE
        /\ reader = [at |-> "read", held |-> <<>>]
        /\ in = <<>>
        /\ dispatcher = [at |-> "select", s |-> NoSession, held |-> <<>>]
        /\ sessions = [a \in Addrs |-> NoSession]
        /\ writer = [at |-> "select", held |-> <<>>]
        /\ out = <<>>
        /\ state = [s \in Sessions |-> "none"]
        /\ addr \in [Sessions -> {CHOOSE a \in Addrs : TRUE}]
        /\ sin = [s \in Sessions |-> <<>>]
        /\ again = [s \in Sessions |-> FALSE]
        /\ ts = [s \in Sessions |-> <<>>]
        /\ loops = [s \in Sessions |-> {}]
        /\ tunnelers = AllTunnelers
        /\ read = [a \in Addrs |-> 0]
        /\ sent = [a \in Addrs |-> 0]
        /\ replies = [a \in Addrs |-> 0]
        /\ got = [a \in Addrs |-> 0]

-----------------------------------------------------------------------------
(***************************************************************************)
(* The context: the caller ends it, or the error of a goroutine does.      *)
(***************************************************************************)
Cancel == /\ up
          /\ up' = FALSE
          /\ UNCHANGED <<managerVars, sessionVars, tunnelers, countVars>>

(***************************************************************************)
(* read.                                                                   *)
(***************************************************************************)
ReadFromUDP(a) ==
  /\ reader.at = "read"
  /\ read[a] < MaxRead[a]
  /\ read' = [read EXCEPT ![a] = @ + 1]
  /\ reader' = [at |-> "send", held |-> <<[addr |-> a, n |-> read[a] + 1]>>]
  /\ UNCHANGED <<up, in, dispatcher, sessions, writer, out, sessionVars, tunnelers,
                 sent, replies, got>>

ReadSend == /\ reader.at = "send"
            /\ in = <<>>
            /\ in' = reader.held
            /\ reader' = [at |-> "read", held |-> <<>>]
            /\ UNCHANGED <<up, dispatcher, sessions, writer, out, sessionVars, tunnelers, countVars>>

\* The socket fails, or the context is done: its deadline ends the read.
ReadReturn == /\ \/ reader.at = "read"
                 \/ reader.at = "send" /\ ~up
              /\ reader' = [at |-> "end", held |-> <<>>]
              /\ up' = FALSE
              /\ UNCHANGED <<in, dispatcher, sessions, writer, out, sessionVars, tunnelers, countVars>>

-----------------------------------------------------------------------------
(***************************************************************************)
(* dispatch.                                                               *)
(***************************************************************************)
Handle(s, d) == dispatcher' = [at |-> "handle", s |-> s, held |-> <<d>>]

Select == dispatcher' = [at |-> "select", s |-> NoSession, held |-> <<>>]

DispatchKnown ==
  /\ dispatcher.at = "select"
  /\ in # <<>>
  /\ sessions[in[1].addr] # NoSession
  /\ in' = <<>>
  /\ Handle(sessions[in[1].addr], in[1])
  /\ UNCHANGED <<up, reader, sessions, writer, out, sessionVars, tunnelers, countVars>>

\* A session object that nobody refers to.
Unused(s) == state[s] = "none" /\ \A a \in Addrs : sessions[a] # s

\* newUDPSession, and the goroutine that runs it.
DispatchNew ==
  /\ dispatcher.at = "select"
  /\ in # <<>>
  /\ LET a == in[1].addr IN
       /\ sessions[a] = NoSession
       /\ \E s \in Sessions :
            /\ Unused(s)
            /\ state' = [state EXCEPT ![s] = "auth"]
            /\ addr' = [addr EXCEPT ![s] = a]
            /\ sin' = [sin EXCEPT ![s] = <<>>]
            /\ again' = [again EXCEPT ![s] = FALSE]
            /\ sessions' = [sessions EXCEPT ![a] = s]
            /\ Handle(s, in[1])
  /\ in' = <<>>
  /\ UNCHANGED <<up, reader, writer, out, ts, loops, tunnelers, countVars>>

\* A mutant: the queue of a session is not bounded.
HandleDatagram_unbounded ==
  /\ dispatcher.at = "handle"
  /\ sin' = [sin EXCEPT ![dispatcher.s] = @ \o dispatcher.held]
  /\ Select
  /\ UNCHANGED <<up, reader, in, sessions, writer, out, state, addr, again, ts, loops,
                 tunnelers, countVars>>

HandleDatagram ==
  /\ dispatcher.at = "handle"
  /\ sin[dispatcher.s] = <<>>
  /\ sin' = [sin EXCEPT ![dispatcher.s] = dispatcher.held]
  /\ Select
  /\ UNCHANGED <<up, reader, in, sessions, writer, out, state, addr, again, ts, loops,
                 tunnelers, countVars>>

\* A mutant: HandleDatagram does not look at the session's own context.
HandleDropped_waits ==
  /\ dispatcher.at = "handle"
  /\ ~up
  /\ Select
  /\ UNCHANGED <<up, reader, in, sessions, writer, out, sessionVars, tunnelers, countVars>>

\* The datagram is lost when the session has stopped or the context is done.
HandleDropped ==
  /\ dispatcher.at = "handle"
  /\ ~up \/ state[dispatcher.s] \in {"stopping", "none"}
  /\ Select
  /\ UNCHANGED <<up, reader, in, sessions, writer, out, sessionVars, tunnelers, countVars>>

\* The unbuffered channel: the session's goroutine ends as dispatch receives.
Stopped(s) ==
  /\ dispatcher.at = "select"
  /\ state[s] = "stopping"
  /\ state' = [state EXCEPT ![s] = "none"]
  /\ sessions' = [sessions EXCEPT ![addr[s]] = NoSession]
  /\ UNCHANGED <<up, reader, in, dispatcher, writer, out, addr, sin, again, ts, loops,
                 tunnelers, countVars>>

\* A mutant: a session that dispatch is not waiting for just ends.
SessionLeaves_anytime(s) ==
  /\ state[s] = "stopping"
  /\ state' = [state EXCEPT ![s] = "none"]
  /\ UNCHANGED <<up, managerVars, addr, sin, again, ts, loops, tunnelers, countVars>>

\* A mutant: a stopped session waits for dispatch, whether or not it still runs.
SessionLeaves_never(s) == /\ ~up
                          /\ state[s] = "stopping" /\ dispatcher.at = "none"
                          /\ UNCHANGED vars

SessionLeaves(s) ==
  /\ ~up
  /\ state[s] = "stopping"
  /\ state' = [state EXCEPT ![s] = "none"]
  /\ UNCHANGED <<up, managerVars, addr, sin, again, ts, loops, tunnelers, countVars>>

DispatchReturn == /\ dispatcher.at = "select"
                  /\ ~up
                  /\ dispatcher' = [at |-> "end", s |-> NoSession, held |-> <<>>]
                  /\ UNCHANGED <<up, reader, in, sessions, writer, out, sessionVars,
                                 tunnelers, countVars>>

-----------------------------------------------------------------------------
(***************************************************************************)
(* write.                                                                  *)
(***************************************************************************)
WriteTake == /\ writer.at = "select"
             /\ out # <<>>
             /\ writer' = [at |-> "write", held |-> out]
             /\ out' = <<>>
             /\ UNCHANGED <<up, reader, in, dispatcher, sessions, sessionVars, tunnelers, countVars>>

WriteToUDP == /\ writer.at = "write"
              /\ got' = [got EXCEPT ![writer.held[1].addr] = writer.held[1].n]
              /\ writer' = [at |-> "select", held |-> <<>>]
              /\ UNCHANGED <<up, reader, in, dispatcher, sessions, out, sessionVars, tunnelers,
                             read, sent, replies>>

\* The socket fails, or the context is done.
WriteReturn == /\ \/ writer.at = "write"
                  \/ writer.at = "select" /\ ~up
               /\ writer' = [at |-> "end", held |-> <<>>]
               /\ up' = FALSE
               /\ UNCHANGED <<reader, in, dispatcher, sessions, out, sessionVars, tunnelers, countVars>>

-----------------------------------------------------------------------------
(***************************************************************************)
(* A session: runWithJWT around the fallback tunneler.                     *)
(***************************************************************************)
GoTo(s, from, to) == /\ state[s] = from
                     /\ state' = [state EXCEPT ![s] = to]

\* The token is loaded, or obtained by a login that nothing bounds in time.
Authenticated(s) == /\ GoTo(s, "auth", "pick")
                    /\ UNCHANGED <<up, managerVars, addr, sin, again, ts, loops, tunnelers, countVars>>

\* TunnelUDP copies the list of tunnelers under the mutex.
CopyTunnelers(s) == /\ GoTo(s, "pick", "try")
                    /\ ts' = [ts EXCEPT ![s] = tunnelers]
                    /\ UNCHANGED <<up, managerVars, addr, sin, again, loops, tunnelers, countVars>>

\* A mutant: the list is cut although another session has cut it meanwhile.
Unsupported_unchecked(s) ==
  /\ ts[s] # <<>>
  /\ Head(ts[s]) = "http3"
  /\ GoTo(s, "try", "pick")
  /\ tunnelers' = IF tunnelers = <<>> THEN <<>> ELSE Tail(tunnelers)
  /\ UNCHANGED <<up, managerVars, addr, sin, again, ts, loops, countVars>>

\* Only HTTP/3 reports errUnsupported: no TLS, or no QUIC connection.  The first
\* session to find out shortens the list and tries again; one that has an older
\* copy gives up.
Unsupported(s) ==
  /\ ts[s] # <<>>
  /\ Head(ts[s]) = "http3"
  /\ IF Len(ts[s]) = Len(tunnelers) /\ Len(ts[s]) > 1
     THEN GoTo(s, "try", "pick") /\ tunnelers' = Tail(tunnelers)
     ELSE GoTo(s, "try", "stopping") /\ UNCHANGED tunnelers
  /\ ts' = [ts EXCEPT ![s] = <<>>]
  /\ UNCHANGED <<up, managerVars, addr, sin, again, loops, countVars>>

\* An empty list is an error too.
TryFails(s) == /\ GoTo(s, "auth", "stopping") \/ GoTo(s, "try", "stopping")
               /\ ts' = [ts EXCEPT ![s] = <<>>]
               /\ UNCHANGED <<up, managerVars, addr, sin, again, loops, tunnelers, countVars>>

Unauthenticated(s) == /\ GoTo(s, "try", "auth")
                      /\ ts[s] # <<>>
                      /\ ~again[s]
                      /\ again' = [again EXCEPT ![s] = TRUE]
                      /\ ts' = [ts EXCEPT ![s] = <<>>]
                      /\ UNCHANGED <<up, managerVars, addr, sin, loops, tunnelers, countVars>>

Connected(s) == /\ GoTo(s, "try", "open")
                /\ ts[s] # <<>>
                /\ loops' = [loops EXCEPT ![s] = {"local", "remote"}]
                /\ UNCHANGED <<up, managerVars, addr, sin, again, ts, tunnelers, countVars>>

\* A mutant: the datagram stays queued after it is sent.
ReadDatagram_keeps(s) ==
  /\ "local" \in loops[s]
  /\ sin[s] # <<>>
  /\ sent' = [sent EXCEPT ![sin[s][1].addr] = sin[s][1].n]
  /\ UNCHANGED <<up, managerVars, sessionVars, tunnelers, read, replies, got>>

\* ReadDatagram, and the datagram is sent to the proxy.
ReadDatagram(s) ==
  /\ "local" \in loops[s]
  /\ sin[s] # <<>>
  /\ sin' = [sin EXCEPT ![s] = <<>>]
  /\ sent' = [sent EXCEPT ![sin[s][1].addr] = sin[s][1].n]
  /\ UNCHANGED <<up, managerVars, state, addr, again, ts, loops, tunnelers, read, replies, got>>

\* The datagram is too large for HTTP/3, which drops it.
ReadTooLarge(s) ==
  /\ "local" \in loops[s]
  /\ Head(ts[s]) = "http3"
  /\ sin[s] # <<>>
  /\ sin' = [sin EXCEPT ![s] = <<>>]
  /\ UNCHANGED <<up, managerVars, state, addr, again, ts, loops, tunnelers, countVars>>

\* A mutant: the address is left as the tunneler made it, that of some client.
WriteDatagram_noRewrite(s) ==
  /\ "remote" \in loops[s]
  /\ out = <<>>
  /\ replies[addr[s]] < MaxReplies[addr[s]]
  /\ replies' = [replies EXCEPT ![addr[s]] = @ + 1]
  /\ \E a \in Addrs : out' = <<[addr |-> a, from |-> addr[s], n |-> replies[addr[s]] + 1]>>
  /\ UNCHANGED <<up, reader, in, dispatcher, sessions, writer, sessionVars, tunnelers, read, sent, got>>

\* A datagram comes from the proxy; its address becomes the session's.
WriteDatagram(s) ==
  /\ "remote" \in loops[s]
  /\ out = <<>>
  /\ replies[addr[s]] < MaxReplies[addr[s]]
  /\ replies' = [replies EXCEPT ![addr[s]] = @ + 1]
  /\ out' = <<[addr |-> addr[s], from |-> addr[s], n |-> replies[addr[s]] + 1]>>
  /\ UNCHANGED <<up, reader, in, dispatcher, sessions, writer, sessionVars, tunnelers, read, sent, got>>

\* A loop ends with an error of the connection, with the ten minutes of the
\* session, or with the context.  HTTP/3 gives its loops the outer context, so the
\* other loop goes on; the group returns with the last one and s.cancel is called.
LoopReturn(s, l) ==
  /\ l \in loops[s]
  /\ loops' = [loops EXCEPT ![s] = @ \ {l}]
  /\ IF loops[s] = {l}
     THEN GoTo(s, "open", "stopping") /\ ts' = [ts EXCEPT ![s] = <<>>]
     ELSE UNCHANGED <<state, ts>>
  /\ UNCHANGED <<up, managerVars, addr, sin, again, tunnelers, countVars>>

-----------------------------------------------------------------------------
\* What the context's end brings about in a session.
SessionReturn(s) == \/ TryFails(s) \/ SessionLeaves(s)
                    \/ \E l \in {"local", "remote"} : LoopReturn(s, l)

SessionStep(s) == \/ Authenticated(s) \/ CopyTunnelers(s) \/ Unsupported(s)
                  \/ Unauthenticated(s) \/ Connected(s)
                  \/ ReadDatagram(s) \/ ReadTooLarge(s) \/ WriteDatagram(s)
                  \/ SessionReturn(s)

ReadStep == ReadSend \/ ReadReturn \/ \E a \in Addrs : ReadFromUDP(a)

DispatchStep == \/ DispatchKnown \/ DispatchNew \/ HandleDatagram \/ HandleDropped
                \/ DispatchReturn \/ \E s \in Sessions : Stopped(s)

WriteStep == WriteTake \/ WriteToUDP \/ WriteReturn

Next == \/ Cancel \/ ReadStep \/ DispatchStep \/ WriteStep
        \/ \E s \in Sessions : SessionStep(s)

\* Where a session may stay although the context is done: GetJWT waits for the
\* command that shows the browser, and ReadResponse of HTTP/3 is given no context.
Waiting(s) == state[s] = "auth" \/ (state[s] = "try" /\ Head(ts[s]) = "http3")

(***************************************************************************)
(* A goroutine goes on when it can.  A select that is always offered the   *)
(* end of the context or of a session takes it in the end, which is fair   *)
(* treatment of the alternatives, not only of the goroutine.  Nothing is   *)
(* assumed of a login and of the handshakes, except that HTTP/1's, whose   *)
(* connection is closed with the context, ends then.  A connected session  *)
(* ends after ten minutes.                                                 *)
(***************************************************************************)
Fairness ==
  /\ WF_vars(~up /\ ReadReturn) /\ WF_vars(ReadSend)
  /\ WF_vars(DispatchKnown \/ DispatchNew) /\ WF_vars(HandleDatagram \/ HandleDropped)
  /\ SF_vars(DispatchReturn)
  /\ WF_vars(WriteTake) /\ WF_vars(WriteToUDP \/ WriteReturn)
  /\ \A s \in Sessions :
       /\ WF_vars(CopyTunnelers(s))
       /\ WF_vars(~up /\ ~Waiting(s) /\ SessionReturn(s))
       /\ SF_vars(Stopped(s))
       /\ \A l \in {"local", "remote"} : WF_vars(LoopReturn(s, l))

Spec == Init /\ [][Next]_vars /\ Fairness

-----------------------------------------------------------------------------
(***************************************************************************)
(* Properties.                                                             *)
(***************************************************************************)
Live(s) == state[s] # "none"

(***************************************************************************)
(* A client has one session: the goroutine of every session is the one     *)
(* that dispatch's map names for its address, and while the manager runs   *)
(* the map names no session that is gone, which would swallow all that the *)
(* client sends.  delete(sessions, s.addr) never removes a younger one.    *)
(***************************************************************************)
OneSession ==
  /\ \A s \in Sessions : Live(s) => sessions[addr[s]] = s
  /\ up => \A a \in Addrs : sessions[a] # NoSession => /\ Live(sessions[a])
                                                       /\ addr[sessions[a]] = a

\* What client a has queued, and what came after it, the oldest first: the
\* session's channel, then what dispatch, mgr.in and read hold, of any client.
Queued(a) == IF sessions[a] = NoSession THEN <<>> ELSE sin[sessions[a]]
Upstream(a) == Queued(a) \o dispatcher.held \o in \o reader.held

(***************************************************************************)
(* A session reads what its own client has sent and nothing else, and      *)
(* through three channels, over one session after another, no datagram     *)
(* overtakes another or is sent twice.                                     *)
(***************************************************************************)
ClientInOrder ==
  /\ \A s \in Sessions : Live(s) => \A i \in DOMAIN sin[s] : sin[s][i].addr = addr[s]
  /\ \A a \in Addrs :
       LET q == Upstream(a)
           own == {i \in DOMAIN q : q[i].addr = a}
       IN  /\ \A i \in own : sent[a] < q[i].n /\ q[i].n <= read[a]
           /\ \A i, j \in own : i < j => q[i].n < q[j].n

(***************************************************************************)
(* A reply is written to the client whose session it came to, and replies  *)
(* to a client keep their order, over the end of one session and the start *)
(* of the next.                                                            *)
(***************************************************************************)
RepliesInOrder ==
  LET q == writer.held \o out IN
    /\ \A i \in DOMAIN q : /\ q[i].addr = q[i].from
                           /\ got[q[i].addr] < q[i].n
                           /\ q[i].n <= replies[q[i].addr]
    /\ \A i, j \in DOMAIN q : (i < j /\ q[i].addr = q[j].addr) => q[i].n < q[j].n

(***************************************************************************)
(* Sessions that find HTTP/3 unsupported at the same time shorten the list *)
(* once: HTTP/1 is left for all who come later.                            *)
(***************************************************************************)
TunnelersLeft ==
  /\ tunnelers # <<>>
  /\ \A s \in Sessions : state[s] \in {"try", "open"} => ts[s] # <<>>

(***************************************************************************)
(* Dispatch does not wait for ever on a session that is connected or on    *)
(* its way out, though that session may itself be waiting for dispatch to  *)
(* receive from stopped.                                                   *)
(***************************************************************************)
DispatchGoesOn ==
  \A s \in Sessions :
    (dispatcher.at = "handle" /\ dispatcher.s = s /\ state[s] \in {"open", "stopping"})
      ~> dispatcher.at # "handle"

(***************************************************************************)
(* When the context is done the manager's goroutines end, whichever        *)
(* channel they are blocked on, and so does every session, unless it is in *)
(* one of the two waits that have no context.                              *)
(***************************************************************************)
AllEnd ==
  (~up) ~> /\ reader.at = "end" /\ dispatcher.at = "end" /\ writer.at = "end"
           /\ \A s \in Sessions : ~Live(s) \/ Waiting(s)
=============================================================================
