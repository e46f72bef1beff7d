-------------------------- MODULE UDPSessionsProofs --------------------------
(***************************************************************************)
(* Proofs about UDPSessions, for any number of clients, sessions and       *)
(* datagrams.  OneSession and TunnelersLeft are inductive given the types. *)
(* The two orders are not: RepliesInv and OrderInv say what must hold of   *)
(* each place a datagram can be in, RoutesInv that it is in the place of   *)
(* its own client.                                                         *)
(***************************************************************************)
EXTENDS UDPSessions, TLAPS

\* An empty channel, and one that holds an element.
LEMMA ChannelTypes == ASSUME NEW S
                      PROVE  /\ <<>> \in AtMostOne(S)
                             /\ \A x \in S : <<x>> \in AtMostOne(S)
  BY DEF AtMostOne

\* The element of a channel that is not empty.
LEMMA ChannelElement == ASSUME NEW S, NEW q \in AtMostOne(S), q # <<>>
                        PROVE  q[1] \in S
<1>1. q \in Seq(S) /\ q # <<>>
  BY DEF AtMostOne
<1>q. QED
  BY <1>1

\* The three lists of tunnelers.
LEMMA Lists == LET two == AllTunnelers
                   one == Tail(AllTunnelers)
               IN  /\ two # <<>> /\ one # <<>> /\ Tail(one) = <<>>
                   /\ Len(two) = 2 /\ Len(one) = 1 /\ Len(<<>>) = 0
<1>1. Tail(AllTunnelers) = <<"http1">>
  BY DEF AllTunnelers
<1>2. 1 \in DOMAIN AllTunnelers /\ 1 \in DOMAIN Tail(AllTunnelers) /\ 1 \notin DOMAIN <<>>
  BY <1>1 DEF AllTunnelers
<1>3. AllTunnelers # <<>> /\ Tail(AllTunnelers) # <<>>
  BY <1>2, Zenon
<1>q. QED
  BY <1>1, <1>3 DEF AllTunnelers

\* Every step keeps the types of the manager.
LEMMA ManagerStep ==
  ASSUME TypeOK, [Next]_vars
  PROVE  ManagerOK'
<1>1. CASE Cancel
  BY <1>1, ChannelTypes DEF TypeOK, ManagerOK, Cancel, managerVars, sessionVars, countVars
<1>2. CASE ReadSend
  BY <1>2, ChannelTypes DEF TypeOK, ManagerOK, ReadSend, managerVars, sessionVars, countVars
<1>3. CASE ReadReturn
  BY <1>3, ChannelTypes DEF TypeOK, ManagerOK, ReadReturn, managerVars, sessionVars, countVars
<1>4. CASE DispatchKnown
  <2>1. in[1] \in Datagrams
    BY <1>4, ChannelElement DEF TypeOK, ManagerOK, DispatchKnown
  <2>2. sessions[in[1].addr] \in Sessions /\ <<in[1]>> \in AtMostOne(Datagrams)
    BY <1>4, <2>1, ChannelTypes DEF TypeOK, ManagerOK, DispatchKnown, Datagrams
  <2>q. QED
    BY <1>4, <2>2, ChannelTypes DEF TypeOK, ManagerOK, DispatchKnown, Handle, sessionVars
<1>5. CASE DispatchNew
  <2>1. in[1] \in Datagrams
    BY <1>5, ChannelElement DEF TypeOK, ManagerOK, DispatchNew
  <2>2. in[1].addr \in Addrs /\ <<in[1]>> \in AtMostOne(Datagrams)
    BY <2>1, ChannelTypes DEF Datagrams
  <2>3. PICK s \in Sessions : /\ sessions' = [sessions EXCEPT ![in[1].addr] = s]
                              /\ Handle(s, in[1])
    BY <1>5 DEF DispatchNew
  <2>4. in' = <<>> /\ UNCHANGED <<up, reader, writer, out>>
    BY <1>5 DEF DispatchNew
  <2>q. QED
    BY <2>2, <2>3, <2>4, ChannelTypes DEF TypeOK, ManagerOK, Handle
<1>6. CASE HandleDatagram
  BY <1>6, ChannelTypes DEF TypeOK, ManagerOK, HandleDatagram, Select, managerVars, sessionVars, countVars
<1>7. CASE HandleDropped
  BY <1>7, ChannelTypes DEF TypeOK, ManagerOK, HandleDropped, Select, managerVars, sessionVars, countVars
<1>8. CASE DispatchReturn
  BY <1>8, ChannelTypes DEF TypeOK, ManagerOK, DispatchReturn, managerVars, sessionVars, countVars
<1>9. CASE WriteTake
  BY <1>9, ChannelTypes DEF TypeOK, ManagerOK, WriteTake, managerVars, sessionVars, countVars
<1>10. CASE WriteToUDP
  BY <1>10, ChannelTypes DEF TypeOK, ManagerOK, WriteToUDP, managerVars, sessionVars, countVars
<1>11. CASE WriteReturn
  BY <1>11, ChannelTypes DEF TypeOK, ManagerOK, WriteReturn, managerVars, sessionVars, countVars
<1>12. ASSUME NEW a \in Addrs, ReadFromUDP(a) PROVE ManagerOK'
  <2>1. [addr |-> a, n |-> read[a] + 1] \in Datagrams
    BY DEF TypeOK, CountsOK, Datagrams
  <2>2. reader' \in [at : {"read", "send", "end"}, held : AtMostOne(Datagrams)]
    BY <1>12, <2>1, ChannelTypes DEF ReadFromUDP
  <2>q. QED
    BY <1>12, <2>2 DEF TypeOK, ManagerOK, ReadFromUDP
<1>13. ASSUME NEW s \in Sessions, Stopped(s) PROVE ManagerOK'
  BY <1>13, ChannelTypes DEF TypeOK, ManagerOK, Stopped, managerVars, sessionVars, countVars
<1>14. ASSUME NEW s \in Sessions, SessionLeaves(s) PROVE ManagerOK'
  BY <1>14, ChannelTypes DEF TypeOK, ManagerOK, SessionLeaves, managerVars, sessionVars, countVars
<1>15. ASSUME NEW s \in Sessions, Authenticated(s) PROVE ManagerOK'
  BY <1>15, ChannelTypes DEF TypeOK, ManagerOK, Authenticated, GoTo, managerVars, sessionVars, countVars
<1>16. ASSUME NEW s \in Sessions, CopyTunnelers(s) PROVE ManagerOK'
  BY <1>16, ChannelTypes DEF TypeOK, ManagerOK, CopyTunnelers, GoTo, managerVars, sessionVars, countVars
<1>17. ASSUME NEW s \in Sessions, Unsupported(s) PROVE ManagerOK'
  BY <1>17, ChannelTypes DEF TypeOK, ManagerOK, Unsupported, GoTo, managerVars, sessionVars, countVars
<1>18. ASSUME NEW s \in Sessions, Unauthenticated(s) PROVE ManagerOK'
  BY <1>18, ChannelTypes DEF TypeOK, ManagerOK, Unauthenticated, GoTo, managerVars, sessionVars, countVars
<1>19. ASSUME NEW s \in Sessions, Connected(s) PROVE ManagerOK'
  BY <1>19, ChannelTypes DEF TypeOK, ManagerOK, Connected, GoTo, managerVars, sessionVars, countVars
<1>20. ASSUME NEW s \in Sessions, TryFails(s) PROVE ManagerOK'
  BY <1>20, ChannelTypes DEF TypeOK, ManagerOK, TryFails, GoTo, managerVars, sessionVars, countVars
<1>21. ASSUME NEW s \in Sessions, ReadDatagram(s) PROVE ManagerOK'
  BY <1>21, ChannelTypes DEF TypeOK, ManagerOK, ReadDatagram, managerVars, sessionVars, countVars
<1>22. ASSUME NEW s \in Sessions, ReadTooLarge(s) PROVE ManagerOK'
  BY <1>22, ChannelTypes DEF TypeOK, ManagerOK, ReadTooLarge, managerVars, sessionVars, countVars
<1>23. ASSUME NEW s \in Sessions, WriteDatagram(s) PROVE ManagerOK'
  <2>1. [addr |-> addr[s], from |-> addr[s], n |-> replies[addr[s]] + 1] \in Replies
    BY DEF TypeOK, SessionsOK, CountsOK, Replies
  <2>2. out' \in AtMostOne(Replies)
    BY <1>23, <2>1, ChannelTypes DEF WriteDatagram
  <2>q. QED
    BY <1>23, <2>2 DEF TypeOK, ManagerOK, WriteDatagram
<1>24. ASSUME NEW s \in Sessions, NEW l \in {"local", "remote"}, LoopReturn(s, l) PROVE ManagerOK'
  BY <1>24, ChannelTypes DEF TypeOK, ManagerOK, LoopReturn, GoTo, managerVars, sessionVars, countVars
<1>25. CASE UNCHANGED vars
  BY <1>25, ChannelTypes DEF TypeOK, ManagerOK, vars, managerVars, sessionVars, countVars
<1>q. QED
  BY <1>1, <1>2, <1>3, <1>4, <1>5, <1>6, <1>7, <1>8, <1>9, <1>10, <1>11, <1>12,
     <1>13, <1>14, <1>15, <1>16, <1>17, <1>18, <1>19, <1>20, <1>21, <1>22, <1>23, <1>24, <1>25
     DEF Next, ReadStep, DispatchStep, WriteStep, SessionStep, SessionReturn

\* Every step keeps the types of the sessions.
LEMMA SessionsStep ==
  ASSUME TypeOK, [Next]_vars
  PROVE  SessionsOK'
<1>0. SessionsOK /\ ManagerOK
  BY DEF TypeOK
<1>1. CASE Cancel
  BY <1>1, <1>0, Lists, ChannelTypes DEF SessionsOK, States, Cancel, managerVars, sessionVars, countVars
<1>2. CASE ReadSend
  BY <1>2, <1>0, Lists, ChannelTypes DEF SessionsOK, States, ReadSend, managerVars, sessionVars, countVars
<1>3. CASE ReadReturn
  BY <1>3, <1>0, Lists, ChannelTypes DEF SessionsOK, States, ReadReturn, managerVars, sessionVars, countVars
<1>4. CASE DispatchKnown
  BY <1>4, <1>0, Lists, ChannelTypes DEF SessionsOK, States, DispatchKnown, Handle, managerVars, sessionVars, countVars
<1>5. CASE DispatchNew
  <2>1. in[1] \in Datagrams
    BY <1>5, <1>0, ChannelElement DEF ManagerOK, DispatchNew
  <2>2. in[1].addr \in Addrs
    BY <2>1 DEF Datagrams
  <2>3. PICK s \in Sessions : /\ state' = [state EXCEPT ![s] = "auth"]
                              /\ addr' = [addr EXCEPT ![s] = in[1].addr]
                              /\ sin' = [sin EXCEPT ![s] = <<>>]
                              /\ again' = [again EXCEPT ![s] = FALSE]
    BY <1>5 DEF DispatchNew
  <2>4. UNCHANGED <<ts, loops, tunnelers>>
    BY <1>5 DEF DispatchNew
  <2>q. QED
    BY <1>0, <2>2, <2>3, <2>4, ChannelTypes DEF SessionsOK, States
<1>6. CASE HandleDatagram
  <2>1. dispatcher.held \in AtMostOne(Datagrams)
    BY <1>0 DEF ManagerOK
  <2>2. sin' \in [Sessions -> AtMostOne(Datagrams)]
    BY <1>6, <1>0, <2>1 DEF SessionsOK, HandleDatagram
  <2>q. QED
    BY <1>6, <1>0, <2>2 DEF SessionsOK, HandleDatagram
<1>7. CASE HandleDropped
  BY <1>7, <1>0, Lists, ChannelTypes DEF SessionsOK, States, HandleDropped, Select, managerVars, sessionVars, countVars
<1>8. CASE DispatchReturn
  BY <1>8, <1>0, Lists, ChannelTypes DEF SessionsOK, States, DispatchReturn, managerVars, sessionVars, countVars
<1>9. CASE WriteTake
  BY <1>9, <1>0, Lists, ChannelTypes DEF SessionsOK, States, WriteTake, managerVars, sessionVars, countVars
<1>10. CASE WriteToUDP
  BY <1>10, <1>0, Lists, ChannelTypes DEF SessionsOK, States, WriteToUDP, managerVars, sessionVars, countVars
<1>11. CASE WriteReturn
  BY <1>11, <1>0, Lists, ChannelTypes DEF SessionsOK, States, WriteReturn, managerVars, sessionVars, countVars
<1>12. ASSUME NEW a \in Addrs, ReadFromUDP(a) PROVE SessionsOK'
  BY <1>12, <1>0, Lists, ChannelTypes DEF SessionsOK, States, ReadFromUDP, managerVars, sessionVars, countVars
<1>13. ASSUME NEW s \in Sessions, Stopped(s) PROVE SessionsOK'
  BY <1>13, <1>0, Lists, ChannelTypes DEF SessionsOK, States, Stopped, managerVars, sessionVars, countVars
<1>14. ASSUME NEW s \in Sessions, SessionLeaves(s) PROVE SessionsOK'
  BY <1>14, <1>0, Lists, ChannelTypes DEF SessionsOK, States, SessionLeaves, managerVars, sessionVars, countVars
<1>15. ASSUME NEW s \in Sessions, Authenticated(s) PROVE SessionsOK'
  BY <1>15, <1>0, Lists, ChannelTypes DEF SessionsOK, States, Authenticated, GoTo, managerVars, sessionVars, countVars
<1>16. ASSUME NEW s \in Sessions, CopyTunnelers(s) PROVE SessionsOK'
  BY <1>16, <1>0, Lists, ChannelTypes DEF SessionsOK, States, CopyTunnelers, GoTo, managerVars, sessionVars, countVars
<1>17. ASSUME NEW s \in Sessions, Unsupported(s) PROVE SessionsOK'
  <2>1. ts' \in [Sessions -> {AllTunnelers, Tail(AllTunnelers), <<>>}]
    BY <1>17, <1>0 DEF SessionsOK, Unsupported
  <2>2. state' \in [Sessions -> States]
    BY <1>17, <1>0 DEF SessionsOK, States, Unsupported, GoTo
  <2>3. tunnelers' \in {AllTunnelers, Tail(AllTunnelers), <<>>}
    <3>1. tunnelers \in {AllTunnelers, Tail(AllTunnelers), <<>>}
      BY <1>0 DEF SessionsOK
    <3>2. tunnelers' = tunnelers \/ (Len(tunnelers) > 1 /\ tunnelers' = Tail(tunnelers))
      BY <1>17 DEF Unsupported
    <3>q. QED
      BY <3>1, <3>2, Lists
  <2>4. UNCHANGED <<addr, sin, again, loops>>
    BY <1>17 DEF Unsupported
  <2>q. QED
    BY <1>0, <2>1, <2>2, <2>3, <2>4 DEF SessionsOK
<1>18. ASSUME NEW s \in Sessions, Unauthenticated(s) PROVE SessionsOK'
  BY <1>18, <1>0, Lists, ChannelTypes DEF SessionsOK, States, Unauthenticated, GoTo, managerVars, sessionVars, countVars
<1>19. ASSUME NEW s \in Sessions, Connected(s) PROVE SessionsOK'
  BY <1>19, <1>0, Lists, ChannelTypes DEF SessionsOK, States, Connected, GoTo, managerVars, sessionVars, countVars
<1>20. ASSUME NEW s \in Sessions, TryFails(s) PROVE SessionsOK'
  BY <1>20, <1>0, Lists, ChannelTypes DEF SessionsOK, States, TryFails, GoTo, managerVars, sessionVars, countVars
<1>21. ASSUME NEW s \in Sessions, ReadDatagram(s) PROVE SessionsOK'
  BY <1>21, <1>0, Lists, ChannelTypes DEF SessionsOK, States, ReadDatagram, managerVars, sessionVars, countVars
<1>22. ASSUME NEW s \in Sessions, ReadTooLarge(s) PROVE SessionsOK'
  BY <1>22, <1>0, Lists, ChannelTypes DEF SessionsOK, States, ReadTooLarge, managerVars, sessionVars, countVars
<1>23. ASSUME NEW s \in Sessions, WriteDatagram(s) PROVE SessionsOK'
  BY <1>23, <1>0, Lists, ChannelTypes DEF SessionsOK, States, WriteDatagram, managerVars, sessionVars, countVars
<1>24. ASSUME NEW s \in Sessions, NEW l \in {"local", "remote"}, LoopReturn(s, l) PROVE SessionsOK'
  BY <1>24, <1>0, Lists, ChannelTypes DEF SessionsOK, States, LoopReturn, GoTo, managerVars, sessionVars, countVars
<1>25. CASE UNCHANGED vars
  BY <1>25, <1>0, Lists, ChannelTypes DEF SessionsOK, States, vars, managerVars, sessionVars, countVars
<1>q. QED
  BY <1>1, <1>2, <1>3, <1>4, <1>5, <1>6, <1>7, <1>8, <1>9, <1>10, <1>11, <1>12,
     <1>13, <1>14, <1>15, <1>16, <1>17, <1>18, <1>19, <1>20, <1>21, <1>22, <1>23, <1>24, <1>25
     DEF Next, ReadStep, DispatchStep, WriteStep, SessionStep, SessionReturn

\* Every step keeps the types of the counters.
LEMMA CountsStep ==
  ASSUME TypeOK, [Next]_vars
  PROVE  CountsOK'
<1>0. CountsOK /\ ManagerOK /\ SessionsOK
  BY DEF TypeOK
<1>1. CASE Cancel
  BY <1>1, <1>0 DEF CountsOK, Cancel, managerVars, sessionVars, countVars
<1>2. CASE ReadSend
  BY <1>2, <1>0 DEF CountsOK, ReadSend, managerVars, sessionVars, countVars
<1>3. CASE ReadReturn
  BY <1>3, <1>0 DEF CountsOK, ReadReturn, managerVars, sessionVars, countVars
<1>4. CASE DispatchKnown
  BY <1>4, <1>0 DEF CountsOK, DispatchKnown, Handle, managerVars, sessionVars, countVars
<1>5. CASE DispatchNew
  BY <1>5, <1>0 DEF CountsOK, DispatchNew, Handle, Unused, managerVars, sessionVars, countVars
<1>6. CASE HandleDatagram
  BY <1>6, <1>0 DEF CountsOK, HandleDatagram, Select, managerVars, sessionVars, countVars
<1>7. CASE HandleDropped
  BY <1>7, <1>0 DEF CountsOK, HandleDropped, Select, managerVars, sessionVars, countVars
<1>8. CASE DispatchReturn
  BY <1>8, <1>0 DEF CountsOK, DispatchReturn, managerVars, sessionVars, countVars
<1>9. CASE WriteTake
  BY <1>9, <1>0 DEF CountsOK, WriteTake, managerVars, sessionVars, countVars
<1>10. CASE WriteToUDP
  <2>1. writer.held[1] \in Replies
    BY <1>10, <1>0, ChannelElement DEF ManagerOK, WriteToUDP
  <2>q. QED
    BY <1>10, <1>0, <2>1 DEF CountsOK, WriteToUDP, Replies
<1>11. CASE WriteReturn
  BY <1>11, <1>0 DEF CountsOK, WriteReturn, managerVars, sessionVars, countVars
<1>12. ASSUME NEW a \in Addrs, ReadFromUDP(a) PROVE CountsOK'
  BY <1>12, <1>0 DEF CountsOK, ReadFromUDP, managerVars, sessionVars, countVars
<1>13. ASSUME NEW s \in Sessions, Stopped(s) PROVE CountsOK'
  BY <1>13, <1>0 DEF CountsOK, Stopped, managerVars, sessionVars, countVars
<1>14. ASSUME NEW s \in Sessions, SessionLeaves(s) PROVE CountsOK'
  BY <1>14, <1>0 DEF CountsOK, SessionLeaves, managerVars, sessionVars, countVars
<1>15. ASSUME NEW s \in Sessions, Authenticated(s) PROVE CountsOK'
  BY <1>15, <1>0 DEF CountsOK, Authenticated, GoTo, managerVars, sessionVars, countVars
<1>16. ASSUME NEW s \in Sessions, CopyTunnelers(s) PROVE CountsOK'
  BY <1>16, <1>0 DEF CountsOK, CopyTunnelers, GoTo, managerVars, sessionVars, countVars
<1>17. ASSUME NEW s \in Sessions, Unsupported(s) PROVE CountsOK'
  BY <1>17, <1>0 DEF CountsOK, Unsupported, GoTo, managerVars, sessionVars, countVars
<1>18. ASSUME NEW s \in Sessions, Unauthenticated(s) PROVE CountsOK'
  BY <1>18, <1>0 DEF CountsOK, Unauthenticated, GoTo, managerVars, sessionVars, countVars
<1>19. ASSUME NEW s \in Sessions, Connected(s) PROVE CountsOK'
  BY <1>19, <1>0 DEF CountsOK, Connected, GoTo, managerVars, sessionVars, countVars
<1>20. ASSUME NEW s \in Sessions, TryFails(s) PROVE CountsOK'
  BY <1>20, <1>0 DEF CountsOK, TryFails, GoTo, managerVars, sessionVars, countVars
<1>21. ASSUME NEW s \in Sessions, ReadDatagram(s) PROVE CountsOK'
  <2>1. sin[s][1] \in Datagrams
    BY <1>21, <1>0, ChannelElement DEF SessionsOK, ReadDatagram
  <2>q. QED
    BY <1>21, <1>0, <2>1 DEF CountsOK, ReadDatagram, Datagrams
<1>22. ASSUME NEW s \in Sessions, ReadTooLarge(s) PROVE CountsOK'
  BY <1>22, <1>0 DEF CountsOK, ReadTooLarge, managerVars, sessionVars, countVars
<1>23. ASSUME NEW s \in Sessions, WriteDatagram(s) PROVE CountsOK'
  <2>1. addr[s] \in Addrs
    BY <1>0 DEF SessionsOK
  <2>q. QED
    BY <1>23, <1>0, <2>1 DEF CountsOK, WriteDatagram
<1>24. ASSUME NEW s \in Sessions, NEW l \in {"local", "remote"}, LoopReturn(s, l) PROVE CountsOK'
  BY <1>24, <1>0 DEF CountsOK, LoopReturn, GoTo, managerVars, sessionVars, countVars
<1>25. CASE UNCHANGED vars
  BY <1>25, <1>0 DEF CountsOK, vars, managerVars, sessionVars, countVars
<1>q. QED
  BY <1>1, <1>2, <1>3, <1>4, <1>5, <1>6, <1>7, <1>8, <1>9, <1>10, <1>11, <1>12,
     <1>13, <1>14, <1>15, <1>16, <1>17, <1>18, <1>19, <1>20, <1>21, <1>22, <1>23, <1>24, <1>25
     DEF Next, ReadStep, DispatchStep, WriteStep, SessionStep, SessionReturn

\* Every step keeps the map and the sessions in agreement.
LEMMA OneStep ==
  ASSUME TypeOK, OneSession, [Next]_vars
  PROVE  OneSession'
<1>0. /\ state \in [Sessions -> States] /\ addr \in [Sessions -> Addrs]
      /\ sessions \in [Addrs -> Sessions \cup {NoSession}]
  BY DEF TypeOK, ManagerOK, SessionsOK
<1>1. CASE Cancel
  BY <1>1, <1>0, UDPAssumption DEF OneSession, Live, Cancel, managerVars, sessionVars, countVars
<1>2. CASE ReadSend
  BY <1>2, <1>0, UDPAssumption DEF OneSession, Live, ReadSend, managerVars, sessionVars, countVars
<1>3. CASE ReadReturn
  BY <1>3, <1>0, UDPAssumption DEF OneSession, Live, ReadReturn, managerVars, sessionVars, countVars
<1>4. CASE DispatchKnown
  BY <1>4, <1>0, UDPAssumption DEF OneSession, Live, DispatchKnown, Handle, managerVars, sessionVars, countVars
<1>5. CASE DispatchNew
  <2>1. in[1].addr \in Addrs
    <3>1. in[1] \in Datagrams
      BY <1>5, ChannelElement DEF TypeOK, ManagerOK, DispatchNew
    <3>q. QED
      BY <3>1 DEF Datagrams
  <2>2. PICK s \in Sessions : /\ Unused(s)
                              /\ state' = [state EXCEPT ![s] = "auth"]
                              /\ addr' = [addr EXCEPT ![s] = in[1].addr]
                              /\ sessions' = [sessions EXCEPT ![in[1].addr] = s]
    BY <1>5 DEF DispatchNew
  <2>3. sessions[in[1].addr] = NoSession /\ up' = up
    BY <1>5 DEF DispatchNew
  <2>4. \A x \in Sessions : state'[x] # "none" => sessions'[addr'[x]] = x
    BY <1>0, <2>1, <2>2, <2>3, UDPAssumption DEF OneSession, Live
  <2>5. ASSUME up', NEW a \in Addrs, sessions'[a] # NoSession
        PROVE  state'[sessions'[a]] # "none" /\ addr'[sessions'[a]] = a
    BY <1>0, <2>1, <2>2, <2>3, <2>5, UDPAssumption DEF OneSession, Live, Unused
  <2>q. QED
    BY <2>4, <2>5 DEF OneSession, Live
<1>6. CASE HandleDatagram
  BY <1>6, <1>0, UDPAssumption DEF OneSession, Live, HandleDatagram, Select, managerVars, sessionVars, countVars
<1>7. CASE HandleDropped
  BY <1>7, <1>0, UDPAssumption DEF OneSession, Live, HandleDropped, Select, managerVars, sessionVars, countVars
<1>8. CASE DispatchReturn
  BY <1>8, <1>0, UDPAssumption DEF OneSession, Live, DispatchReturn, managerVars, sessionVars, countVars
<1>9. CASE WriteTake
  BY <1>9, <1>0, UDPAssumption DEF OneSession, Live, WriteTake, managerVars, sessionVars, countVars
<1>10. CASE WriteToUDP
  BY <1>10, <1>0, UDPAssumption DEF OneSession, Live, WriteToUDP, managerVars, sessionVars, countVars
<1>11. CASE WriteReturn
  BY <1>11, <1>0, UDPAssumption DEF OneSession, Live, WriteReturn, managerVars, sessionVars, countVars
<1>12. ASSUME NEW a \in Addrs, ReadFromUDP(a) PROVE OneSession'
  BY <1>12, <1>0, UDPAssumption DEF OneSession, Live, ReadFromUDP, managerVars, sessionVars, countVars
<1>13. ASSUME NEW s \in Sessions, Stopped(s) PROVE OneSession'
  BY <1>13, <1>0, UDPAssumption DEF OneSession, Live, Stopped, managerVars, sessionVars, countVars
<1>14. ASSUME NEW s \in Sessions, SessionLeaves(s) PROVE OneSession'
  BY <1>14, <1>0, UDPAssumption DEF OneSession, Live, SessionLeaves, managerVars, sessionVars, countVars
<1>15. ASSUME NEW s \in Sessions, Authenticated(s) PROVE OneSession'
  BY <1>15, <1>0, UDPAssumption DEF OneSession, Live, Authenticated, GoTo, managerVars, sessionVars, countVars
<1>16. ASSUME NEW s \in Sessions, CopyTunnelers(s) PROVE OneSession'
  BY <1>16, <1>0, UDPAssumption DEF OneSession, Live, CopyTunnelers, GoTo, managerVars, sessionVars, countVars
<1>17. ASSUME NEW s \in Sessions, Unsupported(s) PROVE OneSession'
  BY <1>17, <1>0, UDPAssumption DEF OneSession, Live, Unsupported, GoTo, managerVars, sessionVars, countVars
<1>18. ASSUME NEW s \in Sessions, Unauthenticated(s) PROVE OneSession'
  BY <1>18, <1>0, UDPAssumption DEF OneSession, Live, Unauthenticated, GoTo, managerVars, sessionVars, countVars
<1>19. ASSUME NEW s \in Sessions, Connected(s) PROVE OneSession'
  BY <1>19, <1>0, UDPAssumption DEF OneSession, Live, Connected, GoTo, managerVars, sessionVars, countVars
<1>20. ASSUME NEW s \in Sessions, TryFails(s) PROVE OneSession'
  BY <1>20, <1>0, UDPAssumption DEF OneSession, Live, TryFails, GoTo, managerVars, sessionVars, countVars
<1>21. ASSUME NEW s \in Sessions, ReadDatagram(s) PROVE OneSession'
  BY <1>21, <1>0, UDPAssumption DEF OneSession, Live, ReadDatagram, managerVars, sessionVars, countVars
<1>22. ASSUME NEW s \in Sessions, ReadTooLarge(s) PROVE OneSession'
  BY <1>22, <1>0, UDPAssumption DEF OneSession, Live, ReadTooLarge, managerVars, sessionVars, countVars
<1>23. ASSUME NEW s \in Sessions, WriteDatagram(s) PROVE OneSession'
  BY <1>23, <1>0, UDPAssumption DEF OneSession, Live, WriteDatagram, managerVars, sessionVars, countVars
<1>24. ASSUME NEW s \in Sessions, NEW l \in {"local", "remote"}, LoopReturn(s, l) PROVE OneSession'
  BY <1>24, <1>0, UDPAssumption DEF OneSession, Live, LoopReturn, GoTo, managerVars, sessionVars, countVars
<1>25. CASE UNCHANGED vars
  BY <1>25, <1>0, UDPAssumption DEF OneSession, Live, vars, managerVars, sessionVars, countVars
<1>q. QED
  BY <1>1, <1>2, <1>3, <1>4, <1>5, <1>6, <1>7, <1>8, <1>9, <1>10, <1>11, <1>12,
     <1>13, <1>14, <1>15, <1>16, <1>17, <1>18, <1>19, <1>20, <1>21, <1>22, <1>23, <1>24, <1>25
     DEF Next, ReadStep, DispatchStep, WriteStep, SessionStep, SessionReturn

\* Every step leaves a tunneler.
LEMMA LeftStep ==
  ASSUME TypeOK, TunnelersLeft, [Next]_vars
  PROVE  TunnelersLeft'
<1>0. /\ state \in [Sessions -> States]
      /\ ts \in [Sessions -> {AllTunnelers, Tail(AllTunnelers), <<>>}]
      /\ tunnelers \in {AllTunnelers, Tail(AllTunnelers), <<>>}
  BY DEF TypeOK, SessionsOK
<1>1. CASE Cancel
  BY <1>1, <1>0, Lists DEF TunnelersLeft, Cancel, managerVars, sessionVars, countVars
<1>2. CASE ReadSend
  BY <1>2, <1>0, Lists DEF TunnelersLeft, ReadSend, managerVars, sessionVars, countVars
<1>3. CASE ReadReturn
  BY <1>3, <1>0, Lists DEF TunnelersLeft, ReadReturn, managerVars, sessionVars, countVars
<1>4. CASE DispatchKnown
  BY <1>4, <1>0, Lists DEF TunnelersLeft, DispatchKnown, Handle, managerVars, sessionVars, countVars
<1>5. CASE DispatchNew
  BY <1>5, <1>0, Lists DEF TunnelersLeft, DispatchNew, Handle, Unused, managerVars, sessionVars, countVars
<1>6. CASE HandleDatagram
  BY <1>6, <1>0, Lists DEF TunnelersLeft, HandleDatagram, Select, managerVars, sessionVars, countVars
<1>7. CASE HandleDropped
  BY <1>7, <1>0, Lists DEF TunnelersLeft, HandleDropped, Select, managerVars, sessionVars, countVars
<1>8. CASE DispatchReturn
  BY <1>8, <1>0, Lists DEF TunnelersLeft, DispatchReturn, managerVars, sessionVars, countVars
<1>9. CASE WriteTake
  BY <1>9, <1>0, Lists DEF TunnelersLeft, WriteTake, managerVars, sessionVars, countVars
<1>10. CASE WriteToUDP
  BY <1>10, <1>0, Lists DEF TunnelersLeft, WriteToUDP, managerVars, sessionVars, countVars
<1>11. CASE WriteReturn
  BY <1>11, <1>0, Lists DEF TunnelersLeft, WriteReturn, managerVars, sessionVars, countVars
<1>12. ASSUME NEW a \in Addrs, ReadFromUDP(a) PROVE TunnelersLeft'
  BY <1>12, <1>0, Lists DEF TunnelersLeft, ReadFromUDP, managerVars, sessionVars, countVars
<1>13. ASSUME NEW s \in Sessions, Stopped(s) PROVE TunnelersLeft'
  BY <1>13, <1>0, Lists DEF TunnelersLeft, Stopped, managerVars, sessionVars, countVars
<1>14. ASSUME NEW s \in Sessions, SessionLeaves(s) PROVE TunnelersLeft'
  BY <1>14, <1>0, Lists DEF TunnelersLeft, SessionLeaves, managerVars, sessionVars, countVars
<1>15. ASSUME NEW s \in Sessions, Authenticated(s) PROVE TunnelersLeft'
  BY <1>15, <1>0, Lists DEF TunnelersLeft, Authenticated, GoTo, managerVars, sessionVars, countVars
<1>16. ASSUME NEW s \in Sessions, CopyTunnelers(s) PROVE TunnelersLeft'
  BY <1>16, <1>0, Lists DEF TunnelersLeft, CopyTunnelers, GoTo, managerVars, sessionVars, countVars
<1>17. ASSUME NEW s \in Sessions, Unsupported(s) PROVE TunnelersLeft'
  BY <1>17, <1>0, Lists DEF TunnelersLeft, Unsupported, GoTo, managerVars, sessionVars, countVars
<1>18. ASSUME NEW s \in Sessions, Unauthenticated(s) PROVE TunnelersLeft'
  BY <1>18, <1>0, Lists DEF TunnelersLeft, Unauthenticated, GoTo, managerVars, sessionVars, countVars
<1>19. ASSUME NEW s \in Sessions, Connected(s) PROVE TunnelersLeft'
  BY <1>19, <1>0, Lists DEF TunnelersLeft, Connected, GoTo, managerVars, sessionVars, countVars
<1>20. ASSUME NEW s \in Sessions, TryFails(s) PROVE TunnelersLeft'
  BY <1>20, <1>0, Lists DEF TunnelersLeft, TryFails, GoTo, managerVars, sessionVars, countVars
<1>21. ASSUME NEW s \in Sessions, ReadDatagram(s) PROVE TunnelersLeft'
  BY <1>21, <1>0, Lists DEF TunnelersLeft, ReadDatagram, managerVars, sessionVars, countVars
<1>22. ASSUME NEW s \in Sessions, ReadTooLarge(s) PROVE TunnelersLeft'
  BY <1>22, <1>0, Lists DEF TunnelersLeft, ReadTooLarge, managerVars, sessionVars, countVars
<1>23. ASSUME NEW s \in Sessions, WriteDatagram(s) PROVE TunnelersLeft'
  BY <1>23, <1>0, Lists DEF TunnelersLeft, WriteDatagram, managerVars, sessionVars, countVars
<1>24. ASSUME NEW s \in Sessions, NEW l \in {"local", "remote"}, LoopReturn(s, l) PROVE TunnelersLeft'
  BY <1>24, <1>0, Lists DEF TunnelersLeft, LoopReturn, GoTo, managerVars, sessionVars, countVars
<1>25. CASE UNCHANGED vars
  BY <1>25, <1>0, Lists DEF TunnelersLeft, vars, managerVars, sessionVars, countVars
<1>q. QED
  BY <1>1, <1>2, <1>3, <1>4, <1>5, <1>6, <1>7, <1>8, <1>9, <1>10, <1>11, <1>12,
     <1>13, <1>14, <1>15, <1>16, <1>17, <1>18, <1>19, <1>20, <1>21, <1>22, <1>23, <1>24, <1>25
     DEF Next, ReadStep, DispatchStep, WriteStep, SessionStep, SessionReturn

\* What the proofs need of the initial states.
LEMMA InitHolds == Init => TypeOK /\ OneSession /\ TunnelersLeft
<1> SUFFICES ASSUME Init PROVE TypeOK /\ OneSession /\ TunnelersLeft
  OBVIOUS
<1>1. ManagerOK /\ SessionsOK /\ CountsOK
  <2>1. ManagerOK
    BY ChannelTypes DEF Init, ManagerOK
  <2>2. SessionsOK
    BY ChannelTypes, UDPAssumption DEF Init, SessionsOK, States
  <2>3. CountsOK
    BY DEF Init, CountsOK
  <2>q. QED
    BY <2>1, <2>2, <2>3
<1>2. OneSession
  BY DEF Init, OneSession, Live
<1>3. TunnelersLeft
  BY Lists DEF Init, TunnelersLeft
<1>q. QED
  BY <1>1, <1>2, <1>3 DEF TypeOK

-----------------------------------------------------------------------------
(***************************************************************************)
(* The order of the replies.  Only four steps touch what RepliesInOrder    *)
(* speaks of.  The invariant says what must hold of the two places a reply *)
(* can be in, and that no reply was written that has not come.             *)
(***************************************************************************)
replyVars == <<writer, out, replies, got>>

ReplyOK(q) == q # <<>> => /\ q[1].addr = q[1].from
                          /\ got[q[1].addr] < q[1].n
                          /\ q[1].n <= replies[q[1].addr]

RepliesInv ==
  /\ \A a \in Addrs : got[a] <= replies[a]
  /\ ReplyOK(writer.held)
  /\ ReplyOK(out)
  /\ (writer.held # <<>> /\ out # <<>> /\ writer.held[1].addr = out[1].addr)
       => writer.held[1].n < out[1].n

\* The steps that touch a reply.
LEMMA ReplySteps ==
  ASSUME [Next]_vars
  PROVE  \/ WriteTake \/ WriteToUDP \/ WriteReturn
         \/ \E s \in Sessions : WriteDatagram(s)
         \/ UNCHANGED replyVars
<1>1. CASE Cancel \/ ReadStep
  BY <1>1 DEF Cancel, ReadStep, ReadSend, ReadReturn, ReadFromUDP, replyVars, managerVars, countVars
<1>2. CASE DispatchStep
  BY <1>2 DEF DispatchStep, DispatchKnown, DispatchNew, HandleDatagram, HandleDropped, DispatchReturn,
              Stopped, replyVars, countVars
<1>3. CASE WriteStep
  BY <1>3 DEF WriteStep
<1>4. ASSUME NEW s \in Sessions, SessionStep(s)
      PROVE  WriteDatagram(s) \/ UNCHANGED replyVars
  BY <1>4 DEF SessionStep, SessionReturn, Authenticated, CopyTunnelers, Unsupported, Unauthenticated,
              Connected, ReadDatagram, ReadTooLarge, TryFails, SessionLeaves, LoopReturn,
              replyVars, managerVars, countVars
<1>5. CASE UNCHANGED vars
  BY <1>5 DEF vars, managerVars, countVars, replyVars
<1>q. QED
  BY <1>1, <1>2, <1>3, <1>4, <1>5 DEF Next

\* Every step keeps the order of the replies.
LEMMA RepliesStep ==
  ASSUME TypeOK, RepliesInv, [Next]_vars
  PROVE  RepliesInv'
<1>0. /\ writer.held \in AtMostOne(Replies) /\ out \in AtMostOne(Replies)
      /\ got \in [Addrs -> Nat] /\ replies \in [Addrs -> Nat]
      /\ addr \in [Sessions -> Addrs]
  BY DEF TypeOK, ManagerOK, SessionsOK, CountsOK
<1>1. writer.held # <<>> => writer.held[1].addr \in Addrs /\ writer.held[1].n \in Nat
  BY <1>0, ChannelElement DEF Replies
<1>2. out # <<>> => out[1].addr \in Addrs /\ out[1].n \in Nat
  BY <1>0, ChannelElement DEF Replies
<1>3. CASE WriteTake
  BY <1>3 DEF WriteTake, countVars, RepliesInv, ReplyOK
<1>4. CASE WriteToUDP
  <2>1. writer.held # <<>>
    BY <1>4 DEF TypeOK, ManagerOK, WriteToUDP
  <2>2. /\ writer'.held = <<>> /\ UNCHANGED <<out, replies>>
        /\ got' = [got EXCEPT ![writer.held[1].addr] = writer.held[1].n]
    BY <1>4 DEF WriteToUDP
  <2>3. \A a \in Addrs : got'[a] <= replies'[a]
    BY <1>0, <1>1, <2>1, <2>2 DEF RepliesInv, ReplyOK
  <2>4. ReplyOK(out)'
    BY <1>0, <1>1, <1>2, <2>1, <2>2 DEF RepliesInv, ReplyOK
  <2>q. QED
    BY <2>2, <2>3, <2>4 DEF RepliesInv, ReplyOK
<1>5. CASE WriteReturn
  BY <1>5 DEF WriteReturn, countVars, RepliesInv, ReplyOK
<1>6. ASSUME NEW s \in Sessions, WriteDatagram(s)
      PROVE  RepliesInv'
  <2>1. /\ UNCHANGED <<writer, got>>
        /\ replies' = [replies EXCEPT ![addr[s]] = @ + 1]
        /\ out' = <<[addr |-> addr[s], from |-> addr[s], n |-> replies[addr[s]] + 1]>>
    BY <1>6 DEF WriteDatagram
  <2>2. \A a \in Addrs : got'[a] <= replies'[a]
    BY <1>0, <2>1 DEF RepliesInv
  <2>3. ReplyOK(writer.held)'
    BY <1>0, <1>1, <2>1 DEF RepliesInv, ReplyOK
  <2>4. out'[1] = [addr |-> addr[s], from |-> addr[s], n |-> replies[addr[s]] + 1]
    BY <2>1
  <2>5. ReplyOK(out)'
    BY <1>0, <2>1, <2>4 DEF RepliesInv, ReplyOK
  <2>6. (writer.held # <<>> /\ writer.held[1].addr = out'[1].addr) => writer.held[1].n < out'[1].n
    BY <1>0, <1>1, <2>4 DEF RepliesInv, ReplyOK
  <2>q. QED
    BY <2>1, <2>2, <2>3, <2>5, <2>6 DEF RepliesInv
<1>7. CASE UNCHANGED replyVars
  BY <1>7 DEF replyVars, RepliesInv, ReplyOK
<1>q. QED
  BY <1>3, <1>4, <1>5, <1>6, <1>7, ReplySteps

\* The two places, one behind the other, are what RepliesInOrder speaks of.
LEMMA RepliesFlat == ASSUME TypeOK, RepliesInv PROVE RepliesInOrder
<1> DEFINE q == writer.held \o out
<1>1. writer.held \in Seq(Replies) /\ Len(writer.held) <= 1 /\ out \in Seq(Replies) /\ Len(out) <= 1
  BY DEF TypeOK, ManagerOK, AtMostOne
<1>2. \A i \in DOMAIN q : \/ writer.held # <<>> /\ i = 1 /\ q[i] = writer.held[1]
                          \/ out # <<>> /\ i = Len(writer.held) + 1 /\ q[i] = out[1]
  BY <1>1
<1>3. \A i \in DOMAIN q : /\ q[i].addr = q[i].from
                          /\ got[q[i].addr] < q[i].n
                          /\ q[i].n <= replies[q[i].addr]
  BY <1>2 DEF RepliesInv, ReplyOK
<1>4. ASSUME NEW i \in DOMAIN q, NEW j \in DOMAIN q, i < j, q[i].addr = q[j].addr
      PROVE  q[i].n < q[j].n
  <2>1. /\ writer.held # <<>> /\ q[i] = writer.held[1]
        /\ out # <<>> /\ q[j] = out[1]
    BY <1>1, <1>2, <1>4
  <2>q. QED
    BY <1>4, <2>1 DEF RepliesInv
<1>q. QED
  BY <1>3, <1>4 DEF RepliesInOrder

(***************************************************************************)
(* The order of what the clients send.  A datagram is in one of four       *)
(* places: the queue of its session, the hands of dispatch, mgr.in and the *)
(* hands of read.  For each client they are ordered two by two.  A session *)
(* that sends is the one its client's map entry names, also when the       *)
(* context is done, which needs RoutesInv.                                 *)
(***************************************************************************)
Own(q, a) == q # <<>> /\ q[1].addr = a

InRange(q, a) == Own(q, a) => sent[a] < q[1].n /\ q[1].n <= read[a]

Before(p, q, a) == Own(p, a) /\ Own(q, a) => p[1].n < q[1].n

RoutesInv ==
  /\ \A s \in Sessions : loops[s] # {} => state[s] = "open"
  /\ \A a \in Addrs : sessions[a] # NoSession => addr[sessions[a]] = a
  /\ dispatcher.at = "handle" => /\ dispatcher.held # <<>>
                                 /\ sessions[dispatcher.held[1].addr] = dispatcher.s
  /\ \A s \in Sessions : Live(s) /\ sin[s] # <<>> => sin[s][1].addr = addr[s]

OrderFor(a) ==
  /\ sent[a] <= read[a]
  /\ InRange(Queued(a), a) /\ InRange(dispatcher.held, a)
  /\ InRange(in, a) /\ InRange(reader.held, a)
  /\ Before(Queued(a), dispatcher.held, a) /\ Before(Queued(a), in, a)
  /\ Before(Queued(a), reader.held, a) /\ Before(dispatcher.held, in, a)
  /\ Before(dispatcher.held, reader.held, a) /\ Before(in, reader.held, a)

OrderInv == \A a \in Addrs : OrderFor(a)

orderVars == <<reader, in, dispatcher, sessions, sin, read, sent>>
routeVars == <<dispatcher, sessions, state, addr, sin, loops>>

\* The steps that touch a datagram of a client, or the map that routes it.
LEMMA OrderSteps ==
  ASSUME [Next]_vars
  PROVE  \/ ReadStep \/ DispatchStep
         \/ \E s \in Sessions : ReadDatagram(s) \/ ReadTooLarge(s)
         \/ UNCHANGED orderVars
<1>1. CASE Cancel \/ WriteStep
  BY <1>1 DEF Cancel, WriteStep, WriteTake, WriteToUDP, WriteReturn, orderVars,
              managerVars, sessionVars, countVars
<1>2. ASSUME NEW s \in Sessions, SessionStep(s)
      PROVE  ReadDatagram(s) \/ ReadTooLarge(s) \/ UNCHANGED orderVars
  BY <1>2 DEF SessionStep, SessionReturn, Authenticated, CopyTunnelers, Unsupported, Unauthenticated,
              Connected, WriteDatagram, TryFails, SessionLeaves, LoopReturn,
              orderVars, managerVars, sessionVars, countVars
<1>3. CASE UNCHANGED vars
  BY <1>3 DEF vars, managerVars, sessionVars, countVars, orderVars
<1>q. QED
  BY <1>1, <1>2, <1>3 DEF Next

\* Every step keeps the map, the sessions and their queues in agreement.
LEMMA RoutesStep ==
  ASSUME TypeOK, OneSession, RoutesInv, [Next]_vars
  PROVE  RoutesInv'
<1>0. /\ state \in [Sessions -> States] /\ addr \in [Sessions -> Addrs]
      /\ sessions \in [Addrs -> Sessions \cup {NoSession}]
      /\ sin \in [Sessions -> AtMostOne(Datagrams)]
      /\ loops \in [Sessions -> SUBSET {"local", "remote"}]
      /\ in \in AtMostOne(Datagrams)
      /\ dispatcher.held \in AtMostOne(Datagrams)
  BY DEF TypeOK, ManagerOK, SessionsOK
<1>1. CASE Cancel \/ ReadStep \/ WriteStep \/ UNCHANGED vars
  <2>1. UNCHANGED routeVars
    BY <1>1 DEF Cancel, ReadStep, ReadSend, ReadReturn, ReadFromUDP, WriteStep, WriteTake, WriteToUDP,
                WriteReturn, vars, managerVars, sessionVars, routeVars
  <2>q. QED
    BY <2>1 DEF routeVars, RoutesInv, Live
<1>2. CASE DispatchKnown
  <2>1. in[1].addr \in Addrs
    BY <1>0, <1>2, ChannelElement DEF DispatchKnown, Datagrams
  <2>2. /\ dispatcher' = [at |-> "handle", s |-> sessions[in[1].addr], held |-> <<in[1]>>]
        /\ UNCHANGED <<sessions, state, addr, sin, loops>>
    BY <1>2 DEF DispatchKnown, Handle, sessionVars
  <2>3. dispatcher'.held # <<>> /\ dispatcher'.held[1] = in[1]
    BY <2>2
  <2>q. QED
    BY <2>2, <2>3 DEF RoutesInv, Live
<1>3. CASE DispatchNew
  <2>1. in[1].addr \in Addrs
    BY <1>0, <1>3, ChannelElement DEF DispatchNew, Datagrams
  <2>2. PICK s \in Sessions : /\ Unused(s)
                              /\ state' = [state EXCEPT ![s] = "auth"]
                              /\ addr' = [addr EXCEPT ![s] = in[1].addr]
                              /\ sin' = [sin EXCEPT ![s] = <<>>]
                              /\ sessions' = [sessions EXCEPT ![in[1].addr] = s]
                              /\ Handle(s, in[1])
    BY <1>3 DEF DispatchNew
  <2>3. loops' = loops
    BY <1>3 DEF DispatchNew
  <2>4. dispatcher'.s = s /\ dispatcher'.held # <<>> /\ dispatcher'.held[1] = in[1]
    BY <2>2 DEF Handle
  <2>5. \A x \in Sessions : loops'[x] # {} => state'[x] = "open"
    BY <1>0, <2>2, <2>3 DEF RoutesInv, Unused
  <2>6. \A a \in Addrs : sessions'[a] # NoSession => addr'[sessions'[a]] = a
    BY <1>0, <2>1, <2>2, UDPAssumption DEF RoutesInv, Unused
  <2>7. \A x \in Sessions : state'[x] # "none" /\ sin'[x] # <<>> => sin'[x][1].addr = addr'[x]
    BY <1>0, <2>2 DEF RoutesInv, Live
  <2>q. QED
    BY <1>0, <2>1, <2>2, <2>4, <2>5, <2>6, <2>7 DEF RoutesInv, Live
<1>4. CASE HandleDatagram
  <2>1. /\ dispatcher.s \in Sessions /\ dispatcher.held # <<>>
        /\ sessions[dispatcher.held[1].addr] = dispatcher.s
        /\ dispatcher'.at = "select"
        /\ sin' = [sin EXCEPT ![dispatcher.s] = dispatcher.held]
        /\ UNCHANGED <<sessions, state, addr, loops>>
    BY <1>4 DEF TypeOK, ManagerOK, RoutesInv, HandleDatagram, Select
  <2>2. dispatcher.held[1].addr \in Addrs
    BY <1>0, <2>1, ChannelElement DEF Datagrams
  <2>3. dispatcher.held[1].addr = addr[dispatcher.s]
    BY <2>1, <2>2, UDPAssumption DEF RoutesInv
  <2>4. \A x \in Sessions : state'[x] # "none" /\ sin'[x] # <<>> => sin'[x][1].addr = addr'[x]
    BY <1>0, <2>1, <2>3 DEF RoutesInv, Live
  <2>q. QED
    BY <2>1, <2>4 DEF RoutesInv, Live
<1>5. CASE HandleDropped \/ DispatchReturn
  BY <1>5 DEF HandleDropped, Select, DispatchReturn, sessionVars, RoutesInv, Live
<1>6. ASSUME NEW s \in Sessions, Stopped(s)
      PROVE  RoutesInv'
  BY <1>0, <1>6 DEF Stopped, RoutesInv, Live
<1>7. ASSUME NEW s \in Sessions, SessionStep(s)
      PROVE  RoutesInv'
  <2>1. CASE ReadDatagram(s) \/ ReadTooLarge(s)
    BY <1>0, <2>1 DEF ReadDatagram, ReadTooLarge, managerVars, RoutesInv, Live
  <2>2. CASE Authenticated(s) \/ CopyTunnelers(s) \/ Unsupported(s) \/ Unauthenticated(s) \/ TryFails(s)
    <3>1. UNCHANGED <<dispatcher, sessions, addr, sin, loops>>
      BY <2>2 DEF Authenticated, CopyTunnelers, Unsupported, Unauthenticated, TryFails, managerVars
    <3>2. \E v \in States : state[s] \notin {"open", "none"} /\ state' = [state EXCEPT ![s] = v]
      BY <2>2 DEF Authenticated, CopyTunnelers, Unsupported, Unauthenticated, TryFails, GoTo, States
    <3>q. QED
      BY <1>0, <3>1, <3>2 DEF RoutesInv, Live
  <2>3. CASE Connected(s) \/ SessionLeaves(s)
    BY <1>0, <2>3 DEF Connected, SessionLeaves, GoTo, managerVars, RoutesInv, Live
  <2>4. ASSUME NEW l \in {"local", "remote"}, LoopReturn(s, l)
        PROVE  RoutesInv'
    BY <1>0, <2>4 DEF LoopReturn, GoTo, managerVars, RoutesInv, Live
  <2>5. CASE WriteDatagram(s)
    BY <2>5 DEF WriteDatagram, sessionVars, RoutesInv, Live
  <2>q. QED
    BY <1>7, <2>1, <2>2, <2>3, <2>4, <2>5 DEF SessionStep, SessionReturn
<1>q. QED
  BY <1>1, <1>2, <1>3, <1>4, <1>5, <1>6, <1>7 DEF Next, DispatchStep

\* The type of the oldest datagram of a channel.
LEMMA DatagramElement ==
  ASSUME NEW q \in AtMostOne(Datagrams)
  PROVE  q # <<>> => q[1].addr \in Addrs /\ q[1].n \in Nat
  BY ChannelElement DEF Datagrams

\* Every step keeps the order of what each client has sent.
LEMMA OrderStep ==
  ASSUME TypeOK, OneSession, RoutesInv, OrderInv, [Next]_vars
  PROVE  OrderInv'
<1>0. /\ state \in [Sessions -> States] /\ addr \in [Sessions -> Addrs]
      /\ sessions \in [Addrs -> Sessions \cup {NoSession}]
      /\ sin \in [Sessions -> AtMostOne(Datagrams)]
      /\ in \in AtMostOne(Datagrams) /\ reader.held \in AtMostOne(Datagrams)
      /\ dispatcher.held \in AtMostOne(Datagrams)
      /\ read \in [Addrs -> Nat] /\ sent \in [Addrs -> Nat]
  BY DEF TypeOK, ManagerOK, SessionsOK, CountsOK
<1> SUFFICES ASSUME NEW a \in Addrs
             PROVE  OrderFor(a)'
  BY DEF OrderInv
<1>h. OrderFor(a)
  BY DEF OrderInv
<1>n. /\ in # <<>> => in[1].addr \in Addrs /\ in[1].n \in Nat
      /\ reader.held # <<>> => reader.held[1].addr \in Addrs /\ reader.held[1].n \in Nat
      /\ dispatcher.held # <<>> => dispatcher.held[1].addr \in Addrs /\ dispatcher.held[1].n \in Nat
  BY <1>0, DatagramElement
<1>s. \A s \in Sessions : sin[s] # <<>> => sin[s][1].addr \in Addrs /\ sin[s][1].n \in Nat
  BY <1>0, DatagramElement
<1>1. CASE ReadSend
  <2>1. /\ in' = reader.held /\ reader'.held = <<>>
        /\ UNCHANGED <<dispatcher, sessions, sin, read, sent>>
    BY <1>1 DEF ReadSend, sessionVars, countVars
  <2>q. QED
    BY <1>h, <2>1 DEF OrderFor, InRange, Before, Own, Queued
<1>2. CASE ReadReturn
  <2>1. reader'.held = <<>> /\ UNCHANGED <<in, dispatcher, sessions, sin, read, sent>>
    BY <1>2 DEF ReadReturn, sessionVars, countVars
  <2>q. QED
    BY <1>h, <2>1 DEF OrderFor, InRange, Before, Own, Queued
<1>3. ASSUME NEW b \in Addrs, ReadFromUDP(b)
      PROVE  OrderFor(a)'
  <2>1. /\ read' = [read EXCEPT ![b] = @ + 1]
        /\ reader'.held = <<[addr |-> b, n |-> read[b] + 1]>>
        /\ UNCHANGED <<in, dispatcher, sessions, sin, sent>>
    BY <1>3 DEF ReadFromUDP, sessionVars
  <2>2. reader'.held[1].addr = b /\ reader'.held[1].n = read[b] + 1
    BY <2>1
  <2>3. Queued(a)' = Queued(a) /\ (Queued(a) # <<>> => Queued(a)[1].n \in Nat)
    BY <1>0, <1>s, <2>1 DEF Queued
  <2>4. read'[a] = (IF a = b THEN read[a] + 1 ELSE read[a]) /\ read[a] \in Nat /\ sent[a] \in Nat
    BY <1>0, <2>1
  <2>q. QED
    BY <1>h, <1>n, <2>1, <2>2, <2>3, <2>4 DEF OrderFor, InRange, Before, Own
<1>4. CASE DispatchKnown
  <2>1. /\ dispatcher'.held = <<in[1]>> /\ in' = <<>> /\ in # <<>>
        /\ UNCHANGED <<reader, sessions, sin, read, sent>>
    BY <1>4 DEF DispatchKnown, Handle, sessionVars, countVars
  <2>q. QED
    BY <1>h, <2>1 DEF OrderFor, InRange, Before, Own, Queued
<1>5. CASE DispatchNew
  <2>1. PICK s \in Sessions : /\ Unused(s)
                              /\ sin' = [sin EXCEPT ![s] = <<>>]
                              /\ sessions' = [sessions EXCEPT ![in[1].addr] = s]
                              /\ Handle(s, in[1])
    BY <1>5 DEF DispatchNew
  <2>2. /\ dispatcher'.held = <<in[1]>> /\ in' = <<>> /\ in # <<>>
        /\ UNCHANGED <<reader, read, sent>>
    BY <1>5, <2>1 DEF DispatchNew, Handle, countVars
  <2>3. Queued(a)' = Queued(a) \/ Queued(a)' = <<>>
    BY <1>0, <1>n, <2>1, <2>2, UDPAssumption DEF Queued, Unused
  <2>q. QED
    BY <1>h, <2>2, <2>3 DEF OrderFor, InRange, Before, Own
<1>6. CASE HandleDatagram
  <2>1. /\ dispatcher.s \in Sessions /\ dispatcher'.held = <<>>
        /\ sin' = [sin EXCEPT ![dispatcher.s] = dispatcher.held]
        /\ UNCHANGED <<reader, in, sessions, read, sent>>
    BY <1>6 DEF TypeOK, ManagerOK, HandleDatagram, Select, countVars
  <2>2. Queued(a)' = Queued(a) \/ Queued(a)' = dispatcher.held
    BY <1>0, <2>1 DEF Queued
  <2>q. QED
    BY <1>h, <2>1, <2>2 DEF OrderFor, InRange, Before, Own
<1>7. CASE HandleDropped \/ DispatchReturn
  <2>1. dispatcher'.held = <<>> /\ UNCHANGED <<reader, in, sessions, sin, read, sent>>
    BY <1>7 DEF HandleDropped, Select, DispatchReturn, sessionVars, countVars
  <2>q. QED
    BY <1>h, <2>1 DEF OrderFor, InRange, Before, Own, Queued
<1>8. ASSUME NEW s \in Sessions, Stopped(s)
      PROVE  OrderFor(a)'
  <2>1. /\ sessions' = [sessions EXCEPT ![addr[s]] = NoSession]
        /\ UNCHANGED <<reader, in, dispatcher, sin, read, sent>>
    BY <1>8 DEF Stopped, countVars
  <2>2. Queued(a)' = Queued(a) \/ Queued(a)' = <<>>
    BY <1>0, <2>1 DEF Queued
  <2>q. QED
    BY <1>h, <2>1, <2>2 DEF OrderFor, InRange, Before, Own
<1>9. ASSUME NEW s \in Sessions, ReadTooLarge(s)
      PROVE  OrderFor(a)'
  <2>1. sin' = [sin EXCEPT ![s] = <<>>] /\ UNCHANGED <<reader, in, dispatcher, sessions, read, sent>>
    BY <1>9 DEF ReadTooLarge, managerVars, countVars
  <2>2. Queued(a)' = Queued(a) \/ Queued(a)' = <<>>
    BY <1>0, <2>1 DEF Queued
  <2>q. QED
    BY <1>h, <2>1, <2>2 DEF OrderFor, InRange, Before, Own
<1>10. ASSUME NEW s \in Sessions, ReadDatagram(s)
       PROVE  OrderFor(a)'
  <2>1. /\ "local" \in loops[s] /\ sin[s] # <<>>
        /\ sin' = [sin EXCEPT ![s] = <<>>]
        /\ sent' = [sent EXCEPT ![sin[s][1].addr] = sin[s][1].n]
        /\ UNCHANGED <<reader, in, dispatcher, sessions, read>>
    BY <1>10 DEF ReadDatagram, managerVars
  <2>2. Live(s)
    BY <2>1 DEF RoutesInv, Live
  <2>3. sin[s][1].addr = addr[s] /\ sessions[addr[s]] = s
    BY <2>1, <2>2 DEF RoutesInv, OneSession
  <2>4. CASE a = addr[s]
    <3>1. Queued(a) = sin[s] /\ Queued(a)' = <<>>
      BY <1>0, <2>1, <2>3, <2>4, UDPAssumption DEF Queued
    <3>2. sent'[a] = sin[s][1].n
      BY <1>0, <2>1, <2>3, <2>4
    <3>q. QED
      BY <1>h, <2>1, <2>3, <2>4, <3>1, <3>2 DEF OrderFor, InRange, Before, Own
  <2>5. CASE a # addr[s]
    <3>1. Queued(a)' = Queued(a) \/ Queued(a)' = <<>>
      BY <1>0, <2>1 DEF Queued
    <3>2. sent'[a] = sent[a]
      BY <1>0, <2>1, <2>3, <2>5
    <3>q. QED
      BY <1>h, <2>1, <3>1, <3>2 DEF OrderFor, InRange, Before, Own
  <2>q. QED
    BY <2>4, <2>5
<1>11. CASE UNCHANGED orderVars
  BY <1>h, <1>11 DEF orderVars, OrderFor, InRange, Before, Own, Queued
<1>q. QED
  BY <1>1, <1>2, <1>3, <1>4, <1>5, <1>6, <1>7, <1>8, <1>9, <1>10, <1>11, OrderSteps
     DEF ReadStep, DispatchStep

(***************************************************************************)
(* From the order of the places, two by two, to that of the positions of   *)
(* Upstream(a): Sorted says of a sequence what ClientInOrder says, and a   *)
(* sequence of at most one datagram can be put behind a sorted one that is *)
(* all before it.                                                          *)
(***************************************************************************)
Sorted(q, a) ==
  LET own == {i \in DOMAIN q : q[i].addr = a}
  IN  /\ \A i \in own : sent[a] < q[i].n /\ q[i].n <= read[a]
      /\ \A i, j \in own : i < j => q[i].n < q[j].n

AllBefore(p, q, a) == \A i \in DOMAIN p : p[i].addr = a /\ Own(q, a) => p[i].n < q[1].n

LEMMA SortedAppend ==
  ASSUME NEW a, NEW p \in Seq(Datagrams), NEW q \in AtMostOne(Datagrams),
         Sorted(p, a), InRange(q, a), AllBefore(p, q, a)
  PROVE  p \o q \in Seq(Datagrams) /\ Sorted(p \o q, a)
<1>1. q \in Seq(Datagrams) /\ Len(q) <= 1
  BY DEF AtMostOne
<1>2. CASE q = <<>>
  <2>1. p \o q = p
    BY <1>2
  <2>q. QED
    BY <2>1
<1>3. CASE q # <<>>
  <2>1. /\ p \o q \in Seq(Datagrams) /\ DOMAIN (p \o q) = 1 .. Len(p) + 1
        /\ DOMAIN p = 1 .. Len(p) /\ Len(p) \in Nat
        /\ \A i \in 1 .. Len(p) : (p \o q)[i] = p[i]
        /\ (p \o q)[Len(p) + 1] = q[1]
    BY <1>1, <1>3
  <2>2. \A i \in DOMAIN (p \o q) : \/ i \in DOMAIN p /\ (p \o q)[i] = p[i]
                                   \/ i = Len(p) + 1 /\ (p \o q)[i] = q[1]
    BY <2>1
  <2>3. \A i \in DOMAIN (p \o q) : (p \o q)[i].addr = a =>
          sent[a] < (p \o q)[i].n /\ (p \o q)[i].n <= read[a]
    BY <1>3, <2>2 DEF Sorted, InRange, Own
  <2>4. ASSUME NEW i \in DOMAIN (p \o q), NEW j \in DOMAIN (p \o q), i < j,
               (p \o q)[i].addr = a, (p \o q)[j].addr = a
        PROVE  (p \o q)[i].n < (p \o q)[j].n
    <3>1. i \in DOMAIN p /\ (p \o q)[i] = p[i]
      BY <2>1, <2>4
    <3>2. CASE j \in DOMAIN p
      BY <2>1, <2>4, <3>1, <3>2 DEF Sorted
    <3>3. CASE j = Len(p) + 1
      BY <1>3, <2>1, <2>4, <3>1, <3>3 DEF AllBefore, Own
    <3>q. QED
      BY <2>2, <3>2, <3>3
  <2>q. QED
    BY <2>1, <2>3, <2>4 DEF Sorted
<1>q. QED
  BY <1>2, <1>3

LEMMA AllBeforeAppend ==
  ASSUME NEW a, NEW p \in Seq(Datagrams), NEW q \in AtMostOne(Datagrams), NEW r,
         AllBefore(p, r, a), Before(q, r, a)
  PROVE  AllBefore(p \o q, r, a)
<1>1. q \in Seq(Datagrams) /\ Len(q) <= 1
  BY DEF AtMostOne
<1>2. \A i \in DOMAIN (p \o q) : \/ i \in DOMAIN p /\ (p \o q)[i] = p[i]
                                 \/ q # <<>> /\ (p \o q)[i] = q[1]
  BY <1>1
<1>q. QED
  BY <1>2 DEF AllBefore, Before, Own

\* A channel is a sorted sequence, and is before whatever its element is before.
LEMMA SortedOne ==
  ASSUME NEW a, NEW q \in AtMostOne(Datagrams), NEW r
  PROVE  /\ q \in Seq(Datagrams)
         /\ InRange(q, a) => Sorted(q, a)
         /\ Before(q, r, a) => AllBefore(q, r, a)
<1>1. q \in Seq(Datagrams) /\ \A i \in DOMAIN q : i = 1 /\ q # <<>>
  BY DEF AtMostOne
<1>q. QED
  BY <1>1 DEF Sorted, InRange, Before, AllBefore, Own

LEMMA OrderFlat == ASSUME TypeOK, RoutesInv, OrderInv PROVE ClientInOrder
<1>0. /\ sessions \in [Addrs -> Sessions \cup {NoSession}]
      /\ sin \in [Sessions -> AtMostOne(Datagrams)]
      /\ in \in AtMostOne(Datagrams) /\ reader.held \in AtMostOne(Datagrams)
      /\ dispatcher.held \in AtMostOne(Datagrams)
  BY DEF TypeOK, ManagerOK, SessionsOK
<1>1. ASSUME NEW s \in Sessions, Live(s), NEW i \in DOMAIN sin[s]
      PROVE  sin[s][i].addr = addr[s]
  <2>1. sin[s] # <<>> /\ i = 1
    BY <1>0, <1>1 DEF AtMostOne
  <2>q. QED
    BY <1>1, <2>1 DEF RoutesInv
<1>2. ASSUME NEW a \in Addrs
      PROVE  Sorted(Upstream(a), a)
  <2> DEFINE q1 == Queued(a)
             q2 == q1 \o dispatcher.held
             q3 == q2 \o in
  <2>h. OrderFor(a)
    BY DEF OrderInv
  <2>0. q1 \in AtMostOne(Datagrams)
    BY <1>0, ChannelTypes DEF Queued
  <2>1. /\ q1 \in Seq(Datagrams) /\ Sorted(q1, a)
        /\ AllBefore(q1, dispatcher.held, a) /\ AllBefore(q1, in, a) /\ AllBefore(q1, reader.held, a)
    BY <2>h, <2>0, SortedOne DEF OrderFor
  <2>2. q2 \in Seq(Datagrams) /\ Sorted(q2, a)
    BY <1>0, <2>h, <2>1, SortedAppend DEF OrderFor
  <2>3. AllBefore(q2, in, a) /\ AllBefore(q2, reader.held, a)
    BY <1>0, <2>h, <2>1, AllBeforeAppend DEF OrderFor
  <2>4. q3 \in Seq(Datagrams) /\ Sorted(q3, a)
    BY <1>0, <2>h, <2>2, <2>3, SortedAppend DEF OrderFor
  <2>5. AllBefore(q3, reader.held, a)
    BY <1>0, <2>h, <2>2, <2>3, AllBeforeAppend DEF OrderFor
  <2>6. Sorted(q3 \o reader.held, a)
    BY <1>0, <2>h, <2>4, <2>5, SortedAppend DEF OrderFor
  <2>q. QED
    BY <2>6 DEF Upstream
<1>q. QED
  BY <1>1, <1>2 DEF ClientInOrder, Sorted

-----------------------------------------------------------------------------
(***************************************************************************)
(* The channels never hold more than their capacity, and the state of the  *)
(* manager, of its sessions and of the list of tunnelers keeps its shape.  *)
(***************************************************************************)
THEOREM TypeCorrect == Spec => []TypeOK
<1>1. TypeOK /\ [Next]_vars => TypeOK'
  BY ManagerStep, SessionsStep, CountsStep DEF TypeOK
<1>q. QED
  BY <1>1, InitHolds, PTL DEF Spec

(***************************************************************************)
(* A client has at most one session, which dispatch finds in its map, and  *)
(* while the manager runs the map names no session that is gone.           *)
(***************************************************************************)
THEOREM OneSessionAlways == Spec => []OneSession
<1>1. TypeOK /\ OneSession /\ [Next]_vars => OneSession'
  BY OneStep
<1>q. QED
  BY <1>1, InitHolds, TypeCorrect, PTL DEF Spec

(***************************************************************************)
(* However many sessions fall back at the same time, a tunneler is left.   *)
(***************************************************************************)
THEOREM TunnelersAreLeft == Spec => []TunnelersLeft
<1>1. TypeOK /\ TunnelersLeft /\ [Next]_vars => TunnelersLeft'
  BY LeftStep
<1>q. QED
  BY <1>1, InitHolds, TypeCorrect, PTL DEF Spec

(***************************************************************************)
(* A reply goes to the client whose session it came to, and the replies to *)
(* a client keep their order over the end of one session and the start of  *)
(* the next, for any number of clients, sessions and replies.              *)
(***************************************************************************)
THEOREM RepliesKeepOrder == Spec => []RepliesInOrder
<1>1. Init => RepliesInv
  BY DEF Init, RepliesInv, ReplyOK
<1>2. TypeOK /\ RepliesInv /\ [Next]_vars => RepliesInv'
  BY RepliesStep
<1>3. TypeOK /\ RepliesInv => RepliesInOrder
  BY RepliesFlat
<1>q. QED
  BY <1>1, <1>2, <1>3, TypeCorrect, PTL DEF Spec

(***************************************************************************)
(* Each client's datagrams go up in the order in which they were read and  *)
(* none goes up twice, across three channels and one session after         *)
(* another, and a session sends what its own client sent, for any number   *)
(* of clients, sessions and datagrams.                                     *)
(***************************************************************************)
THEOREM ClientsKeepOrder == Spec => []ClientInOrder
<1>1. Init => RoutesInv /\ OrderInv
  BY UDPAssumption DEF Init, RoutesInv, OrderInv, OrderFor, InRange, Before, Own, Queued, Live
<1>2. TypeOK /\ OneSession /\ RoutesInv /\ [Next]_vars => RoutesInv'
  BY RoutesStep
<1>3. TypeOK /\ OneSession /\ RoutesInv /\ OrderInv /\ [Next]_vars => OrderInv'
  BY OrderStep
<1>4. TypeOK /\ RoutesInv /\ OrderInv => ClientInOrder
  BY OrderFlat
<1>q. QED
  BY <1>1, <1>2, <1>3, <1>4, TypeCorrect, OneSessionAlways, PTL DEF Spec

-----------------------------------------------------------------------------
(***************************************************************************)
(* The loops of a session run as long as it is open, and no longer.        *)
(***************************************************************************)
OpenHasLoops == \A s \in Sessions : state[s] = "open" <=> loops[s] # {}

\* A step that moves one session between states without loops.
Elsewhere(s) == \E to \in States \ {"open"} : /\ state[s] # "open"
                                            /\ state' = [state EXCEPT ![s] = to]
                                            /\ loops' = loops

\* All that a step may do to the loops and the states of the sessions.
LEMMA LoopSteps ==
  ASSUME TypeOK, [Next]_vars
  PROVE  \/ UNCHANGED <<state, loops>>
         \/ \E s \in Sessions : Elsewhere(s) \/ Connected(s)
         \/ \E s \in Sessions, l \in {"local", "remote"} : LoopReturn(s, l)
<1> USE DEF managerVars, sessionVars, countVars
<1>1. CASE Cancel \/ ReadStep \/ WriteStep \/ UNCHANGED vars
  BY <1>1 DEF Cancel, ReadStep, ReadSend, ReadReturn, ReadFromUDP, WriteStep, WriteTake, WriteToUDP,
              WriteReturn, vars
<1>2. CASE DispatchKnown \/ HandleDatagram \/ HandleDropped \/ DispatchReturn
  BY <1>2 DEF DispatchKnown, HandleDatagram, HandleDropped, DispatchReturn
<1>3. CASE DispatchNew
  BY <1>3 DEF DispatchNew, Unused, Elsewhere, States
<1>4. ASSUME NEW s \in Sessions, Stopped(s) \/ SessionLeaves(s) PROVE Elsewhere(s)
  BY <1>4 DEF Stopped, SessionLeaves, Elsewhere, States
<1>5. ASSUME NEW s \in Sessions, Authenticated(s) \/ CopyTunnelers(s) \/ Unauthenticated(s)
      PROVE  Elsewhere(s)
  BY <1>5 DEF Authenticated, CopyTunnelers, Unauthenticated, GoTo, Elsewhere, States
<1>6. ASSUME NEW s \in Sessions, Unsupported(s) \/ TryFails(s) PROVE Elsewhere(s)
  BY <1>6 DEF Unsupported, TryFails, GoTo, Elsewhere, States
<1>7. ASSUME NEW s \in Sessions, ReadDatagram(s) \/ ReadTooLarge(s) \/ WriteDatagram(s)
      PROVE  UNCHANGED <<state, loops>>
  BY <1>7 DEF ReadDatagram, ReadTooLarge, WriteDatagram
<1>q. QED
  BY <1>1, <1>2, <1>3, <1>4, <1>5, <1>6, <1>7
     DEF Next, DispatchStep, SessionStep, SessionReturn

(***************************************************************************)
(* No loop outlives its session and no session is left open without a loop *)
(* to end it: a loop of a session that is over would write replies to a    *)
(* client whose address a new session has, and an open session without     *)
(* loops would never stop.  With the guards of the other steps this is the *)
(* safety behind AllEnd: once the context is done, whatever state it finds *)
(* a session in, there is a step out of it.                                *)
(***************************************************************************)
THEOREM LoopsEndWithTheirSession == Spec => []OpenHasLoops
<1>1. Init => OpenHasLoops
  BY DEF Init, OpenHasLoops
<1>2. TypeOK /\ OpenHasLoops /\ [Next]_vars => OpenHasLoops'
  <2> SUFFICES ASSUME TypeOK, OpenHasLoops, [Next]_vars PROVE OpenHasLoops'
    OBVIOUS
  <2>0. state \in [Sessions -> States] /\ loops \in [Sessions -> SUBSET {"local", "remote"}]
    BY DEF TypeOK, SessionsOK
  <2>1. CASE UNCHANGED <<state, loops>>
    BY <2>1 DEF OpenHasLoops
  <2>2. ASSUME NEW s \in Sessions, Elsewhere(s) PROVE OpenHasLoops'
    BY <2>0, <2>2 DEF OpenHasLoops, Elsewhere
  <2>3. ASSUME NEW s \in Sessions, Connected(s) PROVE OpenHasLoops'
    BY <2>0, <2>3 DEF OpenHasLoops, Connected, GoTo
  <2>4. ASSUME NEW s \in Sessions, NEW l \in {"local", "remote"}, LoopReturn(s, l)
        PROVE  OpenHasLoops'
    <3>1. CASE loops[s] = {l}
      BY <2>0, <2>4, <3>1 DEF OpenHasLoops, LoopReturn, GoTo
    <3>2. CASE loops[s] # {l}
      <4>1. loops[s] \ {l} # {}
        BY <2>0, <2>4, <3>2 DEF LoopReturn
      <4>q. QED
        BY <2>0, <2>4, <3>2, <4>1 DEF OpenHasLoops, LoopReturn
    <3>q. QED
      BY <3>1, <3>2
  <2>q. QED
    BY <2>1, <2>2, <2>3, <2>4, LoopSteps
<1>q. QED
  BY <1>1, <1>2, TypeCorrect, PTL DEF Spec
=============================================================================
