-------------------------- MODULE TunnelAuthProofs --------------------------
(***************************************************************************)
(* Proofs about TunnelAuth, for any number of connections and tokens.      *)
(*                                                                         *)
(* TypeOK and TunnelerReady are inductive.  SecondAttemptFresh needs the   *)
(* way of a text from GetJWT through the store (Login) and, with           *)
(* NoNeedlessLogin, where texts come from: nobody holds a token that is    *)
(* not issued yet (Known).  EventsInOrder rests on what the sink has heard *)
(* at each place of runWithJWT (EventFits).  That a connection comes to an *)
(* end is proved as a bound on its steps (Rank), from the fact that only a *)
(* first attempt authenticates (FirstAttempt).                             *)
(***************************************************************************)
EXTENDS TunnelAuth, TLAPS

\* Whatever is in the cache, in a run's hands or in an account was issued, or is
\* no token of the server's.
Known == /\ Tokens \cap (Flag \cup AccountFile) \subseteq issued
         /\ cache \in issued \cup Foreign \cup {"none"}
         /\ \A r \in Runs : jwt[r] \in issued \cup Foreign /\ got[r] \in issued \cup Foreign

\* The way of a text from GetJWT to the second attempt.
Login == \A r \in Runs : /\ pc[r] = "load" => ~again[r]
                         /\ pc[r] \in {"store", "write"} => jwt[r] = got[r]

\* Only a first attempt authenticates.
FirstAttempt ==
  \A r \in Runs : pc[r] \in {"load", "auth", "browser", "store", "write"} => ~again[r]

\* What the sink has heard last, by the place of the run.
EventFits ==
  \A r \in Runs :
    /\ pc[r] = "load" => event[r] = "none"
    /\ pc[r] \in {"lock", "probe"} => event[r] \in {"none", "CONNECTING", "AUTH_REQUIRED"}
    /\ pc[r] \in {"connect", "auth"} => event[r] = "CONNECTING"
    /\ pc[r] = "auth" => ~again[r]
    /\ pc[r] = "open" => event[r] = "CONNECTED"
    /\ pc[r] \in {"browser", "store", "write"} => event[r] \in {"CONNECTING", "AUTH_REQUIRED"}

\* What a service account yields is a text, and no token that is not issued.
LEMMA AccountKnown ==
  ASSUME TypeOK, NEW t \in account
  PROVE  t \in Text /\ (Known => t \in issued \cup Foreign)
<1>1. t \in Flag \cup AccountFile
  BY DEF TypeOK, Accounts
<1>q. QED
  BY <1>1, TunnelAssumption DEF Known, Text

(***************************************************************************)
(* What an answer of the proxy does to a run: the tunnel is open, or the   *)
(* run goes on without one, to the login only if its token is refused.     *)
(***************************************************************************)
LEMMA RespondCases ==
  ASSUME NEW r \in Runs, Respond(r)
  PROVE  /\ UNCHANGED <<cache, writers, worldVars, tunneler, mu, jwt, got, again>>
         /\ \E e \in RunErrors : Fail(r, e) /\ (e = "unauthenticated" => jwt[r] \notin Accepted)
         /\ \/ Go(r, "connect", "open") /\ Emit(r, "CONNECTED")
            \/ /\ \E l \in {"auth", "delete", "done"} :
                    Go(r, "connect", l) /\ (l = "auth" => jwt[r] \notin Accepted /\ ~again[r])
               /\ UNCHANGED event
<1>1. PICK status \in Answers(jwt[r]) :
        /\ Fail(r, httpStatusCodeToError(status))
        /\ IF httpStatusCodeToError(status) = "nil"
           THEN Go(r, "connect", "open") /\ Emit(r, "CONNECTED")
           ELSE Go(r, "connect", AfterHandler(r, httpStatusCodeToError(status))) /\ UNCHANGED event
  BY DEF Respond
<1> DEFINE e == httpStatusCodeToError(status)
<1>2. status \in {200, 302, 403, 500, 503} /\ (status = 302 => jwt[r] \notin Accepted)
  BY <1>1 DEF Answers
<1>3. e \in RunErrors /\ (e = "unauthenticated" => status = 302)
  BY <1>2 DEF httpStatusCodeToError, RunErrors
<1>4. /\ AfterHandler(r, e) \in {"auth", "delete", "done"}
      /\ AfterHandler(r, e) = "auth" => e = "unauthenticated" /\ ~again[r]
  BY <1>3 DEF AfterHandler
<1>5. UNCHANGED <<cache, writers, worldVars, tunneler, mu, jwt, got, again>>
  BY DEF Respond
<1>8. Fail(r, e) /\ (e = "unauthenticated" => jwt[r] \notin Accepted)
  BY <1>1, <1>2, <1>3
<1> HIDE DEF e
<1>6. CASE e = "nil"
  BY <1>1, <1>3, <1>5, <1>6, <1>8 DEF e
<1>7. CASE e # "nil"
  <2>1. Go(r, "connect", AfterHandler(r, e)) /\ UNCHANGED event
    BY <1>1, <1>7 DEF e
  <2>q. QED
    BY <2>1, <1>2, <1>3, <1>4, <1>5, <1>8
<1>q. QED
  BY <1>6, <1>7

\* Every step keeps the types.
LEMMA TypeStep ==
  ASSUME TypeOK, [Next]_vars
  PROVE  TypeOK'
<1> USE TunnelAssumption DEF TypeOK, Text, Foreign, RunErrors, Locations, Tunnelers
<1>1. ASSUME NEW r \in Runs, LoadJWT(r) PROVE TypeOK'
  BY <1>1 DEF LoadJWT, Go, worldVars
<1>2. ASSUME NEW r \in Runs, LoadFails(r) PROVE TypeOK'
  BY <1>2 DEF LoadFails, Go, Fail, worldVars
<1>3. ASSUME NEW r \in Runs, Lock(r) PROVE TypeOK'
  <2>1. CASE tunneler = "none"
    <3>1. /\ pc[r] = "lock" /\ pc' = [pc EXCEPT ![r] = "probe"] /\ UNCHANGED event
          /\ mu' = r
      BY <1>3, <2>1 DEF Lock, Go
    <3>2. UNCHANGED <<cache, writers, worldVars, tunneler, jwt, got, err, again>>
      BY <1>3 DEF Lock
    <3>q. QED
      BY <3>1, <3>2 DEF worldVars
  <2>2. CASE tunneler # "none"
    <3>1. /\ pc[r] = "lock" /\ pc' = [pc EXCEPT ![r] = "connect"]
          /\ event' = [event EXCEPT ![r] = "CONNECTING"] /\ UNCHANGED mu
      BY <1>3, <2>2 DEF Lock, Go, Emit
    <3>2. UNCHANGED <<cache, writers, worldVars, tunneler, jwt, got, err, again>>
      BY <1>3 DEF Lock
    <3>q. QED
      BY <3>1, <3>2 DEF worldVars
  <2>q. QED
    BY <2>1, <2>2
<1>4. ASSUME NEW r \in Runs, Probe(r) PROVE TypeOK'
  BY <1>4 DEF Probe, Tunnelers, Go, Emit, worldVars
<1>5. ASSUME NEW r \in Runs, Respond(r) PROVE TypeOK'
  <2>0. PICK l \in {"open", "auth", "delete", "done"} : Go(r, "connect", l)
    BY <1>5, RespondCases DEF Go
  <2>1. pc' \in [Runs -> Locations] /\ pc[r] = "connect" /\ \A x \in Runs \ {r} : pc'[x] = pc[x]
    BY <2>0 DEF Go
  <2>2. err' \in [Runs -> RunErrors]
    BY <1>5, RespondCases DEF Fail
  <2>3. event' \in [Runs -> {"none", "CONNECTING", "AUTH_REQUIRED", "CONNECTED", "DISCONNECTED"}]
    BY <1>5, RespondCases DEF Emit
  <2>4. UNCHANGED <<cache, writers, worldVars, tunneler, mu, jwt, got, again>>
    BY <1>5, RespondCases
  <2>5. writers' \subseteq {x \in Runs : pc'[x] = "write"}
    BY <2>1, <2>4
  <2>q. QED
    BY <2>1, <2>2, <2>3, <2>4, <2>5 DEF worldVars
<1>6. ASSUME NEW r \in Runs, ConnectFails(r) PROVE TypeOK'
  BY <1>6 DEF ConnectFails, AfterHandler, Go, Fail, worldVars
<1>7. ASSUME NEW r \in Runs, UseServiceAccount(r) PROVE TypeOK'
  <2>1. PICK t \in account : GetJWT(r, "auth", t)
    BY <1>7 DEF UseServiceAccount
  <2>2. t \in Text
    BY <2>1, AccountKnown
  <2>q. QED
    BY <1>7, <2>1, <2>2 DEF UseServiceAccount, GetJWT, Go, worldVars
<1>8. ASSUME NEW r \in Runs, OpenBrowser(r) PROVE TypeOK'
  BY <1>8 DEF OpenBrowser, Go, Emit, worldVars
<1>9. ASSUME NEW r \in Runs, StoreOpen(r) PROVE TypeOK'
  <2>0. pc' = [pc EXCEPT ![r] = "write"] /\ writers' = writers \cup {r}
    BY <1>9 DEF StoreOpen, Go
  <2>1. writers' \subseteq {x \in Runs : pc'[x] = "write"}
    <3>1. pc'[r] = "write" /\ \A x \in Runs \ {r} : pc'[x] = pc[x]
      BY <2>0
    <3>2. \A x \in writers : x \in Runs /\ pc[x] = "write"
      OBVIOUS
    <3>3. \A x \in writers : x \in Runs /\ pc'[x] = "write"
      BY <3>1, <3>2
    <3>4. writers \cup {r} \subseteq {x \in Runs : pc'[x] = "write"}
      BY <3>1, <3>3
    <3>q. QED
      BY <2>0, <3>4
  <2>q. QED
    BY <1>9, <2>1 DEF StoreOpen, Go, worldVars
<1>10. ASSUME NEW r \in Runs, StoreJWT(r) PROVE TypeOK'
  BY <1>10 DEF StoreJWT, Written, Go, worldVars
<1>11. ASSUME NEW r \in Runs, StoreFails(r) PROVE TypeOK'
  BY <1>11 DEF StoreFails, Written, Go, Fail, worldVars
<1>12. ASSUME NEW r \in Runs, DeleteJWT(r) PROVE TypeOK'
  BY <1>12 DEF DeleteJWT, Go, worldVars
<1>13. ASSUME NEW r \in Runs, Start(r) PROVE TypeOK'
  BY <1>13 DEF Start, worldVars
<1>14. ASSUME NEW r \in Runs, Disconnect(r) PROVE TypeOK'
  <2>1. PICK e \in {"nil", "failed"} : Fail(r, e) /\ Go(r, "open", AfterHandler(r, e))
    BY <1>14 DEF Disconnect
  <2>2. AfterHandler(r, e) \in {"done", "delete"}
    BY <2>1 DEF AfterHandler
  <2>3. /\ pc' \in [Runs -> Locations]
        /\ writers' \subseteq {x \in Runs : pc'[x] = "write"}
        /\ err' \in [Runs -> RunErrors]
    BY <1>14, <2>1, <2>2 DEF Disconnect, Go, Fail
  <2>q. QED
    BY <1>14, <2>3 DEF Disconnect, Emit, worldVars
<1>15. ASSUME NEW r \in Runs, LoginDone(r) PROVE TypeOK'
  <2>1. PICK t \in Tokens \ issued : GetJWT(r, "browser", t) /\ issued' = issued \cup {t}
    BY <1>15 DEF LoginDone
  <2>2. /\ jwt' \in [Runs -> Text] /\ got' \in [Runs -> Text]
        /\ issued' \subseteq Tokens /\ revoked' \subseteq issued'
    BY <1>15, <2>1 DEF LoginDone, GetJWT
  <2>q. QED
    BY <1>15, <2>1, <2>2 DEF LoginDone, GetJWT, Go
<1>16. ASSUME NEW r \in Runs, CallbackText(r) PROVE TypeOK'
  <2>1. PICK t \in (issued \cup Foreign) \ {""} : GetJWT(r, "browser", t)
    BY <1>16 DEF CallbackText
  <2>2. t \in Text
    BY <2>1
  <2>q. QED
    BY <1>16, <2>1, <2>2 DEF CallbackText, GetJWT, Go, worldVars
<1>17. ASSUME NEW r \in Runs, LoginFails(r) PROVE TypeOK'
  BY <1>17 DEF LoginFails, Go, Fail, worldVars
<1>18. ASSUME NEW t \in Tokens, Revoke(t) PROVE TypeOK'
  BY <1>18 DEF Revoke, runVars
<1>19. CASE Cancel
  BY <1>19 DEF Cancel, runVars
<1>20. CASE Crash
  BY <1>20 DEF Crash, worldVars
<1>21. CASE UNCHANGED vars
  BY <1>21 DEF vars, worldVars, runVars
<1>q. QED
  BY <1>1, <1>2, <1>3, <1>4, <1>5, <1>6, <1>7, <1>8, <1>9, <1>10, <1>11,
     <1>12, <1>13, <1>14, <1>15, <1>16, <1>17, <1>18, <1>19, <1>20, <1>21
     DEF Next, LocalStep, NetworkStep

\* Every step keeps the tunneler ready for those who use it.
LEMMA ReadyStep ==
  ASSUME TypeOK, TunnelerReady, [Next]_vars
  PROVE  TunnelerReady'
<1> USE TunnelAssumption DEF TypeOK, Tunnelers, TunnelerReady
<1>1. ASSUME NEW r \in Runs, LoadJWT(r) PROVE TunnelerReady'
  BY <1>1 DEF LoadJWT, Go, worldVars
<1>2. ASSUME NEW r \in Runs, LoadFails(r) PROVE TunnelerReady'
  BY <1>2 DEF LoadFails, Go, Fail, worldVars
<1>3. ASSUME NEW r \in Runs, Lock(r) PROVE TunnelerReady'
  BY <1>3 DEF Lock, Go, Emit, worldVars
<1>4. ASSUME NEW r \in Runs, Probe(r) PROVE TunnelerReady'
  BY <1>4 DEF Probe, Tunnelers, Go, Emit, worldVars
<1>5. ASSUME NEW r \in Runs, Respond(r) PROVE TunnelerReady'
  BY <1>5, RespondCases DEF Go, Fail, Emit, worldVars
<1>6. ASSUME NEW r \in Runs, ConnectFails(r) PROVE TunnelerReady'
  BY <1>6 DEF ConnectFails, AfterHandler, Go, Fail, worldVars
<1>7. ASSUME NEW r \in Runs, UseServiceAccount(r) PROVE TunnelerReady'
  BY <1>7 DEF UseServiceAccount, GetJWT, Go, worldVars
<1>8. ASSUME NEW r \in Runs, OpenBrowser(r) PROVE TunnelerReady'
  BY <1>8 DEF OpenBrowser, Go, Emit, worldVars
<1>9. ASSUME NEW r \in Runs, StoreOpen(r) PROVE TunnelerReady'
  BY <1>9 DEF StoreOpen, Go, worldVars
<1>10. ASSUME NEW r \in Runs, StoreJWT(r) PROVE TunnelerReady'
  BY <1>10 DEF StoreJWT, Written, Go, worldVars
<1>11. ASSUME NEW r \in Runs, StoreFails(r) PROVE TunnelerReady'
  BY <1>11 DEF StoreFails, Written, Go, Fail, worldVars
<1>12. ASSUME NEW r \in Runs, DeleteJWT(r) PROVE TunnelerReady'
  BY <1>12 DEF DeleteJWT, Go, worldVars
<1>13. ASSUME NEW r \in Runs, Start(r) PROVE TunnelerReady'
  BY <1>13 DEF Start, worldVars
<1>14. ASSUME NEW r \in Runs, Disconnect(r) PROVE TunnelerReady'
  BY <1>14 DEF Disconnect, AfterHandler, Go, Fail, Emit, worldVars
<1>15. ASSUME NEW r \in Runs, LoginDone(r) PROVE TunnelerReady'
  BY <1>15 DEF LoginDone, GetJWT, Go
<1>16. ASSUME NEW r \in Runs, CallbackText(r) PROVE TunnelerReady'
  BY <1>16 DEF CallbackText, GetJWT, Go, worldVars
<1>17. ASSUME NEW r \in Runs, LoginFails(r) PROVE TunnelerReady'
  BY <1>17 DEF LoginFails, Go, Fail, worldVars
<1>18. ASSUME NEW t \in Tokens, Revoke(t) PROVE TunnelerReady'
  BY <1>18 DEF Revoke, runVars
<1>19. CASE Cancel
  BY <1>19 DEF Cancel, runVars
<1>20. CASE Crash
  BY <1>20 DEF Crash, worldVars
<1>21. CASE UNCHANGED vars
  BY <1>21 DEF vars, worldVars, runVars
<1>q. QED
  BY <1>1, <1>2, <1>3, <1>4, <1>5, <1>6, <1>7, <1>8, <1>9, <1>10, <1>11,
     <1>12, <1>13, <1>14, <1>15, <1>16, <1>17, <1>18, <1>19, <1>20, <1>21
     DEF Next, LocalStep, NetworkStep

\* Every step keeps texts known.
LEMMA KnownStep ==
  ASSUME TypeOK, Known, [Next]_vars
  PROVE  Known'
<1> USE TunnelAssumption DEF TypeOK, Text, Foreign, Known
<1>1. ASSUME NEW r \in Runs, LoadJWT(r) PROVE Known'
  BY <1>1 DEF LoadJWT, Go, worldVars
<1>2. ASSUME NEW r \in Runs, LoadFails(r) PROVE Known'
  BY <1>2 DEF LoadFails, Go, Fail, worldVars
<1>3. ASSUME NEW r \in Runs, Lock(r) PROVE Known'
  BY <1>3 DEF Lock, Go, Emit, worldVars
<1>4. ASSUME NEW r \in Runs, Probe(r) PROVE Known'
  BY <1>4 DEF Probe, Tunnelers, Go, Emit, worldVars
<1>5. ASSUME NEW r \in Runs, Respond(r) PROVE Known'
  BY <1>5, RespondCases DEF Go, Fail, Emit, worldVars
<1>6. ASSUME NEW r \in Runs, ConnectFails(r) PROVE Known'
  BY <1>6 DEF ConnectFails, AfterHandler, Go, Fail, worldVars
<1>7. ASSUME NEW r \in Runs, UseServiceAccount(r) PROVE Known'
  <2>1. PICK t \in account : GetJWT(r, "auth", t)
    BY <1>7 DEF UseServiceAccount
  <2>2. t \in issued \cup Foreign
    BY <2>1, AccountKnown
  <2>q. QED
    BY <1>7, <2>1, <2>2 DEF UseServiceAccount, GetJWT, Go, worldVars
<1>8. ASSUME NEW r \in Runs, OpenBrowser(r) PROVE Known'
  BY <1>8 DEF OpenBrowser, Go, Emit, worldVars
<1>9. ASSUME NEW r \in Runs, StoreOpen(r) PROVE Known'
  BY <1>9 DEF StoreOpen, Go, worldVars
<1>10. ASSUME NEW r \in Runs, StoreJWT(r) PROVE Known'
  BY <1>10 DEF StoreJWT, Written, Go, worldVars
<1>11. ASSUME NEW r \in Runs, StoreFails(r) PROVE Known'
  BY <1>11 DEF StoreFails, Written, Go, Fail, worldVars
<1>12. ASSUME NEW r \in Runs, DeleteJWT(r) PROVE Known'
  BY <1>12 DEF DeleteJWT, Go, worldVars
<1>13. ASSUME NEW r \in Runs, Start(r) PROVE Known'
  BY <1>13 DEF Start, worldVars
<1>14. ASSUME NEW r \in Runs, Disconnect(r) PROVE Known'
  BY <1>14 DEF Disconnect, AfterHandler, Go, Fail, Emit, worldVars
<1>15. ASSUME NEW r \in Runs, LoginDone(r) PROVE Known'
  BY <1>15 DEF LoginDone, GetJWT, Go
<1>16. ASSUME NEW r \in Runs, CallbackText(r) PROVE Known'
  BY <1>16 DEF CallbackText, GetJWT, Go, worldVars
<1>17. ASSUME NEW r \in Runs, LoginFails(r) PROVE Known'
  BY <1>17 DEF LoginFails, Go, Fail, worldVars
<1>18. ASSUME NEW t \in Tokens, Revoke(t) PROVE Known'
  BY <1>18 DEF Revoke, runVars
<1>19. CASE Cancel
  BY <1>19 DEF Cancel, runVars
<1>20. CASE Crash
  BY <1>20 DEF Crash, worldVars
<1>21. CASE UNCHANGED vars
  BY <1>21 DEF vars, worldVars, runVars
<1>q. QED
  BY <1>1, <1>2, <1>3, <1>4, <1>5, <1>6, <1>7, <1>8, <1>9, <1>10, <1>11,
     <1>12, <1>13, <1>14, <1>15, <1>16, <1>17, <1>18, <1>19, <1>20, <1>21
     DEF Next, LocalStep, NetworkStep

\* Every step keeps the text of a login on its way through the second attempt.
LEMMA LoginStep ==
  ASSUME TypeOK, Known, FirstAttempt, Login, SecondAttemptFresh, [Next]_vars
  PROVE  (Login /\ SecondAttemptFresh)'
<1> USE TunnelAssumption DEF TypeOK, FirstAttempt, Login, SecondAttemptFresh, Accepted
<1>1. ASSUME NEW r \in Runs, LoadJWT(r) PROVE (Login /\ SecondAttemptFresh)'
  BY <1>1 DEF LoadJWT, Go, worldVars
<1>2. ASSUME NEW r \in Runs, LoadFails(r) PROVE (Login /\ SecondAttemptFresh)'
  BY <1>2 DEF LoadFails, Go, Fail, worldVars
<1>3. ASSUME NEW r \in Runs, Lock(r) PROVE (Login /\ SecondAttemptFresh)'
  <2>1. CASE tunneler = "none"
    <3>1. /\ pc[r] = "lock" /\ pc' = [pc EXCEPT ![r] = "probe"] /\ UNCHANGED event
          /\ mu' = r
      BY <1>3, <2>1 DEF Lock, Go
    <3>2. UNCHANGED <<cache, writers, worldVars, tunneler, jwt, got, err, again>>
      BY <1>3 DEF Lock
    <3>q. QED
      BY <3>1, <3>2 DEF worldVars
  <2>2. CASE tunneler # "none"
    <3>1. /\ pc[r] = "lock" /\ pc' = [pc EXCEPT ![r] = "connect"]
          /\ event' = [event EXCEPT ![r] = "CONNECTING"] /\ UNCHANGED mu
      BY <1>3, <2>2 DEF Lock, Go, Emit
    <3>2. UNCHANGED <<cache, writers, worldVars, tunneler, jwt, got, err, again>>
      BY <1>3 DEF Lock
    <3>q. QED
      BY <3>1, <3>2 DEF worldVars
  <2>q. QED
    BY <2>1, <2>2
<1>4. ASSUME NEW r \in Runs, Probe(r) PROVE (Login /\ SecondAttemptFresh)'
  BY <1>4 DEF Probe, Tunnelers, Go, Emit, worldVars
<1>5. ASSUME NEW r \in Runs, Respond(r) PROVE (Login /\ SecondAttemptFresh)'
  <2>1. PICK l \in {"open", "auth", "delete", "done"} : Go(r, "connect", l)
    BY <1>5, RespondCases DEF Go
  <2>2. PICK e \in RunErrors : Fail(r, e) /\ (e = "unauthenticated" => jwt[r] \notin Accepted)
    BY <1>5, RespondCases
  <2>3. UNCHANGED <<worldVars, jwt, got, again>>
    BY <1>5, RespondCases
  <2>q. QED
    BY <2>1, <2>2, <2>3 DEF Go, Fail, worldVars
<1>6. ASSUME NEW r \in Runs, ConnectFails(r) PROVE (Login /\ SecondAttemptFresh)'
  BY <1>6 DEF ConnectFails, AfterHandler, Go, Fail, worldVars
<1>7. ASSUME NEW r \in Runs, UseServiceAccount(r) PROVE (Login /\ SecondAttemptFresh)'
  <2>1. PICK t \in account : GetJWT(r, "auth", t)
    BY <1>7 DEF UseServiceAccount
  <2>2. /\ pc[r] = "auth" /\ pc' = [pc EXCEPT ![r] = "store"]
        /\ jwt' = [jwt EXCEPT ![r] = t] /\ got' = [got EXCEPT ![r] = t]
    BY <2>1 DEF GetJWT, Go
  <2>3. UNCHANGED <<issued, revoked, err, again, event>>
    BY <1>7, <2>1 DEF UseServiceAccount, worldVars
  <2>q. QED
    BY <2>2, <2>3
<1>8. ASSUME NEW r \in Runs, OpenBrowser(r) PROVE (Login /\ SecondAttemptFresh)'
  BY <1>8 DEF OpenBrowser, Go, Emit, worldVars
<1>9. ASSUME NEW r \in Runs, StoreOpen(r) PROVE (Login /\ SecondAttemptFresh)'
  BY <1>9 DEF StoreOpen, Go, worldVars
<1>10. ASSUME NEW r \in Runs, StoreJWT(r) PROVE (Login /\ SecondAttemptFresh)'
  BY <1>10 DEF StoreJWT, Written, Go, worldVars
<1>11. ASSUME NEW r \in Runs, StoreFails(r) PROVE (Login /\ SecondAttemptFresh)'
  BY <1>11 DEF StoreFails, Written, Go, Fail, worldVars
<1>12. ASSUME NEW r \in Runs, DeleteJWT(r) PROVE (Login /\ SecondAttemptFresh)'
  BY <1>12 DEF DeleteJWT, Go, worldVars
<1>13. ASSUME NEW r \in Runs, Start(r) PROVE (Login /\ SecondAttemptFresh)'
  BY <1>13 DEF Start, worldVars
<1>14. ASSUME NEW r \in Runs, Disconnect(r) PROVE (Login /\ SecondAttemptFresh)'
  <2>1. PICK e \in {"nil", "failed"} : Fail(r, e) /\ Go(r, "open", AfterHandler(r, e))
    BY <1>14 DEF Disconnect
  <2>2. AfterHandler(r, e) \in {"done", "delete"}
    BY <2>1 DEF AfterHandler
  <2>3. UNCHANGED <<worldVars, jwt, got, again>>
    BY <1>14 DEF Disconnect
  <2>q. QED
    BY <2>1, <2>2, <2>3 DEF Go, Fail, worldVars
<1>15. ASSUME NEW r \in Runs, LoginDone(r) PROVE (Login /\ SecondAttemptFresh)'
  <2>1. PICK t \in Tokens \ issued : GetJWT(r, "browser", t) /\ issued' = issued \cup {t}
    BY <1>15 DEF LoginDone
  <2>2. \A x \in Runs : got[x] # t
    BY DEF Known, Foreign
  <2>q. QED
    BY <1>15, <2>1, <2>2 DEF LoginDone, GetJWT, Go
<1>16. ASSUME NEW r \in Runs, CallbackText(r) PROVE (Login /\ SecondAttemptFresh)'
  <2>1. PICK t \in (issued \cup Foreign) \ {""} : GetJWT(r, "browser", t)
    BY <1>16 DEF CallbackText
  <2>2. /\ pc[r] = "browser" /\ pc' = [pc EXCEPT ![r] = "store"]
        /\ jwt' = [jwt EXCEPT ![r] = t] /\ got' = [got EXCEPT ![r] = t]
    BY <2>1 DEF GetJWT, Go
  <2>3. UNCHANGED <<issued, revoked, err, again, event>>
    BY <1>16, <2>1 DEF CallbackText, worldVars
  <2>q. QED
    BY <2>2, <2>3
<1>17. ASSUME NEW r \in Runs, LoginFails(r) PROVE (Login /\ SecondAttemptFresh)'
  BY <1>17 DEF LoginFails, Go, Fail, worldVars
<1>18. ASSUME NEW t \in Tokens, Revoke(t) PROVE (Login /\ SecondAttemptFresh)'
  BY <1>18 DEF Revoke, runVars
<1>19. CASE Cancel
  BY <1>19 DEF Cancel, runVars
<1>20. CASE Crash
  BY <1>20 DEF Crash, worldVars
<1>21. CASE UNCHANGED vars
  BY <1>21 DEF vars, worldVars, runVars
<1>q. QED
  BY <1>1, <1>2, <1>3, <1>4, <1>5, <1>6, <1>7, <1>8, <1>9, <1>10, <1>11,
     <1>12, <1>13, <1>14, <1>15, <1>16, <1>17, <1>18, <1>19, <1>20, <1>21
     DEF Next, LocalStep, NetworkStep

\* Every step to a login leaves a refused token behind.
LEMMA NeededStep ==
  ASSUME TypeOK, Known, NoNeedlessLogin, [Next]_vars
  PROVE  NoNeedlessLogin'
<1> USE TunnelAssumption DEF TypeOK, Foreign, Known, NoNeedlessLogin, Accepted
<1>1. ASSUME NEW r \in Runs, LoadJWT(r) PROVE NoNeedlessLogin'
  BY <1>1 DEF LoadJWT, Go, worldVars
<1>2. ASSUME NEW r \in Runs, LoadFails(r) PROVE NoNeedlessLogin'
  BY <1>2 DEF LoadFails, Go, Fail, worldVars
<1>3. ASSUME NEW r \in Runs, Lock(r) PROVE NoNeedlessLogin'
  <2>1. UNCHANGED <<issued, revoked, jwt>>
    BY <1>3 DEF Lock, worldVars
  <2>2. PICK l \in {"probe", "connect"} : pc' = [pc EXCEPT ![r] = l]
    BY <1>3 DEF Lock, Go
  <2>q. QED
    BY <2>1, <2>2
<1>4. ASSUME NEW r \in Runs, Probe(r) PROVE NoNeedlessLogin'
  <2>1. UNCHANGED <<issued, revoked, jwt>> /\ pc' = [pc EXCEPT ![r] = "connect"]
    BY <1>4 DEF Probe, Go, worldVars
  <2>q. QED
    BY <2>1
<1>5. ASSUME NEW r \in Runs, Respond(r) PROVE NoNeedlessLogin'
  <2>1. PICK l \in {"open", "auth", "delete", "done"} :
          Go(r, "connect", l) /\ (l = "auth" => jwt[r] \notin Accepted)
    BY <1>5, RespondCases DEF Go
  <2>2. UNCHANGED <<worldVars, jwt, got, again>>
    BY <1>5, RespondCases
  <2>q. QED
    BY <2>1, <2>2 DEF Go, worldVars, Accepted
<1>6. ASSUME NEW r \in Runs, ConnectFails(r) PROVE NoNeedlessLogin'
  BY <1>6 DEF ConnectFails, AfterHandler, Go, Fail, worldVars
<1>7. ASSUME NEW r \in Runs, UseServiceAccount(r) PROVE NoNeedlessLogin'
  <2>1. PICK t \in account : GetJWT(r, "auth", t)
    BY <1>7 DEF UseServiceAccount
  <2>2. /\ pc[r] = "auth" /\ pc' = [pc EXCEPT ![r] = "store"]
        /\ jwt' = [jwt EXCEPT ![r] = t] /\ got' = [got EXCEPT ![r] = t]
    BY <2>1 DEF GetJWT, Go
  <2>3. UNCHANGED <<issued, revoked, err, again, event>>
    BY <1>7, <2>1 DEF UseServiceAccount, worldVars
  <2>q. QED
    BY <2>2, <2>3
<1>8. ASSUME NEW r \in Runs, OpenBrowser(r) PROVE NoNeedlessLogin'
  BY <1>8 DEF OpenBrowser, Go, Emit, worldVars
<1>9. ASSUME NEW r \in Runs, StoreOpen(r) PROVE NoNeedlessLogin'
  BY <1>9 DEF StoreOpen, Go, worldVars
<1>10. ASSUME NEW r \in Runs, StoreJWT(r) PROVE NoNeedlessLogin'
  BY <1>10 DEF StoreJWT, Written, Go, worldVars
<1>11. ASSUME NEW r \in Runs, StoreFails(r) PROVE NoNeedlessLogin'
  BY <1>11 DEF StoreFails, Written, Go, Fail, worldVars
<1>12. ASSUME NEW r \in Runs, DeleteJWT(r) PROVE NoNeedlessLogin'
  BY <1>12 DEF DeleteJWT, Go, worldVars
<1>13. ASSUME NEW r \in Runs, Start(r) PROVE NoNeedlessLogin'
  BY <1>13 DEF Start, worldVars
<1>14. ASSUME NEW r \in Runs, Disconnect(r) PROVE NoNeedlessLogin'
  BY <1>14 DEF Disconnect, AfterHandler, Go, Fail, Emit, worldVars
<1>15. ASSUME NEW r \in Runs, LoginDone(r) PROVE NoNeedlessLogin'
  <2>1. PICK t \in Tokens \ issued : GetJWT(r, "browser", t) /\ issued' = issued \cup {t}
    BY <1>15 DEF LoginDone
  <2>2. /\ pc[r] = "browser" /\ pc' = [pc EXCEPT ![r] = "store"]
        /\ jwt' = [jwt EXCEPT ![r] = t] /\ revoked' = revoked
    BY <1>15, <2>1 DEF LoginDone, GetJWT, Go
  <2>3. ASSUME NEW x \in Runs, pc'[x] \in {"auth", "browser"} PROVE jwt[x] \notin Accepted'
    <3>1. x # r /\ pc[x] \in {"auth", "browser"}
      BY <2>2, <2>3
    <3>2. jwt[x] # t
      BY <2>1, TunnelAssumption DEF Known, Foreign
    <3>q. QED
      BY <2>1, <2>2, <3>1, <3>2 DEF Accepted
  <2>q. QED
    BY <2>2, <2>3
<1>16. ASSUME NEW r \in Runs, CallbackText(r) PROVE NoNeedlessLogin'
  <2>1. PICK t \in (issued \cup Foreign) \ {""} : GetJWT(r, "browser", t)
    BY <1>16 DEF CallbackText
  <2>2. /\ pc[r] = "browser" /\ pc' = [pc EXCEPT ![r] = "store"]
        /\ jwt' = [jwt EXCEPT ![r] = t] /\ got' = [got EXCEPT ![r] = t]
    BY <2>1 DEF GetJWT, Go
  <2>3. UNCHANGED <<issued, revoked, err, again, event>>
    BY <1>16, <2>1 DEF CallbackText, worldVars
  <2>q. QED
    BY <2>2, <2>3
<1>17. ASSUME NEW r \in Runs, LoginFails(r) PROVE NoNeedlessLogin'
  BY <1>17 DEF LoginFails, Go, Fail, worldVars
<1>18. ASSUME NEW t \in Tokens, Revoke(t) PROVE NoNeedlessLogin'
  BY <1>18 DEF Revoke, runVars
<1>19. CASE Cancel
  BY <1>19 DEF Cancel, runVars
<1>20. CASE Crash
  BY <1>20 DEF Crash, worldVars
<1>21. CASE UNCHANGED vars
  BY <1>21 DEF vars, worldVars, runVars
<1>q. QED
  BY <1>1, <1>2, <1>3, <1>4, <1>5, <1>6, <1>7, <1>8, <1>9, <1>10, <1>11,
     <1>12, <1>13, <1>14, <1>15, <1>16, <1>17, <1>18, <1>19, <1>20, <1>21
     DEF Next, LocalStep, NetworkStep

\* Every step tells the sink what the place of the run allows.
LEMMA EventStep ==
  ASSUME TypeOK, FirstAttempt, EventFits, [Next]_vars
  PROVE  EventFits' /\ \A x \in Runs : InOrder(x)
<1> USE TunnelAssumption DEF TypeOK, FirstAttempt, EventFits, InOrder
<1>1. ASSUME NEW r \in Runs, LoadJWT(r) PROVE EventFits' /\ \A x \in Runs : InOrder(x)
  BY <1>1 DEF LoadJWT, Go, worldVars
<1>2. ASSUME NEW r \in Runs, LoadFails(r) PROVE EventFits' /\ \A x \in Runs : InOrder(x)
  BY <1>2 DEF LoadFails, Go, Fail, worldVars
<1>3. ASSUME NEW r \in Runs, Lock(r) PROVE EventFits' /\ \A x \in Runs : InOrder(x)
  <2>1. CASE tunneler = "none"
    <3>1. /\ pc[r] = "lock" /\ pc' = [pc EXCEPT ![r] = "probe"] /\ UNCHANGED event
          /\ mu' = r
      BY <1>3, <2>1 DEF Lock, Go
    <3>2. UNCHANGED <<cache, writers, worldVars, tunneler, jwt, got, err, again>>
      BY <1>3 DEF Lock
    <3>q. QED
      BY <3>1, <3>2 DEF worldVars
  <2>2. CASE tunneler # "none"
    <3>1. /\ pc[r] = "lock" /\ pc' = [pc EXCEPT ![r] = "connect"]
          /\ event' = [event EXCEPT ![r] = "CONNECTING"] /\ UNCHANGED mu
      BY <1>3, <2>2 DEF Lock, Go, Emit
    <3>2. UNCHANGED <<cache, writers, worldVars, tunneler, jwt, got, err, again>>
      BY <1>3 DEF Lock
    <3>q. QED
      BY <3>1, <3>2 DEF worldVars
  <2>q. QED
    BY <2>1, <2>2
<1>4. ASSUME NEW r \in Runs, Probe(r) PROVE EventFits' /\ \A x \in Runs : InOrder(x)
  BY <1>4 DEF Probe, Tunnelers, Go, Emit, worldVars
<1>5. ASSUME NEW r \in Runs, Respond(r) PROVE EventFits' /\ \A x \in Runs : InOrder(x)
  <2>1. again' = again
    BY <1>5, RespondCases
  <2>2. CASE Go(r, "connect", "open") /\ Emit(r, "CONNECTED")
    BY <2>1, <2>2 DEF Go, Emit
  <2>3. ASSUME NEW l \in {"auth", "delete", "done"}, Go(r, "connect", l), l = "auth" => ~again[r],
               UNCHANGED event
        PROVE  EventFits' /\ \A x \in Runs : InOrder(x)
    BY <2>1, <2>3 DEF Go
  <2>q. QED
    BY <1>5, <2>2, <2>3, RespondCases
<1>6. ASSUME NEW r \in Runs, ConnectFails(r) PROVE EventFits' /\ \A x \in Runs : InOrder(x)
  BY <1>6 DEF ConnectFails, AfterHandler, Go, Fail, worldVars
<1>7. ASSUME NEW r \in Runs, UseServiceAccount(r) PROVE EventFits' /\ \A x \in Runs : InOrder(x)
  BY <1>7 DEF UseServiceAccount, GetJWT, Go, worldVars
<1>8. ASSUME NEW r \in Runs, OpenBrowser(r) PROVE EventFits' /\ \A x \in Runs : InOrder(x)
  BY <1>8 DEF OpenBrowser, Go, Emit, worldVars
<1>9. ASSUME NEW r \in Runs, StoreOpen(r) PROVE EventFits' /\ \A x \in Runs : InOrder(x)
  BY <1>9 DEF StoreOpen, Go, worldVars
<1>10. ASSUME NEW r \in Runs, StoreJWT(r) PROVE EventFits' /\ \A x \in Runs : InOrder(x)
  BY <1>10 DEF StoreJWT, Written, Go, worldVars
<1>11. ASSUME NEW r \in Runs, StoreFails(r) PROVE EventFits' /\ \A x \in Runs : InOrder(x)
  BY <1>11 DEF StoreFails, Written, Go, Fail, worldVars
<1>12. ASSUME NEW r \in Runs, DeleteJWT(r) PROVE EventFits' /\ \A x \in Runs : InOrder(x)
  BY <1>12 DEF DeleteJWT, Go, worldVars
<1>13. ASSUME NEW r \in Runs, Start(r) PROVE EventFits' /\ \A x \in Runs : InOrder(x)
  BY <1>13 DEF Start, worldVars
<1>14. ASSUME NEW r \in Runs, Disconnect(r) PROVE EventFits' /\ \A x \in Runs : InOrder(x)
  <2>1. PICK l \in {"delete", "done"} : Go(r, "open", l)
    BY <1>14 DEF Disconnect, AfterHandler
  <2>2. event' = [event EXCEPT ![r] = "DISCONNECTED"] /\ again' = again
    BY <1>14 DEF Disconnect, Emit
  <2>q. QED
    BY <2>1, <2>2 DEF Go
<1>15. ASSUME NEW r \in Runs, LoginDone(r) PROVE EventFits' /\ \A x \in Runs : InOrder(x)
  BY <1>15 DEF LoginDone, GetJWT, Go
<1>16. ASSUME NEW r \in Runs, CallbackText(r) PROVE EventFits' /\ \A x \in Runs : InOrder(x)
  BY <1>16 DEF CallbackText, GetJWT, Go, worldVars
<1>17. ASSUME NEW r \in Runs, LoginFails(r) PROVE EventFits' /\ \A x \in Runs : InOrder(x)
  BY <1>17 DEF LoginFails, Go, Fail, worldVars
<1>18. ASSUME NEW t \in Tokens, Revoke(t) PROVE EventFits' /\ \A x \in Runs : InOrder(x)
  BY <1>18 DEF Revoke, runVars
<1>19. CASE Cancel
  BY <1>19 DEF Cancel, runVars
<1>20. CASE Crash
  BY <1>20 DEF Crash, worldVars
<1>21. CASE UNCHANGED vars
  BY <1>21 DEF vars, worldVars, runVars
<1>q. QED
  BY <1>1, <1>2, <1>3, <1>4, <1>5, <1>6, <1>7, <1>8, <1>9, <1>10, <1>11,
     <1>12, <1>13, <1>14, <1>15, <1>16, <1>17, <1>18, <1>19, <1>20, <1>21
     DEF Next, LocalStep, NetworkStep

-----------------------------------------------------------------------------
(***************************************************************************)
(* The place of a run in the text of runWithJWT, unrolled, only goes down. *)
(***************************************************************************)
\* The steps of run r, those that are up to people included.
Own(r) == \/ LocalStep(r) \/ NetworkStep(r)
          \/ LoginDone(r) \/ CallbackText(r) \/ LoginFails(r)

Rank(r) == CASE pc[r] = "load"    -> 13
             [] pc[r] = "lock"    -> IF again[r] THEN 5 ELSE 12
             [] pc[r] = "probe"   -> IF again[r] THEN 4 ELSE 11
             [] pc[r] = "connect" -> IF again[r] THEN 3 ELSE 10
             [] pc[r] = "auth"    -> 9
             [] pc[r] = "browser" -> 8
             [] pc[r] = "store"   -> 7
             [] pc[r] = "write"   -> 6
             [] pc[r] = "open"    -> 2
             [] pc[r] = "delete"  -> 1
             [] OTHER             -> 0

\* A step of a run leaves the others where they are and takes it to a lower place.
LEMMA OwnStep ==
  ASSUME TypeOK, FirstAttempt, NEW q \in Runs, Own(q)
  PROVE  /\ \A r \in Runs \ {q} : pc'[r] = pc[r] /\ again'[r] = again[r]
         /\ Rank(q)' < Rank(q)
         /\ pc'[q] \in {"auth", "browser", "store", "write"} => ~again'[q]
         /\ pc'[q] # "load"
<1> USE DEF TypeOK, FirstAttempt, Go, Rank
<1>1. CASE LoadJWT(q)
  <2>1. pc[q] = "load" /\ pc' = [pc EXCEPT ![q] = "lock"] /\ again' = again
    BY <1>1 DEF LoadJWT
  <2>q. QED
    BY <2>1
<1>2. CASE LoadFails(q)
  BY <1>2 DEF LoadFails
<1>3. CASE Lock(q)
  BY <1>3 DEF Lock
<1>4. CASE Probe(q)
  BY <1>4 DEF Probe
<1>5. CASE Respond(q)
  BY <1>5, RespondCases
<1>6. CASE ConnectFails(q)
  BY <1>6 DEF ConnectFails, AfterHandler
<1>7. CASE UseServiceAccount(q)
  BY <1>7 DEF UseServiceAccount, GetJWT
<1>8. CASE OpenBrowser(q)
  BY <1>8 DEF OpenBrowser
<1>9. CASE StoreOpen(q)
  <2>1. pc[q] = "store" /\ pc' = [pc EXCEPT ![q] = "write"] /\ again' = again
    BY <1>9 DEF StoreOpen
  <2>q. QED
    BY <2>1
<1>10. CASE StoreJWT(q)
  BY <1>10 DEF StoreJWT
<1>11. CASE StoreFails(q)
  BY <1>11 DEF StoreFails
<1>12. CASE DeleteJWT(q)
  BY <1>12 DEF DeleteJWT
<1>13. CASE Disconnect(q)
  BY <1>13 DEF Disconnect, AfterHandler
<1>14. CASE LoginDone(q) \/ CallbackText(q)
  <2>1. pc[q] = "browser" /\ pc' = [pc EXCEPT ![q] = "store"] /\ again' = again
    BY <1>14 DEF LoginDone, CallbackText, GetJWT
  <2>q. QED
    BY <2>1
<1>15. CASE LoginFails(q)
  BY <1>15 DEF LoginFails
<1>q. QED
  BY <1>1, <1>2, <1>3, <1>4, <1>5, <1>6, <1>7, <1>8, <1>9, <1>10, <1>11, <1>12, <1>13, <1>14,
     <1>15 DEF Own, LocalStep, NetworkStep

\* Every step keeps the logins in the first attempt.
LEMMA FirstStep ==
  ASSUME TypeOK, FirstAttempt, [Next]_vars
  PROVE  FirstAttempt'
<1>1. ASSUME NEW q \in Runs, Own(q) PROVE FirstAttempt'
  BY <1>1, OwnStep DEF FirstAttempt
<1>2. ASSUME NEW q \in Runs, Start(q) PROVE FirstAttempt'
  BY <1>2 DEF Start, FirstAttempt, TypeOK
<1>3. ASSUME NEW t \in Tokens, Revoke(t) PROVE FirstAttempt'
  BY <1>3 DEF Revoke, runVars, FirstAttempt
<1>4. CASE Crash
  BY <1>4 DEF Crash, FirstAttempt
<1>5. CASE UNCHANGED vars
  BY <1>5 DEF vars, runVars, FirstAttempt
<1>6. CASE Cancel
  BY <1>6 DEF Cancel, runVars, FirstAttempt
<1>q. QED
  BY <1>1, <1>2, <1>3, <1>4, <1>5, <1>6 DEF Next, Own

\* What the proofs need of the initial states.
LEMMA InitHolds == Init => /\ TypeOK /\ TunnelerReady /\ Known /\ FirstAttempt /\ Login /\ SecondAttemptFresh
                            /\ NoNeedlessLogin /\ EventFits
<1> SUFFICES ASSUME Init
             PROVE  /\ TypeOK /\ TunnelerReady /\ Known /\ FirstAttempt /\ Login /\ SecondAttemptFresh
                    /\ NoNeedlessLogin /\ EventFits
  OBVIOUS
<1> USE TunnelAssumption DEF Init
<1>1. TypeOK
  BY DEF TypeOK, Text, Foreign, RunErrors, Locations, Tunnelers
<1>2. TunnelerReady /\ EventFits
  BY DEF TunnelerReady, EventFits
<1>3. Known /\ Login /\ FirstAttempt
  BY DEF Known, Foreign, Login, FirstAttempt
<1>4. SecondAttemptFresh /\ NoNeedlessLogin
  BY DEF SecondAttemptFresh, NoNeedlessLogin, Accepted
<1>q. QED
  BY <1>1, <1>2, <1>3, <1>4

-----------------------------------------------------------------------------
(***************************************************************************)
(* The state of a tunnel's runs, its mutex and its token file keeps its    *)
(* shape: in particular, only runs in the middle of StoreJWT have the file *)
(* open.                                                                   *)
(***************************************************************************)
THEOREM TypeCorrect == Spec => []TypeOK
<1>1. TypeOK /\ [Next]_vars => TypeOK'
  BY TypeStep
<1>q. QED
  BY <1>1, InitHolds, PTL DEF Spec

(***************************************************************************)
(* Run never calls a nil tcpTunneler and never has two probes under way,   *)
(* for any number of connections.                                          *)
(***************************************************************************)
THEOREM TunnelerAlwaysReady == Spec => []TunnelerReady
<1>1. TypeOK /\ TunnelerReady /\ [Next]_vars => TunnelerReady'
  BY ReadyStep
<1>q. QED
  BY <1>1, InitHolds, TypeCorrect, PTL DEF Spec

\* Known is an invariant.
LEMMA KnownAlways == Spec => []Known
<1>1. TypeOK /\ Known /\ [Next]_vars => Known'
  BY KnownStep
<1>q. QED
  BY <1>1, InitHolds, TypeCorrect, PTL DEF Spec

\* FirstAttempt is an invariant.
LEMMA FirstAlways == Spec => []FirstAttempt
<1>1. TypeOK /\ FirstAttempt /\ [Next]_vars => FirstAttempt'
  BY FirstStep
<1>q. QED
  BY <1>1, InitHolds, TypeCorrect, PTL DEF Spec

(***************************************************************************)
(* The second attempt of runWithJWT is made with what GetJWT returned to   *)
(* this connection, whatever other connections do to the shared file and   *)
(* whatever the callback or the service account yields: a login is in vain *)
(* only if the server refuses its text.                                    *)
(***************************************************************************)
THEOREM SecondAttemptsFresh == Spec => []SecondAttemptFresh
<1>1. TypeOK /\ Known /\ FirstAttempt /\ (Login /\ SecondAttemptFresh) /\ [Next]_vars
        => (Login /\ SecondAttemptFresh)'
  BY LoginStep
<1>q. QED
  BY <1>1, InitHolds, TypeCorrect, KnownAlways, FirstAlways, PTL DEF Spec

(***************************************************************************)
(* Nobody is sent to the browser with a token that the server accepts.     *)
(***************************************************************************)
THEOREM LoginsAreNeeded == Spec => []NoNeedlessLogin
<1>1. TypeOK /\ Known /\ NoNeedlessLogin /\ [Next]_vars => NoNeedlessLogin'
  BY NeededStep
<1>q. QED
  BY <1>1, InitHolds, TypeCorrect, KnownAlways, PTL DEF Spec

(***************************************************************************)
(* What the sink of a connection hears is in order, and it asks the user   *)
(* to log in at most once, however often the proxy refuses the token.      *)
(***************************************************************************)
THEOREM EventsAlwaysInOrder == Spec => EventsInOrder
<1>1. TypeOK /\ FirstAttempt /\ EventFits /\ [Next]_vars
        => EventFits' /\ [\A r \in Runs : InOrder(r)]_vars
  BY EventStep
<1>q. QED
  BY <1>1, InitHolds, TypeCorrect, FirstAlways, PTL DEF Spec, EventsInOrder

(***************************************************************************)
(* A connection ends after a bounded number of steps of its own, thirteen  *)
(* at most: it authenticates once and connects twice, however often the    *)
(* proxy refuses its token (tunnel.go:134-163), and no other connection,   *)
(* revocation or change of the shared file sends it back.                  *)
(***************************************************************************)
THEOREM NoLoginLoop ==
  Spec => [][\A r \in Runs : /\ Rank(r) \in 0..13
                             /\ Own(r) => Rank(r)' < Rank(r)
                             /\ Rank(r)' <= Rank(r) \/ Start(r)]_vars
<1>1. TypeOK /\ FirstAttempt /\ [Next]_vars =>
        [\A r \in Runs : /\ Rank(r) \in 0..13
                         /\ Own(r) => Rank(r)' < Rank(r)
                         /\ Rank(r)' <= Rank(r) \/ Start(r)]_vars
  <2> SUFFICES ASSUME TypeOK, FirstAttempt, Next, NEW r \in Runs
               PROVE  /\ Rank(r) \in 0..13
                      /\ Own(r) => Rank(r)' < Rank(r)
                      /\ Rank(r)' <= Rank(r) \/ Start(r)
    OBVIOUS
  <2>1. Rank(r) \in 0..13
    BY DEF TypeOK, Locations, Rank
  <2>2. Own(r) => Rank(r)' < Rank(r)
    BY OwnStep
  <2>3. ASSUME pc'[r] = pc[r], again'[r] = again[r]
        PROVE  Rank(r)' <= Rank(r)
    <3>1. Rank(r)' = Rank(r)
      BY <2>3 DEF Rank
    <3>q. QED
      BY <2>1, <3>1
  <2>4. ASSUME NEW q \in Runs, Own(q)
        PROVE  Rank(r)' <= Rank(r)
    <3>1. CASE q = r
      <4>1. Rank(r)' < Rank(r)
        BY <2>2, <2>4, <3>1
      <4>2. TypeOK'
        BY TypeStep
      <4>3. Rank(r)' \in 0..13
        BY <4>2 DEF TypeOK, Locations, Rank
      <4>q. QED
        BY <2>1, <4>1, <4>3
    <3>2. CASE q # r
      BY <2>3, <2>4, <3>2, OwnStep
    <3>q. QED
      BY <3>1, <3>2
  <2>5. ASSUME NEW q \in Runs, Start(q)
        PROVE  Rank(r)' <= Rank(r) \/ Start(r)
    <3>1. CASE q = r
      BY <2>5, <3>1
    <3>2. CASE q # r
      BY <2>3, <2>5, <3>2 DEF Start, TypeOK
    <3>q. QED
      BY <3>1, <3>2
  <2>6. ASSUME NEW t \in Tokens, Revoke(t)
        PROVE  Rank(r)' <= Rank(r)
    BY <2>3, <2>6 DEF Revoke, runVars
  <2>8. ASSUME Cancel
        PROVE  Rank(r)' <= Rank(r)
    BY <2>3, <2>8 DEF Cancel, runVars
  <2>7. ASSUME Crash
        PROVE  Rank(r)' <= Rank(r)
    <3>1. Rank(r)' = 0
      BY <2>7 DEF Crash, Rank
    <3>q. QED
      BY <2>1, <3>1
  <2>q. QED
    BY <2>1, <2>2, <2>4, <2>5, <2>6, <2>7, <2>8 DEF Next, Own
<1>q. QED
  BY <1>1, FirstAlways, TypeCorrect, PTL DEF Spec
=============================================================================
