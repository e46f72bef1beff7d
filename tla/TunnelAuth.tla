----------------------------- MODULE TunnelAuth -----------------------------
(***************************************************************************)
(* How a tunnel authenticates: Run and runWithJWT (tunnel/tunnel.go), the  *)
(* choice of a protocol (tunnel/tunnel_tcp.go), the CONNECT exchange of    *)
(* the tunnelers (tunnel/tunnel_http1.go and its siblings) and the token   *)
(* file that all tunnels to a host share (LocalCache in jwt/jwtcache.go).  *)
(*                                                                         *)
(* Every local connection is a goroutine that calls Run.  They share the   *)
(* tunneler, behind a mutex, and the file, behind nothing: a write is a    *)
(* truncation and then the data, and loads, writes and deletions of other  *)
(* connections come in between.                                            *)
(*                                                                         *)
(* The server, the user in the browser and the bytes that are forwarded    *)
(* are external: a token is one the server has issued and may revoke, an   *)
(* exchange ends with a status that fits the text it was sent, or fails,   *)
(* or does not end.  What a login or a service account yields is not       *)
(* verified: it is a text, which may be no token of the server's.          *)
(***************************************************************************)
EXTENDS Integers, FiniteSets

CONSTANTS Runs,            \* the local connections
          Tokens,          \* bound: the tokens the server issues
          Flag,            \* what --service-account may be
          AccountFile,     \* what the file of a service account may hold when it is read
          UseTLS,          \* the proxy is an https one
          NoRun

\* What is no token of this server's: nothing, a part of a token, another's token.
Foreign == {"", "torn", "foreign"}
Text == Tokens \cup Foreign

ASSUME TunnelAssumption == /\ Flag \subseteq Text \ {""}
                           /\ AccountFile \subseteq Text
                           /\ UseTLS \in BOOLEAN
                           /\ NoRun \notin Runs
                           /\ {"", "torn", "foreign", "none"} \cap Tokens = {}

VARIABLES cache,     \* the token file: "none", "" once truncated, "torn", or a token
          writers,   \* the runs that have this file open for writing
          issued,    \* the tokens the server has given out
          revoked,   \* those it no longer accepts
          account,   \* what the service account of this process may be, {} when it has none
          cancelled, \* whether the context of the listener has ended
          tunneler,  \* Tunnel.tcpTunneler
          mu,        \* the run that holds Tunnel.mu
          pc,        \* where each run is
          jwt,       \* its rawJWT
          got,       \* what GetJWT gave it
          err,       \* its err
          again,     \* whether it is past the authentication
          event      \* the last event it has given to its sink

worldVars == <<issued, revoked, account, cancelled>>
runVars == <<pc, jwt, got, err, again, event>>
vars == <<cache, writers, worldVars, tunneler, mu, runVars>>

\* A process has no account, one on its command line or one in a file.
Accounts == {{}, AccountFile} \cup {{t} : t \in Flag}

RunErrors == {"nil", "unauthenticated", "unavailable", "unauthorized", "failed"}

Locations == {"idle", "load", "lock", "probe", "connect", "open", "auth", "browser",
              "store", "write", "delete", "done"}

Tunnelers == IF UseTLS THEN {"http1", "http2", "http3"} ELSE {"http1"}

TypeOK == /\ cache \in Text \cup {"none"}
          /\ writers \subseteq {r \in Runs : pc[r] = "write"}
          /\ issued \subseteq Tokens
          /\ revoked \subseteq issued
          /\ account \in Accounts
          /\ cancelled \in BOOLEAN
          /\ tunneler \in Tunnelers \cup {"none"}
          /\ mu \in Runs \cup {NoRun}
          /\ pc \in [Runs -> Locations]
          /\ jwt \in [Runs -> Text]
          /\ got \in [Runs -> Text]
          /\ err \in [Runs -> RunErrors]
          /\ again \in [Runs -> BOOLEAN]
          /\ event \in [Runs -> {"none", "CONNECTING", "AUTH_REQUIRED", "CONNECTED", "DISCONNECTED"}]

Init == /\ cache = "none"
        /\ writers = {}
        /\ issued = Tokens \cap (Flag \cup AccountFile)
        /\ revoked = {}
        /\ account \in Accounts
        /\ cancelled = FALSE
        /\ tunneler = "none"
        /\ mu = NoRun
        /\ pc = [r \in Runs |-> "idle"]
        /\ jwt = [r \in Runs |-> ""]
        /\ got = [r \in Runs |-> ""]
        /\ err = [r \in Runs |-> "nil"]
        /\ again = [r \in Runs |-> FALSE]
        /\ event = [r \in Runs |-> "none"]

Go(r, from, to) == /\ pc[r] = from
                   /\ pc' = [pc EXCEPT ![r] = to]

Emit(r, e) == event' = [event EXCEPT ![r] = e]

Fail(r, e) == err' = [err EXCEPT ![r] = e]

-----------------------------------------------------------------------------
(***************************************************************************)
(* A connection is accepted, which a cancelled listener does not do any    *)
(* more: runWithJWT loads the token.                                       *)
(***************************************************************************)
Start(r) == /\ pc[r] \in {"idle", "done"}
            /\ ~cancelled
            /\ pc' = [pc EXCEPT ![r] = "load"]
            /\ jwt' = [jwt EXCEPT ![r] = ""]
            /\ got' = [got EXCEPT ![r] = ""]
            /\ err' = [err EXCEPT ![r] = "nil"]
            /\ again' = [again EXCEPT ![r] = FALSE]
            /\ event' = [event EXCEPT ![r] = "none"]
            /\ UNCHANGED <<cache, writers, worldVars, tunneler, mu>>

\* A missing file is an empty text.  LoadJWT returns what it has read together with
\* what checkExpiry says of it, and runWithJWT ignores that: a text is used as it is.
LoadJWT(r) == /\ Go(r, "load", "lock")
              /\ jwt' = [jwt EXCEPT ![r] = IF cache = "none" THEN "" ELSE cache]
              /\ UNCHANGED <<cache, writers, worldVars, tunneler, mu, got, err, again, event>>

\* The file is there and cannot be read.
LoadFails(r) == /\ Go(r, "load", "done")
                /\ cache # "none"
                /\ Fail(r, "failed")
                /\ UNCHANGED <<cache, writers, worldVars, tunneler, mu, jwt, got, again, event>>

-----------------------------------------------------------------------------
(***************************************************************************)
(* Run's handler: pick a tunneler once, under the mutex, then use it.      *)
(***************************************************************************)
\* A mutant: the tunneler is picked outside of the mutex.
Lock_free(r) == /\ pc[r] = "lock"
                /\ IF tunneler = "none"
                   THEN Go(r, "lock", "probe") /\ UNCHANGED event
                   ELSE Go(r, "lock", "connect") /\ Emit(r, "CONNECTING")
                /\ UNCHANGED <<cache, writers, worldVars, tunneler, mu, jwt, got, err, again>>

\* With a tunneler the mutex is released at once and TunnelTCP begins.
Lock(r) == /\ mu = NoRun
           /\ IF tunneler = "none"
              THEN Go(r, "lock", "probe") /\ mu' = r /\ UNCHANGED event
              ELSE Go(r, "lock", "connect") /\ Emit(r, "CONNECTING") /\ UNCHANGED mu
           /\ UNCHANGED <<cache, writers, worldVars, tunneler, jwt, got, err, again>>

\* A mutant: the mutex stays locked.
Probe_keepsMutex(r) == /\ Go(r, "probe", "connect")
                       /\ \E p \in Tunnelers : tunneler' = p
                       /\ Emit(r, "CONNECTING")
                       /\ UNCHANGED <<cache, writers, worldVars, mu, jwt, got, err, again>>

\* pickTCPTunneler asks the server what it speaks; a probe that fails, for any
\* reason, settles on http1.
Probe(r) == /\ Go(r, "probe", "connect")
            /\ \E p \in Tunnelers : tunneler' = p
            /\ mu' = NoRun
            /\ Emit(r, "CONNECTING")
            /\ UNCHANGED <<cache, writers, worldVars, jwt, got, err, again>>

-----------------------------------------------------------------------------
(***************************************************************************)
(* TunnelTCP: connect, ask, forward.                                       *)
(***************************************************************************)
Accepted == issued \ revoked

\* The statuses the server may answer a text with; 302 stands for every redirect
\* and 500 for every other status.
Answers(text) == {500, 503} \cup IF text \in Accepted THEN {200, 403} ELSE {302}

\* A mutant: a forbidden user is sent to the login.
httpStatusCodeToError_forbidden(status) ==
  CASE status = 200 -> "nil"
    [] status = 503 -> "unavailable"
    [] status \in {302, 403} -> "unauthenticated"
    [] OTHER -> "failed"

httpStatusCodeToError(status) ==
  CASE status = 200 -> "nil"
    [] status = 503 -> "unavailable"
    [] status = 302 -> "unauthenticated"
    [] status = 403 -> "unauthorized"
    [] OTHER -> "failed"

\* A mutant: every attempt that is refused asks the user to log in.
AfterHandler_loops(r, e) ==
  CASE e = "unauthenticated" -> "auth"
    [] e \in {"nil", "unavailable", "unauthorized"} -> "done"
    [] OTHER -> "delete"

\* Where runWithJWT goes with the error of its handler.
AfterHandler(r, e) ==
  CASE e = "unauthenticated" /\ ~again[r] -> "auth"
    [] e \in {"nil", "unavailable", "unauthorized"} -> "done"
    [] OTHER -> "delete"

Respond(r) ==
  /\ pc[r] = "connect"
  /\ \E status \in Answers(jwt[r]) :
       LET e == httpStatusCodeToError(status) IN
         /\ Fail(r, e)
         /\ IF e = "nil"
            THEN Go(r, "connect", "open") /\ Emit(r, "CONNECTED")
            ELSE Go(r, "connect", AfterHandler(r, e)) /\ UNCHANGED event
  /\ UNCHANGED <<cache, writers, worldVars, tunneler, mu, jwt, got, again>>

\* No connection, no answer, or a protocol that is refused.
ConnectFails(r) == /\ Go(r, "connect", AfterHandler(r, "failed"))
                   /\ Fail(r, "failed")
                   /\ UNCHANGED <<cache, writers, worldVars, tunneler, mu, jwt, got, again, event>>

\* One direction ends, or the context does, which is an error too.
Disconnect(r) == /\ \E e \in {"nil", "failed"} :
                      Fail(r, e) /\ Go(r, "open", AfterHandler(r, e))
                 /\ Emit(r, "DISCONNECTED")
                 /\ UNCHANGED <<cache, writers, worldVars, tunneler, mu, jwt, got, again>>

-----------------------------------------------------------------------------
(***************************************************************************)
(* GetJWT: the service account, or a login in the browser.                 *)
(***************************************************************************)
GetJWT(r, from, text) == /\ Go(r, from, "store")
                         /\ jwt' = [jwt EXCEPT ![r] = text]
                         /\ got' = [got EXCEPT ![r] = text]

\* The text of the flag, or what the file holds at the moment.
UseServiceAccount(r) ==
  /\ \E t \in account : GetJWT(r, "auth", t)
  /\ UNCHANGED <<cache, writers, worldVars, tunneler, mu, err, again, event>>

OpenBrowser(r) == /\ Go(r, "auth", "browser")
                  /\ account = {}
                  /\ Emit(r, "AUTH_REQUIRED")
                  /\ UNCHANGED <<cache, writers, worldVars, tunneler, mu, jwt, got, err, again>>

\* The server sends the browser to the callback with a new token.
LoginDone(r) ==
  /\ \E t \in Tokens \ issued : GetJWT(r, "browser", t) /\ issued' = issued \cup {t}
  /\ UNCHANGED <<cache, writers, revoked, account, cancelled, tunneler, mu, err, again, event>>

\* The callback carries something else, but not nothing.
CallbackText(r) ==
  /\ \E t \in (issued \cup Foreign) \ {""} : GetJWT(r, "browser", t)
  /\ UNCHANGED <<cache, writers, worldVars, tunneler, mu, err, again, event>>

\* The login page cannot be fetched, the browser cannot be opened, the context
\* ends; or the file of the service account cannot be read.
LoginFails(r) ==
  /\ \/ Go(r, "auth", "done") /\ \A t \in Flag : account # {t}
     \/ Go(r, "browser", "done")
  /\ Fail(r, "failed")
  /\ UNCHANGED <<cache, writers, worldVars, tunneler, mu, jwt, got, again, event>>

-----------------------------------------------------------------------------
(***************************************************************************)
(* LocalCache.  os.WriteFile truncates, then writes.                       *)
(***************************************************************************)
StoreOpen(r) == /\ Go(r, "store", "write")
                /\ cache' = ""
                /\ writers' = writers \cup {r}
                /\ UNCHANGED <<worldVars, tunneler, mu, jwt, got, err, again, event>>

\* What a write leaves: in a file that another run has written since the
\* truncation, a longer token of that run may stick out behind the new one.
Written(r, text) == IF r \notin writers THEN {cache}
                    ELSE IF cache = "" THEN {text}
                    ELSE {text, "torn"}

\* A mutant: the second attempt takes its token from the cache.
StoreJWT_reloads(r) == /\ Go(r, "write", "lock")
                       /\ cache' \in Written(r, jwt[r])
                       /\ writers' = writers \ {r}
                       /\ jwt' = [jwt EXCEPT ![r] = IF cache' = "none" THEN "" ELSE cache']
                       /\ again' = [again EXCEPT ![r] = TRUE]
                       /\ UNCHANGED <<worldVars, tunneler, mu, got, err, event>>

\* A run that is not among the writers has an unlinked file.
StoreJWT(r) == /\ Go(r, "write", "lock")
               /\ cache' \in Written(r, jwt[r])
               /\ writers' = writers \ {r}
               /\ again' = [again EXCEPT ![r] = TRUE]
               /\ UNCHANGED <<worldVars, tunneler, mu, jwt, got, err, event>>

\* A mutant: the file stays open after a failed write.
StoreFails_leaks(r) == /\ \/ Go(r, "store", "done") /\ UNCHANGED cache
                          \/ Go(r, "write", "done") /\ cache' \in Written(r, "torn")
                       /\ Fail(r, "failed")
                       /\ UNCHANGED <<writers, worldVars, tunneler, mu, jwt, got, again, event>>

\* The file cannot be opened, or not all of the token can be written.
StoreFails(r) == /\ \/ Go(r, "store", "done") /\ UNCHANGED cache
                    \/ Go(r, "write", "done") /\ cache' \in Written(r, "torn")
                 /\ writers' = writers \ {r}
                 /\ Fail(r, "failed")
                 /\ UNCHANGED <<worldVars, tunneler, mu, jwt, got, again, event>>

\* The error of os.Remove is ignored.
DeleteJWT(r) == /\ Go(r, "delete", "done")
                /\ \/ cache' = "none" /\ writers' = {}
                   \/ UNCHANGED <<cache, writers>>
                /\ UNCHANGED <<worldVars, tunneler, mu, jwt, got, err, again, event>>

-----------------------------------------------------------------------------
(***************************************************************************)
(* The environment.  An expired token is refused like a revoked one.       *)
(***************************************************************************)
Revoke(t) == /\ t \in issued \ revoked
             /\ revoked' = revoked \cup {t}
             /\ UNCHANGED <<cache, writers, issued, account, cancelled, tunneler, mu, runVars>>

\* The listener is told to stop: every run has its context.
Cancel == /\ ~cancelled
          /\ cancelled' = TRUE
          /\ UNCHANGED <<cache, writers, issued, revoked, account, tunneler, mu, runVars>>

\* The process dies and another one is started, with a service account or
\* without; the file stays as it is.
Crash == /\ tunneler' = "none"
         /\ mu' = NoRun
         /\ writers' = {}
         /\ pc' = [r \in Runs |-> "idle"]
         /\ jwt' = [r \in Runs |-> ""]
         /\ got' = [r \in Runs |-> ""]
         /\ err' = [r \in Runs |-> "nil"]
         /\ again' = [r \in Runs |-> FALSE]
         /\ event' = [r \in Runs |-> "none"]
         /\ account' \in Accounts
         /\ cancelled' = FALSE
         /\ UNCHANGED <<cache, issued, revoked>>

\* What a run does by itself: the file, the mutex, and GetJWT as far as the browser
\* (Fetch has a timeout).
LocalStep(r) == \/ LoadJWT(r) \/ LoadFails(r) \/ Lock(r)
                \/ UseServiceAccount(r) \/ OpenBrowser(r)
                \/ StoreOpen(r) \/ StoreJWT(r) \/ StoreFails(r) \/ DeleteJWT(r)

\* What it waits for the network for.
NetworkStep(r) == Probe(r) \/ Respond(r) \/ ConnectFails(r) \/ Disconnect(r)

Next == \/ \E r \in Runs : \/ Start(r) \/ LocalStep(r) \/ NetworkStep(r)
                           \/ LoginDone(r) \/ CallbackText(r) \/ LoginFails(r)
        \/ \E t \in Tokens : Revoke(t)
        \/ Cancel \/ Crash

\* Where not even the end of its context ends a wait: the command that shows the
\* browser is not given one, and neither is the CONNECT request of http3.
Waiting(r) == pc[r] = "browser" \/ (pc[r] = "connect" /\ tunneler = "http3")

(***************************************************************************)
(* A run goes on by itself when it can.  Nothing makes the server answer,  *)
(* as neither the probe nor the CONNECT exchange has a deadline, and       *)
(* nothing makes an open tunnel end; but a wait for the network ends when  *)
(* the context does, except as Waiting says.                               *)
(***************************************************************************)
Spec == Init /\ [][Next]_vars
        /\ \A r \in Runs : /\ WF_vars(LocalStep(r))
                           /\ WF_vars(cancelled /\ ~Waiting(r) /\ NetworkStep(r))

-----------------------------------------------------------------------------
(***************************************************************************)
(* Properties.                                                             *)
(***************************************************************************)
(***************************************************************************)
(* The tunneler is picked once and by one run at a time, and Run uses it,  *)
(* outside of the mutex, only when there is one: tcpTunneler is never nil  *)
(* where tunnel.go:112 calls it.                                           *)
(***************************************************************************)
TunnelerReady ==
  \A r \in Runs : /\ pc[r] \in {"connect", "open"} => tunneler # "none"
                  /\ pc[r] = "probe" => mu = r /\ tunneler = "none"

(***************************************************************************)
(* A login is not wasted: the second attempt is made with the very text    *)
(* that GetJWT returned to this connection, whatever other connections     *)
(* have stored or deleted meanwhile, so it is refused as unauthenticated   *)
(* only if the server does not accept that text.                           *)
(***************************************************************************)
SecondAttemptFresh ==
  \A r \in Runs : again[r] =>
    /\ pc[r] \in {"lock", "probe", "connect", "open"} => jwt[r] = got[r]
    /\ pc[r] = "delete" /\ err[r] = "unauthenticated" => got[r] \notin Accepted

(***************************************************************************)
(* Nobody is sent to the browser with a good token in hand: a run asks for *)
(* a login only when the server does not accept what it has loaded.        *)
(***************************************************************************)
NoNeedlessLogin == \A r \in Runs : pc[r] \in {"auth", "browser"} => jwt[r] \notin Accepted

\* The changes of what a sink has heard last; "none" is a new connection.
InOrder(r) ==
  event'[r] # event[r] =>
    \/ event'[r] = "none"
    \/ event'[r] = "CONNECTING" /\ event[r] \in {"none", "AUTH_REQUIRED"}
    \/ event'[r] = "AUTH_REQUIRED" /\ event[r] = "CONNECTING" /\ ~again[r]
    \/ event'[r] = "CONNECTED" /\ event[r] = "CONNECTING"
    \/ event'[r] = "DISCONNECTED" /\ event[r] = "CONNECTED"

(***************************************************************************)
(* What the sink of a connection hears is in order: connecting first, at   *)
(* most one request to log in and then connecting again, connected only    *)
(* out of connecting, disconnected only out of connected (events.go).      *)
(***************************************************************************)
EventsInOrder == [][\A r \in Runs : InOrder(r)]_vars

(***************************************************************************)
(* Stopping a listener ends its connections, although they wait for the    *)
(* network, for each other's probe at the mutex and for the shared file:   *)
(* each comes to its end, or to one of the two waits that have no context. *)
(***************************************************************************)
StopEndsRuns ==
  \A r \in Runs : cancelled ~> (pc[r] \in {"idle", "done"} \/ Waiting(r))
=============================================================================
