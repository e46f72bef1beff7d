----------------------------- MODULE AuthClient -----------------------------
(***************************************************************************)
(* One call of AuthClient.GetJWT (authclient/authclient.go).  Without a    *)
(* service account it starts three goroutines in an errgroup: the HTTP     *)
(* server the browser is sent back to, the one that opens the browser, and *)
(* the one that waits for the token.  The handlers of the server hand the  *)
(* token over on an unbuffered channel, without looking at any context.    *)
(*                                                                         *)
(* A request of the browser is named by the token it carries.  net/http,   *)
(* errgroup and the browser are modelled from how the code uses them: the  *)
(* first error of a goroutine cancels the context of the group, Shutdown   *)
(* makes Serve return, and the browser command may run for as long as it   *)
(* likes, since nothing stops it.                                          *)
(***************************************************************************)
CONSTANTS Callbacks,  \* bound: the requests the browser sends to the server
          None

ASSUME AuthAssumption == /\ Callbacks \cap {None, "", "account", "error"} = {}
                         /\ None \notin {"", "account", "error"}

VARIABLES account,   \* the service account: "none", given as a "flag" or in a "file"
          pc,        \* where GetJWT is: "idle", "wait" (in eg.Wait) or "return"
          cancelled, \* whether the caller's context is done
          failed,    \* whether a goroutine of the group has returned an error
          server,    \* runHTTPServer: "none", "start", "serve" or "end"
          closing,   \* a goroutine of a handler is about to call Shutdown
          shutdown,  \* Shutdown has been called
          opener,    \* runOpenBrowser: "none", "fetch", "open", "end", or "unopened" on an error of Fetch
          receiver,  \* the third goroutine: "none", "wait" or "end"
          handler,   \* where the handler of each request is
          rawJWT,    \* the result variable of GetJWT
          result     \* what GetJWT has returned

group == <<failed, server, closing, shutdown, opener, receiver, handler, rawJWT>>
vars == <<account, pc, cancelled, group, result>>

HandlerStates == {"none", "accepted", "send", "write", "flush", "done", "notFound"}

\* Only the file of a service account may make GetJWT return an empty token.
TypeOK == /\ account \in {"none", "flag", "file"}
          /\ pc \in {"idle", "wait", "return"}
          /\ cancelled \in BOOLEAN
          /\ failed \in BOOLEAN
          /\ server \in {"none", "start", "serve", "end"}
          /\ closing \in BOOLEAN
          /\ shutdown \in BOOLEAN
          /\ opener \in {"none", "fetch", "open", "end", "unopened"}
          /\ receiver \in {"none", "wait", "end"}
          /\ handler \in [Callbacks -> HandlerStates]
          /\ rawJWT \in Callbacks \cup {""}
          /\ result \in Callbacks \cup {"", "account", "error", None}
          /\ pc = "return" <=> result # None
          /\ result = "" => account = "file"

Init == /\ account \in {"none", "flag", "file"}
        /\ pc = "idle"
        /\ cancelled \in BOOLEAN
        /\ failed = FALSE
        /\ server = "none"
        /\ closing = FALSE
        /\ shutdown = FALSE
        /\ opener = "none"
        /\ receiver = "none"
        /\ handler = [c \in Callbacks |-> "none"]
        /\ rawJWT = ""
        /\ result = None

\* The context of the group: done with the caller's, or with the first error.
Done == cancelled \/ failed

-----------------------------------------------------------------------------
(***************************************************************************)
(* GetJWT up to eg.Wait.                                                   *)
(***************************************************************************)
Return(r) == /\ pc' = "return"
             /\ result' = r
             /\ UNCHANGED <<account, cancelled, group>>

\* The text of a service account file is trimmed, and may then be empty.
ServiceAccount == /\ pc = "idle"
                  /\ \/ account = "flag" /\ Return("account")
                     \/ account = "file" /\ \E r \in {"account", "", "error"} : Return(r)

ListenFails == /\ pc = "idle"
               /\ account = "none"
               /\ Return("error")

Listen == /\ pc = "idle"
          /\ account = "none"
          /\ pc' = "wait"
          /\ server' = "start"
          /\ opener' = "fetch"
          /\ receiver' = "wait"
          /\ UNCHANGED <<account, cancelled, failed, closing, shutdown, handler, rawJWT, result>>

\* The caller's context ends.
Cancel == /\ ~cancelled
          /\ cancelled' = TRUE
          /\ UNCHANGED <<account, pc, group, result>>

-----------------------------------------------------------------------------
(***************************************************************************)
(* runHTTPServer.  Once Shutdown was called Serve returns at once, also    *)
(* when it is called only then.                                            *)
(***************************************************************************)
Serve == /\ server = "start"
         /\ server' = IF shutdown THEN "end" ELSE "serve"
         /\ UNCHANGED <<account, pc, cancelled, failed, closing, shutdown, opener, receiver, handler, rawJWT, result>>

ServeReturns == /\ server = "serve"
                /\ shutdown
                /\ server' = "end"
                /\ UNCHANGED <<account, pc, cancelled, failed, closing, shutdown, opener, receiver, handler, rawJWT, result>>

\* Accept fails for good.
ServeFails == /\ server = "serve"
              /\ ~shutdown
              /\ server' = "end"
              /\ failed' = TRUE
              /\ UNCHANGED <<account, pc, cancelled, closing, shutdown, opener, receiver, handler, rawJWT, result>>

\* A mutant: nobody waits for the context.
WatchContext_never == /\ FALSE
                      /\ UNCHANGED vars

\* The goroutine beside Serve that waits for the context.
WatchContext == /\ server \in {"start", "serve"}
                /\ Done
                /\ ~shutdown
                /\ shutdown' = TRUE
                /\ UNCHANGED <<account, pc, cancelled, failed, server, closing, opener, receiver, handler, rawJWT, result>>

\* A connection of the browser's.  What comes on it is handled whenever it comes:
\* Shutdown closes the listener and idle connections, and the process goes on after
\* GetJWT has returned.
Accept(c) == /\ server = "serve"
             /\ ~shutdown
             /\ handler[c] = "none"
             /\ handler' = [handler EXCEPT ![c] = "accepted"]
             /\ UNCHANGED <<account, pc, cancelled, failed, server, closing, shutdown, opener, receiver, rawJWT, result>>

\* The browser can call back once it has the address of the login page.
Request(c) == /\ opener \in {"open", "end"}
              /\ handler[c] = "accepted"
              /\ handler' = [handler EXCEPT ![c] = "send"]
              /\ UNCHANGED <<account, pc, cancelled, failed, server, closing, shutdown, opener, receiver, rawJWT, result>>

\* A request without pomerium_jwt, such as one for an icon.
NotFound(c) == /\ handler[c] = "accepted"
               /\ handler' = [handler EXCEPT ![c] = "notFound"]
               /\ UNCHANGED <<account, pc, cancelled, failed, server, closing, shutdown, opener, receiver, rawJWT, result>>

\* A mutant: the receiver goes on after the first token.
Send_again(c) == /\ handler[c] = "send"
                 /\ receiver \in {"wait", "end"}
                 /\ handler' = [handler EXCEPT ![c] = "write"]
                 /\ receiver' = "end"
                 /\ rawJWT' = c
                 /\ UNCHANGED <<account, pc, cancelled, failed, server, closing, shutdown, opener, result>>

\* incomingJWT <- jwt and its receiver; a handler that finds none waits for ever.
Send(c) == /\ handler[c] = "send"
           /\ receiver = "wait"
           /\ handler' = [handler EXCEPT ![c] = "write"]
           /\ receiver' = "end"
           /\ rawJWT' = c
           /\ UNCHANGED <<account, pc, cancelled, failed, server, closing, shutdown, opener, result>>

\* "login complete" is written to the response's buffer and Shutdown left to a goroutine.
Write(c) == /\ handler[c] = "write"
            /\ handler' = [handler EXCEPT ![c] = "flush"]
            /\ closing' = TRUE
            /\ UNCHANGED <<account, pc, cancelled, failed, server, shutdown, opener, receiver, rawJWT, result>>

\* The handler has returned and net/http sends the response.
Flush(c) == /\ handler[c] = "flush"
            /\ handler' = [handler EXCEPT ![c] = "done"]
            /\ UNCHANGED <<account, pc, cancelled, failed, server, closing, shutdown, opener, receiver, rawJWT, result>>

Shutdown == /\ closing
            /\ closing' = FALSE
            /\ shutdown' = TRUE
            /\ UNCHANGED <<account, pc, cancelled, failed, server, opener, receiver, handler, rawJWT, result>>

-----------------------------------------------------------------------------
(***************************************************************************)
(* runOpenBrowser: Fetch, which ends within its ten seconds, and then a    *)
(* browser command.                                                        *)
(***************************************************************************)
FetchDone == /\ opener = "fetch"
             /\ opener' = "open"
             /\ UNCHANGED <<account, pc, cancelled, failed, server, closing, shutdown, receiver, handler, rawJWT, result>>

FetchFails == /\ opener = "fetch"
              /\ opener' = "unopened"
              /\ failed' = TRUE
              /\ UNCHANGED <<account, pc, cancelled, server, closing, shutdown, receiver, handler, rawJWT, result>>

\* A command that fails may have opened the browser nevertheless.
OpenEnds == /\ opener = "open"
            /\ opener' = "end"
            /\ \/ failed' = TRUE
               \/ UNCHANGED failed
            /\ UNCHANGED <<account, pc, cancelled, server, closing, shutdown, receiver, handler, rawJWT, result>>

-----------------------------------------------------------------------------
ReceiverCancelled == /\ receiver = "wait"
                     /\ Done
                     /\ receiver' = "end"
                     /\ failed' = TRUE
                     /\ UNCHANGED <<account, pc, cancelled, server, closing, shutdown, opener, handler, rawJWT, result>>

\* A mutant: the error of eg.Wait is ignored.
Wait_ignoresError == /\ pc = "wait"
                     /\ server = "end"
                     /\ opener \in {"end", "unopened"}
                     /\ receiver = "end"
                     /\ Return(rawJWT)

\* eg.Wait returns when all three goroutines have.
Wait == /\ pc = "wait"
        /\ server = "end"
        /\ opener \in {"end", "unopened"}
        /\ receiver = "end"
        /\ Return(IF failed THEN "error" ELSE rawJWT)

-----------------------------------------------------------------------------
Next == \/ ServiceAccount \/ ListenFails \/ Listen \/ Cancel
        \/ Serve \/ ServeReturns \/ ServeFails \/ WatchContext \/ Shutdown
        \/ FetchDone \/ FetchFails \/ OpenEnds \/ ReceiverCancelled \/ Wait
        \/ \E c \in Callbacks : \/ Accept(c) \/ Request(c) \/ NotFound(c)
                               \/ Send(c) \/ Write(c) \/ Flush(c)

(***************************************************************************)
(* Every goroutine goes on when it can, and Fetch has its timeout.         *)
(* Nothing is assumed of the user, of the caller's context, of the browser *)
(* command, which nobody stops, nor of Accept to fail.                     *)
(***************************************************************************)
Fairness == /\ WF_vars(ServiceAccount \/ ListenFails \/ Listen)
            /\ WF_vars(Serve \/ ServeReturns)
            /\ WF_vars(WatchContext)
            /\ WF_vars(Shutdown)
            /\ WF_vars(FetchDone \/ FetchFails)
            /\ WF_vars(ReceiverCancelled \/ \E c \in Callbacks : Send(c))
            /\ WF_vars(Wait)
            /\ \A c \in Callbacks : WF_vars(Write(c)) /\ WF_vars(Flush(c))

Spec == Init /\ [][Next]_vars /\ Fairness

-----------------------------------------------------------------------------
(***************************************************************************)
(* Properties.                                                             *)
(***************************************************************************)
\* The handlers that have handed over their token: they answer "login complete".
Through == {c \in Callbacks : handler[c] \in {"write", "flush", "done"}}

\* The requests that carried a token.
Offered == {c \in Callbacks : handler[c] \in {"send", "write", "flush", "done"}}

L == INSTANCE Login WITH
       Bearers  <- Callbacks,
       Accounts <- {"account", ""},
       state    <- CASE pc = "idle" -> "idle"
                     [] pc = "wait" -> "asked"
                     [] pc = "return" /\ result = "error" -> "refused"
                     [] OTHER -> "granted",
       offered  <- Offered,
       told     <- Through,
       answer   <- IF pc = "return" /\ result # "error" THEN result ELSE None

(***************************************************************************)
(* GetJWT implements the login: of several callbacks only one is told that *)
(* the login is complete, it is the one whose token is returned, and an    *)
(* error of any goroutine, or the end of the context, never turns into a   *)
(* token (authclient.go:69-89).                                            *)
(***************************************************************************)
LoginImplemented == L!Spec

(***************************************************************************)
(* A login ends: once a token was received, a goroutine has failed or the  *)
(* caller's context is done, GetJWT returns, through the server's shutdown *)
(* (authclient.go:109-115), unless the browser command is still running.   *)
(***************************************************************************)
LoginEnds == (pc = "wait" /\ (Done \/ rawJWT # "")) ~> (pc = "return" \/ opener = "open")
=============================================================================
