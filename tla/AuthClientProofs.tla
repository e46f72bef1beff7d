-------------------------- MODULE AuthClientProofs --------------------------
(***************************************************************************)
(* Proofs about AuthClient, for every set of requests a browser may send.  *)
(***************************************************************************)
EXTENDS AuthClient, TLAPS

(***************************************************************************)
(* The invariant behind the refinement, and behind the result's type: a    *)
(* wait without an error has a token.                                      *)
(***************************************************************************)
\* Before GetJWT listens and after it has returned, nothing serves or receives.
Outside == pc # "wait" => /\ server \in {"none", "end"}
                          /\ receiver \in {"none", "end"}

\* No handler runs before GetJWT listens.
Before == pc = "idle" => \A c \in Callbacks : handler[c] = "none"

\* Who is through is the one whose token was received, and a receiver that has
\* returned without an error has received one.
Delivered == /\ receiver # "end" => Through = {}
             /\ Through \subseteq {rawJWT}
             /\ receiver = "end" /\ ~failed => rawJWT \in Through

LoginInv == Outside /\ Before /\ Delivered

\* The flags are apart from the rest, for the provers' sake.
LEMMA TypeStep == TypeOK /\ LoginInv /\ [Next]_vars => TypeOK'
  <1> SUFFICES ASSUME TypeOK, LoginInv, [Next]_vars
               PROVE  TypeOK'
    OBVIOUS
  <1> DEFINE Flags == /\ cancelled \in BOOLEAN /\ failed \in BOOLEAN
                      /\ closing \in BOOLEAN /\ shutdown \in BOOLEAN
  <1> DEFINE Rest == /\ account \in {"none", "flag", "file"}
                     /\ pc \in {"idle", "wait", "return"}
                     /\ server \in {"none", "start", "serve", "end"}
                     /\ opener \in {"none", "fetch", "open", "end", "unopened"}
                     /\ receiver \in {"none", "wait", "end"}
                     /\ handler \in [Callbacks -> HandlerStates]
                     /\ rawJWT \in Callbacks \cup {""}
                     /\ result \in Callbacks \cup {"", "account", "error", None}
  <1> DEFINE Result == /\ pc = "return" <=> result # None
                       /\ result = "" => account = "file"
  <1>f. Flags /\ Rest /\ Result
    BY DEF TypeOK
  <1>r. UNCHANGED <<pc, result, account>> => Result'
    BY <1>f
  <1>s. ASSUME Flags', Rest', Result'
        PROVE  TypeOK'
    BY <1>s, Zenon DEF TypeOK
  <1>1. CASE ServiceAccount
    <2>1. Flags'
      BY <1>f, <1>1 DEF ServiceAccount, Return, group
    <2>2. Rest'
      BY <1>f, <1>1 DEF ServiceAccount, Return, group, HandlerStates
    <2>3. Result'
      BY <1>f, <1>1, AuthAssumption DEF ServiceAccount, Return
    <2> QED
      BY <1>s, <2>1, <2>2, <2>3
  <1>2. CASE ListenFails
    <2>1. Flags'
      BY <1>f, <1>2 DEF ListenFails, Return, group
    <2>2. Rest'
      BY <1>f, <1>2 DEF ListenFails, Return, group, HandlerStates
    <2>3. Result'
      BY <1>f, <1>2, AuthAssumption DEF ListenFails, Return
    <2> QED
      BY <1>s, <2>1, <2>2, <2>3
  <1>3. CASE Listen
    <2>1. Flags'
      BY <1>f, <1>3 DEF Listen
    <2>2. Rest'
      BY <1>f, <1>3 DEF Listen, HandlerStates
    <2>3. Result'
      BY <1>f, <1>3 DEF Listen
    <2> QED
      BY <1>s, <2>1, <2>2, <2>3
  <1>4. CASE Cancel
    <2>1. Flags'
      BY <1>f, <1>4 DEF Cancel, group
    <2>2. Rest'
      BY <1>f, <1>4 DEF Cancel, group, HandlerStates
    <2>3. Result'
      BY <1>r, <1>4 DEF Cancel
    <2> QED
      BY <1>s, <2>1, <2>2, <2>3
  <1>5. CASE Serve \/ ServeReturns \/ ServeFails
    <2>1. Flags'
      BY <1>f, <1>5 DEF Serve, ServeReturns, ServeFails
    <2>2. Rest'
      BY <1>f, <1>5 DEF Serve, ServeReturns, ServeFails, HandlerStates
    <2>3. Result'
      BY <1>r, <1>5 DEF Serve, ServeReturns, ServeFails
    <2> QED
      BY <1>s, <2>1, <2>2, <2>3
  <1>6. CASE WatchContext \/ Shutdown
    <2>1. Flags'
      BY <1>f, <1>6 DEF WatchContext, Shutdown
    <2>2. Rest'
      BY <1>f, <1>6 DEF WatchContext, Shutdown, HandlerStates
    <2>3. Result'
      BY <1>r, <1>6 DEF WatchContext, Shutdown
    <2> QED
      BY <1>s, <2>1, <2>2, <2>3
  <1>7. CASE FetchDone \/ FetchFails \/ OpenEnds
    <2>1. Flags'
      BY <1>f, <1>7 DEF FetchDone, FetchFails, OpenEnds
    <2>2. Rest'
      BY <1>f, <1>7 DEF FetchDone, FetchFails, OpenEnds, HandlerStates
    <2>3. Result'
      BY <1>r, <1>7 DEF FetchDone, FetchFails, OpenEnds
    <2> QED
      BY <1>s, <2>1, <2>2, <2>3
  <1>8. CASE ReceiverCancelled
    <2>1. Flags'
      BY <1>f, <1>8 DEF ReceiverCancelled
    <2>2. Rest'
      BY <1>f, <1>8 DEF ReceiverCancelled, HandlerStates
    <2>3. Result'
      BY <1>r, <1>8 DEF ReceiverCancelled
    <2> QED
      BY <1>s, <2>1, <2>2, <2>3
  <1>9. CASE Wait
    <2>1. Flags'
      BY <1>f, <1>9 DEF Wait, Return, group
    <2>2. Rest'
      BY <1>f, <1>9 DEF Wait, Return, group, HandlerStates
    <2>3. Result'
      <3>1. pc' = "return" /\ account' = account /\ result' = IF failed THEN "error" ELSE rawJWT
        BY <1>9 DEF Wait, Return
      <3>2. ~failed => rawJWT \in Callbacks
        BY <1>9 DEF Wait, LoginInv, Delivered, Through
      <3> QED
        BY <3>1, <3>2, AuthAssumption
    <2> QED
      BY <1>s, <2>1, <2>2, <2>3
  <1>10. ASSUME NEW c \in Callbacks, \/ Accept(c) \/ Request(c) \/ NotFound(c)
                                     \/ Send(c) \/ Write(c) \/ Flush(c)
         PROVE  TypeOK'
    <2>1. Flags'
      BY <1>f, <1>10 DEF Accept, Request, NotFound, Send, Write, Flush
    <2>2. Rest'
      BY <1>f, <1>10 DEF Accept, Request, NotFound, Send, Write, Flush, HandlerStates
    <2>3. Result'
      BY <1>r, <1>10 DEF Accept, Request, NotFound, Send, Write, Flush
    <2> QED
      BY <1>s, <2>1, <2>2, <2>3
  <1>11. CASE UNCHANGED vars
    <2>1. Flags'
      BY <1>f, <1>11 DEF vars, group
    <2>2. Rest'
      BY <1>f, <1>11 DEF vars, group, HandlerStates
    <2>3. Result'
      BY <1>r, <1>11 DEF vars
    <2> QED
      BY <1>s, <2>1, <2>2, <2>3
  <1> QED
    BY <1>1, <1>2, <1>3, <1>4, <1>5, <1>6, <1>7, <1>8, <1>9, <1>10, <1>11 DEF Next

-----------------------------------------------------------------------------
\* Where no handler moves, the sets of callers stay as they are.
LEMMA HandlersSame == handler' = handler => Offered' = Offered /\ Through' = Through
  BY DEF Offered, Through

LEMMA LoginInvStep == TypeOK /\ LoginInv /\ [Next]_vars => LoginInv'
  <1> SUFFICES ASSUME TypeOK, LoginInv, [Next]_vars
               PROVE  LoginInv'
    OBVIOUS
  <1> USE DEF LoginInv, Outside, Before, Delivered
  <1>1. CASE ServiceAccount \/ ListenFails
    <2>1. handler' = handler /\ pc = "idle" /\ pc' = "return" /\ UNCHANGED group
      BY <1>1 DEF ServiceAccount, ListenFails, Return, group
    <2> QED
      BY <2>1, HandlersSame DEF group
  <1>2. CASE Listen
    <2>1. Through = {}
      BY <1>2 DEF Listen, Through
    <2> QED
      BY <1>2, <2>1, HandlersSame DEF Listen
  <1>3. CASE Cancel
    BY <1>3, HandlersSame DEF Cancel, group
  <1>4. CASE Serve \/ ServeReturns \/ ServeFails
    BY <1>4, HandlersSame DEF Serve, ServeReturns, ServeFails
  <1>5. CASE WatchContext \/ Shutdown
    BY <1>5, HandlersSame DEF WatchContext, Shutdown
  <1>6. CASE FetchDone \/ FetchFails \/ OpenEnds
    BY <1>6, HandlersSame DEF FetchDone, FetchFails, OpenEnds
  <1>7. CASE ReceiverCancelled
    BY <1>7, HandlersSame DEF ReceiverCancelled
  <1>8. CASE Wait
    BY <1>8, HandlersSame DEF Wait, Return, group
  <1>9. ASSUME NEW c \in Callbacks, Accept(c) \/ Request(c) \/ NotFound(c)
        PROVE  LoginInv'
    <2>1. /\ pc # "idle" /\ pc' = pc
          /\ UNCHANGED <<server, receiver, rawJWT, failed>>
      BY <1>9 DEF Accept, Request, NotFound, TypeOK
    <2>2. Through' = Through
      BY <1>9 DEF TypeOK, Accept, Request, NotFound, Through
    <2> QED
      BY <2>1, <2>2
  <1>10. ASSUME NEW c \in Callbacks, Send(c)
         PROVE  LoginInv'
    <2>1. Through' = {c}
      BY <1>10 DEF TypeOK, Send, Through
    <2>2. pc = "wait" /\ pc' = pc /\ receiver' = "end" /\ rawJWT' = c
      BY <1>10 DEF Send
    <2> QED
      BY <1>10, <2>1, <2>2 DEF Send
  <1>11. ASSUME NEW c \in Callbacks, Write(c) \/ Flush(c)
         PROVE  LoginInv'
    <2>1. Through' = Through /\ Offered' = Offered
      BY <1>11 DEF TypeOK, Write, Flush, Through, Offered
    <2> QED
      BY <1>11, <2>1 DEF Write, Flush
  <1>12. CASE UNCHANGED vars
    BY <1>12, HandlersSame DEF vars, group
  <1> QED
    BY <1>1, <1>2, <1>3, <1>4, <1>5, <1>6, <1>7, <1>8, <1>9, <1>10, <1>11, <1>12 DEF Next

(***************************************************************************)
(* Every variable keeps its type: GetJWT returns a token that was          *)
(* presented, a service account's text, or an error, and an empty token    *)
(* only if the file of the service account is empty.                       *)
(***************************************************************************)
THEOREM TypeCorrect == Spec => []TypeOK
  <1>1. Init => TypeOK
    BY AuthAssumption DEF Init, TypeOK, HandlerStates
  <1>2. Init => LoginInv
    BY DEF Init, LoginInv, Outside, Before, Delivered, Through
  <1> QED
    BY <1>1, <1>2, TypeStep, LoginInvStep, PTL DEF Spec

-----------------------------------------------------------------------------
(***************************************************************************)
(* Every step of GetJWT is one of Login, or none.                          *)
(***************************************************************************)
LEMMA LoginStep == TypeOK /\ LoginInv /\ [Next]_vars => [L!Next]_L!vars
  <1> SUFFICES ASSUME TypeOK, LoginInv, [Next]_vars
               PROVE  [L!Next]_L!vars
    OBVIOUS
  <1>1. CASE ServiceAccount \/ ListenFails
    <2>1. /\ pc = "idle" /\ pc' = "return" /\ result' \in {"account", "", "error"}
          /\ UNCHANGED group
      BY <1>1 DEF ServiceAccount, ListenFails, Return
    <2>2. Offered' = Offered /\ Through' = Through
      BY <2>1, HandlersSame DEF group
    <2>3. CASE result' = "error"
      <3>1. L!Refuse
        BY <2>1, <2>2, <2>3 DEF L!Refuse
      <3> QED
        BY <3>1 DEF L!Next
    <2>4. CASE result' \in {"account", ""}
      <3>1. L!UseAccount(result')
        BY <2>1, <2>2, <2>4 DEF L!UseAccount
      <3> QED
        BY <2>4, <3>1 DEF L!Next
    <2> QED
      BY <2>1, <2>3, <2>4
  <1>2. CASE Listen
    <2>1. L!Ask
      BY <1>2, HandlersSame DEF Listen, L!Ask
    <2> QED
      BY <2>1 DEF L!Next
  <1>3. CASE \/ Cancel \/ Serve \/ ServeReturns \/ ServeFails \/ WatchContext \/ Shutdown
             \/ FetchDone \/ FetchFails \/ OpenEnds \/ ReceiverCancelled
    <2>1. UNCHANGED <<pc, result, handler>>
      BY <1>3 DEF Cancel, Serve, ServeReturns, ServeFails, WatchContext, Shutdown, FetchDone,
                  FetchFails, OpenEnds, ReceiverCancelled, group
    <2> QED
      BY <2>1, HandlersSame DEF L!vars
  <1>4. CASE Wait
    <2>1. /\ pc = "wait" /\ pc' = "return" /\ receiver = "end"
          /\ result' = IF failed THEN "error" ELSE rawJWT
      BY <1>4 DEF Wait, Return
    <2>2. Offered' = Offered /\ Through' = Through
      BY <1>4, HandlersSame DEF Wait, Return, group
    <2>3. CASE failed
      <3>1. L!Refuse
        BY <2>1, <2>2, <2>3 DEF L!Refuse
      <3> QED
        BY <3>1 DEF L!Next
    <2>4. CASE ~failed
      <3>1. rawJWT \in Through /\ rawJWT \in Callbacks
        BY <2>1, <2>4 DEF LoginInv, Delivered, Through
      <3>2. rawJWT # "error"
        BY <3>1, AuthAssumption
      <3>3. L!Grant(rawJWT)
        BY <2>1, <2>2, <2>4, <3>1, <3>2 DEF L!Grant
      <3> QED
        BY <3>1, <3>3 DEF L!Next
    <2> QED
      BY <2>3, <2>4
  <1>5. ASSUME NEW c \in Callbacks, Request(c)
        PROVE  [L!Next]_L!vars
    <2>1. pc \in {"wait", "return"} /\ UNCHANGED <<pc, result>>
      BY <1>5 DEF Request, LoginInv, Before, TypeOK
    <2>2. Offered' = Offered \cup {c} /\ Through' = Through
      BY <1>5 DEF TypeOK, Request, Offered, Through
    <2>3. L!Offer(c)
      BY <2>1, <2>2 DEF L!Offer
    <2> QED
      BY <2>3 DEF L!Next
  <1>6. ASSUME NEW c \in Callbacks, Accept(c) \/ NotFound(c) \/ Write(c) \/ Flush(c)
        PROVE  [L!Next]_L!vars
    <2>1. UNCHANGED <<pc, result>>
      BY <1>6 DEF Accept, NotFound, Write, Flush
    <2>2. Offered' = Offered /\ Through' = Through
      BY <1>6 DEF TypeOK, Accept, NotFound, Write, Flush, Offered, Through
    <2> QED
      BY <2>1, <2>2 DEF L!vars
  <1>7. ASSUME NEW c \in Callbacks, Send(c)
        PROVE  [L!Next]_L!vars
    <2>1. pc = "wait" /\ Through = {} /\ UNCHANGED <<pc, result>>
      BY <1>7 DEF Send, LoginInv, Outside, Delivered
    <2>2. c \in Offered /\ Offered' = Offered /\ Through' = {c}
      BY <1>7, <2>1 DEF TypeOK, Send, Offered, Through
    <2>3. L!Tell(c)
      BY <2>1, <2>2 DEF L!Tell
    <2> QED
      BY <2>3 DEF L!Next
  <1>8. CASE UNCHANGED vars
    BY <1>8, HandlersSame DEF vars, group, L!vars
  <1> QED
    BY <1>1, <1>2, <1>3, <1>4, <1>5, <1>6, <1>7, <1>8 DEF Next

(***************************************************************************)
(* GetJWT implements Login: however many requests the browser sends and    *)
(* in whatever order the goroutines end, at most one caller is told that   *)
(* the login is complete, the answer is that caller's token or an error.   *)
(***************************************************************************)
THEOREM ImplementsLogin == Spec => LoginImplemented
  <1>1. Init => LoginInv
    BY DEF Init, LoginInv, Outside, Before, Delivered, Offered, Through
  <1>2. Init => L!Init
    BY DEF Init, L!Init, Offered, Through
  <1> QED
    BY <1>1, <1>2, LoginInvStep, LoginStep, TypeCorrect, PTL
    DEF Spec, LoginImplemented, L!Spec

-----------------------------------------------------------------------------
(***************************************************************************)
(* The goroutines never wait for one another.  A token that was received   *)
(* leads to the end of the server: its handler still has to ask for the    *)
(* shutdown, a goroutine is about to call it, or it was called.            *)
(***************************************************************************)
HandedOver ==
  rawJWT # "" => /\ receiver = "end"
                 /\ shutdown \/ closing \/ \E c \in Callbacks : handler[c] = "write"

\* eg.Wait has the three goroutines to wait for, and before it there is none.
Waiting == /\ pc = "idle" => receiver = "none" /\ rawJWT = ""
           /\ pc = "wait" => server # "none" /\ opener # "none" /\ receiver # "none"

EndInv == HandedOver /\ Waiting

\* Every step keeps a received token on its way to the shutdown.
LEMMA EndStep == TypeOK /\ EndInv /\ [Next]_vars => EndInv'
  <1> SUFFICES ASSUME TypeOK, EndInv, [Next]_vars
               PROVE  EndInv'
    OBVIOUS
  <1> USE DEF EndInv, HandedOver, Waiting, TypeOK
  <1>1. CASE ServiceAccount \/ ListenFails \/ Listen \/ Cancel \/ Wait
    <2>1. CASE ServiceAccount \/ ListenFails \/ Wait
      <3>1. pc' = "return" /\ UNCHANGED group
        BY <2>1 DEF ServiceAccount, ListenFails, Wait, Return
      <3> QED
        BY <3>1 DEF group
    <2>2. CASE Listen
      <3>1. rawJWT = ""
        BY <2>2 DEF Listen
      <3> QED
        BY <2>2, <3>1 DEF Listen
    <2>3. CASE Cancel
      BY <2>3 DEF Cancel, group
    <2> QED
      BY <1>1, <2>1, <2>2, <2>3
  <1>2. CASE Serve \/ ServeReturns \/ ServeFails \/ WatchContext \/ Shutdown
    BY <1>2 DEF Serve, ServeReturns, ServeFails, WatchContext, Shutdown
  <1>3. CASE FetchDone \/ FetchFails \/ OpenEnds \/ ReceiverCancelled
    BY <1>3 DEF FetchDone, FetchFails, OpenEnds, ReceiverCancelled
  <1>4. ASSUME NEW c \in Callbacks, Accept(c) \/ Request(c) \/ NotFound(c) \/ Flush(c)
        PROVE  EndInv'
    <2>1. \A d \in Callbacks : handler[d] = "write" => handler'[d] = "write"
      BY <1>4 DEF Accept, Request, NotFound, Flush
    <2> QED
      BY <1>4, <2>1 DEF Accept, Request, NotFound, Flush
  <1>5. ASSUME NEW c \in Callbacks, Send(c)
        PROVE  EndInv'
    <2>1. handler'[c] = "write"
      BY <1>5 DEF Send
    <2> QED
      BY <1>5, <2>1 DEF Send
  <1>6. ASSUME NEW c \in Callbacks, Write(c)
        PROVE  EndInv'
    BY <1>6 DEF Write
  <1>7. CASE UNCHANGED vars
    BY <1>7 DEF vars, group
  <1> QED
    BY <1>1, <1>2, <1>3, <1>4, <1>5, <1>6, <1>7 DEF Next

\* Somebody has a step to take that waits for nobody and that fairness grants:
\* Serve or ServeReturns, WatchContext, Shutdown, FetchDone or FetchFails,
\* ReceiverCancelled, Write, Wait.
SomebodyGoesOn ==
  \/ server = "start" \/ (server = "serve" /\ shutdown)
  \/ server \in {"start", "serve"} /\ Done /\ ~shutdown
  \/ closing
  \/ opener = "fetch"
  \/ receiver = "wait" /\ Done
  \/ \E c \in Callbacks : handler[c] = "write"
  \/ server = "end" /\ opener \in {"end", "unopened"} /\ receiver = "end"

(***************************************************************************)
(* A login that has its token, or has failed, or whose context is done is  *)
(* never stuck: the server, the receiver and the handlers do not wait for  *)
(* each other, and the one thing that can hold up GetJWT is the browser    *)
(* command.  This is the safety behind LoginEnds (authclient.go:69-115).   *)
(***************************************************************************)
THEOREM LoginIsNeverStuck ==
  Spec => []((pc = "wait" /\ (Done \/ rawJWT # "")) => (opener = "open" \/ SomebodyGoesOn))
  <1>1. Init => EndInv
    BY DEF Init, EndInv, HandedOver, Waiting
  <1>2. TypeOK /\ EndInv =>
          ((pc = "wait" /\ (Done \/ rawJWT # "")) => (opener = "open" \/ SomebodyGoesOn))
    BY DEF TypeOK, EndInv, HandedOver, Waiting, SomebodyGoesOn
  <1> QED
    BY <1>1, <1>2, EndStep, TypeCorrect, PTL DEF Spec
=============================================================================
