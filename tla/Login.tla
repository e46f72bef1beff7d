------------------------------- MODULE Login --------------------------------
(***************************************************************************)
(* What a login promises to whoever asks for one (AuthClient.GetJWT in     *)
(* authclient/authclient.go), without goroutines, sockets and contexts.    *)
(* Somebody asks; callers present tokens; at most one of them is told that *)
(* the login is complete; the answer is the token of that one, or an       *)
(* error, and comes once.  TunnelAuth and Commands use a login as this     *)
(* exchange; AuthClient implements it.                                     *)
(***************************************************************************)
CONSTANTS Bearers,   \* the callers that may present a token, each its own
          Accounts,  \* what a configured service account may give instead
          None

VARIABLES state,    \* "idle", "asked", "granted" or "refused"
          offered,  \* the tokens presented so far
          told,     \* the callers that were told the login is complete
          answer    \* the token the login ended with, None before

vars == <<state, offered, told, answer>>

Init == /\ state = "idle"
        /\ offered = {}
        /\ told = {}
        /\ answer = None

\* A service account is configured: nobody is asked.
UseAccount(a) == /\ state = "idle"
                 /\ state' = "granted"
                 /\ answer' = a
                 /\ UNCHANGED <<offered, told>>

Ask == /\ state = "idle"
       /\ state' = "asked"
       /\ UNCHANGED <<offered, told, answer>>

\* Also when it is too late.
Offer(t) == /\ state # "idle"
            /\ offered' = offered \cup {t}
            /\ UNCHANGED <<state, told, answer>>

Tell(t) == /\ state = "asked"
           /\ told = {}
           /\ t \in offered
           /\ told' = {t}
           /\ UNCHANGED <<state, offered, answer>>

Grant(t) == /\ state = "asked"
            /\ t \in told
            /\ state' = "granted"
            /\ answer' = t
            /\ UNCHANGED <<offered, told>>

Refuse == /\ state \in {"idle", "asked"}
          /\ state' = "refused"
          /\ UNCHANGED <<offered, told, answer>>

Next == \/ Ask
        \/ Refuse
        \/ \E a \in Accounts : UseAccount(a)
        \/ \E t \in Bearers : Offer(t) \/ Tell(t) \/ Grant(t)

Spec == Init /\ [][Next]_vars
=============================================================================
