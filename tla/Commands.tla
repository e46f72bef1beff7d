------------------------------ MODULE Commands ------------------------------
(***************************************************************************)
(* The commands that live from the cache directory: k8s exec-credential    *)
(* and k8s flush-credentials (cmd/pomerium-cli/kubernetes.go), cache clear *)
(* (cmd/pomerium-cli/cache.go), routes list (cmd/pomerium-cli/routes.go)   *)
(* and FetchRoutes of the API (api/routes.go), both through the portal     *)
(* (internal/portal/portal.go).                                            *)
(*                                                                         *)
(* Every command is a process of its own; kubectl starts several at once.  *)
(* They share three files and their directories without any lock: the      *)
(* credentials of a server, its token and the last URL.  A file is written *)
(* by a truncation and then one write, and any other step, the death of    *)
(* the writer included, may come in between.                               *)
(*                                                                         *)
(* There is one server.  Its answers, the login (what Login promises) and  *)
(* the file system are external.                                           *)
(***************************************************************************)
EXTENDS Naturals

CONSTANTS Procs,   \* the processes
          Tokens,  \* bound: the tokens the server issues
          Account  \* the token of the service account, if there is one

ASSUME CommandsAssumption ==
         /\ Account \subseteq Tokens
         /\ Tokens \cap {"", "torn", "none", "ok", "error", "url"} = {}

Kinds == {"exec", "routes"}     \* the files that keep a token, and their directories
Files == Kinds \cup {"last"}    \* and the one that keeps the last URL
Text == Tokens \cup {"", "torn"}

VARIABLES file,     \* the content of each file, "none" when it does not exist
          writers,  \* the processes that have this file open for writing
          dirs,     \* the directories that exist: "root" and those of Kinds
          issued,   \* the tokens the server has given out
          revoked,  \* those it no longer accepts
          expired,  \* those whose exp has passed
          st,       \* the state of each process
          served,   \* the tokens that commands have printed, or listed routes with
          logins,   \* how often a user has logged in for each kind, while calm
          calm      \* no fault, and no two commands at once, so far

disk == <<file, writers, dirs>>
world == <<issued, revoked, expired>>
history == <<served, logins, calm>>
vars == <<disk, world, st, history>>

Locations == {"idle", "url", "last", "setup", "load", "remove", "check", "login",
              "mkdir", "create", "write", "delete", "walk", "unlink", "clear", "rmroot"}

Process == [cmd   : {"exec", "routes", "fetch", "flush", "clear"},
            pc    : Locations,
            text  : Text,               \* the token it works with
            fresh : BOOLEAN,            \* which comes from GetJWT
            local : BOOLEAN,            \* GetCache has found the directory
            todo  : SUBSET Files,       \* what RemoveAll has listed
            alone : BOOLEAN]            \* no other process was there since its start

Idle == [cmd |-> "exec", pc |-> "idle", text |-> "", fresh |-> FALSE, local |-> TRUE,
         todo |-> {}, alone |-> FALSE]

TypeOK == /\ file \in [Files -> Text \cup {"none", "url"}]
          /\ writers \in [Files -> SUBSET Procs]
          /\ dirs \subseteq Kinds \cup {"root"}
          /\ issued \subseteq Tokens
          /\ revoked \subseteq issued
          /\ expired \subseteq revoked
          /\ st \in [Procs -> Process]
          /\ served \subseteq Text
          /\ logins \in [Kinds -> Nat]
          /\ calm \in BOOLEAN

Init == /\ file = [f \in Files |-> "none"]
        /\ writers = [f \in Files |-> {}]
        /\ dirs \in {{}, {"root"} \cup Kinds}
        /\ issued = Account
        /\ revoked = {}
        /\ expired = {}
        /\ st = [p \in Procs |-> Idle]
        /\ served = {}
        /\ logins = [k \in Kinds |-> 0]
        /\ calm = TRUE

Kind(p) == IF st[p].cmd = "exec" THEN "exec" ELSE "routes"

At(p, l) == st[p].pc = l
Goto(p, l) == st' = [st EXCEPT ![p].pc = l]
End(p) == st' = [st EXCEPT ![p] = Idle]

\* printCreds, or the routes are listed.
Serve(p) == /\ End(p)
            /\ served' = served \cup {st[p].text}
            /\ UNCHANGED <<logins, calm>>

\* Counting stops with the first thing that is not calm.
Fault == /\ calm' = FALSE
         /\ logins' = [k \in Kinds |-> 0]
         /\ UNCHANGED served
FaultUnless(b) == IF b THEN UNCHANGED history ELSE Fault

\* A name is removed; who had the file open goes on writing to no file.
Unlinked(f) == /\ file' = [file EXCEPT ![f] = "none"]
               /\ writers' = [writers EXCEPT ![f] = {}]

\* os.Create, and the first half of os.WriteFile.
Truncated(p, f) == /\ file' = [file EXCEPT ![f] = ""]
                   /\ writers' = [writers EXCEPT ![f] = @ \cup {p}]

\* What the write of data leaves.  Of two writers of the credential the later one
\* counts: a decoder reads the first value only.  A raw token over another one may
\* leave a mixture.
Left(f, data) ==
  {data} \cup (IF f = "routes" /\ file[f] \notin {"", data} THEN {"torn"} ELSE {})

\* The write of p through its handle, and its Close.
Written(p, f, data) ==
  /\ file' \in {[file EXCEPT ![f] = text] :
                 text \in IF p \in writers[f] THEN Left(f, data) ELSE {file[f]}}
  /\ writers' = [writers EXCEPT ![f] = @ \ {p}]

-----------------------------------------------------------------------------
(***************************************************************************)
(* A command starts.  routes list may leave out the URL; FetchRoutes has   *)
(* one and does not touch the last URL.                                    *)
(***************************************************************************)
StartAt(p, c, l, listed) ==
  /\ At(p, "idle")
  /\ st' = [q \in Procs |->
              IF q = p
              THEN [Idle EXCEPT !.cmd = c, !.pc = l, !.todo = listed,
                                !.alone = \A o \in Procs : At(o, "idle")]
              ELSE [st[q] EXCEPT !.alone = FALSE]]
  /\ FaultUnless(c \notin {"flush", "clear"} /\ \A q \in Procs : At(q, "idle"))
  /\ UNCHANGED <<disk, world>>

StartExec(p) == StartAt(p, "exec", "last", {})

StartRoutes(p) == \E l \in {"url", "last"} : StartAt(p, "routes", l, {})

StartFetch(p) == StartAt(p, "fetch", "setup", {})

\* clearAllCachedCredentials, or clearCachedCredential for one URL.
StartFlush(p) == \E l \in {"walk", "unlink"} : StartAt(p, "flush", l, {})

StartClear(p) == StartAt(p, "clear", "clear", {f \in Files : file[f] # "none"})

loadLastURL(p) == /\ At(p, "url")
                  /\ IF file["last"] = "url" THEN Goto(p, "last") ELSE End(p)
                  /\ UNCHANGED <<disk, world, history>>

\* cacheLastURL makes no directory and ignores its errors.  Who reads between
\* its truncation and its write finds what a write that fails leaves.
cacheLastURL(p) == /\ At(p, "last")
                   /\ \/ "root" \in dirs /\ \E data \in {"url", ""} : file' = [file EXCEPT !["last"] = data]
                      \/ "root" \notin dirs /\ UNCHANGED file
                   /\ Goto(p, "setup")
                   /\ UNCHANGED <<writers, dirs, world, history>>

\* GetCache makes the directory of the tokens; a server that has done so before
\* does not again.
Setup(p) == /\ At(p, "setup")
            /\ Goto(p, "load")
            /\ \/ Kind(p) = "routes" /\ dirs' = dirs \cup {"root", "routes"}
               \/ st[p].cmd # "routes" /\ UNCHANGED dirs
            /\ UNCHANGED <<file, writers, world, history>>

\* The directory cannot be made: the cache is in memory and has nothing yet.
SetupMemory(p) == /\ At(p, "setup")
                  /\ Kind(p) = "routes"
                  /\ st' = [st EXCEPT ![p].pc = "login", ![p].local = FALSE]
                  /\ Fault
                  /\ UNCHANGED <<disk, world>>

\* The URL or the TLS options are wrong.
SetupFails(p) == /\ At(p, "setup")
                 /\ End(p)
                 /\ UNCHANGED <<disk, world, history>>

-----------------------------------------------------------------------------
(***************************************************************************)
(* What the cache has: loadCachedCredential for exec, LoadJWT for routes.  *)
(***************************************************************************)
\* Mutants: a file that does not decode is used, or one that does not exist.
Usable_undecoded(text) == text \in Text \ expired
Usable_missing(text) == text \notin expired

\* It decodes, and its expiration has not passed.
Usable(text) == text \in Tokens \ expired

\* A raw token that is cut or mixed may still parse: its signature is not checked.
MayParse(k, text) == k = "routes" /\ text = "torn"

\* A mutant: every credential is removed.
Load_removes(p) ==
  LET k == Kind(p) IN
  /\ At(p, "load")
  /\ IF Usable(file[k])
     THEN st' = [st EXCEPT ![p].pc = "remove", ![p].text = file[k]]
     ELSE Goto(p, IF k = "exec" /\ file[k] # "none" THEN "remove" ELSE "login")
  /\ UNCHANGED <<disk, world, history>>

Load(p) ==
  LET k == Kind(p) IN
  /\ At(p, "load")
  /\ \/ /\ Usable(file[k]) \/ MayParse(k, file[k])
        /\ st' = [st EXCEPT ![p].pc = "check", ![p].text = file[k]]
     \/ /\ ~Usable(file[k])
        /\ Goto(p, IF k = "exec" /\ file[k] # "none" THEN "remove" ELSE "login")
  /\ UNCHANGED <<disk, world, history>>

\* The file is there and cannot be read: exec logs in, routes gives up.
LoadFails(p) == /\ At(p, "load")
                /\ file[Kind(p)] # "none"
                /\ IF Kind(p) = "exec" THEN Goto(p, "login") ELSE End(p)
                /\ Fault
                /\ UNCHANGED <<disk, world>>

\* A step of its own after the read: by now the file may be another one.
Remove(p) == /\ At(p, "remove")
             /\ Unlinked("exec")
             /\ Goto(p, "login")
             /\ UNCHANGED <<dirs, world, history>>

-----------------------------------------------------------------------------
(***************************************************************************)
(* The server is asked with the token: CheckBearerToken for exec,          *)
(* listRoutes for routes, both through Fetch.                              *)
(***************************************************************************)
Accepted == issued \ revoked

\* What Fetch makes of the server's answer.  It follows redirects, so that a
\* "page" of the login may come with status 200; "failed" is every other status,
\* a timeout or a broken connection.
Fetch(text) == {"failed"} \cup IF text \in Accepted THEN {"ok"} ELSE {"unauthenticated", "page"}

CheckBearerToken(p) ==
  /\ At(p, "check")
  /\ Kind(p) = "exec"
  /\ \E answer \in Fetch(st[p].text) :
       IF answer \in {"ok", "page"}
       THEN Serve(p)
       ELSE Goto(p, "login") /\ FaultUnless(answer # "failed")
  /\ UNCHANGED <<disk, world>>

\* A page is not JSON.
ListRoutes(p) ==
  /\ At(p, "check")
  /\ Kind(p) = "routes"
  /\ \E answer \in Fetch(st[p].text) :
       CASE answer = "ok" -> Serve(p)
         [] answer = "unauthenticated" /\ ~st[p].fresh -> Goto(p, "login") /\ UNCHANGED history
         [] OTHER -> Goto(p, "delete") /\ FaultUnless(answer # "failed")
  /\ UNCHANGED <<disk, world>>

\* The token goes whatever the error was, and whoever stored it.
DeleteJWT(p) == /\ At(p, "delete")
                /\ IF st[p].local THEN Unlinked("routes") ELSE UNCHANGED <<file, writers>>
                /\ End(p)
                /\ UNCHANGED <<dirs, world, history>>

-----------------------------------------------------------------------------
(***************************************************************************)
(* GetJWT, and the new token is kept: saveCachedCredential, StoreJWT.      *)
(***************************************************************************)
Obtained(p, text) ==
  st' = [st EXCEPT ![p].pc = IF st[p].local THEN "mkdir" ELSE "check",
                   ![p].text = text, ![p].fresh = TRUE]

Login(p, t) == /\ At(p, "login")
               /\ t \in Tokens \ issued
               /\ issued' = issued \cup {t}
               /\ logins' = [logins EXCEPT ![Kind(p)] = IF calm THEN @ + 1 ELSE 0]
               /\ Obtained(p, t)
               /\ UNCHANGED <<disk, revoked, expired, served, calm>>

\* The text of the account's file may be empty, which only parseToken refuses.
UseAccount(p) ==
  /\ At(p, "login")
  /\ \E text \in Account \cup {""} :
       IF Kind(p) = "exec" /\ text = "" THEN End(p) ELSE Obtained(p, text)
  /\ UNCHANGED <<disk, world, history>>

LoginFails(p) == /\ At(p, "login")
                 /\ End(p)
                 /\ UNCHANGED <<disk, world, history>>

MkdirAll(p) == /\ At(p, "mkdir")
               /\ dirs' = dirs \cup {"root", Kind(p)}
               /\ Goto(p, "create")
               /\ UNCHANGED <<file, writers, world, history>>

\* A cache clear may have removed the directory since.
Create(p) == /\ At(p, "create")
             /\ IF Kind(p) \in dirs
                THEN Truncated(p, Kind(p)) /\ Goto(p, "write")
                ELSE End(p) /\ UNCHANGED <<file, writers>>
             /\ UNCHANGED <<dirs, world, history>>

\* A mutant: the credential is printed and not saved.
Write_lost(p) ==
  /\ At(p, "write")
  /\ Written(p, Kind(p), "")
  /\ IF Kind(p) = "exec" THEN Serve(p) ELSE Goto(p, "check") /\ UNCHANGED history
  /\ UNCHANGED <<dirs, world>>

Write(p) ==
  /\ At(p, "write")
  /\ Written(p, Kind(p), st[p].text)
  /\ IF Kind(p) = "exec" THEN Serve(p) ELSE Goto(p, "check") /\ UNCHANGED history
  /\ UNCHANGED <<dirs, world>>

\* One of the three fails: the login was for nothing.  A write that fails has
\* written nothing, or a part that does not decode.
SaveFails(p) ==
  /\ st[p].pc \in {"mkdir", "create", "write"}
  /\ IF At(p, "write")
     THEN \E data \in {file[Kind(p)], "torn"} : Written(p, Kind(p), data)
     ELSE UNCHANGED <<file, writers>>
  /\ End(p)
  /\ Fault
  /\ UNCHANGED <<dirs, world>>

-----------------------------------------------------------------------------
(***************************************************************************)
(* flush-credentials and cache clear.                                      *)
(***************************************************************************)
\* filepath.Walk lists the directory, and fails without one.
Walk(p) == /\ At(p, "walk")
           /\ CASE "exec" \notin dirs -> End(p)
                [] file["exec"] # "none" -> Goto(p, "unlink")
                [] OTHER -> End(p)
           /\ UNCHANGED <<disk, world, history>>

\* Somebody else may have removed the file.
Unlink(p) == /\ At(p, "unlink")
             /\ IF file["exec"] = "none"
                THEN End(p) /\ UNCHANGED <<file, writers>>
                ELSE End(p) /\ Unlinked("exec")
             /\ UNCHANGED <<dirs, world, history>>

\* os.RemoveAll removes what it has listed, then the directories that are empty.
ClearFile(p, f) == /\ At(p, "clear")
                   /\ f \in st[p].todo
                   /\ Unlinked(f)
                   /\ st' = [st EXCEPT ![p].todo = @ \ {f}]
                   /\ UNCHANGED <<dirs, world, history>>

ClearDirs(p) == /\ At(p, "clear")
                /\ st[p].todo = {}
                /\ dirs' = dirs \ {k \in Kinds : file[k] = "none"}
                /\ Goto(p, "rmroot")
                /\ UNCHANGED <<file, writers, world, history>>

ClearRoot(p) == /\ At(p, "rmroot")
                /\ IF dirs \cap Kinds = {} /\ file["last"] = "none"
                   THEN dirs' = {} /\ End(p)
                   ELSE UNCHANGED dirs /\ End(p)
                /\ UNCHANGED <<file, writers, world, history>>

-----------------------------------------------------------------------------
(***************************************************************************)
(* What may happen at any time.                                            *)
(***************************************************************************)
\* The process is killed; what it has open is closed as it is.
Kill(p) == /\ ~At(p, "idle")
           /\ End(p)
           /\ writers' = [f \in Files |-> writers[f] \ {p}]
           /\ Fault
           /\ UNCHANGED <<file, dirs, world>>

Revoke(t) == /\ t \in issued \ revoked
             /\ revoked' = revoked \cup {t}
             /\ \/ expired' = expired \cup {t}
                \/ UNCHANGED expired
             /\ Fault
             /\ UNCHANGED <<disk, issued, st>>

Start(p) == StartExec(p) \/ StartRoutes(p) \/ StartFetch(p) \/ StartFlush(p) \/ StartClear(p)

\* The steps of a command, without those that are the user's.
Step(p) == \/ loadLastURL(p) \/ cacheLastURL(p)
           \/ Setup(p) \/ SetupMemory(p) \/ SetupFails(p)
           \/ Load(p) \/ LoadFails(p) \/ Remove(p)
           \/ CheckBearerToken(p) \/ ListRoutes(p) \/ DeleteJWT(p)
           \/ MkdirAll(p) \/ Create(p) \/ Write(p) \/ SaveFails(p)
           \/ Walk(p) \/ Unlink(p) \/ ClearDirs(p) \/ ClearRoot(p)
           \/ \E f \in Files : ClearFile(p, f)

Next == \/ \E p \in Procs : \/ Start(p) \/ Step(p) \/ Kill(p)
                            \/ UseAccount(p) \/ LoginFails(p)
                            \/ \E t \in Tokens : Login(p, t)
        \/ \E t \in Tokens : Revoke(t)

Spec == Init /\ [][Next]_vars

-----------------------------------------------------------------------------
(***************************************************************************)
(* Properties.                                                             *)
(***************************************************************************)
(***************************************************************************)
(* What a command prints or lists with is a token the server has issued,   *)
(* whatever writers, killed ones included, have left in the files          *)
(* (cache.go:101-116, kubernetes.go:84).                                   *)
(***************************************************************************)
OnlyRealTokens == served \subseteq issued

(***************************************************************************)
(* While commands run one after the other and nothing fails, one login of  *)
(* a user is enough for all of a kind: the token is saved where the next   *)
(* command finds it, and is not removed (kubernetes.go:73-92,              *)
(* portal.go:48-92).                                                       *)
(***************************************************************************)
OneLoginServesAll == calm => \A k \in Kinds : logins[k] <= 1

(***************************************************************************)
(* Whatever earlier commands, killed ones included, have left behind: what *)
(* a command that runs alone prints, or lists with, is what the next one   *)
(* finds in the file (cache.go:88-149, portal.go:74-91).                   *)
(***************************************************************************)
ServedIsKept ==
  [][\A p \in Procs : /\ st[p].alone
                      /\ st[p].local
                      /\ Write(p) \/ CheckBearerToken(p) \/ ListRoutes(p)
                      /\ st'[p].pc = "idle"
                      => file'[Kind(p)] = st[p].text]_vars
=============================================================================
