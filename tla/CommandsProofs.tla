--------------------------- MODULE CommandsProofs ---------------------------
(***************************************************************************)
(* Proofs about Commands, for any number of processes and tokens.          *)
(***************************************************************************)
EXTENDS Commands, TLAPS

\* The parts of TypeOK.
DiskOK == /\ file \in [Files -> Text \cup {"none", "url"}]
          /\ writers \in [Files -> SUBSET Procs]
          /\ dirs \subseteq Kinds \cup {"root"}
WorldOK == /\ issued \subseteq Tokens
           /\ revoked \subseteq issued
           /\ expired \subseteq revoked
StOK == st \in [Procs -> Process]
HistoryOK == /\ served \subseteq Text
             /\ logins \in [Kinds -> Nat]
             /\ calm \in BOOLEAN

LEMMA TypeParts == TypeOK <=> DiskOK /\ WorldOK /\ StOK /\ HistoryOK
  BY DEF TypeOK, DiskOK, WorldOK, StOK, HistoryOK

LEMMA TypePartsNext == DiskOK' /\ WorldOK' /\ StOK' /\ HistoryOK' => TypeOK'
  BY TypeParts, PTL

-----------------------------------------------------------------------------
(***************************************************************************)
(* What the building blocks of the actions do.                             *)
(***************************************************************************)
LEMMA IdleType == Idle \in Process /\ Idle.pc = "idle" /\ ~Idle.alone
  BY DEF Idle, Process, Locations, Text

LEMMA KindType == \A p : Kind(p) \in Kinds /\ Kind(p) \in Files
  BY DEF Kind, Kinds, Files

\* A process moves on, and nothing else of its state changes.
LEMMA GotoType ==
  ASSUME StOK, NEW p \in Procs, NEW l \in Locations, Goto(p, l)
  PROVE  StOK'
  BY DEF StOK, Goto, Process

LEMMA EndType ==
  ASSUME StOK, NEW p \in Procs, End(p)
  PROVE  StOK'
  BY IdleType DEF StOK, End

LEMMA UnlinkedType ==
  ASSUME DiskOK, NEW f \in Files, Unlinked(f), dirs' = dirs
  PROVE  DiskOK'
  BY DEF DiskOK, Unlinked

LEMMA TruncatedType ==
  ASSUME DiskOK, NEW p \in Procs, NEW f \in Files, Truncated(p, f), dirs' = dirs
  PROVE  DiskOK'
  BY DEF DiskOK, Truncated, Text

\* Load goes on with the text of the file, or without it.
Uses(p) == /\ Usable(file[Kind(p)]) \/ MayParse(Kind(p), file[Kind(p)])
           /\ st' = [st EXCEPT ![p].pc = "check", ![p].text = file[Kind(p)]]

Refuses(p) == /\ ~Usable(file[Kind(p)])
              /\ Goto(p, IF Kind(p) = "exec" /\ file[Kind(p)] # "none" THEN "remove" ELSE "login")

LEMMA LoadParts == ASSUME NEW p, Load(p)
                   PROVE  Uses(p) \/ Refuses(p)
  BY DEF Load, Uses, Refuses

\* A write leaves the file alone, the data, or a mixture.
LEMMA WrittenText ==
  ASSUME NEW p, NEW f, NEW data, Written(p, f, data)
  PROVE  \E text \in {file[f], data, "torn"} : file' = [file EXCEPT ![f] = text]
  <1>1. PICK text \in IF p \in writers[f] THEN Left(f, data) ELSE {file[f]} :
               file' = [file EXCEPT ![f] = text]
    BY DEF Written
  <1>2. text \in {file[f], data, "torn"}
    BY <1>1 DEF Left
  <1> QED
    BY <1>1, <1>2

LEMMA WrittenType ==
  ASSUME DiskOK, NEW p \in Procs, NEW f \in Files, NEW data \in Text \cup {"none", "url"},
         Written(p, f, data), dirs' = dirs
  PROVE  DiskOK'
  <1>1. PICK text \in {file[f], data, "torn"} : file' = [file EXCEPT ![f] = text]
    BY WrittenText
  <1>2. text \in Text \cup {"none", "url"}
    BY DEF DiskOK, Text
  <1> QED
    BY <1>1, <1>2 DEF DiskOK, Written

LEMMA FaultType ==
  ASSUME HistoryOK, Fault
  PROVE  HistoryOK'
  BY DEF HistoryOK, Fault

LEMMA FaultUnlessType ==
  ASSUME HistoryOK, NEW b, FaultUnless(b)
  PROVE  HistoryOK'
  BY FaultType DEF FaultUnless, history, HistoryOK

LEMMA ServeType ==
  ASSUME StOK, HistoryOK, NEW p \in Procs, Serve(p)
  PROVE  StOK' /\ HistoryOK'
  BY EndType DEF StOK, HistoryOK, Serve, Process

LEMMA Quiet ==
  /\ DiskOK /\ UNCHANGED disk => DiskOK'
  /\ WorldOK /\ UNCHANGED world => WorldOK'
  /\ HistoryOK /\ UNCHANGED history => HistoryOK'
  <1>1. DiskOK /\ UNCHANGED disk => DiskOK'
    BY DEF DiskOK, disk
  <1>2. WorldOK /\ UNCHANGED world => WorldOK'
    BY DEF WorldOK, world
  <1>3. HistoryOK /\ UNCHANGED history => HistoryOK'
    BY DEF HistoryOK, history
  <1> QED
    BY <1>1, <1>2, <1>3

\* A new process knows whether it is alone, and the others are no longer.
LEMMA StartType ==
  ASSUME TypeOK, NEW p \in Procs, NEW c \in {"exec", "routes", "fetch", "flush", "clear"},
         NEW l \in Locations, NEW listed \in SUBSET Files, StartAt(p, c, l, listed)
  PROVE  TypeOK'
  <1>1. [Idle EXCEPT !.cmd = c, !.pc = l, !.todo = listed,
                     !.alone = \A o \in Procs : At(o, "idle")] \in Process
    BY IdleType DEF Process
  <1>2. \A q \in Procs : [st[q] EXCEPT !.alone = FALSE] \in Process
    BY TypeParts DEF StOK, Process
  <1>3. StOK'
    BY <1>1, <1>2 DEF StartAt, StOK
  <1> QED
    BY <1>3, TypeParts, TypePartsNext, Quiet, FaultUnlessType DEF StartAt

LEMMA ObtainedType ==
  ASSUME StOK, NEW p \in Procs, NEW text \in Text, Obtained(p, text)
  PROVE  StOK'
  <1> DEFINE r == [st[p] EXCEPT !.pc = IF st[p].local THEN "mkdir" ELSE "check",
                                !.text = text, !.fresh = TRUE]
  <1>1. st' = [st EXCEPT ![p] = r]
    BY DEF StOK, Obtained
  <1>2. r \in Process
    BY DEF StOK, Process, Locations
  <1> QED
    BY <1>1, <1>2 DEF StOK

LEMMA TypeStep == TypeOK /\ [Next]_vars => TypeOK'
  <1> SUFFICES ASSUME TypeOK, [Next]_vars
               PROVE  TypeOK'
    OBVIOUS
  <1>t. DiskOK /\ WorldOK /\ StOK /\ HistoryOK
    BY TypeParts
  <1>l. {"idle", "last", "url", "setup", "load", "remove", "check", "login", "mkdir", "create", "write",
         "delete", "walk", "unlink", "clear", "rmroot"} \subseteq Locations
    BY DEF Locations
  <1>k. \A p : Kind(p) \in Kinds /\ Kind(p) \in Files
    BY KindType
  <1>s. DiskOK' /\ WorldOK' /\ StOK' /\ HistoryOK' => TypeOK'
    BY TypePartsNext
  <1>1. ASSUME NEW p \in Procs, Start(p)
        PROVE  TypeOK'
    <2>1. ASSUME NEW l \in {"url", "last"}, StartAt(p, "routes", l, {})
          PROVE  TypeOK'
      BY <1>l, <2>1, StartType
    <2>2. ASSUME NEW l \in {"walk", "unlink"}, StartAt(p, "flush", l, {})
          PROVE  TypeOK'
      BY <1>l, <2>2, StartType
    <2>3. CASE StartExec(p) \/ StartFetch(p)
      BY <1>l, <2>3, StartType DEF StartExec, StartFetch
    <2>4. CASE StartClear(p)
      BY <1>l, <2>4, StartType DEF StartClear
    <2> QED
      BY <1>1, <2>1, <2>2, <2>3, <2>4 DEF Start, StartRoutes, StartFlush
  <1>2. ASSUME NEW p \in Procs, loadLastURL(p) \/ Walk(p) \/ SetupFails(p) \/ LoginFails(p)
        PROVE  TypeOK'
    <2>1. StOK'
      BY <1>2, <1>t, <1>l, GotoType, EndType DEF loadLastURL, Walk, SetupFails, LoginFails
    <2>2. UNCHANGED disk /\ UNCHANGED world /\ UNCHANGED history
      BY <1>2 DEF loadLastURL, Walk, SetupFails, LoginFails
    <2> QED
      BY <1>s, <1>t, <2>1, <2>2, Quiet
  <1>3. ASSUME NEW p \in Procs, cacheLastURL(p)
        PROVE  TypeOK'
    <2>1. DiskOK'
      BY <1>3, <1>t DEF cacheLastURL, DiskOK, Text
    <2>2. StOK'
      BY <1>3, <1>t, <1>l, GotoType DEF cacheLastURL
    <2> QED
      BY <1>3, <1>s, <1>t, <2>1, <2>2, Quiet DEF cacheLastURL
  <1>4. ASSUME NEW p \in Procs, Setup(p)
        PROVE  TypeOK'
    <2>1. DiskOK'
      BY <1>4, <1>t DEF Setup, DiskOK, Kinds
    <2>2. StOK'
      BY <1>4, <1>t, <1>l, GotoType DEF Setup
    <2> QED
      BY <1>4, <1>s, <1>t, <2>1, <2>2, Quiet DEF Setup
  <1>5. ASSUME NEW p \in Procs, SetupMemory(p)
        PROVE  TypeOK'
    <2>1. st' = [st EXCEPT ![p] = [st[p] EXCEPT !.pc = "login", !.local = FALSE]]
      BY <1>5, <1>t DEF SetupMemory, StOK
    <2>2. [st[p] EXCEPT !.pc = "login", !.local = FALSE] \in Process
      BY <1>t, <1>l DEF StOK, Process
    <2>3. StOK'
      BY <1>t, <2>1, <2>2 DEF StOK
    <2> QED
      BY <1>5, <1>s, <1>t, <2>3, Quiet, FaultType DEF SetupMemory
  <1>6. ASSUME NEW p \in Procs, Load(p)
        PROVE  TypeOK'
    <2>1. CASE Uses(p)
      <3>1. st' = [st EXCEPT ![p].pc = "check", ![p].text = file[Kind(p)]]
        BY <2>1 DEF Uses
      <3>2. file[Kind(p)] \in Text
        BY <2>1 DEF Uses, Usable, MayParse, Text
      <3> QED
        BY <1>t, <1>l, <3>1, <3>2, <1>6, <1>s, Quiet DEF StOK, Process, Load
    <2>2. CASE Refuses(p)
      <3>1. PICK l \in {"remove", "login"} : Goto(p, l)
        BY <2>2 DEF Refuses
      <3>2. StOK'
        BY <1>t, <1>l, <3>1, GotoType
      <3> QED
        BY <1>6, <1>s, <1>t, <3>2, Quiet DEF Load
    <2> QED
      BY <1>6, <2>1, <2>2, LoadParts
  <1>7. ASSUME NEW p \in Procs, LoadFails(p)
        PROVE  TypeOK'
    <2>1. StOK'
      BY <1>7, <1>t, <1>l, GotoType, EndType DEF LoadFails
    <2> QED
      BY <1>7, <1>s, <1>t, <2>1, Quiet, FaultType DEF LoadFails
  <1>8. ASSUME NEW p \in Procs, Remove(p)
        PROVE  TypeOK'
    <2>1. DiskOK'
      BY <1>8, <1>t, UnlinkedType DEF Remove, Files, Kinds
    <2>2. StOK'
      BY <1>8, <1>t, <1>l, GotoType DEF Remove
    <2> QED
      BY <1>8, <1>s, <1>t, <2>1, <2>2, Quiet DEF Remove
  <1>9. ASSUME NEW p \in Procs, CheckBearerToken(p)
        PROVE  TypeOK'
    <2>1. PICK answer \in Fetch(st[p].text) :
            IF answer \in {"ok", "page"}
            THEN Serve(p)
            ELSE Goto(p, "login") /\ FaultUnless(answer # "failed")
      BY <1>9 DEF CheckBearerToken
    <2>2. StOK' /\ HistoryOK'
      BY <1>t, <1>l, <2>1, ServeType, GotoType, FaultUnlessType
    <2> QED
      BY <1>9, <1>s, <1>t, <2>2, Quiet DEF CheckBearerToken
  <1>10. ASSUME NEW p \in Procs, ListRoutes(p)
         PROVE  TypeOK'
    <2>1. PICK answer \in Fetch(st[p].text) :
            \/ Serve(p)
            \/ Goto(p, "login") /\ UNCHANGED history
            \/ Goto(p, "delete") /\ FaultUnless(answer # "failed")
      BY <1>10 DEF ListRoutes
    <2>2. StOK' /\ HistoryOK'
      BY <1>t, <1>l, <2>1, ServeType, GotoType, FaultUnlessType, Quiet
    <2> QED
      BY <1>10, <1>s, <1>t, <2>2, Quiet DEF ListRoutes
  <1>11. ASSUME NEW p \in Procs, DeleteJWT(p)
         PROVE  TypeOK'
    <2>1. DiskOK'
      <3>1. CASE Unlinked("routes")
        BY <1>11, <1>t, <3>1, UnlinkedType DEF DeleteJWT, Files, Kinds
      <3>2. CASE UNCHANGED <<file, writers>>
        BY <1>11, <1>t, <3>2, Quiet DEF DeleteJWT, disk
      <3> QED
        BY <1>11, <3>1, <3>2 DEF DeleteJWT
    <2>2. StOK'
      BY <1>11, <1>t, EndType DEF DeleteJWT
    <2> QED
      BY <1>11, <1>s, <1>t, <2>1, <2>2, Quiet DEF DeleteJWT
  <1>12. ASSUME NEW p \in Procs, NEW t \in Tokens, Login(p, t)
         PROVE  TypeOK'
    <2>1. StOK'
      BY <1>12, <1>t, ObtainedType DEF Login, Text
    <2>2. WorldOK'
      BY <1>12, <1>t DEF Login, WorldOK
    <2>3. logins' \in [Kinds -> Nat]
      BY <1>12, <1>t, <1>k DEF Login, HistoryOK
    <2>4. HistoryOK'
      BY <1>12, <1>t, <2>3 DEF Login, HistoryOK
    <2> QED
      BY <1>12, <1>s, <1>t, <2>1, <2>2, <2>4, Quiet DEF Login
  <1>13. ASSUME NEW p \in Procs, UseAccount(p)
         PROVE  TypeOK'
    <2>1. PICK text \in Account \cup {""} : End(p) \/ Obtained(p, text)
      BY <1>13 DEF UseAccount
    <2>2. text \in Text
      BY CommandsAssumption DEF Text
    <2>3. StOK'
      BY <1>t, <2>1, <2>2, EndType, ObtainedType
    <2> QED
      BY <1>13, <1>s, <1>t, <2>3, Quiet DEF UseAccount
  <1>14. ASSUME NEW p \in Procs, MkdirAll(p)
         PROVE  TypeOK'
    <2>1. DiskOK'
      BY <1>14, <1>t, <1>k DEF MkdirAll, DiskOK
    <2>2. StOK'
      BY <1>14, <1>t, <1>l, GotoType DEF MkdirAll
    <2> QED
      BY <1>14, <1>s, <1>t, <2>1, <2>2, Quiet DEF MkdirAll
  <1>15. ASSUME NEW p \in Procs, Create(p)
         PROVE  TypeOK'
    <2>1. CASE Kind(p) \in dirs
      <3>1. DiskOK' /\ StOK'
        BY <1>15, <2>1, <1>t, <1>l, <1>k, TruncatedType, GotoType DEF Create
      <3> QED
        BY <1>15, <1>s, <1>t, <3>1, Quiet DEF Create
    <2>2. CASE Kind(p) \notin dirs
      <3>1. DiskOK' /\ StOK'
        BY <1>15, <2>2, <1>t, Quiet, EndType DEF Create, disk
      <3> QED
        BY <1>15, <1>s, <1>t, <3>1, Quiet DEF Create
    <2> QED
      BY <2>1, <2>2
  <1>16. ASSUME NEW p \in Procs, Write(p)
         PROVE  TypeOK'
    <2>1. st[p].text \in Text
      BY <1>t DEF StOK, Process
    <2>2. DiskOK'
      BY <1>16, <2>1, <1>t, <1>k, WrittenType DEF Write
    <2>3. StOK' /\ HistoryOK'
      BY <1>16, <1>t, <1>l, ServeType, GotoType, Quiet DEF Write
    <2> QED
      BY <1>16, <1>s, <1>t, <2>2, <2>3, Quiet DEF Write
  <1>17. ASSUME NEW p \in Procs, SaveFails(p)
         PROVE  TypeOK'
    <2>1. DiskOK'
      <3>1. CASE At(p, "write")
        <4>1. PICK data \in {file[Kind(p)], "torn"} : Written(p, Kind(p), data)
          BY <1>17, <3>1 DEF SaveFails
        <4>2. data \in Text \cup {"none", "url"}
          BY <1>t, <1>k DEF DiskOK, Text
        <4> QED
          BY <1>17, <4>1, <4>2, <1>t, <1>k, WrittenType DEF SaveFails
      <3>2. CASE ~At(p, "write")
        BY <1>17, <3>2, <1>t, Quiet DEF SaveFails, disk
      <3> QED
        BY <3>1, <3>2
    <2>2. StOK'
      BY <1>17, <1>t, EndType DEF SaveFails
    <2> QED
      BY <1>17, <1>s, <1>t, <2>1, <2>2, Quiet, FaultType DEF SaveFails
  <1>18. ASSUME NEW p \in Procs, Unlink(p)
         PROVE  TypeOK'
    <2>1. DiskOK'
      <3>1. CASE Unlinked("exec")
        BY <1>18, <1>t, <3>1, UnlinkedType DEF Unlink, Files, Kinds
      <3>2. CASE UNCHANGED <<file, writers>>
        BY <1>18, <1>t, <3>2, Quiet DEF Unlink, disk
      <3> QED
        BY <1>18, <3>1, <3>2 DEF Unlink
    <2>2. StOK'
      BY <1>18, <1>t, EndType DEF Unlink
    <2> QED
      BY <1>18, <1>s, <1>t, <2>1, <2>2, Quiet DEF Unlink
  <1>19. ASSUME NEW p \in Procs, NEW f \in Files, ClearFile(p, f)
         PROVE  TypeOK'
    <2>1. DiskOK'
      BY <1>19, <1>t, UnlinkedType DEF ClearFile
    <2>2. StOK'
      BY <1>19, <1>t DEF ClearFile, StOK, Process
    <2> QED
      BY <1>19, <1>s, <1>t, <2>1, <2>2, Quiet DEF ClearFile
  <1>20. ASSUME NEW p \in Procs, ClearDirs(p) \/ ClearRoot(p)
         PROVE  TypeOK'
    <2>1. DiskOK'
      BY <1>20, <1>t DEF ClearDirs, ClearRoot, DiskOK
    <2>2. StOK'
      BY <1>20, <1>t, <1>l, GotoType, EndType DEF ClearDirs, ClearRoot
    <2> QED
      BY <1>20, <1>s, <1>t, <2>1, <2>2, Quiet DEF ClearDirs, ClearRoot
  <1>21. ASSUME NEW p \in Procs, Kill(p)
         PROVE  TypeOK'
    <2>1. DiskOK'
      BY <1>21, <1>t DEF Kill, DiskOK
    <2>2. StOK'
      BY <1>21, <1>t, EndType DEF Kill
    <2> QED
      BY <1>21, <1>s, <1>t, <2>1, <2>2, Quiet, FaultType DEF Kill
  <1>22. ASSUME NEW t \in Tokens, Revoke(t)
         PROVE  TypeOK'
    <2>1. WorldOK'
      BY <1>22, <1>t DEF Revoke, WorldOK
    <2> QED
      BY <1>22, <1>s, <1>t, <2>1, Quiet, FaultType DEF Revoke, StOK
  <1>23. CASE UNCHANGED vars
    BY <1>23, <1>s, <1>t, Quiet DEF vars, StOK
  <1> QED
    BY <1>1, <1>2, <1>3, <1>4, <1>5, <1>6, <1>7, <1>8, <1>9, <1>10, <1>11, <1>12, <1>13, <1>14,
       <1>15, <1>16, <1>17, <1>18, <1>19, <1>20, <1>21, <1>22, <1>23
    DEF Next, Step

(***************************************************************************)
(* Every variable of the commands keeps its type, for any number of        *)
(* processes: a file holds a token, an empty or a torn text, and what the  *)
(* server no longer accepts is something it has issued.                    *)
(***************************************************************************)
THEOREM TypeCorrect == Spec => []TypeOK
  <1>1. Init => TypeOK
    <2> SUFFICES ASSUME Init
                 PROVE  TypeOK
      OBVIOUS
    <2>1. DiskOK
      BY DEF Init, DiskOK, Kinds
    <2>2. WorldOK
      BY CommandsAssumption DEF Init, WorldOK
    <2>3. StOK
      BY IdleType DEF Init, StOK
    <2>4. HistoryOK
      BY DEF Init, HistoryOK
    <2> QED
      BY <2>1, <2>2, <2>3, <2>4, TypeParts
  <1> QED
    BY <1>1, TypeStep, PTL DEF Spec
-----------------------------------------------------------------------------
(***************************************************************************)
(* Only real tokens.  Whatever is left in a file is not a token or is one  *)
(* that was issued; an exec-credential that is about to save or to print   *)
(* has a token, because it decoded one or parseToken accepted one, and     *)
(* never works without the directory.                                      *)
(***************************************************************************)
Holds == {"check", "mkdir", "create", "write"}

RealProcs == \A p \in Procs :
               /\ st[p].text \in Tokens => st[p].text \in issued
               /\ st[p].cmd = "exec" => st[p].local
               /\ st[p].cmd = "exec" /\ st[p].pc \in Holds => st[p].text \in Tokens

RealFiles == \A k \in Kinds : file[k] \in Tokens => file[k] \in issued

RealInv == /\ RealProcs
           /\ RealFiles
           /\ OnlyRealTokens
           /\ Account \subseteq issued

LEMMA NoToken == "" \notin Tokens /\ "torn" \notin Tokens /\ "none" \notin Tokens /\ "url" \notin Tokens
  BY CommandsAssumption

LEMMA GotoFields ==
  ASSUME StOK, NEW p \in Procs, NEW l, Goto(p, l)
  PROVE  \A q \in Procs : /\ st'[q].cmd = st[q].cmd /\ st'[q].text = st[q].text
                          /\ st'[q].fresh = st[q].fresh /\ st'[q].local = st[q].local
                          /\ st'[q].alone = st[q].alone
                          /\ st'[q].pc = IF q = p THEN l ELSE st[q].pc
  BY DEF StOK, Goto, Process

LEMMA EndFields ==
  ASSUME StOK, NEW p \in Procs, End(p)
  PROVE  \A q \in Procs : st'[q] = IF q = p THEN Idle ELSE st[q]
  BY DEF StOK, End

LEMMA ObtainedFields ==
  ASSUME StOK, NEW p \in Procs, NEW text, Obtained(p, text)
  PROVE  /\ \A q \in Procs \ {p} : st'[q] = st[q]
         /\ st'[p].cmd = st[p].cmd /\ st'[p].text = text
         /\ st'[p].local = st[p].local /\ st'[p].alone = st[p].alone
         /\ st'[p].pc = IF st[p].local THEN "mkdir" ELSE "check"
  BY DEF StOK, Obtained, Process

\* A process that is not about to hold a token goes on, or holds one already.
LEMMA GotoReal ==
  ASSUME StOK, RealProcs, NEW p \in Procs, NEW l, Goto(p, l), issued' = issued,
         l \notin Holds \/ st[p].cmd # "exec" \/ st[p].pc \in Holds
  PROVE  RealProcs'
  BY GotoFields DEF RealProcs

LEMMA EndReal ==
  ASSUME StOK, RealProcs, NEW p \in Procs, End(p), issued' = issued
  PROVE  RealProcs'
  <1>1. Idle.text = "" /\ Idle.local /\ Idle.pc = "idle"
    BY DEF Idle
  <1> QED
    BY <1>1, EndFields, NoToken DEF RealProcs, Holds

LEMMA UnlinkedReal ==
  ASSUME DiskOK, RealFiles, NEW f \in Files, Unlinked(f), issued' = issued
  PROVE  RealFiles'
  BY NoToken DEF DiskOK, RealFiles, Unlinked, Files

LEMMA WrittenReal ==
  ASSUME DiskOK, RealFiles, NEW p \in Procs, NEW f \in Files, NEW data, Written(p, f, data),
         issued' = issued, data \in Tokens => data \in issued
  PROVE  RealFiles'
  <1>1. PICK text \in {file[f], data, "torn"} : file' = [file EXCEPT ![f] = text]
    BY WrittenText
  <1> QED
    BY <1>1, NoToken DEF DiskOK, RealFiles, Files

LEMMA RealStep == TypeOK /\ RealInv /\ [Next]_vars => RealInv'
  <1> SUFFICES ASSUME TypeOK, RealInv, [Next]_vars
               PROVE  RealInv'
    OBVIOUS
  <1>t. DiskOK /\ WorldOK /\ StOK /\ HistoryOK
    BY TypeParts
  <1>r. RealProcs /\ RealFiles /\ served \subseteq issued /\ Account \subseteq issued
    BY DEF RealInv, OnlyRealTokens
  <1>s. RealProcs' /\ RealFiles' /\ served' \subseteq issued' /\ issued \subseteq issued' => RealInv'
    BY <1>r DEF RealInv, OnlyRealTokens
  <1>f. UNCHANGED file /\ issued \subseteq issued' => RealFiles'
    BY <1>r DEF RealFiles
  <1>k. \A p : Kind(p) \in Kinds /\ Kind(p) \in Files
    BY KindType
  <1>e. \A p : Kind(p) = "exec" <=> st[p].cmd = "exec"
    BY DEF Kind
  <1>1. ASSUME NEW p \in Procs, NEW c, NEW l, NEW listed, l \notin Holds, StartAt(p, c, l, listed)
        PROVE  RealInv'
    <2>1. \A q \in Procs \ {p} : /\ st'[q].cmd = st[q].cmd /\ st'[q].pc = st[q].pc
                                 /\ st'[q].text = st[q].text /\ st'[q].local = st[q].local
      BY <1>1, <1>t DEF StartAt, StOK, Process
    <2>2. st'[p].pc = l /\ st'[p].text = "" /\ st'[p].local
      BY <1>1 DEF StartAt, Idle
    <2>i. issued' = issued
      BY <1>1 DEF StartAt, world
    <2>3. RealProcs'
      <3> SUFFICES ASSUME NEW q \in Procs
                   PROVE  /\ st'[q].text \in Tokens => st'[q].text \in issued'
                          /\ st'[q].cmd = "exec" => st'[q].local
                          /\ st'[q].cmd = "exec" /\ st'[q].pc \in Holds => st'[q].text \in Tokens
        BY DEF RealProcs
      <3>1. CASE q = p
        BY <1>1, <2>2, <3>1, NoToken
      <3>2. CASE q # p
        BY <1>r, <2>1, <2>i, <3>2 DEF RealProcs
      <3> QED
        BY <3>1, <3>2
    <2> QED
      BY <1>1, <1>r, <1>s, <1>f, <2>3 DEF StartAt, FaultUnless, Fault, disk, world, history
  <1>2. ASSUME NEW p \in Procs, Start(p)
        PROVE  RealInv'
    BY <1>1, <1>2 DEF Start, StartExec, StartRoutes, StartFetch, StartFlush, StartClear, Holds
  <1>3. ASSUME NEW p \in Procs, loadLastURL(p) \/ Walk(p) \/ SetupFails(p) \/ LoginFails(p)
        PROVE  RealInv'
    <2>1. UNCHANGED <<file, issued, served>>
      BY <1>3 DEF loadLastURL, Walk, SetupFails, LoginFails, disk, world, history
    <2>2. RealProcs'
      BY <1>3, <1>t, <1>r, <2>1, GotoReal, EndReal DEF loadLastURL, Walk, SetupFails, LoginFails, Holds
    <2> QED
      BY <1>r, <1>s, <1>f, <2>1, <2>2
  <1>4. ASSUME NEW p \in Procs, cacheLastURL(p) \/ Setup(p) \/ ClearDirs(p) \/ ClearRoot(p)
        PROVE  RealInv'
    <2>1. UNCHANGED <<issued, served>>
      BY <1>4 DEF cacheLastURL, Setup, ClearDirs, ClearRoot, world, history
    <2>2. RealProcs'
      BY <1>4, <1>t, <1>r, <2>1, GotoReal, EndReal DEF cacheLastURL, Setup, ClearDirs, ClearRoot, Holds
    <2>3. RealFiles'
      BY <1>4, <1>t, <1>r, <2>1 DEF cacheLastURL, Setup, ClearDirs, ClearRoot, RealFiles, Kinds,
                                    DiskOK, Files
    <2> QED
      BY <1>r, <1>s, <2>1, <2>2, <2>3
  <1>5. ASSUME NEW p \in Procs, SetupMemory(p)
        PROVE  RealInv'
    <2>1. UNCHANGED <<file, issued, served>>
      BY <1>5 DEF SetupMemory, Fault, disk, world
    <2>2. RealProcs'
      BY <1>5, <1>t, <1>r, <1>e, <2>1 DEF SetupMemory, StOK, Process, RealProcs, Holds
    <2> QED
      BY <1>r, <1>s, <1>f, <2>1, <2>2
  <1>6. ASSUME NEW p \in Procs, Load(p)
        PROVE  RealInv'
    <2>1. UNCHANGED <<file, issued, served>>
      BY <1>6 DEF Load, disk, world, history
    <2>2. CASE Uses(p)
      <3>1. st' = [st EXCEPT ![p].pc = "check", ![p].text = file[Kind(p)]]
        BY <2>2 DEF Uses
      <3>2. /\ file[Kind(p)] \in Tokens => file[Kind(p)] \in issued
            /\ st[p].cmd = "exec" => file[Kind(p)] \in Tokens
        BY <1>k, <1>e, <1>r, <2>2 DEF Uses, Usable, MayParse, RealFiles
      <3>3. RealProcs'
        BY <1>t, <1>r, <2>1, <3>1, <3>2 DEF StOK, Process, RealProcs
      <3> QED
        BY <1>r, <1>s, <1>f, <2>1, <3>3
    <2>3. CASE Refuses(p)
      <3>1. PICK l \in {"remove", "login"} : Goto(p, l)
        BY <2>3 DEF Refuses
      <3>2. RealProcs'
        BY <1>t, <1>r, <2>1, <3>1, GotoReal DEF Holds
      <3> QED
        BY <1>r, <1>s, <1>f, <2>1, <3>2
    <2> QED
      BY <1>6, <2>2, <2>3, LoadParts
  <1>7. ASSUME NEW p \in Procs, LoadFails(p)
        PROVE  RealInv'
    <2>1. UNCHANGED <<file, issued, served>>
      BY <1>7 DEF LoadFails, Fault, disk, world
    <2>2. RealProcs'
      BY <1>7, <1>t, <1>r, <2>1, GotoReal, EndReal DEF LoadFails, Holds
    <2> QED
      BY <1>r, <1>s, <1>f, <2>1, <2>2
  <1>8. ASSUME NEW p \in Procs, Remove(p) \/ DeleteJWT(p) \/ Unlink(p)
        PROVE  RealInv'
    <2>1. UNCHANGED <<issued, served>>
      BY <1>8 DEF Remove, DeleteJWT, Unlink, world, history
    <2>2. RealProcs'
      BY <1>8, <1>t, <1>r, <2>1, GotoReal, EndReal DEF Remove, DeleteJWT, Unlink, Holds
    <2>3. UNCHANGED file \/ \E f \in Files : Unlinked(f)
      BY <1>8 DEF Remove, DeleteJWT, Unlink, Files, Kinds
    <2>4. RealFiles'
      BY <1>t, <1>r, <1>f, <2>1, <2>3, UnlinkedReal
    <2> QED
      BY <1>r, <1>s, <2>1, <2>2, <2>4
  <1>9. ASSUME NEW p \in Procs, CheckBearerToken(p) \/ ListRoutes(p)
        PROVE  RealInv'
    <2>1. UNCHANGED <<file, issued>> /\ st[p].pc = "check"
      BY <1>9 DEF CheckBearerToken, ListRoutes, disk, world, At
    <2>2. \/ /\ Serve(p)
             /\ st[p].cmd = "exec" \/ "ok" \in Fetch(st[p].text)
          \/ (Goto(p, "login") \/ Goto(p, "delete")) /\ UNCHANGED served
      BY <1>9, <1>e DEF CheckBearerToken, ListRoutes, FaultUnless, Fault, history
    <2>3. CASE Serve(p) /\ (st[p].cmd = "exec" \/ "ok" \in Fetch(st[p].text))
      <3>1. st[p].text \in issued
        <4>1. CASE st[p].cmd = "exec"
          BY <1>r, <2>1, <4>1 DEF RealProcs, Holds
        <4>2. CASE "ok" \in Fetch(st[p].text)
          BY <4>2 DEF Fetch, Accepted
        <4> QED
          BY <2>3, <4>1, <4>2
      <3>2. RealProcs' /\ served' \subseteq issued'
        BY <1>t, <1>r, <2>1, <2>3, <3>1, EndReal DEF Serve
      <3> QED
        BY <1>s, <1>f, <2>1, <3>2
    <2>4. CASE (Goto(p, "login") \/ Goto(p, "delete")) /\ UNCHANGED served
      <3>1. RealProcs'
        BY <1>t, <1>r, <2>1, <2>4, GotoReal DEF Holds
      <3> QED
        BY <1>r, <1>s, <1>f, <2>1, <2>4, <3>1
    <2> QED
      BY <2>2, <2>3, <2>4
  <1>10. ASSUME NEW p \in Procs, NEW t \in Tokens, Login(p, t)
         PROVE  RealInv'
    <2>1. issued' = issued \cup {t} /\ UNCHANGED <<file, served>> /\ Obtained(p, t)
      BY <1>10 DEF Login, disk
    <2>2. RealProcs'
      BY <1>t, <1>r, <2>1, ObtainedFields DEF RealProcs
    <2> QED
      BY <1>r, <1>s, <1>f, <2>1, <2>2
  <1>11. ASSUME NEW p \in Procs, UseAccount(p)
         PROVE  RealInv'
    <2>1. UNCHANGED <<file, issued, served>>
      BY <1>11 DEF UseAccount, disk, world, history
    <2>2. PICK text \in Account \cup {""} :
            IF Kind(p) = "exec" /\ text = "" THEN End(p) ELSE Obtained(p, text)
      BY <1>11 DEF UseAccount
    <2>3. text \in Tokens => text \in issued
      BY <1>r, NoToken
    <2>4. RealProcs'
      <3>1. CASE End(p)
        BY <1>t, <1>r, <2>1, <3>1, EndReal
      <3>2. CASE Obtained(p, text) /\ (text \in Account \/ Kind(p) # "exec")
        <4>1. st[p].cmd = "exec" => text \in Tokens
          BY <1>e, <3>2, CommandsAssumption
        <4>2. /\ \A q \in Procs \ {p} : st'[q] = st[q]
              /\ st'[p].cmd = st[p].cmd /\ st'[p].text = text /\ st'[p].local = st[p].local
          BY <1>t, <3>2, ObtainedFields
        <4> SUFFICES ASSUME NEW q \in Procs
                     PROVE  /\ st'[q].text \in Tokens => st'[q].text \in issued'
                            /\ st'[q].cmd = "exec" => st'[q].local
                            /\ st'[q].cmd = "exec" /\ st'[q].pc \in Holds => st'[q].text \in Tokens
          BY DEF RealProcs
        <4>3. CASE q = p
          BY <1>r, <2>1, <2>3, <4>1, <4>2, <4>3 DEF RealProcs
        <4>4. CASE q # p
          BY <1>r, <2>1, <4>2, <4>4 DEF RealProcs
        <4> QED
          BY <4>3, <4>4
      <3> QED
        BY <2>2, <3>1, <3>2
    <2> QED
      BY <1>r, <1>s, <1>f, <2>1, <2>4
  <1>12. ASSUME NEW p \in Procs, MkdirAll(p)
         PROVE  RealInv'
    <2>1. UNCHANGED <<file, issued, served>> /\ st[p].pc = "mkdir"
      BY <1>12 DEF MkdirAll, world, history, At
    <2>2. RealProcs'
      BY <1>12, <1>t, <1>r, <2>1, GotoReal DEF MkdirAll, Holds
    <2> QED
      BY <1>r, <1>s, <1>f, <2>1, <2>2
  <1>13. ASSUME NEW p \in Procs, Create(p)
         PROVE  RealInv'
    <2>1. UNCHANGED <<issued, served>> /\ st[p].pc = "create"
      BY <1>13 DEF Create, world, history, At
    <2>2. RealProcs'
      BY <1>13, <1>t, <1>r, <2>1, GotoReal, EndReal DEF Create, Holds
    <2>3. RealFiles'
      BY <1>13, <1>t, <1>r, <1>k, <2>1, NoToken DEF Create, Truncated, RealFiles, DiskOK, Files
    <2> QED
      BY <1>r, <1>s, <2>1, <2>2, <2>3
  <1>14. ASSUME NEW p \in Procs, Write(p)
         PROVE  RealInv'
    <2>1. UNCHANGED issued /\ st[p].pc = "write"
      BY <1>14 DEF Write, world, At
    <2>2. RealFiles'
      <3>1. st[p].text \in Tokens => st[p].text \in issued
        BY <1>r DEF RealProcs
      <3> QED
        BY <1>14, <1>t, <1>r, <1>k, <2>1, <3>1, WrittenReal DEF Write
    <2>3. CASE Kind(p) = "exec"
      <3>1. st[p].text \in issued
        BY <1>r, <1>e, <2>1, <2>3 DEF RealProcs, Holds
      <3>2. RealProcs' /\ served' \subseteq issued'
        BY <1>14, <1>t, <1>r, <2>1, <2>3, <3>1, EndReal DEF Write, Serve
      <3> QED
        BY <1>s, <2>1, <2>2, <3>2
    <2>4. CASE Kind(p) # "exec"
      <3>1. RealProcs' /\ served' = served
        BY <1>14, <1>t, <1>r, <2>1, <2>4, GotoReal DEF Write, history, Holds
      <3> QED
        BY <1>r, <1>s, <2>1, <2>2, <3>1
    <2> QED
      BY <2>3, <2>4
  <1>15. ASSUME NEW p \in Procs, SaveFails(p)
         PROVE  RealInv'
    <2>1. UNCHANGED <<issued, served>> /\ End(p)
      BY <1>15 DEF SaveFails, Fault, world
    <2>2. UNCHANGED file \/ \E data \in {file[Kind(p)], "torn"} : Written(p, Kind(p), data)
      BY <1>15 DEF SaveFails
    <2>3. RealFiles'
      <3>1. CASE UNCHANGED file
        BY <1>f, <2>1, <3>1
      <3>2. ASSUME NEW data \in {file[Kind(p)], "torn"}, Written(p, Kind(p), data)
            PROVE  RealFiles'
        <4>1. data \in Tokens => data \in issued
          BY <1>r, <1>k, NoToken DEF RealFiles
        <4> QED
          BY <1>t, <1>r, <1>k, <2>1, <3>2, <4>1, WrittenReal
      <3> QED
        BY <2>2, <3>1, <3>2
    <2>4. RealProcs'
      BY <1>t, <1>r, <2>1, EndReal
    <2> QED
      BY <1>r, <1>s, <2>1, <2>3, <2>4
  <1>16. ASSUME NEW p \in Procs, NEW f \in Files, ClearFile(p, f)
         PROVE  RealInv'
    <2>1. UNCHANGED <<issued, served>> /\ Unlinked(f)
      BY <1>16 DEF ClearFile, world, history
    <2>2. RealProcs'
      BY <1>16, <1>t, <1>r, <2>1 DEF ClearFile, RealProcs, StOK, Process
    <2>3. RealFiles'
      BY <1>t, <1>r, <2>1, UnlinkedReal
    <2> QED
      BY <1>r, <1>s, <2>1, <2>2, <2>3
  <1>17. ASSUME NEW p \in Procs, Kill(p)
         PROVE  RealInv'
    <2>1. UNCHANGED <<file, issued, served>> /\ End(p)
      BY <1>17 DEF Kill, Fault, world
    <2>2. RealProcs'
      BY <1>t, <1>r, <2>1, EndReal
    <2> QED
      BY <1>r, <1>s, <1>f, <2>1, <2>2
  <1>18. ASSUME UNCHANGED vars \/ \E t \in Tokens : Revoke(t)
         PROVE  RealInv'
    <2>1. UNCHANGED <<file, issued, st, served>>
      BY <1>18 DEF vars, Revoke, Fault, disk, world, history
    <2>2. RealProcs'
      BY <1>r, <2>1 DEF RealProcs
    <2> QED
      BY <1>r, <1>s, <1>f, <2>1, <2>2
  <1> QED
    BY <1>2, <1>3, <1>4, <1>5, <1>6, <1>7, <1>8, <1>9, <1>10, <1>11, <1>12, <1>13, <1>14,
       <1>15, <1>16, <1>17, <1>18
    DEF Next, Step

(***************************************************************************)
(* What a command prints, or lists routes with, is a token the server has  *)
(* issued: torn and empty files, files another process is still writing,   *)
(* and an empty service account never reach the output.                    *)
(***************************************************************************)
THEOREM RealTokens == Spec => []OnlyRealTokens
  <1>1. Init => RealInv
    <2> SUFFICES ASSUME Init
                 PROVE  RealInv
      OBVIOUS
    <2>1. RealProcs
      BY NoToken DEF Init, RealProcs, Idle, Holds
    <2>2. RealFiles
      BY NoToken DEF Init, RealFiles, Files
    <2> QED
      BY <2>1, <2>2 DEF Init, RealInv, OnlyRealTokens
  <1>2. RealInv => OnlyRealTokens
    BY DEF RealInv
  <1> QED
    BY <1>1, <1>2, RealStep, TypeCorrect, PTL DEF Spec
-----------------------------------------------------------------------------
(***************************************************************************)
(* What is served is kept.  A process that is still alone has the file it  *)
(* writes open under its name, and the token it asks the server with is    *)
(* the one in the file.                                                    *)
(***************************************************************************)
KeptAt(p) == /\ At(p, "write") => p \in writers[Kind(p)] /\ file[Kind(p)] = ""
             /\ At(p, "check") /\ st[p].local => file[Kind(p)] = st[p].text

KeptInv == \A p \in Procs : st[p].alone => /\ \A q \in Procs \ {p} : At(q, "idle")
                                           /\ KeptAt(p)

\* A process that finds its file as it left it writes its token.
LEMMA WriteKeeps ==
  ASSUME DiskOK, NEW p \in Procs, KeptAt(p), Write(p)
  PROVE  file'[Kind(p)] = st[p].text
  <1>1. p \in writers[Kind(p)] /\ file[Kind(p)] = ""
    BY DEF KeptAt, Write
  <1>2. PICK text \in Left(Kind(p), st[p].text) : file' = [file EXCEPT ![Kind(p)] = text]
    BY <1>1 DEF Write, Written
  <1>3. text = st[p].text
    BY <1>1, <1>2 DEF Left
  <1> QED
    BY <1>2, <1>3, KindType DEF DiskOK

\* A step of p, which runs, only concerns p: nobody else can be alone.
LEMMA KeptStays ==
  ASSUME KeptInv, NEW p \in Procs, ~At(p, "idle"), \A q \in Procs \ {p} : st'[q] = st[q],
         st'[p].alone => st[p].alone /\ KeptAt(p)'
  PROVE  KeptInv'
  <1> SUFFICES ASSUME NEW q \in Procs, st'[q].alone
               PROVE  (\A o \in Procs \ {q} : At(o, "idle")') /\ KeptAt(q)'
    BY DEF KeptInv
  <1>1. q = p
    <2> SUFFICES ASSUME q # p
                 PROVE  FALSE
      OBVIOUS
    <2>1. st[q].alone /\ p \in Procs \ {q}
      OBVIOUS
    <2> QED
      BY <2>1 DEF KeptInv
  <1> QED
    BY <1>1 DEF KeptInv, At

LEMMA GotoKept ==
  ASSUME StOK, KeptInv, NEW p \in Procs, ~At(p, "idle"), NEW l, l \notin {"write", "check"}, Goto(p, l)
  PROVE  KeptInv'
  <1>1. \A q \in Procs \ {p} : st'[q] = st[q]
    BY DEF Goto, StOK
  <1>2. st'[p].pc = l /\ st'[p].alone = st[p].alone
    BY GotoFields
  <1>3. KeptAt(p)'
    BY <1>2 DEF KeptAt, At
  <1>4. st'[p].alone => st[p].alone
    BY <1>2
  <1> QED
    BY <1>1, <1>3, <1>4, KeptStays

LEMMA EndKept ==
  ASSUME StOK, KeptInv, NEW p \in Procs, ~At(p, "idle"), End(p)
  PROVE  KeptInv'
  <1>1. ~st'[p].alone /\ \A q \in Procs \ {p} : st'[q] = st[q]
    BY EndFields, IdleType
  <1> QED
    BY <1>1, KeptStays

LEMMA ObtainedKept ==
  ASSUME StOK, KeptInv, NEW p \in Procs, ~At(p, "idle"), NEW text, Obtained(p, text)
  PROVE  KeptInv'
  <1>1. /\ \A q \in Procs \ {p} : st'[q] = st[q]
        /\ st'[p].local = st[p].local /\ st'[p].alone = st[p].alone
        /\ st'[p].pc = IF st[p].local THEN "mkdir" ELSE "check"
    BY ObtainedFields
  <1>2. KeptAt(p)'
    <2>1. CASE st[p].local
      BY <1>1, <2>1 DEF KeptAt, At
    <2>2. CASE ~st[p].local
      BY <1>1, <2>2 DEF KeptAt, At
    <2> QED
      BY <2>1, <2>2
  <1>3. st'[p].alone => st[p].alone
    BY <1>1
  <1> QED
    BY <1>1, <1>2, <1>3, KeptStays

LEMMA KeptStep == TypeOK /\ KeptInv /\ [Next]_vars => KeptInv'
  <1> SUFFICES ASSUME TypeOK, KeptInv, [Next]_vars
               PROVE  KeptInv'
    OBVIOUS
  <1>t. DiskOK /\ WorldOK /\ StOK /\ HistoryOK
    BY TypeParts
  <1>k. \A p : Kind(p) \in Kinds /\ Kind(p) \in Files
    BY KindType
  <1>1. ASSUME NEW p \in Procs, NEW c, NEW l, NEW listed, l \notin {"write", "check"},
               StartAt(p, c, l, listed)
        PROVE  KeptInv'
    <2>1. \A q \in Procs \ {p} : st'[q] = [st[q] EXCEPT !.alone = FALSE]
      BY <1>1 DEF StartAt
    <2>2. \A q \in Procs \ {p} : ~st'[q].alone /\ st'[q].pc = st[q].pc
      BY <1>t, <2>1 DEF StOK, Process
    <2>3. st'[p].pc = l /\ (st'[p].alone <=> \A o \in Procs : At(o, "idle"))
      BY <1>1 DEF StartAt, Idle
    <2>4. KeptAt(p)'
      BY <1>1, <2>3 DEF KeptAt, At
    <2> QED
      BY <2>2, <2>3, <2>4 DEF KeptInv, At
  <1>2. ASSUME NEW p \in Procs, Start(p)
        PROVE  KeptInv'
    BY <1>1, <1>2 DEF Start, StartExec, StartRoutes, StartFetch, StartFlush, StartClear
  <1>3. ASSUME NEW p \in Procs,
               \/ loadLastURL(p) \/ cacheLastURL(p) \/ Setup(p) \/ SetupFails(p) \/ LoadFails(p)
               \/ Remove(p) \/ DeleteJWT(p) \/ LoginFails(p)
        PROVE  KeptInv'
    <2>1. ~At(p, "idle")
      BY <1>3 DEF loadLastURL, cacheLastURL, Setup, SetupFails, LoadFails, Remove, DeleteJWT, LoginFails, At
    <2>2. End(p) \/ \E l \in {"last", "setup", "load", "login"} : Goto(p, l)
      BY <1>3 DEF loadLastURL, cacheLastURL, Setup, SetupFails, LoadFails, Remove, DeleteJWT, LoginFails
    <2> QED
      BY <1>t, <2>1, <2>2, GotoKept, EndKept
  <1>4. ASSUME NEW p \in Procs,
               \/ CheckBearerToken(p) \/ ListRoutes(p) \/ MkdirAll(p) \/ SaveFails(p)
               \/ Walk(p) \/ Unlink(p) \/ ClearDirs(p) \/ ClearRoot(p) \/ Kill(p)
        PROVE  KeptInv'
    <2>1. ~At(p, "idle")
      BY <1>4 DEF CheckBearerToken, ListRoutes, MkdirAll, SaveFails, Walk, Unlink, ClearDirs, ClearRoot,
                  Kill, At
    <2>2. End(p) \/ \E l \in {"login", "delete", "create", "unlink", "rmroot"} : Goto(p, l)
      BY <1>4 DEF CheckBearerToken, ListRoutes, MkdirAll, SaveFails, Walk, Unlink, ClearDirs, ClearRoot,
                  Kill, Serve
    <2> QED
      BY <1>t, <2>1, <2>2, GotoKept, EndKept
  <1>5. ASSUME NEW p \in Procs, SetupMemory(p)
        PROVE  KeptInv'
    <2>1. /\ ~At(p, "idle") /\ st'[p].pc = "login" /\ st'[p].alone = st[p].alone
          /\ \A q \in Procs \ {p} : st'[q] = st[q]
      BY <1>5, <1>t DEF SetupMemory, StOK, Process, At
    <2>2. KeptAt(p)' /\ (st'[p].alone => st[p].alone)
      BY <2>1 DEF KeptAt, At
    <2> QED
      BY <2>1, <2>2, KeptStays
  <1>6. ASSUME NEW p \in Procs, Load(p)
        PROVE  KeptInv'
    <2>1. ~At(p, "idle") /\ file' = file
      BY <1>6 DEF Load, At, disk
    <2>2. CASE Uses(p)
      <3>1. /\ st'[p].pc = "check" /\ st'[p].text = file[Kind(p)]
            /\ st'[p].cmd = st[p].cmd /\ st'[p].alone = st[p].alone
            /\ \A q \in Procs \ {p} : st'[q] = st[q]
        BY <1>t, <2>2 DEF Uses, StOK, Process
      <3>2. Kind(p)' = Kind(p)
        BY <3>1 DEF Kind
      <3>3. KeptAt(p)' /\ (st'[p].alone => st[p].alone)
        BY <2>1, <3>1, <3>2 DEF KeptAt, At
      <3> QED
        BY <2>1, <3>1, <3>3, KeptStays
    <2>3. CASE Refuses(p)
      <3>1. \E l \in {"remove", "login"} : Goto(p, l)
        BY <2>3 DEF Refuses
      <3> QED
        BY <1>t, <2>1, <3>1, GotoKept
    <2> QED
      BY <1>6, <2>2, <2>3, LoadParts
  <1>7. ASSUME NEW p \in Procs, UseAccount(p) \/ \E t \in Tokens : Login(p, t)
        PROVE  KeptInv'
    <2>1. ~At(p, "idle")
      BY <1>7 DEF UseAccount, Login, At
    <2>2. End(p) \/ \E text : Obtained(p, text)
      BY <1>7 DEF UseAccount, Login
    <2> QED
      BY <1>t, <2>1, <2>2, EndKept, ObtainedKept
  <1>8. ASSUME NEW p \in Procs, Create(p)
        PROVE  KeptInv'
    <2>1. ~At(p, "idle")
      BY <1>8 DEF Create, At
    <2>2. CASE Kind(p) \in dirs
      <3>1. Goto(p, "write") /\ p \in writers'[Kind(p)] /\ file'[Kind(p)] = ""
        BY <1>8, <1>t, <1>k, <2>2 DEF Create, Truncated, DiskOK
      <3>2. /\ st'[p].pc = "write" /\ st'[p].cmd = st[p].cmd /\ st'[p].alone = st[p].alone
            /\ \A q \in Procs \ {p} : st'[q] = st[q]
        BY <1>t, <3>1 DEF Goto, StOK, Process
      <3>3. Kind(p)' = Kind(p)
        BY <3>2 DEF Kind
      <3>4. KeptAt(p)' /\ (st'[p].alone => st[p].alone)
        BY <3>1, <3>2, <3>3 DEF KeptAt, At
      <3> QED
        BY <2>1, <3>2, <3>4, KeptStays
    <2>3. CASE Kind(p) \notin dirs
      BY <1>8, <1>t, <2>1, <2>3, EndKept DEF Create
    <2> QED
      BY <2>2, <2>3
  <1>9. ASSUME NEW p \in Procs, Write(p)
        PROVE  KeptInv'
    <2>1. ~At(p, "idle") /\ At(p, "write")
      BY <1>9 DEF Write, At
    <2>2. CASE Kind(p) = "exec"
      BY <1>9, <1>t, <2>1, <2>2, EndKept DEF Write, Serve
    <2>3. CASE Kind(p) # "exec"
      <3>1. Goto(p, "check")
        BY <1>9, <2>3 DEF Write
      <3>2. /\ st'[p].pc = "check" /\ st'[p].cmd = st[p].cmd /\ st'[p].text = st[p].text
            /\ st'[p].alone = st[p].alone /\ \A q \in Procs \ {p} : st'[q] = st[q]
        BY <1>t, <3>1 DEF Goto, StOK, Process
      <3>3. Kind(p)' = Kind(p)
        BY <3>2 DEF Kind
      <3>4. st[p].alone => file'[Kind(p)] = st[p].text
        BY <1>9, <1>t, WriteKeeps DEF KeptInv
      <3>5. st'[p].alone => st[p].alone /\ KeptAt(p)'
        BY <3>2, <3>3, <3>4 DEF KeptAt, At
      <3> QED
        BY <2>1, <3>2, <3>5, KeptStays
    <2> QED
      BY <2>2, <2>3
  <1>10. ASSUME NEW p \in Procs, NEW f \in Files, ClearFile(p, f)
         PROVE  KeptInv'
    <2>1. /\ ~At(p, "idle") /\ st'[p].pc = "clear" /\ st'[p].alone = st[p].alone
          /\ \A q \in Procs \ {p} : st'[q] = st[q]
      BY <1>10, <1>t DEF ClearFile, StOK, Process, At
    <2>2. KeptAt(p)' /\ (st'[p].alone => st[p].alone)
      BY <2>1 DEF KeptAt, At
    <2> QED
      BY <2>1, <2>2, KeptStays
  <1>11. ASSUME UNCHANGED vars \/ \E t \in Tokens : Revoke(t)
         PROVE  KeptInv'
    <2>1. UNCHANGED <<file, writers, st>>
      BY <1>11 DEF vars, Revoke, disk
    <2> QED
      BY <2>1 DEF KeptInv, KeptAt, At, Kind
  <1> QED
    BY <1>2, <1>3, <1>4, <1>5, <1>6, <1>7, <1>8, <1>9, <1>10, <1>11
    DEF Next, Step

\* Kept is what ServedIsKept says of one step.
Kept(p) == /\ st[p].alone
           /\ st[p].local
           /\ Write(p) \/ CheckBearerToken(p) \/ ListRoutes(p)
           /\ st'[p].pc = "idle"
           => file'[Kind(p)] = st[p].text

LEMMA KeptByStep == TypeOK /\ KeptInv => \A p \in Procs : Kept(p)
  <1> SUFFICES ASSUME TypeOK, KeptInv, NEW p \in Procs, st[p].alone, st[p].local,
                      Write(p) \/ CheckBearerToken(p) \/ ListRoutes(p)
               PROVE  file'[Kind(p)] = st[p].text
    BY DEF Kept
  <1>1. CASE Write(p)
    BY <1>1, TypeParts, WriteKeeps DEF KeptInv
  <1>2. CASE CheckBearerToken(p) \/ ListRoutes(p)
    BY <1>2 DEF CheckBearerToken, ListRoutes, KeptInv, KeptAt, disk
  <1> QED
    BY <1>1, <1>2

(***************************************************************************)
(* What a command that runs alone prints, or lists with, is in the file    *)
(* the next command reads, whatever earlier commands have left behind.     *)
(***************************************************************************)
THEOREM ServedTokensKept == Spec => ServedIsKept
  <1>1. Init => KeptInv
    BY IdleType DEF Init, KeptInv
  <1>2. TypeOK /\ KeptInv => [\A p \in Procs : Kept(p)]_vars
    BY KeptByStep
  <1>3. ServedIsKept <=> [][\A p \in Procs : Kept(p)]_vars
    BY PTL DEF ServedIsKept, Kept
  <1> QED
    BY <1>1, <1>2, <1>3, KeptStep, TypeCorrect, PTL DEF Spec
-----------------------------------------------------------------------------
(***************************************************************************)
(* One login serves all.  While all is calm at most one process runs, and  *)
(* it is alone; the token of a login is in its file, or with the process   *)
(* that is saving it; and whoever is about to log in, or to remove the     *)
(* file, does so because no login has been counted for this kind.          *)
(***************************************************************************)
Sweeps == {"walk", "unlink", "clear", "rmroot"}
Keeps == {"mkdir", "create", "write"}

CalmAt(p) ==
  \/ At(p, "idle")
  \/ /\ st[p].alone
     /\ st[p].local
     /\ st[p].pc \notin Sweeps
     /\ At(p, "remove") => Kind(p) = "exec"
     /\ At(p, "delete") => Kind(p) = "routes"
     /\ st[p].pc \in {"login", "remove", "delete"} => logins[Kind(p)] = 0
     /\ At(p, "create") => Kind(p) \in dirs
     /\ st[p].pc \in Keeps => logins[Kind(p)] = 0 \/ st[p].text \in issued

KeepsFor(p, k) == Kind(p) = k /\ st[p].pc \in Keeps /\ st[p].text \in issued

CalmLogins == \A k \in Kinds : \/ logins[k] = 0
                               \/ /\ logins[k] = 1
                                  /\ file[k] \in issued \/ \E p \in Procs : KeepsFor(p, k)

CalmInv == calm => revoked = {} /\ (\A p \in Procs : CalmAt(p)) /\ CalmLogins

\* Of the login that was counted for k, p or the file has the token.
LoginOf(p, k) == \/ logins[k] = 0
                 \/ /\ logins[k] = 1
                    /\ file[k] \in issued \/ KeepsFor(p, k)

\* While all is calm, a process that runs is the only one.
LEMMA CalmAlone ==
  ASSUME KeptInv, CalmInv, calm, NEW p \in Procs, ~At(p, "idle")
  PROVE  /\ revoked = {}
         /\ \A q \in Procs \ {p} : At(q, "idle")
         /\ st[p].alone /\ st[p].local /\ KeptAt(p) /\ CalmAt(p)
         /\ \A k \in Kinds : LoginOf(p, k)
  <1>1. /\ CalmAt(p) /\ CalmLogins /\ revoked = {}
    BY DEF CalmInv
  <1>2. st[p].alone /\ st[p].local
    BY <1>1 DEF CalmAt
  <1>3. KeptAt(p) /\ \A q \in Procs \ {p} : At(q, "idle")
    BY <1>2 DEF KeptInv
  <1>4. \A k \in Kinds, q \in Procs : KeepsFor(q, k) => q = p
    BY <1>3 DEF KeepsFor, Keeps, At
  <1>5. \A k \in Kinds : LoginOf(p, k)
    BY <1>1, <1>4 DEF CalmLogins, LoginOf
  <1> QED
    BY <1>1, <1>2, <1>3, <1>5

\* So a step of p has to keep what concerns p.
LEMMA CalmStays ==
  ASSUME KeptInv, CalmInv, NEW p \in Procs, ~At(p, "idle"), \A q \in Procs \ {p} : st'[q] = st[q],
         calm' => /\ calm
                  /\ revoked' = revoked
                  /\ CalmAt(p)'
                  /\ \A k \in Kinds : LoginOf(p, k)'
  PROVE  CalmInv'
  <1> SUFFICES ASSUME calm'
               PROVE  revoked' = {} /\ (\A q \in Procs : CalmAt(q)') /\ CalmLogins'
    BY DEF CalmInv
  <1>1. /\ calm /\ revoked' = revoked /\ CalmAt(p)'
        /\ \A k \in Kinds : LoginOf(p, k)'
    OBVIOUS
  <1>2. revoked = {} /\ \A q \in Procs \ {p} : At(q, "idle")
    BY <1>1, CalmAlone
  <1>3. \A q \in Procs \ {p} : CalmAt(q)'
    BY <1>2 DEF CalmAt, At
  <1>4. CalmLogins'
    BY <1>1 DEF CalmLogins, LoginOf
  <1> QED
    BY <1>1, <1>2, <1>3, <1>4

\* A process that keeps nothing ends, or goes on to a place where it keeps nothing.
LEMMA CalmGoto ==
  ASSUME TypeOK, KeptInv, CalmInv, NEW p \in Procs, ~At(p, "idle"),
         \/ End(p)
         \/ \E l \in {"last", "setup", "load", "check"} : Goto(p, l)
         \/ \E l \in {"login", "remove", "delete"} :
              /\ Goto(p, l)
              /\ calm => logins[Kind(p)] = 0
              /\ l = "remove" => Kind(p) = "exec"
              /\ l = "delete" => Kind(p) = "routes",
         calm' => /\ UNCHANGED <<calm, logins, issued, revoked>>
                  /\ \A k \in Kinds : logins[k] # 0 => file'[k] \in issued
  PROVE  CalmInv'
  <1>t. StOK
    BY TypeParts
  <1>1. \A q \in Procs \ {p} : st'[q] = st[q]
    BY <1>t DEF End, Goto, StOK
  <1>2. CASE calm'
    <2>1. calm /\ UNCHANGED <<logins, issued, revoked>>
      BY <1>2
    <2>2. /\ st[p].alone /\ st[p].local
          /\ \A k \in Kinds : LoginOf(p, k)
      BY <2>1, CalmAlone
    <2>3. \A k \in Kinds : LoginOf(p, k)'
      BY <1>2, <2>1, <2>2 DEF LoginOf
    <2>4. CASE End(p)
      <3>1. CalmAt(p)'
        BY <1>t, <2>4, EndFields, IdleType DEF CalmAt, At
      <3> QED
        BY <1>1, <2>1, <2>3, <3>1, CalmStays
    <2>5. ASSUME NEW l \in {"last", "setup", "load", "check", "login", "remove", "delete"}, Goto(p, l),
                 l \in {"login", "remove", "delete"} => logins[Kind(p)] = 0,
                 l = "remove" => Kind(p) = "exec",
                 l = "delete" => Kind(p) = "routes"
          PROVE  CalmInv'
      <3>1. /\ st'[p].cmd = st[p].cmd /\ st'[p].local = st[p].local
            /\ st'[p].alone = st[p].alone /\ st'[p].pc = l
        BY <1>t, <2>5, GotoFields
      <3>2. Kind(p)' = Kind(p)
        BY <3>1 DEF Kind
      <3>3. st'[p].alone /\ st'[p].local
        BY <2>2, <3>1
      <3>4. CalmAt(p)'
        BY <2>1, <2>5, <3>1, <3>2, <3>3 DEF CalmAt, At, Sweeps, Keeps
      <3> QED
        BY <1>1, <2>1, <2>3, <3>4, CalmStays
    <2> QED
      BY <2>1, <2>4, <2>5
  <1>3. CASE ~calm'
    BY <1>1, <1>3, CalmStays
  <1> QED
    BY <1>2, <1>3

\* A process that logs in, or uses the account, has its token to keep.
LEMMA CalmObtained ==
  ASSUME TypeOK, KeptInv, CalmInv, NEW p \in Procs, At(p, "login"), NEW text, Obtained(p, text),
         UNCHANGED <<file, revoked, calm>>, issued \subseteq issued',
         calm => \/ logins' = logins
                 \/ logins' = [logins EXCEPT ![Kind(p)] = 1] /\ text \in issued'
  PROVE  CalmInv'
  <1>t. StOK /\ logins \in [Kinds -> Nat]
    BY TypeParts DEF HistoryOK
  <1>i. ~At(p, "idle")
    BY DEF At
  <1>1. \A q \in Procs \ {p} : st'[q] = st[q]
    BY <1>t, ObtainedFields
  <1>2. CASE calm'
    <2>1. calm
      BY <1>2
    <2>2. /\ st[p].alone /\ st[p].local /\ CalmAt(p)
          /\ \A k \in Kinds : LoginOf(p, k)
      BY <1>i, <2>1, CalmAlone
    <2>3. logins[Kind(p)] = 0 /\ Kind(p) \in Kinds
      BY <1>i, <2>2, KindType DEF CalmAt, At
    <2>4. /\ st'[p].cmd = st[p].cmd /\ st'[p].text = text /\ st'[p].pc = "mkdir"
          /\ st'[p].local = st[p].local /\ st'[p].alone = st[p].alone
      BY <1>t, <2>2, ObtainedFields
    <2>5. st'[p].alone /\ st'[p].local /\ Kind(p)' = Kind(p)
      BY <2>2, <2>4 DEF Kind
    <2>6. logins'[Kind(p)] = 0 \/ (logins'[Kind(p)] = 1 /\ text \in issued')
      BY <1>t, <2>1, <2>3
    <2>7. CalmAt(p)'
      BY <2>4, <2>5, <2>6 DEF CalmAt, At, Sweeps
    <2>8. \A k \in Kinds : LoginOf(p, k)'
      <3> SUFFICES ASSUME NEW k \in Kinds
                   PROVE  LoginOf(p, k)'
        OBVIOUS
      <3>1. CASE k = Kind(p)
        BY <2>4, <2>5, <2>6, <3>1 DEF LoginOf, KeepsFor, Keeps
      <3>2. CASE k # Kind(p)
        <4>1. logins'[k] = logins[k] /\ ~KeepsFor(p, k)
          BY <1>t, <2>1, <3>2 DEF KeepsFor
        <4> QED
          BY <2>2, <4>1 DEF LoginOf
      <3> QED
        BY <3>1, <3>2
    <2> QED
      BY <1>1, <1>i, <2>1, <2>7, <2>8, CalmStays
  <1>3. CASE ~calm'
    BY <1>1, <1>i, <1>3, CalmStays
  <1> QED
    BY <1>2, <1>3
LEMMA CalmStep == TypeOK /\ KeptInv /\ CalmInv /\ [Next]_vars => CalmInv'
  <1> SUFFICES ASSUME TypeOK, KeptInv, CalmInv, [Next]_vars
               PROVE  CalmInv'
    OBVIOUS
  <1>t. DiskOK /\ WorldOK /\ StOK /\ HistoryOK
    BY TypeParts
  <1>k. \A p : Kind(p) \in Kinds /\ Kind(p) \in Files
    BY KindType
  <1>f. ~calm' => CalmInv'
    BY DEF CalmInv
  \* A process that keeps nothing leaves the tokens of the logins to the files.
  <1>a. ASSUME NEW p \in Procs, calm, ~At(p, "idle"), st[p].pc \notin Keeps
        PROVE  \A k \in Kinds : logins[k] # 0 => file[k] \in issued
    <2>1. \A k \in Kinds : LoginOf(p, k)
      BY <1>a, CalmAlone
    <2> QED
      BY <1>a, <2>1 DEF LoginOf, KeepsFor
  <1>1. ASSUME NEW p \in Procs, NEW c, NEW l, NEW listed, StartAt(p, c, l, listed),
               c \in {"flush", "clear"} \/ l \in {"url", "last", "setup"}
        PROVE  CalmInv'
    <2>1. CASE c \notin {"flush", "clear"} /\ \A q \in Procs : At(q, "idle")
      <3>1. UNCHANGED <<file, issued, revoked, logins, calm>>
        BY <1>1, <2>1 DEF StartAt, FaultUnless, disk, world, history
      <3>2. \A q \in Procs \ {p} : st'[q] = [st[q] EXCEPT !.alone = FALSE]
        BY <1>1 DEF StartAt
      <3>3. \A q \in Procs \ {p} : CalmAt(q)'
        <4>1. \A q \in Procs \ {p} : st'[q].pc = st[q].pc
          BY <1>t, <3>2 DEF StOK, Process
        <4> QED
          BY <2>1, <4>1 DEF CalmAt, At
      <3>4. st'[p].pc = l /\ st'[p].alone /\ st'[p].local
        BY <1>1, <2>1 DEF StartAt, Idle
      <3>5. CalmAt(p)'
        BY <1>1, <2>1, <3>4 DEF CalmAt, At, Sweeps, Keeps
      <3>6. calm => CalmLogins'
        <4>1. calm => \A k \in Kinds : logins[k] = 0 \/ (logins[k] = 1 /\ file[k] \in issued)
          BY <2>1 DEF CalmInv, CalmLogins, KeepsFor, Keeps, At
        <4> QED
          BY <3>1, <4>1 DEF CalmLogins
      <3> QED
        BY <3>1, <3>3, <3>5, <3>6 DEF CalmInv
    <2>2. CASE ~(c \notin {"flush", "clear"} /\ \A q \in Procs : At(q, "idle"))
      BY <1>1, <1>f, <2>2 DEF StartAt, FaultUnless, Fault
    <2> QED
      BY <2>1, <2>2
  <1>2. ASSUME NEW p \in Procs, Start(p)
        PROVE  CalmInv'
    BY <1>1, <1>2 DEF Start, StartExec, StartRoutes, StartFetch, StartFlush, StartClear
  <1>3. ASSUME NEW p \in Procs, loadLastURL(p) \/ SetupFails(p) \/ LoginFails(p)
        PROVE  CalmInv'
    <2>1. ~At(p, "idle") /\ st[p].pc \notin Keeps
      BY <1>3 DEF loadLastURL, SetupFails, LoginFails, At, Keeps
    <2>2. UNCHANGED <<file, issued, revoked, logins, calm>>
      BY <1>3 DEF loadLastURL, SetupFails, LoginFails, disk, world, history
    <2>3. End(p) \/ Goto(p, "last")
      BY <1>3 DEF loadLastURL, SetupFails, LoginFails
    <2> QED
      BY <1>a, <2>1, <2>2, <2>3, CalmGoto
  <1>4. ASSUME NEW p \in Procs, cacheLastURL(p) \/ Setup(p)
        PROVE  CalmInv'
    <2>1. ~At(p, "idle") /\ st[p].pc \notin Keeps
      BY <1>4 DEF cacheLastURL, Setup, At, Keeps
    <2>2. UNCHANGED <<issued, revoked, logins, calm>>
      BY <1>4 DEF cacheLastURL, Setup, world, history
    <2>3. \A k \in Kinds : file'[k] = file[k]
      BY <1>4, <1>t DEF cacheLastURL, Setup, DiskOK, Files, Kinds
    <2>4. Goto(p, "setup") \/ Goto(p, "load")
      BY <1>4 DEF cacheLastURL, Setup
    <2>5. calm' => \A k \in Kinds : logins[k] # 0 => file'[k] \in issued
      BY <1>a, <2>1, <2>2, <2>3
    <2> QED
      BY <2>1, <2>2, <2>4, <2>5, CalmGoto
  <1>5. ASSUME NEW p \in Procs, SetupMemory(p) \/ LoadFails(p) \/ SaveFails(p) \/ Kill(p)
        PROVE  CalmInv'
    BY <1>5, <1>f DEF SetupMemory, LoadFails, SaveFails, Kill, Fault
  <1>6. ASSUME NEW p \in Procs, Load(p)
        PROVE  CalmInv'
    <2>1. ~At(p, "idle") /\ st[p].pc \notin Keeps
      BY <1>6 DEF Load, At, Keeps
    <2>2. UNCHANGED <<file, issued, revoked, logins, calm>>
      BY <1>6 DEF Load, disk, world, history
    <2>3. CASE Uses(p)
      <3>1. /\ st'[p].pc = "check" /\ st'[p].local = st[p].local /\ st'[p].alone = st[p].alone
            /\ st'[p].cmd = st[p].cmd /\ \A q \in Procs \ {p} : st'[q] = st[q]
        BY <1>t, <2>3 DEF Uses, StOK, Process
      <3>2. calm => CalmAt(p)'
        <4>1. calm => st[p].alone /\ st[p].local
          BY <2>1, CalmAlone
        <4>2. calm => st'[p].alone /\ st'[p].local
          BY <3>1, <4>1
        <4> QED
          BY <3>1, <4>2 DEF CalmAt, At, Sweeps, Keeps
      <3>3. calm => \A k \in Kinds : LoginOf(p, k)'
        <4>1. calm => \A k \in Kinds : LoginOf(p, k)
          BY <2>1, CalmAlone
        <4> QED
          BY <2>1, <2>2, <4>1 DEF LoginOf, KeepsFor
      <3> QED
        BY <2>1, <2>2, <3>1, <3>2, <3>3, CalmStays
    <2>4. CASE Refuses(p)
      <3>1. calm => logins[Kind(p)] = 0
        <4> SUFFICES ASSUME calm, logins[Kind(p)] # 0
                     PROVE  FALSE
          OBVIOUS
        <4>1. file[Kind(p)] \in issued /\ revoked = {}
          BY <1>a, <1>k, <2>1, CalmAlone
        <4> QED
          BY <1>t, <2>4, <4>1 DEF Refuses, Usable, WorldOK
      <3>2. Goto(p, IF Kind(p) = "exec" /\ file[Kind(p)] # "none" THEN "remove" ELSE "login")
        BY <2>4 DEF Refuses
      <3>3. \E l \in {"login", "remove", "delete"} :
              /\ Goto(p, l)
              /\ calm => logins[Kind(p)] = 0
              /\ l = "remove" => Kind(p) = "exec"
              /\ l = "delete" => Kind(p) = "routes"
        BY <3>1, <3>2
      <3> QED
        BY <1>a, <2>1, <2>2, <3>3, CalmGoto
    <2> QED
      BY <1>6, <2>3, <2>4, LoadParts
  <1>7. ASSUME NEW p \in Procs, Remove(p) \/ DeleteJWT(p)
        PROVE  CalmInv'
    <2>1. ~At(p, "idle") /\ st[p].pc \notin Keeps
      BY <1>7 DEF Remove, DeleteJWT, At, Keeps
    <2>2. UNCHANGED <<issued, revoked, logins, calm>>
      BY <1>7 DEF Remove, DeleteJWT, world, history
    <2>3. calm => logins[Kind(p)] = 0 /\ (Remove(p) => Kind(p) = "exec") /\ (DeleteJWT(p) => Kind(p) = "routes")
      <3>1. calm => CalmAt(p)
        BY <2>1, CalmAlone
      <3>2. calm /\ Remove(p) => logins[Kind(p)] = 0 /\ Kind(p) = "exec"
        BY <2>1, <3>1 DEF CalmAt, Remove, At
      <3>3. calm /\ DeleteJWT(p) => logins[Kind(p)] = 0 /\ Kind(p) = "routes"
        BY <2>1, <3>1 DEF CalmAt, DeleteJWT, At
      <3> QED
        BY <1>7, <3>2, <3>3
    <2>4. calm => \A k \in Kinds : k # Kind(p) => file'[k] = file[k]
      BY <1>7, <1>t, <2>3 DEF Remove, DeleteJWT, Unlinked, DiskOK, Files, Kinds
    <2>5. calm' => \A k \in Kinds : logins[k] # 0 => file'[k] \in issued
      BY <1>a, <2>1, <2>2, <2>3, <2>4
    <2>6. CASE Remove(p)
      <3>1. Goto(p, "login")
        BY <2>6 DEF Remove
      <3> QED
        BY <2>1, <2>2, <2>3, <2>5, <3>1, CalmGoto
    <2>7. CASE DeleteJWT(p)
      <3>1. End(p)
        BY <2>7 DEF DeleteJWT
      <3> QED
        BY <2>1, <2>2, <2>5, <3>1, CalmGoto
    <2> QED
      BY <1>7, <2>6, <2>7
  <1>8. ASSUME NEW p \in Procs, CheckBearerToken(p) \/ ListRoutes(p)
        PROVE  CalmInv'
    <2>1. ~At(p, "idle") /\ At(p, "check") /\ st[p].pc \notin Keeps
      BY <1>8 DEF CheckBearerToken, ListRoutes, At, Keeps
    <2>2. UNCHANGED <<file, issued, revoked>>
      BY <1>8 DEF CheckBearerToken, ListRoutes, disk, world
    <2>3. PICK answer \in Fetch(st[p].text) :
            \/ End(p) /\ UNCHANGED <<logins, calm>>
            \/ /\ \E l \in {"login", "delete"} : Goto(p, l) /\ (l = "delete" => Kind(p) = "routes")
               /\ answer # "ok"
               /\ Fault \/ (answer # "failed" /\ UNCHANGED history)
      <3>1. CASE CheckBearerToken(p)
        <4>1. PICK a \in Fetch(st[p].text) :
                IF a \in {"ok", "page"}
                THEN Serve(p)
                ELSE Goto(p, "login") /\ FaultUnless(a # "failed")
          BY <3>1 DEF CheckBearerToken
        <4>2. CASE a \in {"ok", "page"}
          BY <4>1, <4>2 DEF Serve
        <4>3. CASE a \notin {"ok", "page"}
          <5>1. Goto(p, "login") /\ FaultUnless(a # "failed")
            BY <4>1, <4>3
          <5>2. Fault \/ (a # "failed" /\ UNCHANGED history)
            BY <5>1 DEF FaultUnless
          <5> QED
            BY <4>3, <5>1, <5>2
        <4> QED
          BY <4>2, <4>3
      <3>2. CASE ListRoutes(p)
        <4>1. Kind(p) = "routes"
          BY <3>2 DEF ListRoutes
        <4>2. PICK a \in Fetch(st[p].text) :
                CASE a = "ok" -> Serve(p)
                  [] a = "unauthenticated" /\ ~st[p].fresh -> Goto(p, "login") /\ UNCHANGED history
                  [] OTHER -> Goto(p, "delete") /\ FaultUnless(a # "failed")
          BY <3>2 DEF ListRoutes
        <4>3. CASE a = "ok"
          <5>1. Serve(p)
            BY <4>2, <4>3
          <5> QED
            BY <5>1 DEF Serve
        <4>4. CASE a = "unauthenticated" /\ ~st[p].fresh
          <5>1. Goto(p, "login") /\ UNCHANGED history
            BY <4>2, <4>4
          <5> QED
            BY <4>4, <5>1
        <4>5. CASE a # "ok" /\ ~(a = "unauthenticated" /\ ~st[p].fresh)
          <5>1. Goto(p, "delete") /\ FaultUnless(a # "failed")
            BY <4>2, <4>5
          <5>2. Fault \/ (a # "failed" /\ UNCHANGED history)
            BY <5>1 DEF FaultUnless
          <5> QED
            BY <4>1, <4>5, <5>1, <5>2
        <4> QED
          BY <4>3, <4>4, <4>5
      <3> QED
        BY <1>8, <3>1, <3>2
    <2>4. CASE End(p) /\ UNCHANGED <<logins, calm>>
      BY <1>a, <2>1, <2>2, <2>4, CalmGoto
    <2>5. ASSUME answer \notin {"ok", "failed"}, UNCHANGED history,
                 NEW l \in {"login", "delete"}, Goto(p, l), l = "delete" => Kind(p) = "routes"
          PROVE  CalmInv'
      <3>1. calm => logins[Kind(p)] = 0
        <4> SUFFICES ASSUME calm, logins[Kind(p)] # 0
                     PROVE  FALSE
          OBVIOUS
        <4>1. file[Kind(p)] \in issued /\ revoked = {} /\ file[Kind(p)] = st[p].text
          BY <1>a, <1>k, <2>1, CalmAlone DEF KeptAt
        <4>2. Fetch(st[p].text) = {"failed", "ok"}
          BY <4>1 DEF Fetch, Accepted
        <4> QED
          BY <2>5, <4>2
      <3>2. UNCHANGED <<logins, calm>>
        BY <2>5 DEF history
      <3>3. \E m \in {"login", "remove", "delete"} :
              /\ Goto(p, m)
              /\ calm => logins[Kind(p)] = 0
              /\ m = "remove" => Kind(p) = "exec"
              /\ m = "delete" => Kind(p) = "routes"
        BY <2>5, <3>1
      <3> QED
        BY <1>a, <2>1, <2>2, <3>2, <3>3, CalmGoto
    <2>6. CASE Fault
      BY <1>f, <2>6 DEF Fault
    <2> QED
      BY <2>3, <2>4, <2>5, <2>6
  <1>9. ASSUME NEW p \in Procs, NEW t \in Tokens, Login(p, t)
        PROVE  CalmInv'
    <2>1. /\ At(p, "login") /\ Obtained(p, t) /\ UNCHANGED <<file, revoked, calm>>
          /\ issued' = issued \cup {t}
      BY <1>9 DEF Login, disk
    <2>2. calm => logins[Kind(p)] = 0
      <3>1. calm => CalmAt(p)
        BY <2>1, CalmAlone DEF At
      <3> QED
        BY <2>1, <3>1 DEF CalmAt, At
    <2>3. calm => logins' = [logins EXCEPT ![Kind(p)] = 1]
      <3> SUFFICES ASSUME calm
                   PROVE  logins' = [logins EXCEPT ![Kind(p)] = 1]
        OBVIOUS
      <3>1. logins' = [logins EXCEPT ![Kind(p)] = logins[Kind(p)] + 1]
        BY <1>9 DEF Login
      <3>2. logins[Kind(p)] + 1 = 1
        BY <2>2
      <3> QED
        BY <3>1, <3>2
    <2> QED
      BY <2>1, <2>3, CalmObtained
  <1>10. ASSUME NEW p \in Procs, UseAccount(p)
         PROVE  CalmInv'
    <2>1. At(p, "login") /\ UNCHANGED <<file, issued, revoked, logins, calm>>
      BY <1>10 DEF UseAccount, disk, world, history
    <2>2. ~At(p, "idle") /\ st[p].pc \notin Keeps
      BY <2>1 DEF At, Keeps
    <2>3. CASE End(p)
      BY <1>a, <2>1, <2>2, <2>3, CalmGoto
    <2>4. CASE \E text : Obtained(p, text)
      BY <2>1, <2>4, CalmObtained
    <2> QED
      BY <1>10, <2>3, <2>4 DEF UseAccount
  <1>11. ASSUME NEW p \in Procs, MkdirAll(p) \/ Create(p)
         PROVE  CalmInv'
    <2>1. ~At(p, "idle") /\ st[p].pc \in Keeps
      BY <1>11 DEF MkdirAll, Create, At, Keeps
    <2>2. UNCHANGED <<issued, revoked, logins, calm>>
      BY <1>11 DEF MkdirAll, Create, world, history
    <2>3. CASE calm
      <3>1. /\ st[p].alone /\ st[p].local /\ CalmAt(p)
            /\ \A k \in Kinds : LoginOf(p, k)
        BY <2>1, <2>3, CalmAlone
      <3>2. PICK l \in {"create", "write"} : Goto(p, l) /\ (l = "create" => Kind(p) \in dirs')
        BY <1>11, <2>1, <3>1 DEF MkdirAll, Create, CalmAt, At
      <3>3. /\ st'[p].cmd = st[p].cmd /\ st'[p].text = st[p].text /\ st'[p].local = st[p].local
            /\ st'[p].alone = st[p].alone /\ st'[p].pc = l
            /\ \A q \in Procs \ {p} : st'[q] = st[q]
        BY <1>t, <3>2 DEF Goto, StOK, Process
      <3>4. Kind(p)' = Kind(p) /\ st'[p].alone /\ st'[p].local
        BY <3>1, <3>3 DEF Kind
      <3>5. logins[Kind(p)] = 0 \/ st[p].text \in issued
        BY <2>1, <3>1 DEF CalmAt, At
      <3>6. CalmAt(p)'
        BY <2>2, <3>2, <3>3, <3>4, <3>5 DEF CalmAt, At, Sweeps
      <3>7. \A k \in Kinds : k # Kind(p) => file'[k] = file[k]
        BY <1>11, <1>t, <1>k DEF MkdirAll, Create, Truncated, DiskOK, Files
      <3>8. \A k \in Kinds : LoginOf(p, k)'
        <4> SUFFICES ASSUME NEW k \in Kinds
                     PROVE  LoginOf(p, k)'
          OBVIOUS
        <4>1. CASE k = Kind(p)
          BY <2>2, <3>1, <3>2, <3>3, <3>4, <3>5, <4>1 DEF LoginOf, KeepsFor, Keeps
        <4>2. CASE k # Kind(p)
          BY <2>2, <3>1, <3>7, <4>2 DEF LoginOf, KeepsFor
        <4> QED
          BY <4>1, <4>2
      <3> QED
        BY <2>1, <2>2, <2>3, <3>3, <3>6, <3>8, CalmStays
    <2>4. CASE ~calm
      BY <1>f, <2>2, <2>4
    <2> QED
      BY <2>3, <2>4
  <1>12. ASSUME NEW p \in Procs, Write(p)
         PROVE  CalmInv'
    <2>1. ~At(p, "idle") /\ At(p, "write") /\ st[p].pc \in Keeps
      BY <1>12 DEF Write, At, Keeps
    <2>2. UNCHANGED <<issued, revoked, logins, calm>>
      BY <1>12 DEF Write, Serve, world, history
    <2>3. End(p) \/ Goto(p, "check")
      BY <1>12 DEF Write, Serve
    <2>4. calm => \A k \in Kinds : logins[k] # 0 => file'[k] \in issued
      <3> SUFFICES ASSUME calm, NEW k \in Kinds, logins[k] # 0
                   PROVE  file'[k] \in issued
        OBVIOUS
      <3>1. KeptAt(p) /\ CalmAt(p) /\ LoginOf(p, k)
        BY <2>1, CalmAlone
      <3>2. CASE k = Kind(p)
        <4>1. st[p].text \in issued
          BY <2>1, <3>1, <3>2 DEF CalmAt, At
        <4>2. file'[k] = st[p].text
          BY <1>12, <1>t, <3>1, <3>2, WriteKeeps
        <4> QED
          BY <4>1, <4>2
      <3>3. CASE k # Kind(p)
        <4>1. file[k] \in issued
          BY <3>1, <3>3 DEF LoginOf, KeepsFor
        <4>2. file'[k] = file[k]
          BY <1>12, <1>t, <1>k, <3>3 DEF Write, Written, DiskOK, Files
        <4> QED
          BY <4>1, <4>2
      <3> QED
        BY <3>2, <3>3
    <2> QED
      BY <2>1, <2>2, <2>3, <2>4, CalmGoto
  <1>13. ASSUME NEW p \in Procs, Walk(p) \/ Unlink(p) \/ ClearDirs(p) \/ ClearRoot(p) \/ \E f \in Files : ClearFile(p, f)
         PROVE  CalmInv'
    <2>1. calm' = calm
      BY <1>13 DEF Walk, Unlink, ClearDirs, ClearRoot, ClearFile, history
    <2>2. ~At(p, "idle") /\ st[p].pc \in Sweeps
      BY <1>13 DEF Walk, Unlink, ClearDirs, ClearRoot, ClearFile, At, Sweeps
    <2>3. ~calm
      BY <2>2 DEF CalmInv, CalmAt
    <2> QED
      BY <1>f, <2>1, <2>3
  <1>14. ASSUME NEW t \in Tokens, Revoke(t)
         PROVE  CalmInv'
    BY <1>14, <1>f DEF Revoke, Fault
  <1>15. CASE UNCHANGED vars
    <2>1. UNCHANGED <<file, dirs, issued, revoked, st, logins>> /\ UNCHANGED calm
      BY <1>15 DEF vars, disk, world, history
    <2>2. CalmLogins => CalmLogins'
      BY <2>1 DEF CalmLogins, KeepsFor, Kind
    <2>3. \A p \in Procs : CalmAt(p) => CalmAt(p)'
      BY <2>1 DEF CalmAt, At, Kind
    <2> QED
      BY <2>1, <2>2, <2>3 DEF CalmInv
  <1> QED
    BY <1>2, <1>3, <1>4, <1>5, <1>6, <1>7, <1>8, <1>9, <1>10, <1>11, <1>12, <1>13, <1>14, <1>15
    DEF Next, Step

(***************************************************************************)
(* While commands run one after the other and nothing fails, a user logs   *)
(* in at most once for the credentials and once for the routes, however    *)
(* many commands there are.                                                *)
(***************************************************************************)
THEOREM OneLoginSuffices == Spec => []OneLoginServesAll
  <1>1. Init => KeptInv /\ CalmInv
    <2> SUFFICES ASSUME Init
                 PROVE  KeptInv /\ CalmInv
      OBVIOUS
    <2>1. KeptInv
      BY IdleType DEF Init, KeptInv
    <2>2. \A p \in Procs : CalmAt(p)
      BY IdleType DEF Init, CalmAt, At
    <2>3. CalmLogins
      BY DEF Init, CalmLogins
    <2> QED
      BY <2>1, <2>2, <2>3 DEF Init, CalmInv
  <1>2. CalmInv => OneLoginServesAll
    BY DEF CalmInv, CalmLogins, OneLoginServesAll
  <1> QED
    BY <1>1, <1>2, KeptStep, CalmStep, TypeCorrect, PTL DEF Spec
=============================================================================
