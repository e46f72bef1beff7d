---------------------------- MODULE RecordStore -----------------------------
(***************************************************************************)
(* What the configuration service promises about the records it keeps,     *)
(* without tags, selectors, payloads and file formats.  A call changes     *)
(* records in memory one at a time and then commits them all at once, so   *)
(* that the disk never holds part of a call: it has the records of the     *)
(* last commit, or, when a commit went wrong, none or nothing readable.    *)
(* "ok" is answered only when memory and disk agree.                       *)
(***************************************************************************)
CONSTANTS Ids, Records

VARIABLES phase,  \* "down", "rest", "work" (changing memory) or "save"
          mem,    \* the records in memory, by identifier
          disk,   \* those on disk, and whether they can be read
          ans     \* the last answer: "none", "ok" or "error"

vars == <<phase, mem, disk, ans>>

Empty == [id \in {} |-> id]

Whole(m) == [state |-> "whole", recs |-> m]
Lost == [state |-> "lost", recs |-> Empty]

With(m, id, r) == [i \in DOMAIN m \cup {id} |-> IF i = id THEN r ELSE m[i]]
Without(m, id) == [i \in DOMAIN m \ {id} |-> m[i]]

Init == /\ phase = "down"
        /\ mem = Empty
        /\ disk = Whole(Empty)
        /\ ans = "none"

Start == /\ phase = "down"
         /\ phase' = "work"
         /\ mem' = Empty
         /\ ans' = "none"
         /\ UNCHANGED disk

Refuse == /\ ans' = "error"
          /\ UNCHANGED <<phase, mem, disk>>

Begin == /\ phase = "rest"
         /\ phase' = "work"
         /\ ans' = "none"
         /\ UNCHANGED <<mem, disk>>

\* A call that changes one record only.
Put(id, r) == /\ phase = "rest"
              /\ phase' = "save"
              /\ mem' = With(mem, id, r)
              /\ ans' = "none"
              /\ UNCHANGED disk

Change(id) == /\ phase = "work"
              /\ \/ \E r \in Records : mem' = With(mem, id, r)
                 \/ mem' = Without(mem, id)
              /\ UNCHANGED <<phase, disk, ans>>

Changed == /\ phase = "work"
           /\ phase' = "save"
           /\ UNCHANGED <<mem, disk, ans>>

\* The start up is over when all is back, so never with a lost disk.
Loaded == /\ phase = "work"
          /\ disk = Whole(mem)
          /\ phase' = "rest"
          /\ ans' = "ok"
          /\ UNCHANGED <<mem, disk>>

Commit == /\ phase = "save"
          /\ phase' = "rest"
          /\ disk' = Whole(mem)
          /\ ans' = "ok"
          /\ UNCHANGED mem

\* A call gives up, in its loop or in its save.
Fail == /\ phase \in {"work", "save"}
        /\ phase' = "rest"
        /\ ans' = "error"
        /\ \/ mem' = mem
           \/ phase = "work" /\ \E id \in Ids : mem' = Without(mem, id)
        /\ \/ disk' = disk
           \/ phase = "save" /\ disk' \in {Whole(Empty), Lost}

Crash == /\ phase # "down"
         /\ phase' = "down"
         /\ mem' = Empty
         /\ ans' = "none"
         /\ \/ disk' = disk
            \/ phase = "save" /\ disk' \in {Whole(Empty), Lost, Whole(mem)}

Next == \/ Start \/ Refuse \/ Begin \/ Changed \/ Loaded \/ Commit \/ Fail \/ Crash
        \/ \E id \in Ids : Change(id) \/ \E r \in Records : Put(id, r)

Spec == Init /\ [][Next]_vars
=============================================================================
