---------------------------- MODULE ConfigServer ----------------------------
(***************************************************************************)
(* The configuration half of the API server (api/config_server.go), the    *)
(* file it persists to (api/file_provider.go) and the listener table that  *)
(* Delete and Update share with it (api/listener.go).                      *)
(*                                                                         *)
(* Every handler holds the server's lock, so calls never interleave; what  *)
(* makes the component hard is that a call is a sequence of steps, any of  *)
(* which may fail or be the last one before the process dies.  A handler's *)
(* loop is therefore one step per iteration, and the write of the file is  *)
(* a step of its own: os.WriteFile truncates and then writes, so a failed  *)
(* or interrupted write may leave an empty or a partial file.              *)
(***************************************************************************)
EXTENDS Config

CONSTANTS Inputs,       \* the records clients send to Upsert
          Selectors,    \* the selectors clients use
          Payloads,     \* the import payloads clients hold, besides exported ones
          MaxLoadable   \* the largest number of records Load reads back (maxConfigFileBytes)

ASSUME ServerAssumption == /\ Inputs \subseteq Record
                           /\ Selectors \subseteq Selector
                           /\ Payloads \subseteq Seq(Item)
                           /\ MaxLoadable \in Nat

VARIABLES cfg,        \* server.config
          file,       \* the configuration file
          listening,  \* the keys of server.ListenerStatus
          pc,         \* where the call that holds the lock is
          victims,    \* Delete: the identifiers still to be deleted
          batch,      \* Import: the items still to be upserted
          request,    \* the last configuration call: its operation and input
          begun,      \* byID when that call began
          reply       \* its answer, "none" until it has one

vars == <<cfg, file, listening, pc, victims, batch, request, begun, reply>>

\* A file holds records, or part of their encoding; recs is empty unless "json".
File == [form : {"absent", "empty", "json", "torn"}, recs : Map(Ids, Record)]
NoFile    == [form |-> "absent", recs |-> EmptyMap]
EmptyFile == [form |-> "empty", recs |-> EmptyMap]
TornFile  == [form |-> "torn", recs |-> EmptyMap]

Replies == {"none", "ok", "NotFound", "InvalidArgument", "Internal", "tagIndex"}

Request == [op : {"none", "load", "upsert", "delete", "import"},
            ids : SUBSET Ids, items : Seq(Item)]

TypeOK == /\ cfg \in Configuration
          /\ file \in File
          /\ listening \subseteq Ids
          /\ pc \in {"down", "loading", "idle", "deleting", "importing", "saving"}
          /\ victims \in Seq(Ids)
          /\ batch \in Seq(Item)
          /\ request \in Request
          /\ begun \in Map(Ids, Record)
          /\ reply \in Replies

Init == /\ cfg = NewConfig
        /\ file = NoFile
        /\ listening = {}
        /\ pc = "down"
        /\ victims = <<>>
        /\ batch = <<>>
        /\ request = [op |-> "none", ids |-> {}, items |-> <<>>]
        /\ begun = EmptyMap
        /\ reply = "none"

\* uuid.NewString: an identifier no map and no file holds.
FreshIds == Ids \ (DOMAIN cfg.byID \cup DOMAIN file.recs
                   \cup UNION {DOMAIN cfg.byTag[t] : t \in DOMAIN cfg.byTag})

\* A call takes the lock and begins with input ids and items.
Begin(op, ids, items) == /\ pc = "idle"
                         /\ request' = [op |-> op, ids |-> ids, items |-> items]
                         /\ begun' = cfg.byID

Return(answer) == /\ pc' = "idle"
                  /\ reply' = answer

-----------------------------------------------------------------------------
(***************************************************************************)
(* Start up: NewServer, WithConfigProvider, loadConfig, Load.              *)
(***************************************************************************)
\* Load reads at most maxConfigFileBytes, so a longer file is cut short and
\* does not parse.
Loadable(f) == /\ f.form # "torn"
               /\ Cardinality(DOMAIN f.recs) <= MaxLoadable

Start == /\ pc = "down"
         /\ Loadable(file)
         /\ pc' = "loading"
         /\ cfg' = NewConfig
         /\ request' = [op |-> "load", ids |-> {}, items |-> <<>>]
         /\ begun' = EmptyMap
         /\ reply' = "none"
         /\ UNCHANGED <<file, listening, victims, batch>>

\* NewServer returns the error of Load or unmarshal and the process exits: the
\* file does not parse, or it cannot be opened or read, whatever is in it.
StartFails == /\ pc = "down"
              /\ reply' = "Internal"
              /\ UNCHANGED <<cfg, file, listening, pc, victims, batch, request, begun>>

LoadRecord == /\ pc = "loading"
              /\ \E id \in DOMAIN file.recs \ DOMAIN cfg.byID :
                   cfg' = upsert(cfg, id, file.recs[id])
              /\ UNCHANGED <<file, listening, pc, victims, batch, request, begun, reply>>

LoadDone == /\ pc = "loading"
            /\ DOMAIN file.recs \subseteq DOMAIN cfg.byID
            /\ Return("ok")
            /\ UNCHANGED <<cfg, file, listening, victims, batch, request, begun>>

-----------------------------------------------------------------------------
(***************************************************************************)
(* Upsert.                                                                 *)
(***************************************************************************)
\* The client certificate does not parse: nothing has happened yet.
UpsertRejected == /\ Begin("upsert", {}, <<>>)
                  /\ Return("InvalidArgument")
                  /\ UNCHANGED <<cfg, file, listening, victims, batch>>

UpsertNew(r) == /\ Begin("upsert", {}, <<[id |-> NoId, rec |-> r]>>)
                /\ \E id \in FreshIds : cfg' = upsert(cfg, id, r)
                /\ pc' = "saving"
                /\ reply' = "none"
                /\ UNCHANGED <<file, listening, victims, batch>>

\* An error of clearTags leaves the index as far as clearTags got.
UpsertExisting(id, r) ==
  /\ Begin("upsert", {id}, <<[id |-> id, rec |-> r]>>)
  /\ IF clearTagsError(cfg, id)
     THEN /\ cfg' = clearTags(cfg, id)
          /\ Return("Internal")
     ELSE /\ cfg' = upsert(clearTags(cfg, id), id, r)
          /\ pc' = "saving"
          /\ reply' = "none"
  /\ UNCHANGED <<file, listening, victims, batch>>

-----------------------------------------------------------------------------
(***************************************************************************)
(* Delete: list, disconnect all that was listed, then delete one by one.   *)
(* An error of config.delete returns at once, before the save.             *)
(***************************************************************************)
DeleteRefused(sel) == /\ listError(cfg, sel) # ""
                      /\ Begin("delete", {}, <<>>)
                      /\ Return(listError(cfg, sel))
                      /\ UNCHANGED <<cfg, file, listening, victims, batch>>

\* A mutant: Delete does not disconnect the listeners of what it deletes.
Delete_keepListening(sel) ==
  /\ listError(cfg, sel) = ""
  /\ \E l \in listLocked(cfg, sel) :
       LET ids == {l[i].id : i \in DOMAIN l} IN
         /\ Begin("delete", ids, <<>>)
         /\ victims' = [i \in DOMAIN l |-> l[i].id]
  /\ pc' = "deleting"
  /\ reply' = "none"
  /\ UNCHANGED <<cfg, file, listening, batch>>

Delete(sel) ==
  /\ listError(cfg, sel) = ""
  /\ \E l \in listLocked(cfg, sel) :
       LET ids == {l[i].id : i \in DOMAIN l} IN
         /\ Begin("delete", ids, <<>>)
         /\ victims' = [i \in DOMAIN l |-> l[i].id]
         /\ listening' = listening \ ids
  /\ pc' = "deleting"
  /\ reply' = "none"
  /\ UNCHANGED <<cfg, file, batch>>

\* A mutant: every deletion is saved at once.
DeleteRecord_saves ==
  /\ pc = "deleting"
  /\ victims # <<>>
  /\ deleteError(cfg, Head(victims)) = ""
  /\ cfg' = delete(cfg, Head(victims))
  /\ file' = [form |-> "json", recs |-> cfg'.byID]
  /\ victims' = Tail(victims)
  /\ UNCHANGED <<listening, pc, batch, request, begun, reply>>

DeleteRecord ==
  /\ pc = "deleting"
  /\ victims # <<>>
  /\ cfg' = delete(cfg, Head(victims))
  /\ LET err == deleteError(cfg, Head(victims)) IN
       IF err = ""
       THEN /\ victims' = Tail(victims)
            /\ UNCHANGED <<pc, reply>>
       ELSE /\ victims' = <<>>
            /\ Return(IF err = "tagIndex" THEN "tagIndex" ELSE "Internal")
  /\ UNCHANGED <<file, listening, batch, request, begun>>

DeleteDone == /\ pc = "deleting"
              /\ victims = <<>>
              /\ pc' = "saving"
              /\ UNCHANGED <<cfg, file, listening, victims, batch, request, begun, reply>>

-----------------------------------------------------------------------------
(***************************************************************************)
(* Import.  The whole payload is decoded before the first upsert.          *)
(***************************************************************************)
ImportRejected == /\ Begin("import", {}, <<>>)
                  /\ Return("InvalidArgument")
                  /\ UNCHANGED <<cfg, file, listening, victims, batch>>

\* What clients import: payloads they hold, and what Export has just given them.
Importable == Payloads \cup
  {exportRecords(l, rm) : l \in listLocked(cfg, [all |-> TRUE, ids |-> <<>>, tags |-> <<>>]),
                          rm \in BOOLEAN}

\* The identifiers of the items that have one, and the positions that have none.
Named(items) == {items[i].id : i \in DOMAIN items} \ {NoId}
Anonymous(items) == {i \in DOMAIN items : items[i].id = NoId}

\* The first conjunct bounds the payload by the identifiers left in Ids.
Import(items, override) ==
  /\ Cardinality(Anonymous(items)) <= Cardinality(FreshIds \ Named(items))
  /\ batch' = [i \in DOMAIN items |-> Overridden(items[i], override)]
  /\ Begin("import", {}, batch')
  /\ pc' = "importing"
  /\ reply' = "none"
  /\ UNCHANGED <<cfg, file, listening, victims>>

\* A mutant: an item without an id is stored without one.
ImportRecord_noUuid ==
  /\ pc = "importing"
  /\ batch # <<>>
  /\ cfg' = upsert(cfg, Head(batch).id, Head(batch).rec)
  /\ batch' = Tail(batch)
  /\ UNCHANGED <<file, listening, pc, victims, request, begun, reply>>

\* A mutant: the loop returns after the first item.
ImportRecord_onlyFirst ==
  /\ pc = "importing"
  /\ batch # <<>>
  /\ \E id \in IF Head(batch).id = NoId THEN FreshIds \ Named(batch) ELSE {Head(batch).id} :
       cfg' = upsert(cfg, id, Head(batch).rec)
  /\ batch' = <<>>
  /\ UNCHANGED <<file, listening, pc, victims, request, begun, reply>>

ImportRecord ==
  /\ pc = "importing"
  /\ batch # <<>>
  /\ \E id \in IF Head(batch).id = NoId THEN FreshIds \ Named(batch) ELSE {Head(batch).id} :
       cfg' = upsert(cfg, id, Head(batch).rec)
  /\ batch' = Tail(batch)
  /\ UNCHANGED <<file, listening, pc, victims, request, begun, reply>>

ImportDone == /\ pc = "importing"
              /\ batch = <<>>
              /\ pc' = "saving"
              /\ UNCHANGED <<cfg, file, listening, victims, batch, request, begun, reply>>

-----------------------------------------------------------------------------
(***************************************************************************)
(* config.save and FileConfigProvider.Save.                                *)
(***************************************************************************)
\* A mutant: the answer is sent without a save.
SaveOk_forgotten == /\ pc = "saving"
                    /\ Return("ok")
                    /\ UNCHANGED <<cfg, file, listening, victims, batch, request, begun>>

SaveOk == /\ pc = "saving"
          /\ file' = [form |-> "json", recs |-> cfg.byID]
          /\ Return("ok")
          /\ UNCHANGED <<cfg, listening, victims, batch, request, begun>>

\* The file cannot be opened, or the write fails after the truncation.
SaveFails == /\ pc = "saving"
             /\ file' \in {file, EmptyFile, TornFile}
             /\ Return("Internal")
             /\ UNCHANGED <<cfg, listening, victims, batch, request, begun>>

-----------------------------------------------------------------------------
(***************************************************************************)
(* The process dies: killed, or the panic of connectTunnelLocked below.    *)
(***************************************************************************)
Die == /\ pc' = "down"
       /\ cfg' = NewConfig
       /\ listening' = {}
       /\ victims' = <<>>
       /\ batch' = <<>>
       /\ request' = [op |-> "none", ids |-> {}, items |-> <<>>]
       /\ begun' = EmptyMap
       /\ reply' = "none"

\* In the middle of a save the file is old, truncated, partial or new.
Crash == /\ pc # "down"
         /\ \/ file' = file
            \/ /\ pc = "saving"
               /\ file' \in {EmptyFile, TornFile, [form |-> "json", recs |-> cfg.byID]}
         /\ Die

-----------------------------------------------------------------------------
(***************************************************************************)
(* Update: connectLocked and disconnectLocked, one identifier at a time.   *)
(* Only TCP listeners enter the table.  newTunnel reads a field of the     *)
(* record's Conn, which panics when Conn is nil.                           *)
(***************************************************************************)
Connect(id) ==
  /\ pc = "idle"
  /\ id \in DOMAIN cfg.byID \ listening
  /\ cfg.byID[id].conn = "tcp"
  /\ listening' = listening \cup {id}
  /\ UNCHANGED <<cfg, file, pc, victims, batch, request, begun, reply>>

ConnectPanics(id) ==
  /\ pc = "idle"
  /\ id \in DOMAIN cfg.byID \ listening
  /\ cfg.byID[id].conn = "none"
  /\ file' = file
  /\ Die

Disconnect(id) ==
  /\ pc = "idle"
  /\ id \in listening
  /\ listening' = listening \ {id}
  /\ UNCHANGED <<cfg, file, pc, victims, batch, request, begun, reply>>

-----------------------------------------------------------------------------
\* The steps of a call that has the lock, and of the start up.
ServerStep == LoadRecord \/ LoadDone \/ DeleteRecord \/ DeleteDone
              \/ ImportRecord \/ ImportDone \/ SaveOk \/ SaveFails

ClientCall ==
  \/ UpsertRejected
  \/ \E r \in Inputs : UpsertNew(r)
  \/ \E id \in Ids, r \in Inputs : UpsertExisting(id, r)
  \/ \E sel \in Selectors : DeleteRefused(sel) \/ Delete(sel)
  \/ ImportRejected
  \/ \E items \in Importable, o \in {<<>>} \cup {<<t>> : t \in Tags} : Import(items, o)
  \/ \E id \in Ids : Connect(id) \/ ConnectPanics(id) \/ Disconnect(id)

Next == Start \/ StartFails \/ ServerStep \/ ClientCall \/ Crash

Spec == Init /\ [][Next]_vars

-----------------------------------------------------------------------------
(***************************************************************************)
(* Properties.                                                             *)
(***************************************************************************)
(***************************************************************************)
(* The tag index always agrees with the records: a tag is a key of byTag   *)
(* exactly when a record has it, and lists those records as they are in    *)
(* byID.  The index is updated by clearTags, upsert and delete separately  *)
(* and rebuilt by loadConfig; listByTags, GetTags and delete rely on it    *)
(* (config.go:21 calls the opposite "a bug").                              *)
(***************************************************************************)
IndexConsistent == cfg.byTag = IndexOf(cfg.byID)

(***************************************************************************)
(* What a successful answer promised is on disk: after Upsert, Delete or   *)
(* Import answered without error, and after the start up, the file holds   *)
(* exactly the records in memory.                                          *)
(***************************************************************************)
AckedIsDurable == reply = "ok" => /\ file.form # "torn"
                                  /\ file.recs = cfg.byID

\* Delete removed the records its selector listed and nothing else, whatever
\* the selector and however the loop was ordered.
Deleted == cfg.byID = [id \in DOMAIN begun \ request.ids |-> begun[id]]

\* Upsert touched one record, stored the tags it was given and kept the
\* connection when it was given none (api.proto:14, "you may omit the Connection
\* data to just manipulate tags").
Upserted ==
  LET r == request.items[1].rec IN
  \E id \in DOMAIN cfg.byID :
     /\ cfg.byID[id].tags = r.tags
     /\ IF request.ids = {} THEN id \notin DOMAIN begun ELSE request.ids = {id}
     /\ DOMAIN cfg.byID = DOMAIN begun \cup {id}
     /\ \A o \in DOMAIN begun \ {id} : cfg.byID[o] = begun[o]
     /\ cfg.byID[id].conn = IF r.conn = "none" /\ id \in DOMAIN begun
                            THEN begun[id].conn ELSE r.conn

\* The new records under an identifier that no item of the payload names.
NewAnonymous == (DOMAIN cfg.byID \ DOMAIN begun) \ Named(request.items)

\* The first n items of an Import are stored and nothing else has changed.  A
\* record that items name has the tags of the last of them and the last connection
\* they give, or the one it had; an item without an id is a record somewhere; and
\* every new record that no item names is an item of its own.  Whether an item
\* that is among the records already is stored once more is left open: api.proto:72
\* promises "de-duplication", import_export.go:30 leaves it to be done.
ImportedUpTo(n) ==
  LET items == request.items
      Later(i) == {j \in 1..n : j > i /\ items[j].id = items[i].id}
  IN  /\ \A id \in DOMAIN begun : (\A i \in 1..n : items[i].id # id) =>
           id \in DOMAIN cfg.byID /\ cfg.byID[id] = begun[id]
      /\ \A i \in 1..n : LET id == items[i].id IN id # NoId =>
           /\ id \in DOMAIN cfg.byID
           /\ Later(i) = {} => cfg.byID[id].tags = items[i].rec.tags
           /\ items[i].rec.conn # "none" /\ (\A j \in Later(i) : items[j].rec.conn = "none") =>
                cfg.byID[id].conn = items[i].rec.conn
           /\ (\A j \in 1..n : items[j].id = id => items[j].rec.conn = "none") =>
                cfg.byID[id].conn = IF id \in DOMAIN begun THEN begun[id].conn ELSE "none"
      /\ \A i \in 1..n : items[i].id = NoId =>
           \E id \in DOMAIN cfg.byID : cfg.byID[id] = items[i].rec
      /\ \E f \in [NewAnonymous -> {i \in 1..n : items[i].id = NoId}] :
           /\ \A a, b \in NewAnonymous : f[a] = f[b] => a = b
           /\ \A id \in NewAnonymous : cfg.byID[id] = items[f[id]].rec

\* Import stored every item of the payload and touched nothing else.
Imported == ImportedUpTo(Len(request.items))

\* The configuration is what the call in progress, or the last one, had to make it.
CallDid == /\ request.op = "delete" => Deleted
           /\ request.op = "upsert" => Upserted
           /\ request.op = "import" => Imported

(***************************************************************************)
(* A call that succeeded did what it was asked for and nothing else: the   *)
(* three parts above, for Delete, Upsert and Import (config_server.go:44,  *)
(* 74 and 121).                                                            *)
(***************************************************************************)
CallsExact == reply = "ok" => CallDid

S == INSTANCE RecordStore WITH
       Records <- Record,
       phase <- CASE pc \in {"loading", "deleting", "importing"} -> "work"
                  [] pc = "saving" -> "save"
                  [] pc = "idle" -> "rest"
                  [] OTHER -> "down",
       mem   <- cfg.byID,
       disk  <- [state |-> IF file.form = "torn" THEN "lost" ELSE "whole", recs |-> file.recs],
       ans   <- IF reply \in {"none", "ok"} THEN reply ELSE "error"

(***************************************************************************)
(* The service implements the record store: whatever the loop that fails   *)
(* or the step at which the process dies, the disk has all records of the  *)
(* last save or none, never some, and a start up brings back exactly what  *)
(* is there (config.go:36-80, file_provider.go:12-28).                     *)
(***************************************************************************)
StoreImplemented == S!Spec

(***************************************************************************)
(* Only records that exist and have a connection have a listener: Delete   *)
(* disconnects what it is about to delete, and no Upsert or Import takes   *)
(* the connection away from a record that is listening.                    *)
(***************************************************************************)
ListeningHasConn ==
  \A id \in listening : id \in DOMAIN cfg.byID /\ cfg.byID[id].conn # "none"

-----------------------------------------------------------------------------
(***************************************************************************)
(* What the repository says of itself and the code does not do.            *)
(***************************************************************************)
(***************************************************************************)
(* The error "tag index inconsistent. this is a bug" (config.go:21) is     *)
(* never returned.                                                         *)
(***************************************************************************)
NoTagIndexBug == reply # "tagIndex"
=============================================================================
