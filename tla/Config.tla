------------------------------- MODULE Config -------------------------------
(***************************************************************************)
(* The in-memory configuration of the desktop API: api/config.go and the   *)
(* payload conversions of api/import_export.go.  A configuration is a pair *)
(* of maps, byID and the tag index byTag, and every method of the Go type  *)
(* is an operator from a configuration to the configuration it leaves.     *)
(*                                                                         *)
(* Go maps are functions with a finite domain.  A record is its list of    *)
(* tags and its connection; what the connection says is abstracted to the  *)
(* listener it asks for ("tcp" or "udp"), "none" being a nil Conn.         *)
(***************************************************************************)
EXTENDS Integers, Sequences, FiniteSets

CONSTANTS Ids,       \* the record identifiers (uuids)
          Tags,      \* the tags
          TagLists,  \* the tag lists a client may give to a record
          NoId       \* stands for a nil Record.Id

ASSUME ConfigAssumption == /\ TagLists \subseteq Seq(Tags)
                           /\ <<>> \in TagLists
                           /\ \A t \in Tags : <<t>> \in TagLists
                           /\ IsFiniteSet(Ids)
                           /\ NoId \notin Ids

Conns == {"none", "tcp", "udp"}

Record == [tags : TagLists, conn : Conns]

\* A Record message as a client or an import file carries it: the id is optional.
Item == [id : Ids \cup {NoId}, rec : Record]

\* The maps of Go: functions over a subset of the keys.
Map(K, V) == UNION {[D -> V] : D \in SUBSET K}

EmptyMap == [k \in {} |-> k]

Put(m, k, v) == [j \in DOMAIN m \cup {k} |-> IF j = k THEN v ELSE m[j]]

Drop(m, k) == [j \in DOMAIN m \ {k} |-> m[j]]

TagSet(r) == {r.tags[i] : i \in DOMAIN r.tags}

Configuration == [byID : Map(Ids, Record), byTag : Map(Tags, Map(Ids, Record))]

NewConfig == [byID |-> EmptyMap, byTag |-> EmptyMap]

\* No client gives a record the same tag twice.
DistinctTags == \A s \in TagLists : \A i, j \in DOMAIN s : s[i] = s[j] => i = j

-----------------------------------------------------------------------------
(***************************************************************************)
(* What the tag index is meant to be: for every tag some record has, the   *)
(* records that have it.                                                   *)
(***************************************************************************)
Tagged(byID, t) == {id \in DOMAIN byID : t \in TagSet(byID[id])}

IndexOf(byID) == [t \in {u \in Tags : Tagged(byID, u) # {}} |->
                    [id \in Tagged(byID, t) |-> byID[id]]]

-----------------------------------------------------------------------------
(***************************************************************************)
(* clearTags and delete walk the record's tags and return at the first one *)
(* whose index entry is missing, keeping the deletions made so far.  A     *)
(* position fails when the entry was never there or when an earlier        *)
(* position with the same tag has removed it.                              *)
(***************************************************************************)
ClearTagsFails(cfg, id, tags, i) ==
  \/ tags[i] \notin DOMAIN cfg.byTag
  \/ id \notin DOMAIN cfg.byTag[tags[i]]
  \/ \E j \in 1..(i-1) : tags[j] = tags[i]

\* The tags the loop of clearTags has removed id from when it returns.
ClearedTags(cfg, id, tags) ==
  {tags[i] : i \in {k \in DOMAIN tags :
                      \A j \in 1..k : ~ClearTagsFails(cfg, id, tags, j)}}

\* clearTags on a record with an id: an error, or the index without the record.
clearTagsError(cfg, id) ==
  \/ id \notin DOMAIN cfg.byID
  \/ \E i \in DOMAIN cfg.byID[id].tags :
       ClearTagsFails(cfg, id, cfg.byID[id].tags, i)

clearTags(cfg, id) ==
  IF id \notin DOMAIN cfg.byID THEN cfg
  ELSE LET gone == ClearedTags(cfg, id, cfg.byID[id].tags)
       IN  [cfg EXCEPT !.byTag = [t \in DOMAIN cfg.byTag |->
              IF t \in gone THEN Drop(cfg.byTag[t], id) ELSE cfg.byTag[t]]]

\* The record upsert stores: a nil Conn is taken from the current record.
InheritConn(cfg, id, r) ==
  IF id \in DOMAIN cfg.byID /\ r.conn = "none"
  THEN [r EXCEPT !.conn = cfg.byID[id].conn]
  ELSE r

\* The index entry of tag t once record r is stored under id.
UpsertEntry(cfg, id, r, t) ==
  LET m    == IF t \in DOMAIN cfg.byTag THEN cfg.byTag[t] ELSE EmptyMap
      kept == IF id \in DOMAIN cfg.byID /\ t \in TagSet(cfg.byID[id])
              THEN Drop(m, id) ELSE m
  IN  IF t \in TagSet(r) THEN Put(kept, id, r) ELSE kept

\* upsert of record r under identifier id (the fresh one when r.Id is nil).
upsert(cfg, id, r0) ==
  LET r == InheritConn(cfg, id, r0)
  IN  [byID  |-> Put(cfg.byID, id, r),
       byTag |-> [t \in {u \in DOMAIN cfg.byTag \cup TagSet(r) :
                           DOMAIN UpsertEntry(cfg, id, r, u) # {}} |->
                    UpsertEntry(cfg, id, r, t)]]

(***************************************************************************)
(* delete: a position fails when the tag has no map, because it never had  *)
(* one or because an earlier position with the same tag emptied and pruned *)
(* it.                                                                     *)
(***************************************************************************)
DeleteFails(cfg, id, tags, i) ==
  \/ tags[i] \notin DOMAIN cfg.byTag
  \/ /\ \E j \in 1..(i-1) : tags[j] = tags[i]
     /\ DOMAIN cfg.byTag[tags[i]] \subseteq {id}

DeletedTags(cfg, id, tags) ==
  {tags[i] : i \in {k \in DOMAIN tags :
                      \A j \in 1..k : ~DeleteFails(cfg, id, tags, j)}}

\* "" is success; "notFound" and "tagIndex" name the two errors of delete.
deleteError(cfg, id) ==
  IF id \notin DOMAIN cfg.byID THEN "notFound"
  ELSE IF \E i \in DOMAIN cfg.byID[id].tags :
            DeleteFails(cfg, id, cfg.byID[id].tags, i) THEN "tagIndex"
  ELSE ""

\* A mutant: delete leaves the emptied map of a tag in the index.
delete_noPrune(cfg, id) ==
  IF id \notin DOMAIN cfg.byID THEN cfg
  ELSE LET gone == DeletedTags(cfg, id, cfg.byID[id].tags)
       IN  [byID  |-> Drop(cfg.byID, id),
            byTag |-> [t \in DOMAIN cfg.byTag |->
              IF t \in gone THEN Drop(cfg.byTag[t], id) ELSE cfg.byTag[t]]]

delete(cfg, id) ==
  IF id \notin DOMAIN cfg.byID THEN cfg
  ELSE LET gone == DeletedTags(cfg, id, cfg.byID[id].tags)
       IN  [byID  |-> Drop(cfg.byID, id),
            byTag |-> [t \in {u \in DOMAIN cfg.byTag :
                                u \in gone => ~(DOMAIN cfg.byTag[u] \subseteq {id})} |->
              IF t \in gone THEN Drop(cfg.byTag[t], id) ELSE cfg.byTag[t]]]

-----------------------------------------------------------------------------
(***************************************************************************)
(* Selectors.  listLocked gives "all" precedence over ids over tags; a     *)
(* listing is a sequence of records with their identifiers, in an order    *)
(* that map iteration leaves open.                                         *)
(***************************************************************************)
Selector == [all : BOOLEAN, ids : Seq(Ids), tags : Seq(Tags)]

\* Every order in which Go may iterate over the keys of a map.
Orders(S) == {s \in [1..Cardinality(S) -> S] : \A x \in S : \E i \in DOMAIN s : s[i] = x}

\* The entries of a map as items.
Entries(m) == {[id |-> id, rec |-> m[id]] : id \in DOMAIN m}

\* The records under the selected tags, the tags one after the other.  A record
\* with two of them is listed twice.
listByTags(cfg, tags) ==
  LET hits == UNION {{k} \X Entries(cfg.byTag[tags[k]]) : k \in DOMAIN tags}
  IN  {[i \in DOMAIN h |-> h[i][2]] :
         h \in {o \in Orders(hits) : \A i, j \in DOMAIN o : i < j => o[i][1] <= o[j][1]}}

listByIDs(cfg, ids) == [i \in DOMAIN ids |-> [id |-> ids[i], rec |-> cfg.byID[ids[i]]]]

\* The error of listLocked, "" when there is none.
listError(cfg, sel) ==
  IF sel.all THEN ""
  ELSE IF sel.ids # <<>>
    THEN IF \E i \in DOMAIN sel.ids : sel.ids[i] \notin DOMAIN cfg.byID
         THEN "NotFound" ELSE ""
  ELSE IF sel.tags # <<>>
    THEN IF \E i \in DOMAIN sel.tags : sel.tags[i] \notin DOMAIN cfg.byTag
         THEN "NotFound" ELSE ""
  ELSE "InvalidArgument"

\* The possible results of listLocked when there is no error.
listLocked(cfg, sel) ==
  IF sel.all THEN Orders(Entries(cfg.byID))
  ELSE IF sel.ids # <<>> THEN {listByIDs(cfg, sel.ids)}
  ELSE listByTags(cfg, sel.tags)

\* getTags skips the tags whose map is empty.
getTags(cfg) == {t \in DOMAIN cfg.byTag : DOMAIN cfg.byTag[t] # {}}

-----------------------------------------------------------------------------
(***************************************************************************)
(* Export and import payloads are sequences of items: the JSON text is     *)
(* abstracted, what exportRecords and importRecords change is not.         *)
(***************************************************************************)
exportRecords(listing, removeTags) ==
  [i \in DOMAIN listing |->
     [id  |-> NoId,
      rec |-> [listing[i].rec EXCEPT !.tags = IF removeTags THEN <<>> ELSE @]]]

\* What importRecords does to one item before the upsert: an OverrideTag, given
\* as a sequence of at most one tag, replaces the item's tags.
Overridden(item, override) ==
  IF override = <<>> THEN item ELSE [item EXCEPT !.rec.tags = override]
=============================================================================
