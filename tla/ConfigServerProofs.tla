------------------------- MODULE ConfigServerProofs -------------------------
(***************************************************************************)
(* The safety of ConfigServer for every set of identifiers, tags, records, *)
(* selectors and payloads.  First what the methods of config.go preserve:  *)
(* the types of the two maps and the agreement of the tag index with the   *)
(* records.  Then the steps of the service.                                *)
(***************************************************************************)
EXTENDS ConfigServer, FiniteSetTheorems, TLAPS

-----------------------------------------------------------------------------
(***************************************************************************)
(* The configuration.                                                      *)
(***************************************************************************)
\* A Go map keeps its type when an entry is set.
LEMMA PutType ==
  ASSUME NEW K, NEW V, NEW m \in Map(K, V), NEW k \in K, NEW v \in V
  PROVE  Put(m, k, v) \in Map(K, V)
  <1>1. PICK D \in SUBSET K : m \in [D -> V]
    BY DEF Map
  <1>2. Put(m, k, v) \in [D \cup {k} -> V]
    BY <1>1 DEF Put
  <1> QED
    BY <1>1, <1>2 DEF Map

\* A Go map keeps its type when an entry is deleted.
LEMMA DropType ==
  ASSUME NEW K, NEW V, NEW m \in Map(K, V), NEW k
  PROVE  Drop(m, k) \in Map(K, V)
  <1>1. PICK D \in SUBSET K : m \in [D -> V]
    BY DEF Map
  <1>2. Drop(m, k) \in [D \ {k} -> V]
    BY <1>1 DEF Drop
  <1> QED
    BY <1>1, <1>2 DEF Map

\* The empty map has every type.
LEMMA EmptyMapType ==
  ASSUME NEW K, NEW V
  PROVE  EmptyMap \in Map(K, V)
  <1>1. EmptyMap \in [{} -> V]
    BY DEF EmptyMap
  <1> QED
    BY <1>1 DEF Map

\* The entries of the index are maps of records.
LEMMA ByTagType ==
  ASSUME NEW c \in Configuration, NEW t \in DOMAIN c.byTag
  PROVE  t \in Tags /\ c.byTag[t] \in Map(Ids, Record)
  <1>1. c.byTag \in Map(Tags, Map(Ids, Record))
    BY DEF Configuration
  <1> QED
    BY <1>1 DEF Map

\* The tags of a record are tags.
LEMMA TagSetType ==
  ASSUME NEW r \in Record
  PROVE  TagSet(r) \subseteq Tags
  <1>1. r.tags \in Seq(Tags)
    BY ConfigAssumption DEF Record
  <1> QED
    BY <1>1 DEF TagSet

\* Inheriting the connection gives a record with the tags of the request.
LEMMA InheritConnType ==
  ASSUME NEW c \in Configuration, NEW id \in Ids, NEW r \in Record
  PROVE  /\ InheritConn(c, id, r) \in Record
         /\ InheritConn(c, id, r).tags = r.tags
  <1>1. CASE id \in DOMAIN c.byID /\ r.conn = "none"
    <2>1. c.byID[id] \in Record
      BY <1>1 DEF Configuration, Map
    <2> QED
      BY <1>1, <2>1 DEF InheritConn, Record
  <1>2. CASE ~(id \in DOMAIN c.byID /\ r.conn = "none")
    BY <1>2 DEF InheritConn
  <1> QED
    BY <1>1, <1>2

\* An entry of the index keeps its type in upsert.
LEMMA UpsertEntryType ==
  ASSUME NEW c \in Configuration, NEW id \in Ids, NEW r \in Record, NEW t \in Tags
  PROVE  UpsertEntry(c, id, r, t) \in Map(Ids, Record)
  <1> DEFINE m == IF t \in DOMAIN c.byTag THEN c.byTag[t] ELSE EmptyMap
             kept == IF id \in DOMAIN c.byID /\ t \in TagSet(c.byID[id])
                     THEN Drop(m, id) ELSE m
  <1>1. m \in Map(Ids, Record)
    <2>1. t \in DOMAIN c.byTag => c.byTag[t] \in Map(Ids, Record)
      BY ByTagType
    <2> QED
      BY <2>1, EmptyMapType
  <1>2. kept \in Map(Ids, Record)
    <2>1. Drop(m, id) \in Map(Ids, Record)
      BY <1>1, DropType
    <2> QED
      BY <1>1, <2>1
  <1>3. Put(kept, id, r) \in Map(Ids, Record)
    BY <1>2, PutType
  <1> QED
    BY <1>2, <1>3 DEF UpsertEntry

\* upsert leaves a configuration.
LEMMA UpsertType ==
  ASSUME NEW c \in Configuration, NEW id \in Ids, NEW r \in Record
  PROVE  upsert(c, id, r) \in Configuration
  <1> DEFINE s == InheritConn(c, id, r)
             new == upsert(c, id, r)
             D == {u \in DOMAIN c.byTag \cup TagSet(s) :
                     DOMAIN UpsertEntry(c, id, s, u) # {}}
  <1>1. s \in Record
    BY InheritConnType
  <1>2. new = [byID |-> Put(c.byID, id, s),
               byTag |-> [t \in D |-> UpsertEntry(c, id, s, t)]]
    BY DEF upsert
  <1>3. Put(c.byID, id, s) \in Map(Ids, Record)
    BY <1>1, PutType DEF Configuration
  <1>4. D \subseteq Tags
    <2>1. DOMAIN c.byTag \subseteq Tags
      BY DEF Configuration, Map
    <2> QED
      BY <1>1, <2>1, TagSetType
  <1>5. [t \in D |-> UpsertEntry(c, id, s, t)] \in [D -> Map(Ids, Record)]
    BY <1>1, <1>4, UpsertEntryType
  <1>6. [t \in D |-> UpsertEntry(c, id, s, t)] \in Map(Tags, Map(Ids, Record))
    BY <1>4, <1>5 DEF Map
  <1> QED
    BY <1>2, <1>3, <1>6 DEF Configuration

\* delete leaves a configuration.
LEMMA DeleteType ==
  ASSUME NEW c \in Configuration, NEW id
  PROVE  delete(c, id) \in Configuration
  <1>1. CASE id \notin DOMAIN c.byID
    BY <1>1 DEF delete
  <1>2. CASE id \in DOMAIN c.byID
    <2> DEFINE gone == DeletedTags(c, id, c.byID[id].tags)
               D == {u \in DOMAIN c.byTag :
                       u \in gone => ~(DOMAIN c.byTag[u] \subseteq {id})}
               f == [t \in D |-> IF t \in gone THEN Drop(c.byTag[t], id) ELSE c.byTag[t]]
    <2>1. Drop(c.byID, id) \in Map(Ids, Record)
      BY DropType DEF Configuration
    <2>2. \A t \in DOMAIN c.byTag : c.byTag[t] \in Map(Ids, Record)
      BY ByTagType
    <2>3. \A t \in DOMAIN c.byTag : Drop(c.byTag[t], id) \in Map(Ids, Record)
      BY <2>2, DropType
    <2>4. f \in [D -> Map(Ids, Record)]
      BY <2>2, <2>3
    <2>5. D \subseteq Tags
      BY DEF Configuration, Map
    <2>6. f \in Map(Tags, Map(Ids, Record))
      BY <2>4, <2>5 DEF Map
    <2>7. delete(c, id) = [byID |-> Drop(c.byID, id), byTag |-> f]
      BY <1>2 DEF delete
    <2> QED
      BY <2>1, <2>6, <2>7 DEF Configuration
  <1> QED
    BY <1>1, <1>2

\* clearTags leaves a configuration and the same records.
LEMMA ClearTagsType ==
  ASSUME NEW c \in Configuration, NEW id
  PROVE  /\ clearTags(c, id) \in Configuration
         /\ clearTags(c, id).byID = c.byID
  <1>1. CASE id \notin DOMAIN c.byID
    BY <1>1 DEF clearTags
  <1>2. CASE id \in DOMAIN c.byID
    <2> DEFINE gone == ClearedTags(c, id, c.byID[id].tags)
               D == DOMAIN c.byTag
               f == [t \in D |-> IF t \in gone THEN Drop(c.byTag[t], id) ELSE c.byTag[t]]
    <2>2. \A t \in DOMAIN c.byTag : c.byTag[t] \in Map(Ids, Record)
      BY ByTagType
    <2>3. \A t \in DOMAIN c.byTag : Drop(c.byTag[t], id) \in Map(Ids, Record)
      BY <2>2, DropType
    <2>4. f \in [D -> Map(Ids, Record)]
      BY <2>2, <2>3
    <2>5. D \subseteq Tags
      BY DEF Configuration, Map
    <2>6. f \in Map(Tags, Map(Ids, Record))
      BY <2>4, <2>5 DEF Map
    <2>7. clearTags(c, id) = [c EXCEPT !.byTag = f]
      BY <1>2 DEF clearTags
    <2> QED
      BY <2>6, <2>7 DEF Configuration
  <1> QED
    BY <1>1, <1>2
-----------------------------------------------------------------------------
(***************************************************************************)
(* The tag index.  clearTags takes a record out of the index before upsert *)
(* puts it back, so upsert is proved right from the weaker fact that the   *)
(* index is right for every other record and lists this one at most where  *)
(* its current tags say.                                                   *)
(***************************************************************************)
Indexed(c, t) == IF t \in DOMAIN c.byTag THEN c.byTag[t] ELSE EmptyMap

AgreesBut(c, id) ==
  \A t \in Tags :
    /\ DOMAIN Indexed(c, t) \subseteq Tagged(c.byID, t)
    /\ Tagged(c.byID, t) \ {id} \subseteq DOMAIN Indexed(c, t)
    /\ \A o \in Tagged(c.byID, t) \ {id} : Indexed(c, t)[o] = c.byID[o]

\* A right index is right for every other record.
LEMMA IndexAgrees ==
  ASSUME NEW c \in Configuration, c.byTag = IndexOf(c.byID), NEW id
  PROVE  AgreesBut(c, id)
  <1> SUFFICES ASSUME NEW t \in Tags
               PROVE  /\ DOMAIN Indexed(c, t) = Tagged(c.byID, t)
                      /\ \A o \in Tagged(c.byID, t) : Indexed(c, t)[o] = c.byID[o]
    BY DEF AgreesBut
  <1>1. CASE Tagged(c.byID, t) = {}
    BY <1>1 DEF Indexed, IndexOf, EmptyMap
  <1>2. CASE Tagged(c.byID, t) # {}
    <2>1. t \in DOMAIN c.byTag /\ c.byTag[t] = [o \in Tagged(c.byID, t) |-> c.byID[o]]
      BY <1>2 DEF IndexOf
    <2> QED
      BY <2>1 DEF Indexed
  <1> QED
    BY <1>1, <1>2

\* The entry upsert computes for a tag lists the records that then have it.
LEMMA UpsertEntryRight ==
  ASSUME NEW c \in Configuration, NEW id \in Ids, NEW s \in Record,
         AgreesBut(c, id), NEW t \in Tags
  PROVE  UpsertEntry(c, id, s, t) =
           [o \in Tagged(Put(c.byID, id, s), t) |-> Put(c.byID, id, s)[o]]
  <1> DEFINE m == Indexed(c, t)
             kept == IF id \in DOMAIN c.byID /\ t \in TagSet(c.byID[id])
                     THEN Drop(m, id) ELSE m
             new == Put(c.byID, id, s)
  <1>1. UpsertEntry(c, id, s, t) = IF t \in TagSet(s) THEN Put(kept, id, s) ELSE kept
    BY DEF UpsertEntry, Indexed
  <1>2. /\ DOMAIN m \subseteq Tagged(c.byID, t)
        /\ Tagged(c.byID, t) \ {id} \subseteq DOMAIN m
        /\ \A o \in Tagged(c.byID, t) \ {id} : m[o] = c.byID[o]
    BY DEF AgreesBut
  <1>3. m \in Map(Ids, Record)
    <2>1. t \in DOMAIN c.byTag => c.byTag[t] \in Map(Ids, Record)
      BY ByTagType
    <2> QED
      BY <2>1, EmptyMapType DEF Indexed
  <1>4. kept = [o \in Tagged(c.byID, t) \ {id} |-> c.byID[o]]
    <2>1. CASE id \in Tagged(c.byID, t)
      <3>1. kept = Drop(m, id)
        BY <2>1 DEF Tagged
      <3>2. DOMAIN m \ {id} = Tagged(c.byID, t) \ {id}
        BY <1>2
      <3> QED
        BY <1>2, <3>1, <3>2 DEF Drop
    <2>2. CASE id \notin Tagged(c.byID, t)
      <3>1. kept = m
        BY <2>2 DEF Tagged
      <3>2. DOMAIN m = Tagged(c.byID, t) \ {id}
        BY <1>2, <2>2
      <3>3. m = [o \in DOMAIN m |-> m[o]]
        BY <1>3 DEF Map
      <3> QED
        BY <1>2, <3>1, <3>2, <3>3
    <2> QED
      BY <2>1, <2>2
  <1>5. CASE t \in TagSet(s)
    <2>1. Tagged(new, t) = Tagged(c.byID, t) \cup {id}
      BY <1>5 DEF Tagged, Put
    <2>2. DOMAIN kept \cup {id} = Tagged(new, t)
      BY <1>4, <2>1
    <2>3. \A o \in Tagged(new, t) : (IF o = id THEN s ELSE kept[o]) = new[o]
      BY <1>4, <2>1 DEF Put, Tagged
    <2>4. Put(kept, id, s) = [o \in DOMAIN kept \cup {id} |-> IF o = id THEN s ELSE kept[o]]
      BY DEF Put
    <2> HIDE DEF kept, new
    <2>5. Put(kept, id, s) = [o \in Tagged(new, t) |-> new[o]]
      BY <2>2, <2>3, <2>4
    <2> QED
      BY <1>1, <1>5, <2>5 DEF new, kept
  <1>6. CASE t \notin TagSet(s)
    <2>1. Tagged(new, t) = Tagged(c.byID, t) \ {id}
      BY <1>6 DEF Tagged, Put
    <2>2. \A o \in Tagged(new, t) : c.byID[o] = new[o]
      BY <2>1 DEF Put, Tagged
    <2> QED
      BY <1>1, <1>4, <1>6, <2>1, <2>2
  <1> QED
    BY <1>5, <1>6

\* upsert leaves a right index.
LEMMA UpsertIndex ==
  ASSUME NEW c \in Configuration, NEW id \in Ids, NEW r \in Record, AgreesBut(c, id)
  PROVE  upsert(c, id, r).byTag = IndexOf(upsert(c, id, r).byID)
  <1> DEFINE s == InheritConn(c, id, r)
             new == Put(c.byID, id, s)
             D == {u \in DOMAIN c.byTag \cup TagSet(s) :
                     DOMAIN UpsertEntry(c, id, s, u) # {}}
  <1>1. s \in Record
    BY InheritConnType
  <1>2. /\ upsert(c, id, r).byID = new
        /\ upsert(c, id, r).byTag = [t \in D |-> UpsertEntry(c, id, s, t)]
    BY DEF upsert
  <1>3. \A t \in Tags : UpsertEntry(c, id, s, t) = [o \in Tagged(new, t) |-> new[o]]
    BY <1>1, UpsertEntryRight
  <1>4. DOMAIN c.byTag \cup TagSet(s) \subseteq Tags
    BY <1>1, TagSetType DEF Configuration, Map
  <1>5. \A t \in Tags : Tagged(new, t) # {} => t \in DOMAIN c.byTag \cup TagSet(s)
    <2> SUFFICES ASSUME NEW t \in Tags, t \notin DOMAIN c.byTag, t \notin TagSet(s)
                 PROVE  Tagged(new, t) = {}
      OBVIOUS
    <2>1. DOMAIN UpsertEntry(c, id, s, t) = {}
      BY DEF UpsertEntry, Drop, EmptyMap
    <2> QED
      BY <1>3, <2>1
  <1>6. D = {u \in Tags : Tagged(new, u) # {}}
    BY <1>3, <1>4, <1>5
  <1>7. [t \in D |-> UpsertEntry(c, id, s, t)] = [t \in D |-> [o \in Tagged(new, t) |-> new[o]]]
    BY <1>3, <1>4
  <1> QED
    BY <1>2, <1>6, <1>7 DEF IndexOf
\* clearTags takes nothing out of the index but the record.
LEMMA ClearTagsAgrees ==
  ASSUME NEW c \in Configuration, NEW id \in Ids, c.byTag = IndexOf(c.byID)
  PROVE  AgreesBut(clearTags(c, id), id)
  <1> DEFINE gone == ClearedTags(c, id, c.byID[id].tags)
             new == clearTags(c, id)
  <1>1. AgreesBut(c, id)
    BY IndexAgrees
  <1>2. CASE id \notin DOMAIN c.byID
    BY <1>1, <1>2 DEF clearTags
  <1>3. CASE id \in DOMAIN c.byID
    <2>1. new.byID = c.byID
      BY ClearTagsType
    <2>2. new.byTag = [t \in DOMAIN c.byTag |->
                         IF t \in gone THEN Drop(c.byTag[t], id) ELSE c.byTag[t]]
      BY <1>3 DEF clearTags, Configuration
    <2>3. \A t \in Tags : \/ Indexed(new, t) = Indexed(c, t)
                          \/ Indexed(new, t) = Drop(Indexed(c, t), id)
      BY <2>2 DEF Indexed
    <2>4. SUFFICES ASSUME NEW t \in Tags
                   PROVE  /\ DOMAIN Indexed(new, t) \subseteq Tagged(c.byID, t)
                          /\ Tagged(c.byID, t) \ {id} \subseteq DOMAIN Indexed(new, t)
                          /\ \A o \in Tagged(c.byID, t) \ {id} : Indexed(new, t)[o] = c.byID[o]
      BY <2>1 DEF AgreesBut
    <2> HIDE DEF new
    <2>5. /\ DOMAIN Indexed(c, t) \subseteq Tagged(c.byID, t)
          /\ Tagged(c.byID, t) \ {id} \subseteq DOMAIN Indexed(c, t)
          /\ \A o \in Tagged(c.byID, t) \ {id} : Indexed(c, t)[o] = c.byID[o]
      BY <1>1 DEF AgreesBut
    <2>6. CASE Indexed(new, t) = Indexed(c, t)
      BY <2>5, <2>6
    <2>7. CASE Indexed(new, t) = Drop(Indexed(c, t), id)
      BY <2>5, <2>7 DEF Drop
    <2> QED
      BY <2>3, <2>6, <2>7
  <1> QED
    BY <1>2, <1>3

\* With a right index, the tags of a record are keys of it and list the record.
LEMMA OwnTagsIndexed ==
  ASSUME NEW c \in Configuration, c.byTag = IndexOf(c.byID),
         NEW id \in DOMAIN c.byID, NEW i \in DOMAIN c.byID[id].tags
  PROVE  /\ c.byID[id] \in Record
         /\ c.byID[id].tags[i] \in DOMAIN c.byTag
         /\ id \in DOMAIN c.byTag[c.byID[id].tags[i]]
  <1> DEFINE t == c.byID[id].tags[i]
  <1>1. c.byID[id] \in Record
    BY DEF Configuration, Map
  <1>2. t \in TagSet(c.byID[id])
    BY DEF TagSet
  <1>3. t \in Tags /\ id \in Tagged(c.byID, t)
    BY <1>1, <1>2, TagSetType DEF Tagged
  <1> HIDE DEF t
  <1>4. t \in DOMAIN c.byTag /\ DOMAIN c.byTag[t] = Tagged(c.byID, t)
    BY <1>3 DEF IndexOf
  <1> QED
    BY <1>1, <1>3, <1>4 DEF t

\* With a right index and no repeated tags, clearTags fails for unknown records only.
LEMMA ClearTagsNoError ==
  ASSUME NEW c \in Configuration, c.byTag = IndexOf(c.byID), DistinctTags,
         NEW id \in DOMAIN c.byID
  PROVE  ~clearTagsError(c, id)
  <1> SUFFICES ASSUME NEW i \in DOMAIN c.byID[id].tags
               PROVE  ~ClearTagsFails(c, id, c.byID[id].tags, i)
    BY DEF clearTagsError
  <1>1. c.byID[id].tags \in TagLists
    BY OwnTagsIndexed DEF Record
  <1>2. c.byID[id].tags \in Seq(Tags)
    BY <1>1, ConfigAssumption
  <1>3. \A j \in 1..(i-1) : c.byID[id].tags[j] # c.byID[id].tags[i]
    BY <1>1, <1>2 DEF DistinctTags
  <1> QED
    BY <1>3, OwnTagsIndexed DEF ClearTagsFails

\* With a right index and no repeated tags, delete finds every map it looks for
\* and walks all the tags of the record.
LEMMA DeleteNoError ==
  ASSUME NEW c \in Configuration, c.byTag = IndexOf(c.byID), DistinctTags,
         NEW id \in DOMAIN c.byID
  PROVE  /\ deleteError(c, id) = ""
         /\ DeletedTags(c, id, c.byID[id].tags) = TagSet(c.byID[id])
  <1> DEFINE tags == c.byID[id].tags
  <1>1. \A i \in DOMAIN tags : ~DeleteFails(c, id, tags, i)
    <2> SUFFICES ASSUME NEW i \in DOMAIN tags
                 PROVE  ~DeleteFails(c, id, tags, i)
      OBVIOUS
    <2>1. tags \in TagLists
      BY OwnTagsIndexed DEF Record
    <2>2. tags \in Seq(Tags)
      BY <2>1, ConfigAssumption
    <2>3. \A j \in 1..(i-1) : tags[j] # tags[i]
      BY <2>1, <2>2 DEF DistinctTags
    <2> QED
      BY <2>3, OwnTagsIndexed DEF DeleteFails
  <1>2. deleteError(c, id) = ""
    BY <1>1 DEF deleteError
  <1>3. tags \in Seq(Tags)
    <2>1. c.byID[id] \in Record
      BY DEF Configuration, Map
    <2> QED
      BY <2>1, ConfigAssumption DEF Record
  <1>4. \A k \in DOMAIN tags : \A j \in 1..k : ~DeleteFails(c, id, tags, j)
    <2> HIDE DEF tags
    <2>1. \A k \in DOMAIN tags : \A j \in 1..k : j \in DOMAIN tags
      BY <1>3
    <2> QED
      BY <1>1, <2>1
  <1> QED
    BY <1>2, <1>4 DEF DeletedTags, TagSet

\* delete leaves a right index.
LEMMA DeleteIndex ==
  ASSUME NEW c \in Configuration, c.byTag = IndexOf(c.byID), DistinctTags, NEW id
  PROVE  delete(c, id).byTag = IndexOf(delete(c, id).byID)
  <1>1. CASE id \notin DOMAIN c.byID
    BY <1>1 DEF delete
  <1>2. CASE id \in DOMAIN c.byID
    <2> DEFINE gone == TagSet(c.byID[id])
               new == Drop(c.byID, id)
               D == {u \in DOMAIN c.byTag :
                       u \in gone => ~(DOMAIN c.byTag[u] \subseteq {id})}
    <2>1. /\ delete(c, id).byID = new
          /\ delete(c, id).byTag = [t \in D |->
               IF t \in gone THEN Drop(c.byTag[t], id) ELSE c.byTag[t]]
      BY <1>2, DeleteNoError DEF delete
    <2>2. \A t \in Tags : Tagged(new, t) = Tagged(c.byID, t) \ {id}
      BY DEF Tagged, Drop
    <2>3. \A t \in Tags : t \in gone <=> id \in Tagged(c.byID, t)
      BY <1>2 DEF Tagged
    <2>4. \A t \in DOMAIN c.byTag :
             /\ t \in Tags
             /\ DOMAIN c.byTag[t] = Tagged(c.byID, t)
             /\ c.byTag[t] = [o \in Tagged(c.byID, t) |-> c.byID[o]]
      BY DEF IndexOf
    <2>5. \A t \in Tags : t \in DOMAIN c.byTag <=> Tagged(c.byID, t) # {}
      BY DEF IndexOf
    <2>6. D = {u \in Tags : Tagged(new, u) # {}}
      <3>1. D \subseteq Tags
        BY <2>4
      <3>2. ASSUME NEW u \in Tags
            PROVE  u \in D <=> Tagged(new, u) # {}
        <4>1. CASE Tagged(c.byID, u) = {}
          BY <2>2, <2>5, <4>1
        <4>2. CASE Tagged(c.byID, u) # {}
          <5>1. u \in DOMAIN c.byTag /\ DOMAIN c.byTag[u] = Tagged(c.byID, u)
            BY <2>4, <2>5, <4>2
          <5>2. u \in D <=> (u \in gone => ~(Tagged(c.byID, u) \subseteq {id}))
            BY <5>1
          <5> QED
            BY <2>2, <2>3, <4>2, <5>2
        <4> QED
          BY <4>1, <4>2
      <3> QED
        BY <3>1, <3>2
    <2>7. ASSUME NEW t \in D
          PROVE  (IF t \in gone THEN Drop(c.byTag[t], id) ELSE c.byTag[t])
                   = [o \in Tagged(new, t) |-> new[o]]
      <3>1. t \in Tags
        BY <2>4
      <3>2. \A o \in Tagged(new, t) : new[o] = c.byID[o]
        BY DEF Drop, Tagged
      <3>3. CASE t \in gone
        <4>1. Drop(c.byTag[t], id) = [o \in Tagged(c.byID, t) \ {id} |-> c.byID[o]]
          BY <2>4 DEF Drop
        <4> QED
          BY <2>2, <3>1, <3>2, <3>3, <4>1
      <3>4. CASE t \notin gone
        <4>1. Tagged(new, t) = Tagged(c.byID, t)
          BY <2>2, <2>3, <3>1, <3>4
        <4> QED
          BY <2>4, <3>2, <3>4, <4>1
      <3> QED
        BY <3>3, <3>4
    <2>8. delete(c, id).byTag = [t \in D |-> [o \in Tagged(new, t) |-> new[o]]]
      BY <2>1, <2>7
    <2>9. IndexOf(new) = [t \in {u \in Tags : Tagged(new, u) # {}} |->
                            [o \in Tagged(new, t) |-> new[o]]]
      BY DEF IndexOf
    <2> HIDE DEF D, new
    <2> QED
      BY <2>1, <2>6, <2>8, <2>9
  <1> QED
    BY <1>1, <1>2
-----------------------------------------------------------------------------
(***************************************************************************)
(* Listings and payloads are sequences of items.                           *)
(***************************************************************************)
\* A function over the positions of a sequence is a sequence.
LEMMA SameLength ==
  ASSUME NEW D, NEW T, NEW s \in Seq(D), NEW g \in [DOMAIN s -> T]
  PROVE  g \in Seq(T)
  <1>1. DOMAIN s = 1..Len(s) /\ Len(s) \in Nat
    OBVIOUS
  <1>2. g \in [1..Len(s) -> T]
    BY <1>1
  <1> QED
    BY <1>1, <1>2

\* The elements of a sequence over D are in D.
LEMMA ElementsOf ==
  ASSUME NEW D, NEW s \in Seq(D)
  PROVE  s \in [DOMAIN s -> D]
  <1>1. s \in [1..Len(s) -> D]
    OBVIOUS
  <1> QED
    BY <1>1

\* An iteration over a finite map is a sequence.
LEMMA OrdersType ==
  ASSUME NEW D, IsFiniteSet(D), NEW o \in Orders(D)
  PROVE  o \in Seq(D)
  <1>1. Cardinality(D) \in Nat
    BY FS_CardinalityType
  <1>2. o \in [1..Cardinality(D) -> D]
    BY DEF Orders
  <1> QED
    BY <1>1, <1>2

\* The entries of a map of records are finitely many items.
LEMMA EntriesType ==
  ASSUME NEW m \in Map(Ids, Record)
  PROVE  /\ Entries(m) \subseteq Item
         /\ IsFiniteSet(Entries(m))
  <1>1. /\ DOMAIN m \subseteq Ids
        /\ \A id \in DOMAIN m : m[id] \in Record
    BY DEF Map
  <1>2. IsFiniteSet(DOMAIN m)
    BY <1>1, ConfigAssumption, FS_Subset
  <1> DEFINE f == [id \in DOMAIN m |-> [id |-> id, rec |-> m[id]]]
  <1>3. f \in Surjection(DOMAIN m, Entries(m))
    BY DEF Surjection, Entries
  <1>4. IsFiniteSet(Entries(m))
    BY <1>2, <1>3, FS_Surjection
  <1> QED
    BY <1>1, <1>4 DEF Entries, Item

\* listByTags lists items.
LEMMA ListByTagsType ==
  ASSUME NEW c \in Configuration, NEW tags \in Seq(Tags),
         \A i \in DOMAIN tags : tags[i] \in DOMAIN c.byTag,
         NEW l \in listByTags(c, tags)
  PROVE  l \in Seq(Item)
  <1> DEFINE E(k) == Entries(c.byTag[tags[k]])
             hits == UNION {{k} \X E(k) : k \in DOMAIN tags}
             P == {p \in (DOMAIN tags) \X Ids : p[2] \in DOMAIN c.byTag[tags[p[1]]]}
             f == [p \in P |-> <<p[1], [id |-> p[2], rec |-> c.byTag[tags[p[1]]][p[2]]]>>]
  <1>1. \A k \in DOMAIN tags : c.byTag[tags[k]] \in Map(Ids, Record)
    BY ByTagType
  <1>2. \A k \in DOMAIN tags : E(k) \subseteq Item /\ IsFiniteSet(E(k))
    BY <1>1, EntriesType
  <1>3. IsFiniteSet(P)
    <2>1. IsFiniteSet(1..Len(tags))
      BY FS_Interval
    <2>2. DOMAIN tags = 1..Len(tags)
      OBVIOUS
    <2>3. IsFiniteSet((DOMAIN tags) \X Ids)
      BY <2>1, <2>2, ConfigAssumption, FS_Product
    <2> QED
      BY <2>3, FS_Subset
  <1>4. f \in Surjection(P, hits)
    <2>1. \A k \in DOMAIN tags : DOMAIN c.byTag[tags[k]] \subseteq Ids
      BY <1>1 DEF Map
    <2>2. f \in [P -> hits]
      BY DEF Entries
    <2>3. ASSUME NEW h \in hits
          PROVE  \E p \in P : f[p] = h
      <3>1. PICK k \in DOMAIN tags : h \in {k} \X E(k)
        OBVIOUS
      <3>2. PICK id \in DOMAIN c.byTag[tags[k]] :
               h = <<k, [id |-> id, rec |-> c.byTag[tags[k]][id]]>>
        BY <3>1 DEF Entries
      <3>3. <<k, id>> \in P
        BY <2>1
      <3> QED
        BY <3>2, <3>3
    <2> QED
      BY <2>2, <2>3 DEF Surjection
  <1>5. IsFiniteSet(hits)
    BY <1>3, <1>4, FS_Surjection
  <1>6. PICK h \in Orders(hits) : l = [i \in DOMAIN h |-> h[i][2]]
    BY DEF listByTags
  <1>7. h \in Seq(hits)
    BY <1>5, OrdersType
  <1>8. \A x \in hits : x[2] \in Item
    BY <1>2
  <1> HIDE DEF hits
  <1>9. \A i \in DOMAIN h : h[i][2] \in Item
    BY <1>7, <1>8
  <1> QED
    BY <1>6, <1>7, <1>9

\* listLocked lists items.
LEMMA ListLockedType ==
  ASSUME NEW c \in Configuration, NEW sel \in Selector, listError(c, sel) = "",
         NEW l \in listLocked(c, sel)
  PROVE  l \in Seq(Item)
  <1>1. c.byID \in Map(Ids, Record)
    BY DEF Configuration
  <1>2. CASE sel.all
    <2>1. l \in Orders(Entries(c.byID))
      BY <1>2 DEF listLocked
    <2>2. l \in Seq(Entries(c.byID))
      BY <1>1, <2>1, EntriesType, OrdersType
    <2>3. l \in [DOMAIN l -> Entries(c.byID)]
      BY <2>2, ElementsOf
    <2>4. l \in [DOMAIN l -> Item]
      BY <1>1, <2>3, EntriesType
    <2> QED
      BY <2>2, <2>4, SameLength
  <1>3. CASE ~sel.all /\ sel.ids # <<>>
    <2>1. \A i \in DOMAIN sel.ids : sel.ids[i] \in DOMAIN c.byID
      BY <1>3 DEF listError
    <2>2. l = [i \in DOMAIN sel.ids |-> [id |-> sel.ids[i], rec |-> c.byID[sel.ids[i]]]]
      BY <1>3 DEF listLocked, listByIDs
    <2>3. sel.ids \in Seq(Ids)
      BY DEF Selector
    <2>4. \A i \in DOMAIN sel.ids :
            [id |-> sel.ids[i], rec |-> c.byID[sel.ids[i]]] \in Item
      <3>1. \A id \in DOMAIN c.byID : id \in Ids /\ c.byID[id] \in Record
        BY <1>1 DEF Map
      <3> QED
        BY <2>1, <3>1 DEF Item
    <2>5. l \in [DOMAIN sel.ids -> Item]
      BY <2>2, <2>4
    <2> QED
      BY <2>3, <2>5, SameLength
  <1>4. CASE ~sel.all /\ sel.ids = <<>>
    <2>1. sel.tags # <<>> /\ \A i \in DOMAIN sel.tags : sel.tags[i] \in DOMAIN c.byTag
      BY <1>4 DEF listError
    <2>2. l \in listByTags(c, sel.tags)
      BY <1>4 DEF listLocked
    <2>3. sel.tags \in Seq(Tags)
      BY DEF Selector
    <2> QED
      BY <2>1, <2>2, <2>3, ListByTagsType
  <1> QED
    BY <1>2, <1>3, <1>4

\* Every record of a listing has an identifier.
LEMMA ListedHaveIds ==
  ASSUME NEW c \in Configuration, NEW sel \in Selector, listError(c, sel) = "",
         NEW l \in listLocked(c, sel), NEW i \in DOMAIN l
  PROVE  l[i].id \in Ids
  <1>1. ASSUME NEW m \in Map(Ids, Record), NEW x \in Entries(m)
        PROVE  x.id \in Ids
    <2>1. DOMAIN m \subseteq Ids
      BY DEF Map
    <2>2. PICK k \in DOMAIN m : x = [id |-> k, rec |-> m[k]]
      BY DEF Entries
    <2> QED
      BY <2>1, <2>2
  <1>2. CASE sel.all
    <2>1. l \in Orders(Entries(c.byID))
      BY <1>2 DEF listLocked
    <2>2. l[i] \in Entries(c.byID)
      BY <2>1 DEF Orders
    <2> QED
      BY <1>1, <2>2 DEF Configuration
  <1>3. CASE ~sel.all /\ sel.ids # <<>>
    <2>1. l = [j \in DOMAIN sel.ids |-> [id |-> sel.ids[j], rec |-> c.byID[sel.ids[j]]]]
      BY <1>3 DEF listLocked, listByIDs
    <2>2. sel.ids \in [DOMAIN sel.ids -> Ids]
      BY ElementsOf DEF Selector
    <2> QED
      BY <2>1, <2>2
  <1>4. CASE ~sel.all /\ sel.ids = <<>>
    <2> DEFINE hits == UNION {{k} \X Entries(c.byTag[sel.tags[k]]) : k \in DOMAIN sel.tags}
    <2>1. \A k \in DOMAIN sel.tags : sel.tags[k] \in DOMAIN c.byTag
      BY <1>4 DEF listError
    <2>2. \A t \in DOMAIN c.byTag : c.byTag[t] \in Map(Ids, Record)
      BY ByTagType
    <2>3. ASSUME NEW x \in hits
          PROVE  x[2].id \in Ids
      <3>1. PICK k \in DOMAIN sel.tags : x \in {k} \X Entries(c.byTag[sel.tags[k]])
        OBVIOUS
      <3>2. x[2] \in Entries(c.byTag[sel.tags[k]])
        BY <3>1
      <3> QED
        BY <1>1, <2>1, <2>2, <3>2
    <2>4. PICK h \in Orders(hits) : l = [j \in DOMAIN h |-> h[j][2]]
      BY <1>4 DEF listLocked, listByTags
    <2> HIDE DEF hits
    <2>5. h[i] \in hits
      BY <2>4 DEF Orders
    <2> QED
      BY <2>3, <2>4, <2>5
  <1> QED
    BY <1>2, <1>3, <1>4

\* exportRecords turns a listing into a payload.
LEMMA ExportType ==
  ASSUME NEW l \in Seq(Item), NEW rm \in BOOLEAN
  PROVE  exportRecords(l, rm) \in Seq(Item)
  <1> DEFINE e(i) == [id |-> NoId,
                      rec |-> [l[i].rec EXCEPT !.tags = IF rm THEN <<>> ELSE @]]
  <1>1. ASSUME NEW i \in DOMAIN l
        PROVE  e(i) \in Item
    <2>1. l[i].rec \in Record
      <3>1. l[i] \in Item
        BY ElementsOf
      <3> QED
        BY <3>1 DEF Item
    <2>2. [l[i].rec EXCEPT !.tags = IF rm THEN <<>> ELSE @] \in Record
      BY <2>1, ConfigAssumption DEF Record
    <2> QED
      BY <2>2 DEF Item
  <1>2. exportRecords(l, rm) = [i \in DOMAIN l |-> e(i)]
    BY DEF exportRecords
  <1> HIDE DEF e
  <1>3. exportRecords(l, rm) \in [DOMAIN l -> Item]
    BY <1>1, <1>2
  <1> QED
    BY <1>3, SameLength

\* An OverrideTag turns items into items.
LEMMA OverriddenType ==
  ASSUME NEW items \in Seq(Item), NEW o \in {<<>>} \cup {<<t>> : t \in Tags}
  PROVE  [i \in DOMAIN items |-> Overridden(items[i], o)] \in Seq(Item)
  <1>1. o \in TagLists
    BY ConfigAssumption
  <1>2. \A item \in Item : Overridden(item, o) \in Item
    BY <1>1 DEF Overridden, Item, Record
  <1> QED
    BY <1>2
\* GetTags names the tags some record has, and no other, when the index agrees.
LEMMA GetTagsExact ==
  ASSUME NEW c \in Configuration, c.byTag = IndexOf(c.byID)
  PROVE  getTags(c) = {t \in Tags : Tagged(c.byID, t) # {}}
  <1>1. DOMAIN c.byTag = {t \in Tags : Tagged(c.byID, t) # {}}
    BY DEF IndexOf
  <1>2. \A t \in DOMAIN c.byTag : DOMAIN c.byTag[t] = Tagged(c.byID, t)
    BY <1>1 DEF IndexOf
  <1> QED
    BY <1>1, <1>2 DEF getTags

-----------------------------------------------------------------------------
(***************************************************************************)
(* The service.                                                            *)
(***************************************************************************)
\* The three files without records are files.
LEMMA FileTypes ==
  /\ NoFile \in File
  /\ EmptyFile \in File
  /\ TornFile \in File
  /\ NewConfig \in Configuration
  BY EmptyMapType DEF File, NoFile, EmptyFile, TornFile, NewConfig, Configuration

\* Whatever a call imports is a sequence of items.
LEMMA ImportableType ==
  ASSUME TypeOK
  PROVE  Importable \subseteq Seq(Item)
  <1> DEFINE all == [all |-> TRUE, ids |-> <<>>, tags |-> <<>>]
  <1>1. cfg \in Configuration
    BY DEF TypeOK
  <1>2. all \in Selector /\ listError(cfg, all) = ""
    BY DEF Selector, listError
  <1>3. ASSUME NEW l \in listLocked(cfg, all), NEW rm \in BOOLEAN
        PROVE  exportRecords(l, rm) \in Seq(Item)
    <2>1. l \in Seq(Item)
      BY <1>1, <1>2, ListLockedType
    <2> QED
      BY <2>1, ExportType
  <1> QED
    BY <1>3, ServerAssumption DEF Importable

(***************************************************************************)
(* Every step leaves a state of the right type: the handlers never store   *)
(* a record under a nil id, list something that is not a record or write a *)
(* file that is not one of the four forms.                                 *)
(***************************************************************************)
LEMMA TypeStep == TypeOK /\ [Next]_vars => TypeOK'
  <1> SUFFICES ASSUME TypeOK, [Next]_vars
               PROVE  TypeOK'
    OBVIOUS
  <1>t. /\ cfg \in Configuration /\ file \in File /\ listening \subseteq Ids
        /\ victims \in Seq(Ids) /\ batch \in Seq(Item) /\ request \in Request
        /\ begun \in Map(Ids, Record) /\ reply \in Replies
        /\ pc \in {"down", "loading", "idle", "deleting", "importing", "saving"}
    BY DEF TypeOK
  <1>c. /\ cfg.byID \in Map(Ids, Record)
        /\ \A id \in DOMAIN cfg.byID : id \in Ids /\ cfg.byID[id] \in Record
        /\ file.recs \in Map(Ids, Record)
        /\ \A id \in DOMAIN file.recs : id \in Ids /\ file.recs[id] \in Record
    BY <1>t DEF Configuration, File, Map
  <1>r. \A op \in {"none", "load", "upsert", "delete", "import"}, ids \in SUBSET Ids,
           items \in Seq(Item) : [op |-> op, ids |-> ids, items |-> items] \in Request
    BY DEF Request
  <1>e. <<>> \in Seq(Item) /\ <<>> \in Seq(Ids) /\ {} \in SUBSET Ids
    OBVIOUS
  <1>i. \A id \in Ids \cup {NoId}, r \in Record : <<[id |-> id, rec |-> r]>> \in Seq(Item)
    BY DEF Item
  <1>1. CASE Start
    BY <1>1, <1>t, <1>r, <1>e, FileTypes, EmptyMapType DEF Start, TypeOK, Replies
  <1>2. CASE StartFails
    BY <1>2, <1>t DEF StartFails, TypeOK, Replies
  <1>3. CASE LoadRecord
    BY <1>3, <1>t, <1>c, UpsertType DEF LoadRecord, TypeOK
  <1>4. CASE LoadDone
    BY <1>4, <1>t DEF LoadDone, Return, TypeOK, Replies
  <1>5. CASE DeleteRecord
    <2>1. cfg' \in Configuration
      BY <1>5, <1>t, DeleteType DEF DeleteRecord
    <2>2. victims' \in Seq(Ids)
      <3>1. Tail(victims) \in Seq(Ids)
        <4>1. victims # <<>> /\ victims \in Seq(Ids)
          BY <1>5, <1>t DEF DeleteRecord
        <4> QED
          BY <4>1
      <3>2. victims' = Tail(victims) \/ victims' = <<>>
        BY <1>5 DEF DeleteRecord
      <3> QED
        BY <1>e, <3>1, <3>2
    <2>3. reply' \in Replies /\ pc' \in {"deleting", "idle"}
      BY <1>5, <1>t DEF DeleteRecord, Return, Replies
    <2> QED
      BY <1>5, <1>t, <2>1, <2>2, <2>3 DEF DeleteRecord, TypeOK
  <1>6. CASE DeleteDone
    BY <1>6, <1>t DEF DeleteDone, TypeOK
  <1>7. CASE ImportRecord
    <2>1. Head(batch) \in Item /\ Tail(batch) \in Seq(Item)
      BY <1>7, <1>t DEF ImportRecord
    <2>2. PICK id \in IF Head(batch).id = NoId THEN FreshIds \ Named(batch) ELSE {Head(batch).id} :
            cfg' = upsert(cfg, id, Head(batch).rec)
      BY <1>7 DEF ImportRecord
    <2>3. id \in Ids /\ Head(batch).rec \in Record
      BY <2>1, <2>2 DEF FreshIds, Item
    <2>4. cfg' \in Configuration
      BY <1>t, <2>2, <2>3, UpsertType
    <2> QED
      BY <1>7, <1>t, <2>1, <2>4 DEF ImportRecord, TypeOK
  <1>8. CASE ImportDone
    BY <1>8, <1>t DEF ImportDone, TypeOK
  <1>9. CASE SaveOk
    <2>1. file' \in File
      BY <1>9, <1>c DEF SaveOk, File
    <2> QED
      BY <1>9, <1>t, <2>1 DEF SaveOk, Return, TypeOK, Replies
  <1>10. CASE SaveFails
    BY <1>10, <1>t, FileTypes DEF SaveFails, Return, TypeOK, Replies
  <1>11. CASE UpsertRejected
    BY <1>11, <1>t, <1>c, <1>r, <1>e DEF UpsertRejected, Begin, Return, TypeOK, Replies
  <1>12. ASSUME NEW r \in Inputs, UpsertNew(r)
         PROVE  TypeOK'
    <2>1. r \in Record
      BY ServerAssumption
    <2>2. cfg' \in Configuration
      BY <1>12, <1>t, <2>1, UpsertType DEF UpsertNew, FreshIds
    <2>3. request' \in Request /\ begun' \in Map(Ids, Record)
      BY <1>12, <1>c, <1>r, <1>e, <1>i, <2>1 DEF UpsertNew, Begin
    <2> QED
      BY <1>12, <1>t, <2>2, <2>3 DEF UpsertNew, TypeOK, Replies
  <1>13. ASSUME NEW id \in Ids, NEW r \in Inputs, UpsertExisting(id, r)
         PROVE  TypeOK'
    <2>1. r \in Record
      BY ServerAssumption
    <2>2. clearTags(cfg, id) \in Configuration
      BY <1>t, ClearTagsType
    <2>3. upsert(clearTags(cfg, id), id, r) \in Configuration
      BY <2>1, <2>2, UpsertType
    <2>4. cfg' \in Configuration
      BY <1>13, <2>2, <2>3 DEF UpsertExisting
    <2>5. request' \in Request /\ begun' \in Map(Ids, Record)
      BY <1>13, <1>c, <1>r, <1>i, <2>1 DEF UpsertExisting, Begin
    <2>6. pc' \in {"idle", "saving"} /\ reply' \in {"Internal", "none"}
      BY <1>13 DEF UpsertExisting, Return
    <2> QED
      BY <1>13, <1>t, <2>4, <2>5, <2>6 DEF UpsertExisting, TypeOK, Replies
  <1>14. ASSUME NEW sel \in Selectors, DeleteRefused(sel)
         PROVE  TypeOK'
    <2>1. listError(cfg, sel) \in Replies
      BY <1>14 DEF DeleteRefused, listError, Replies
    <2>2. request' \in Request /\ begun' \in Map(Ids, Record)
      BY <1>14, <1>c, <1>r, <1>e DEF DeleteRefused, Begin
    <2> QED
      BY <1>14, <1>t, <2>1, <2>2 DEF DeleteRefused, Return, TypeOK
  <1>15. ASSUME NEW sel \in Selectors, Delete(sel)
         PROVE  TypeOK'
    <2> DEFINE ids(l) == {l[i].id : i \in DOMAIN l}
    <2>1. PICK l \in listLocked(cfg, sel) :
            /\ request' = [op |-> "delete", ids |-> ids(l), items |-> <<>>]
            /\ begun' = cfg.byID
            /\ victims' = [i \in DOMAIN l |-> l[i].id]
            /\ listening' = listening \ ids(l)
      BY <1>15 DEF Delete, Begin
    <2>2. l \in Seq(Item)
      BY <1>15, <1>t, ServerAssumption, ListLockedType DEF Delete
    <2>3. \A i \in DOMAIN l : l[i].id \in Ids
      BY <1>15, <1>t, ServerAssumption, ListedHaveIds DEF Delete
    <2>4. victims' \in Seq(Ids)
      <3>1. victims' \in [DOMAIN l -> Ids]
        BY <2>1, <2>3
      <3> QED
        BY <2>2, <3>1, SameLength
    <2>5. request' \in Request
      BY <2>1, <2>3, <1>r, <1>e
    <2> QED
      BY <1>15, <1>t, <1>c, <2>1, <2>4, <2>5 DEF Delete, TypeOK, Replies
  <1>16. CASE ImportRejected
    BY <1>16, <1>t, <1>c, <1>r, <1>e DEF ImportRejected, Begin, Return, TypeOK, Replies
  <1>17. ASSUME NEW items \in Importable, NEW o \in {<<>>} \cup {<<t>> : t \in Tags},
                Import(items, o)
         PROVE  TypeOK'
    <2>1. batch' \in Seq(Item)
      BY <1>17, ImportableType, OverriddenType DEF Import
    <2>2. request' \in Request /\ begun' \in Map(Ids, Record)
      BY <1>17, <1>c, <1>r, <1>e, <2>1 DEF Import, Begin
    <2> QED
      BY <1>17, <1>t, <2>1, <2>2 DEF Import, TypeOK, Replies
  <1>18. ASSUME NEW id \in Ids, Connect(id)
         PROVE  TypeOK'
    BY <1>18, <1>t DEF Connect, TypeOK
  <1>19. ASSUME NEW id \in Ids, ConnectPanics(id)
         PROVE  TypeOK'
    BY <1>19, <1>t, <1>r, <1>e, FileTypes, EmptyMapType DEF ConnectPanics, Die, TypeOK, Replies
  <1>20. ASSUME NEW id \in Ids, Disconnect(id)
         PROVE  TypeOK'
    BY <1>20, <1>t DEF Disconnect, TypeOK
  <1>21. CASE Crash
    <2>1. file' \in File
      BY <1>21, <1>t, <1>c, FileTypes DEF Crash, File
    <2> QED
      BY <1>21, <1>r, <1>e, <2>1, FileTypes, EmptyMapType DEF Crash, Die, TypeOK, Replies
  <1>22. CASE UNCHANGED vars
    BY <1>22, <1>t DEF vars, TypeOK
  <1> QED
    BY <1>1, <1>2, <1>3, <1>4, <1>5, <1>6, <1>7, <1>8, <1>9, <1>10, <1>11, <1>12, <1>13,
       <1>14, <1>15, <1>16, <1>17, <1>18, <1>19, <1>20, <1>21, <1>22
    DEF Next, ServerStep, ClientCall

(***************************************************************************)
(* The type invariant of the server: the maps, the file and the call in    *)
(* progress always have the shapes the handlers rely on.                   *)
(***************************************************************************)
THEOREM TypeCorrect == Spec => []TypeOK
  <1>1. Init => TypeOK
    <2> SUFFICES ASSUME Init PROVE TypeOK
      OBVIOUS
    <2>1. request \in Request
      BY DEF Init, Request
    <2> QED
      BY <2>1, FileTypes, EmptyMapType DEF Init, TypeOK, Replies
  <1> QED
    BY <1>1, TypeStep, PTL DEF Spec
-----------------------------------------------------------------------------
(***************************************************************************)
(* All that a step may do to the configuration: nothing, one method of     *)
(* config.go, or the loss of the process.                                  *)
(***************************************************************************)
ConfigStep ==
  \/ cfg' = cfg
  \/ cfg' = NewConfig
  \/ \E id \in Ids, r \in Record : cfg' = upsert(cfg, id, r)
  \/ \E id \in Ids : clearTagsError(cfg, id) /\ cfg' = clearTags(cfg, id)
  \/ \E id \in Ids, r \in Record : cfg' = upsert(clearTags(cfg, id), id, r)
  \/ \E id : cfg' = delete(cfg, id)

\* The configuration changes by the methods of config.go and in no other way.
LEMMA OnlyConfigSteps == TypeOK /\ [Next]_vars => ConfigStep
  <1> SUFFICES ASSUME TypeOK, [Next]_vars
               PROVE  ConfigStep
    OBVIOUS
  <1>1. CASE Start \/ StartFails \/ LoadDone \/ DeleteDone \/ ImportDone \/ SaveOk \/ SaveFails
             \/ UpsertRejected \/ ImportRejected \/ Crash \/ UNCHANGED vars
    BY <1>1 DEF Start, StartFails, LoadDone, DeleteDone, ImportDone, SaveOk, SaveFails,
                UpsertRejected, ImportRejected, Crash, Die, vars, ConfigStep
  <1>2. CASE LoadRecord
    <2>1. \A id \in DOMAIN file.recs : id \in Ids /\ file.recs[id] \in Record
      BY DEF TypeOK, File, Map
    <2> QED
      BY <1>2, <2>1 DEF LoadRecord, ConfigStep
  <1>3. CASE DeleteRecord
    BY <1>3 DEF DeleteRecord, ConfigStep
  <1>4. CASE ImportRecord
    <2>1. batch # <<>> /\ batch \in Seq(Item)
      BY <1>4 DEF ImportRecord, TypeOK
    <2>2. Head(batch) \in Item
      BY <2>1
    <2>3. PICK id \in IF Head(batch).id = NoId THEN FreshIds \ Named(batch) ELSE {Head(batch).id} :
            cfg' = upsert(cfg, id, Head(batch).rec)
      BY <1>4 DEF ImportRecord
    <2>4. id \in Ids /\ Head(batch).rec \in Record
      BY <2>2, <2>3 DEF FreshIds, Item
    <2> QED
      BY <2>3, <2>4 DEF ConfigStep
  <1>5. ASSUME NEW r \in Inputs, UpsertNew(r)
        PROVE  ConfigStep
    BY <1>5, ServerAssumption DEF UpsertNew, FreshIds, ConfigStep
  <1>6. ASSUME NEW id \in Ids, NEW r \in Inputs, UpsertExisting(id, r)
        PROVE  ConfigStep
    BY <1>6, ServerAssumption DEF UpsertExisting, ConfigStep
  <1>7. ASSUME NEW sel \in Selectors, DeleteRefused(sel) \/ Delete(sel)
        PROVE  ConfigStep
    BY <1>7 DEF DeleteRefused, Delete, ConfigStep
  <1>8. ASSUME NEW items \in Importable, NEW o \in {<<>>} \cup {<<t>> : t \in Tags},
               Import(items, o)
        PROVE  ConfigStep
    BY <1>8 DEF Import, ConfigStep
  <1>9. ASSUME NEW id \in Ids, Connect(id) \/ ConnectPanics(id) \/ Disconnect(id)
        PROVE  ConfigStep
    BY <1>9 DEF Connect, ConnectPanics, Die, Disconnect, ConfigStep
  <1> QED
    BY <1>1, <1>2, <1>3, <1>4, <1>5, <1>6, <1>7, <1>8, <1>9 DEF Next, ServerStep, ClientCall

(***************************************************************************)
(* When no client repeats a tag within a record, the tag index agrees with *)
(* the records in every state, in the middle of a Delete, of an Import and *)
(* of the start up too; so the error of config.go:21 is unreachable.       *)
(***************************************************************************)
THEOREM IndexAlwaysConsistent ==
  ASSUME DistinctTags
  PROVE  Spec => []IndexConsistent
  <1>1. Init => IndexConsistent
    <2> SUFFICES ASSUME Init PROVE IndexConsistent
      OBVIOUS
    <2>1. {u \in Tags : Tagged(EmptyMap, u) # {}} = {}
      BY DEF Tagged, EmptyMap
    <2> QED
      BY <2>1 DEF Init, NewConfig, IndexConsistent, IndexOf, EmptyMap
  <1>2. TypeOK /\ IndexConsistent /\ [Next]_vars => IndexConsistent'
    <2> SUFFICES ASSUME TypeOK, IndexConsistent, [Next]_vars
                 PROVE  IndexConsistent'
      OBVIOUS
    <2>1. cfg \in Configuration /\ cfg.byTag = IndexOf(cfg.byID)
      BY DEF TypeOK, IndexConsistent
    <2>2. ConfigStep
      BY OnlyConfigSteps
    <2>3. CASE cfg' = cfg
      BY <2>1, <2>3 DEF IndexConsistent
    <2>4. CASE cfg' = NewConfig
      <3>1. {u \in Tags : Tagged(EmptyMap, u) # {}} = {}
        BY DEF Tagged, EmptyMap
      <3> QED
        BY <2>4, <3>1 DEF NewConfig, IndexConsistent, IndexOf, EmptyMap
    <2>5. ASSUME NEW id \in Ids, NEW r \in Record, cfg' = upsert(cfg, id, r)
          PROVE  IndexConsistent'
      BY <2>1, <2>5, IndexAgrees, UpsertIndex DEF IndexConsistent
    <2>6. ASSUME NEW id \in Ids, clearTagsError(cfg, id), cfg' = clearTags(cfg, id)
          PROVE  IndexConsistent'
      <3>1. id \notin DOMAIN cfg.byID
        BY <2>1, <2>6, ClearTagsNoError
      <3> QED
        BY <2>1, <2>6, <3>1 DEF clearTags, IndexConsistent
    <2>7. ASSUME NEW id \in Ids, NEW r \in Record, cfg' = upsert(clearTags(cfg, id), id, r)
          PROVE  IndexConsistent'
      <3>1. clearTags(cfg, id) \in Configuration /\ AgreesBut(clearTags(cfg, id), id)
        BY <2>1, ClearTagsType, ClearTagsAgrees
      <3> QED
        BY <2>7, <3>1, UpsertIndex DEF IndexConsistent
    <2>8. ASSUME NEW id, cfg' = delete(cfg, id)
          PROVE  IndexConsistent'
      BY <2>1, <2>8, DeleteIndex DEF IndexConsistent
    <2> QED
      BY <2>2, <2>3, <2>4, <2>5, <2>6, <2>7, <2>8 DEF ConfigStep
  <1> QED
    BY <1>1, <1>2, TypeCorrect, PTL DEF Spec
-----------------------------------------------------------------------------
(***************************************************************************)
(* Durability.  A call has no answer until it ends, and the start up has   *)
(* loaded a part of the file, record by record.                            *)
(***************************************************************************)
NoAnswerYet == pc \in {"loading", "deleting", "importing", "saving"} => reply = "none"

LoadedPart == pc = "loading" =>
                /\ file.form # "torn"
                /\ DOMAIN cfg.byID \subseteq DOMAIN file.recs
                /\ \A id \in DOMAIN cfg.byID : cfg.byID[id] = file.recs[id]

DurableInv == AckedIsDurable /\ NoAnswerYet /\ LoadedPart

\* loadConfig stores a record it has not seen as the file has it.
LEMMA FirstUpsert ==
  ASSUME NEW c \in Configuration, NEW id \in Ids, NEW r \in Record, id \notin DOMAIN c.byID
  PROVE  upsert(c, id, r).byID = Put(c.byID, id, r)
  BY DEF upsert, InheritConn

\* The steps of the start up, of the calls and of the save keep DurableInv.
LEMMA DurableStep == TypeOK /\ DurableInv /\ [Next]_vars => DurableInv'
  <1> SUFFICES ASSUME TypeOK, DurableInv, [Next]_vars
               PROVE  DurableInv'
    OBVIOUS
  <1> USE DEF DurableInv, AckedIsDurable, NoAnswerYet, LoadedPart
  <1>1. CASE Start
    BY <1>1 DEF Start, NewConfig, EmptyMap, Loadable
  <1>2. CASE StartFails
    BY <1>2 DEF StartFails
  <1>3. CASE LoadRecord
    <2>1. PICK id \in DOMAIN file.recs \ DOMAIN cfg.byID :
            cfg' = upsert(cfg, id, file.recs[id])
      BY <1>3 DEF LoadRecord
    <2>2. id \in Ids /\ file.recs[id] \in Record /\ cfg \in Configuration
      BY DEF TypeOK, File, Map
    <2>3. cfg'.byID = Put(cfg.byID, id, file.recs[id])
      BY <2>1, <2>2, FirstUpsert
    <2>4. pc = "loading" /\ pc' = pc /\ file' = file /\ reply' = reply
      BY <1>3 DEF LoadRecord
    <2>5. /\ DOMAIN cfg'.byID = DOMAIN cfg.byID \cup {id}
          /\ \A o \in DOMAIN cfg'.byID :
               cfg'.byID[o] = IF o = id THEN file.recs[id] ELSE cfg.byID[o]
      BY <2>3 DEF Put
    <2> QED
      BY <2>1, <2>4, <2>5
  <1>4. CASE LoadDone
    <2>1. /\ file.form # "torn" /\ pc' = "idle" /\ cfg' = cfg /\ file' = file
          /\ DOMAIN cfg.byID = DOMAIN file.recs
          /\ \A id \in DOMAIN cfg.byID : cfg.byID[id] = file.recs[id]
      BY <1>4 DEF LoadDone, Return
    <2>2. cfg.byID \in Map(Ids, Record) /\ file.recs \in Map(Ids, Record)
      BY DEF TypeOK, Configuration, File
    <2>3. /\ cfg.byID = [id \in DOMAIN cfg.byID |-> cfg.byID[id]]
          /\ file.recs = [id \in DOMAIN file.recs |-> file.recs[id]]
      BY <2>2 DEF Map
    <2>4. cfg.byID = file.recs
      BY <2>1, <2>3
    <2> QED
      BY <2>1, <2>4
  <1>5. CASE DeleteRecord
    BY <1>5 DEF DeleteRecord, Return
  <1>6. CASE DeleteDone \/ ImportDone
    BY <1>6 DEF DeleteDone, ImportDone
  <1>7. CASE ImportRecord
    BY <1>7 DEF ImportRecord
  <1>8. CASE SaveOk
    BY <1>8 DEF SaveOk, Return
  <1>9. CASE SaveFails
    BY <1>9 DEF SaveFails, Return
  <1>10. CASE UpsertRejected \/ ImportRejected
    BY <1>10 DEF UpsertRejected, ImportRejected, Return
  <1>11. ASSUME NEW r \in Inputs, UpsertNew(r)
         PROVE  DurableInv'
    BY <1>11 DEF UpsertNew
  <1>12. ASSUME NEW id \in Ids, NEW r \in Inputs, UpsertExisting(id, r)
         PROVE  DurableInv'
    BY <1>12 DEF UpsertExisting, Return
  <1>13. ASSUME NEW sel \in Selectors, DeleteRefused(sel)
         PROVE  DurableInv'
    <2>1. reply' # "ok" /\ pc' = "idle"
      BY <1>13 DEF DeleteRefused, Return, listError
    <2> QED
      BY <2>1
  <1>14. ASSUME NEW sel \in Selectors, Delete(sel)
         PROVE  DurableInv'
    BY <1>14 DEF Delete
  <1>15. ASSUME NEW items \in Importable, NEW o \in {<<>>} \cup {<<t>> : t \in Tags},
                Import(items, o)
         PROVE  DurableInv'
    BY <1>15 DEF Import
  <1>16. ASSUME NEW id \in Ids, Connect(id) \/ Disconnect(id)
         PROVE  DurableInv'
    BY <1>16 DEF Connect, Disconnect
  <1>17. ASSUME NEW id \in Ids, ConnectPanics(id)
         PROVE  DurableInv'
    BY <1>17 DEF ConnectPanics, Die
  <1>18. CASE Crash
    BY <1>18 DEF Crash, Die
  <1>19. CASE UNCHANGED vars
    BY <1>19 DEF vars
  <1> QED
    BY <1>1, <1>2, <1>3, <1>4, <1>5, <1>6, <1>7, <1>8, <1>9, <1>10, <1>11, <1>12, <1>13,
       <1>14, <1>15, <1>16, <1>17, <1>18, <1>19
    DEF Next, ServerStep, ClientCall

(***************************************************************************)
(* After every successful Upsert, Delete, Import and start up the file     *)
(* holds exactly the records in memory, whatever crashed or failed before. *)
(***************************************************************************)
THEOREM AcknowledgedIsDurable == Spec => []AckedIsDurable
  <1>1. Init => DurableInv
    BY DEF Init, DurableInv, AckedIsDurable, NoAnswerYet, LoadedPart
  <1>2. DurableInv => AckedIsDurable
    BY DEF DurableInv
  <1> QED
    BY <1>1, <1>2, DurableStep, TypeCorrect, PTL DEF Spec

-----------------------------------------------------------------------------
(***************************************************************************)
(* Listeners.  Delete has disconnected what it still has to delete.        *)
(***************************************************************************)
VictimsDisconnected == \A i \in DOMAIN victims : victims[i] \notin listening

NoVictimsOutsideDelete == pc # "deleting" => victims = <<>>

\* upsert keeps the records it is not about and never takes a connection away.
LEMMA UpsertKeepsConns ==
  ASSUME NEW c \in Configuration, NEW id \in Ids, NEW r \in Record, NEW o \in DOMAIN c.byID,
         c.byID[o].conn # "none"
  PROVE  /\ o \in DOMAIN upsert(c, id, r).byID
         /\ upsert(c, id, r).byID[o].conn # "none"
  <1> DEFINE s == InheritConn(c, id, r)
  <1>1. upsert(c, id, r).byID = Put(c.byID, id, s)
    BY DEF upsert
  <1>2. CASE o # id
    BY <1>1, <1>2 DEF Put
  <1>3. CASE o = id
    <2>1. s.conn # "none"
      BY <1>3 DEF InheritConn, Record
    <2> QED
      BY <1>1, <1>3, <2>1 DEF Put
  <1> QED
    BY <1>2, <1>3
\* A process that is down listens to nothing.
DownIsSilent == pc = "down" => listening = {}

ListenInv == /\ ListeningHasConn
             /\ VictimsDisconnected
             /\ NoVictimsOutsideDelete
             /\ DownIsSilent

\* A step that keeps the listeners and the victims, loses no connection and
\* neither starts nor ends a Delete or the process keeps ListenInv.
LEMMA ListenKept ==
  ASSUME ListenInv, listening' = listening, victims' = victims,
         pc' = "deleting" <=> pc = "deleting", pc' = "down" <=> pc = "down",
         \A o \in DOMAIN cfg.byID : cfg.byID[o].conn # "none" =>
            o \in DOMAIN cfg'.byID /\ cfg'.byID[o].conn # "none"
  PROVE  ListenInv'
  BY DEF ListenInv, ListeningHasConn, VictimsDisconnected, NoVictimsOutsideDelete, DownIsSilent

\* Every step keeps ListenInv.
LEMMA ListenStep == TypeOK /\ ListenInv /\ [Next]_vars => ListenInv'
  <1> SUFFICES ASSUME TypeOK, ListenInv, [Next]_vars
               PROVE  ListenInv'
    OBVIOUS
  <1>t. cfg \in Configuration /\ victims \in Seq(Ids)
    BY DEF TypeOK
  <1>d. ASSUME listening' = {}, victims' = <<>>
        PROVE  ListenInv'
    BY <1>d DEF ListenInv, ListeningHasConn, VictimsDisconnected, NoVictimsOutsideDelete,
                DownIsSilent
  <1>u. ASSUME NEW id \in Ids, NEW r \in Record, cfg' = upsert(cfg, id, r),
               listening' = listening, victims' = victims,
               pc' = "deleting" <=> pc = "deleting", pc' = "down" <=> pc = "down"
        PROVE  ListenInv'
    BY <1>t, <1>u, UpsertKeepsConns, ListenKept
  <1>1. CASE StartFails \/ LoadDone \/ ImportDone \/ SaveOk \/ SaveFails
             \/ UpsertRejected \/ ImportRejected \/ UNCHANGED vars
    BY <1>1, ListenKept DEF StartFails, LoadDone, ImportDone, SaveOk, SaveFails,
         UpsertRejected, ImportRejected, Begin, Return, vars
  <1>2. CASE Start
    BY <1>2, <1>d DEF Start, ListenInv, DownIsSilent, NoVictimsOutsideDelete
  <1>3. CASE LoadRecord
    <2>1. \A id \in DOMAIN file.recs : id \in Ids /\ file.recs[id] \in Record
      BY DEF TypeOK, File, Map
    <2> QED
      BY <1>3, <1>u, <2>1 DEF LoadRecord
  <1>4. CASE DeleteRecord
    <2>1. /\ victims # <<>> /\ listening' = listening /\ cfg' = delete(cfg, Head(victims))
          /\ \/ pc' = "deleting" /\ victims' = Tail(victims)
             \/ pc' = "idle" /\ victims' = <<>>
      <3>1. CASE deleteError(cfg, Head(victims)) = ""
        BY <1>4, <3>1 DEF DeleteRecord
      <3>2. CASE deleteError(cfg, Head(victims)) # ""
        BY <1>4, <3>2 DEF DeleteRecord, Return
      <3> QED
        BY <3>1, <3>2
    <2>2. Head(victims) \notin listening
      <3>1. 1 \in DOMAIN victims /\ Head(victims) = victims[1]
        BY <1>t, <2>1
      <3> QED
        BY <3>1 DEF ListenInv, VictimsDisconnected
    <2>3. \A o \in DOMAIN cfg.byID \ {Head(victims)} :
             o \in DOMAIN cfg'.byID /\ cfg'.byID[o] = cfg.byID[o]
      BY <2>1 DEF delete, Drop
    <2>4. ListeningHasConn'
      BY <2>1, <2>2, <2>3 DEF ListenInv, ListeningHasConn
    <2>5. VictimsDisconnected'
      <3>1. \A i \in DOMAIN Tail(victims) :
               i + 1 \in DOMAIN victims /\ Tail(victims)[i] = victims[i + 1]
        BY <1>t, <2>1
      <3> QED
        BY <2>1, <3>1 DEF ListenInv, VictimsDisconnected
    <2> QED
      BY <2>1, <2>4, <2>5 DEF ListenInv, NoVictimsOutsideDelete, DownIsSilent
  <1>5. CASE DeleteDone
    BY <1>5 DEF DeleteDone, ListenInv, ListeningHasConn, VictimsDisconnected,
                NoVictimsOutsideDelete, DownIsSilent
  <1>6. CASE ImportRecord
    <2>1. batch # <<>> /\ batch \in Seq(Item)
      BY <1>6 DEF ImportRecord, TypeOK
    <2>2. Head(batch) \in Item
      BY <2>1
    <2>3. PICK id \in IF Head(batch).id = NoId THEN FreshIds \ Named(batch) ELSE {Head(batch).id} :
            cfg' = upsert(cfg, id, Head(batch).rec)
      BY <1>6 DEF ImportRecord
    <2>4. id \in Ids /\ Head(batch).rec \in Record
      BY <2>2, <2>3 DEF FreshIds, Item
    <2> QED
      BY <1>6, <1>u, <2>3, <2>4 DEF ImportRecord
  <1>7. ASSUME NEW r \in Inputs, UpsertNew(r)
        PROVE  ListenInv'
    BY <1>7, <1>u, ServerAssumption DEF UpsertNew, FreshIds, Begin
  <1>8. ASSUME NEW id \in Ids, NEW r \in Inputs, UpsertExisting(id, r)
        PROVE  ListenInv'
    <2>1. r \in Record
      BY ServerAssumption
    <2>2. clearTags(cfg, id) \in Configuration /\ clearTags(cfg, id).byID = cfg.byID
      BY <1>t, ClearTagsType
    <2>3. \A o \in DOMAIN cfg.byID : cfg.byID[o].conn # "none" =>
             o \in DOMAIN cfg'.byID /\ cfg'.byID[o].conn # "none"
      <3>1. CASE cfg' = clearTags(cfg, id)
        BY <2>2, <3>1
      <3>2. CASE cfg' = upsert(clearTags(cfg, id), id, r)
        BY <2>1, <2>2, <3>2, UpsertKeepsConns
      <3> QED
        BY <1>8, <3>1, <3>2 DEF UpsertExisting
    <2>4. /\ listening' = listening /\ victims' = victims
          /\ pc = "idle" /\ pc' \in {"idle", "saving"}
      BY <1>8 DEF UpsertExisting, Begin, Return
    <2> QED
      BY <2>3, <2>4, ListenKept
  <1>9. ASSUME NEW sel \in Selectors, DeleteRefused(sel)
        PROVE  ListenInv'
    BY <1>9, ListenKept DEF DeleteRefused, Begin, Return
  <1>10. ASSUME NEW sel \in Selectors, Delete(sel)
         PROVE  ListenInv'
    <2>1. PICK l \in listLocked(cfg, sel) :
            /\ victims' = [i \in DOMAIN l |-> l[i].id]
            /\ listening' = listening \ {l[i].id : i \in DOMAIN l}
      BY <1>10 DEF Delete
    <2>2. cfg' = cfg /\ pc' = "deleting"
      BY <1>10 DEF Delete
    <2> QED
      BY <2>1, <2>2 DEF ListenInv, ListeningHasConn, VictimsDisconnected,
                        NoVictimsOutsideDelete, DownIsSilent
  <1>11. ASSUME NEW items \in Importable, NEW o \in {<<>>} \cup {<<t>> : t \in Tags},
                Import(items, o)
         PROVE  ListenInv'
    BY <1>11, ListenKept DEF Import, Begin
  <1>12. ASSUME NEW id \in Ids, Connect(id)
         PROVE  ListenInv'
    BY <1>12 DEF Connect, ListenInv, ListeningHasConn, VictimsDisconnected,
                 NoVictimsOutsideDelete, DownIsSilent
  <1>13. ASSUME NEW id \in Ids, Disconnect(id)
         PROVE  ListenInv'
    BY <1>13 DEF Disconnect, ListenInv, ListeningHasConn, VictimsDisconnected,
                 NoVictimsOutsideDelete, DownIsSilent
  <1>14. ASSUME NEW id \in Ids, ConnectPanics(id)
         PROVE  ListenInv'
    BY <1>14, <1>d DEF ConnectPanics, Die
  <1>15. CASE Crash
    BY <1>15, <1>d DEF Crash, Die
  <1> QED
    BY <1>1, <1>2, <1>3, <1>4, <1>5, <1>6, <1>7, <1>8, <1>9, <1>10, <1>11, <1>12, <1>13,
       <1>14, <1>15
    DEF Next, ServerStep, ClientCall

(***************************************************************************)
(* Every entry of the listener table belongs to a record that exists and   *)
(* has a connection: no Delete leaves a listener behind, and no Upsert or  *)
(* Import of a record without Conn strips a record that is listening.      *)
(***************************************************************************)
THEOREM ListenersHaveConns == Spec => []ListeningHasConn
  <1>1. Init => ListenInv
    BY DEF Init, ListenInv, ListeningHasConn, VictimsDisconnected, NoVictimsOutsideDelete,
           DownIsSilent
  <1>2. ListenInv => ListeningHasConn
    BY DEF ListenInv
  <1> QED
    BY <1>1, <1>2, ListenStep, TypeCorrect, PTL DEF Spec

-----------------------------------------------------------------------------
(***************************************************************************)
(* The record store.  Every step of a call, of the start up and of the     *)
(* save is one of RecordStore, or leaves its variables alone.              *)
(***************************************************************************)
\* An upsert changes byID in one place, with or without clearTags before it.
LEMMA UpsertPuts ==
  ASSUME NEW c \in Configuration, NEW id \in Ids, NEW r \in Record
  PROVE  /\ \E q \in Record : upsert(c, id, r).byID = S!With(c.byID, id, q)
         /\ clearTags(c, id).byID = c.byID
         /\ clearTags(c, id) \in Configuration
  <1>1. InheritConn(c, id, r) \in Record
    BY InheritConnType
  <1>2. upsert(c, id, r).byID = Put(c.byID, id, InheritConn(c, id, r))
    BY DEF upsert
  <1>3. clearTags(c, id).byID = c.byID
    BY DEF clearTags, Configuration
  <1> QED
    BY <1>1, <1>2, <1>3, ClearTagsType DEF Put, S!With

\* A delete removes one record or changes nothing.
LEMMA DeleteDrops ==
  ASSUME NEW c \in Configuration, NEW id
  PROVE  /\ delete(c, id).byID \in {c.byID, S!Without(c.byID, id)}
         /\ deleteError(c, id) = "" => delete(c, id).byID = S!Without(c.byID, id)
  BY DEF delete, deleteError, Drop, S!Without

\* What a file is to the record store.
Mapped(f) == [state |-> IF f.form = "torn" THEN "lost" ELSE "whole", recs |-> f.recs]

LEMMA FilesMapped ==
  ASSUME NEW f
  PROVE  /\ f \in {NoFile, EmptyFile} =>
              Mapped(f) = S!Whole(S!Empty)
         /\ f = TornFile => Mapped(f) = S!Lost
         /\ \A m : f = [form |-> "json", recs |-> m] =>
                   Mapped(f) = S!Whole(m)
  <1>1. EmptyMap = S!Empty
    BY DEF EmptyMap, S!Empty
  <1>2. f \in {NoFile, EmptyFile} =>
              Mapped(f) = S!Whole(S!Empty)
    BY <1>1 DEF Mapped, NoFile, EmptyFile, S!Whole
  <1>3. f = TornFile => Mapped(f) = S!Lost
    BY <1>1 DEF Mapped, TornFile, S!Lost
  <1>4. \A m : f = [form |-> "json", recs |-> m] =>
                   Mapped(f) = S!Whole(m)
    BY DEF Mapped, S!Whole
  <1> QED
    BY <1>2, <1>3, <1>4

LEMMA StoreStep == TypeOK /\ DurableInv /\ [Next]_vars => [S!Next]_S!vars
  <1> SUFFICES ASSUME TypeOK, DurableInv, [Next]_vars
               PROVE  [S!Next]_S!vars
    OBVIOUS
  <1>c. cfg \in Configuration
    BY DEF TypeOK
  <1>1. CASE Start
    <2>1. S!Start
      BY <1>1 DEF Start, NewConfig, EmptyMap, S!Start, S!Empty
    <2> QED
      BY <2>1 DEF S!Next
  <1>2. CASE StartFails \/ UpsertRejected \/ ImportRejected
    <2>1. S!Refuse
      BY <1>2 DEF StartFails, UpsertRejected, ImportRejected, Begin, Return, S!Refuse
    <2> QED
      BY <2>1 DEF S!Next
  <1>3. CASE LoadRecord
    <2>1. PICK id \in DOMAIN file.recs \ DOMAIN cfg.byID :
            cfg' = upsert(cfg, id, file.recs[id])
      BY <1>3 DEF LoadRecord
    <2>2. id \in Ids /\ file.recs[id] \in Record
      BY DEF TypeOK, File, Map
    <2>3. S!Change(id)
      BY <1>3, <1>c, <2>1, <2>2, UpsertPuts DEF LoadRecord, S!Change
    <2> QED
      BY <2>2, <2>3 DEF S!Next
  <1>4. CASE LoadDone
    <2>1. file'.form # "torn" /\ file'.recs = cfg'.byID
      BY <1>4, DurableStep DEF LoadDone, Return, DurableInv, AckedIsDurable
    <2>2. S!Loaded
      BY <1>4, <2>1 DEF LoadDone, Return, S!Loaded, S!Whole
    <2> QED
      BY <2>2 DEF S!Next
  <1>5. CASE DeleteRecord
    <2>v. victims \in Seq(Ids) /\ victims # <<>>
      BY <1>5 DEF DeleteRecord, TypeOK
    <2>1. Head(victims) \in Ids
      BY <2>v
    <2>2. CASE deleteError(cfg, Head(victims)) = ""
      <3>1. cfg'.byID = S!Without(cfg.byID, Head(victims))
        BY <1>5, <1>c, <2>2, DeleteDrops DEF DeleteRecord
      <3>2. S!Change(Head(victims))
        BY <1>5, <2>2, <3>1 DEF DeleteRecord, S!Change
      <3> QED
        BY <2>1, <3>2 DEF S!Next
    <2>3. CASE deleteError(cfg, Head(victims)) # ""
      <3>1. cfg'.byID \in {cfg.byID, S!Without(cfg.byID, Head(victims))}
        BY <1>5, <1>c, DeleteDrops DEF DeleteRecord
      <3>2. S!Fail
        BY <1>5, <2>1, <2>3, <3>1 DEF DeleteRecord, Return, S!Fail
      <3> QED
        BY <3>2 DEF S!Next
    <2> QED
      BY <2>2, <2>3
  <1>6. CASE DeleteDone \/ ImportDone
    <2>1. S!Changed
      BY <1>6 DEF DeleteDone, ImportDone, S!Changed
    <2> QED
      BY <2>1 DEF S!Next
  <1>7. CASE ImportRecord
    <2>1. PICK id \in IF Head(batch).id = NoId THEN FreshIds \ Named(batch) ELSE {Head(batch).id} :
            cfg' = upsert(cfg, id, Head(batch).rec)
      BY <1>7 DEF ImportRecord
    <2>2. Head(batch) \in Item
      BY <1>7 DEF ImportRecord, TypeOK
    <2>3. id \in Ids /\ Head(batch).rec \in Record
      BY <2>1, <2>2 DEF Item, FreshIds
    <2>4. S!Change(id)
      BY <1>7, <1>c, <2>1, <2>3, UpsertPuts DEF ImportRecord, S!Change
    <2> QED
      BY <2>3, <2>4 DEF S!Next
  <1>8. CASE SaveOk
    <2>1. S!Commit
      BY <1>8 DEF SaveOk, Return, S!Commit, S!Whole
    <2> QED
      BY <2>1 DEF S!Next
  <1>9. CASE SaveFails
    <2>1. pc = "saving" /\ pc' = "idle" /\ reply' = "Internal" /\ cfg' = cfg
      BY <1>9 DEF SaveFails, Return
    <2>2. Mapped(file')
            \in {Mapped(file),
                 S!Whole(S!Empty), S!Lost}
      BY <1>9, FilesMapped DEF SaveFails
    <2>3. S!Fail
      BY <2>1, <2>2 DEF S!Fail, Mapped
    <2> QED
      BY <2>3 DEF S!Next
  <1>10. ASSUME NEW r \in Inputs, UpsertNew(r)
         PROVE  [S!Next]_S!vars
    <2>1. PICK id \in FreshIds : cfg' = upsert(cfg, id, r)
      BY <1>10 DEF UpsertNew
    <2>2. id \in Ids /\ r \in Record
      BY ServerAssumption DEF FreshIds
    <2>3. PICK q \in Record : cfg'.byID = S!With(cfg.byID, id, q)
      BY <1>c, <2>1, <2>2, UpsertPuts
    <2>4. S!Put(id, q)
      BY <1>10, <2>3 DEF UpsertNew, Begin, S!Put
    <2> QED
      BY <2>2, <2>3, <2>4 DEF S!Next
  <1>11. ASSUME NEW id \in Ids, NEW r \in Inputs, UpsertExisting(id, r)
         PROVE  [S!Next]_S!vars
    <2>1. r \in Record
      BY ServerAssumption
    <2>2. clearTags(cfg, id) \in Configuration /\ clearTags(cfg, id).byID = cfg.byID
      BY <1>c, <2>1, UpsertPuts
    <2>3. CASE clearTagsError(cfg, id)
      <3>1. S!Refuse
        BY <1>11, <2>2, <2>3 DEF UpsertExisting, Begin, Return, S!Refuse
      <3> QED
        BY <3>1 DEF S!Next
    <2>4. CASE ~clearTagsError(cfg, id)
      <3>1. PICK q \in Record : cfg'.byID = S!With(cfg.byID, id, q)
        BY <1>11, <2>1, <2>2, <2>4, UpsertPuts DEF UpsertExisting
      <3>2. S!Put(id, q)
        BY <1>11, <2>4, <3>1 DEF UpsertExisting, Begin, S!Put
      <3> QED
        BY <3>1, <3>2 DEF S!Next
    <2> QED
      BY <2>3, <2>4
  <1>12. ASSUME NEW sel \in Selectors, DeleteRefused(sel)
         PROVE  [S!Next]_S!vars
    <2>1. reply' \notin {"none", "ok"}
      BY <1>12 DEF DeleteRefused, Return, listError
    <2>2. S!Refuse
      BY <1>12, <2>1 DEF DeleteRefused, Begin, Return, S!Refuse
    <2> QED
      BY <2>2 DEF S!Next
  <1>13. ASSUME NEW sel \in Selectors, Delete(sel)
         PROVE  [S!Next]_S!vars
    <2>1. S!Begin
      BY <1>13 DEF Delete, Begin, S!Begin
    <2> QED
      BY <2>1 DEF S!Next
  <1>14. ASSUME NEW items \in Importable, NEW o \in {<<>>} \cup {<<t>> : t \in Tags},
                Import(items, o)
         PROVE  [S!Next]_S!vars
    <2>1. S!Begin
      BY <1>14 DEF Import, Begin, S!Begin
    <2> QED
      BY <2>1 DEF S!Next
  <1>15. ASSUME NEW id \in Ids, Connect(id) \/ Disconnect(id)
         PROVE  [S!Next]_S!vars
    BY <1>15 DEF Connect, Disconnect, S!vars
  <1>16. ASSUME NEW id \in Ids, ConnectPanics(id)
         PROVE  [S!Next]_S!vars
    <2>1. S!Crash
      BY <1>16 DEF ConnectPanics, Die, NewConfig, EmptyMap, S!Crash, S!Empty
    <2> QED
      BY <2>1 DEF S!Next
  <1>17. CASE Crash
    <2>1. pc # "down" /\ pc' = "down" /\ reply' = "none" /\ cfg'.byID = S!Empty
      BY <1>17 DEF Crash, Die, NewConfig, EmptyMap, S!Empty
    <2>2. pc \in {"loading", "idle", "deleting", "importing", "saving"}
      BY <2>1 DEF TypeOK
    <2>3. \/ file' = file
          \/ pc = "saving" /\ file' \in {EmptyFile, TornFile, [form |-> "json", recs |-> cfg.byID]}
      BY <1>17 DEF Crash
    <2>4. \/ Mapped(file')
              = Mapped(file)
          \/ /\ pc = "saving"
             /\ Mapped(file')
                  \in {S!Whole(S!Empty), S!Lost, S!Whole(cfg.byID)}
      BY <2>3, FilesMapped
    <2>5. S!Crash
      BY <2>1, <2>2, <2>4 DEF S!Crash, Mapped
    <2> QED
      BY <2>5 DEF S!Next
  <1>18. CASE UNCHANGED vars
    BY <1>18 DEF vars, S!vars
  <1> QED
    BY <1>1, <1>2, <1>3, <1>4, <1>5, <1>6, <1>7, <1>8, <1>9, <1>10, <1>11, <1>12, <1>13,
       <1>14, <1>15, <1>16, <1>17, <1>18
    DEF Next, ServerStep, ClientCall

(***************************************************************************)
(* The service implements RecordStore: the disk holds what the last save   *)
(* wrote, or what a save that went wrong left, and never part of a call.   *)
(***************************************************************************)
THEOREM ImplementsStore == Spec => StoreImplemented
  <1>1. Init => DurableInv
    BY DEF Init, DurableInv, AckedIsDurable, NoAnswerYet, LoadedPart
  <1>2. Init => S!Init
    <2> SUFFICES ASSUME Init
                 PROVE  S!Init
      OBVIOUS
    <2>1. cfg.byID = S!Empty
      BY DEF Init, NewConfig, EmptyMap, S!Empty
    <2>2. Mapped(file) = S!Whole(S!Empty)
      BY FilesMapped DEF Init
    <2> QED
      BY <2>1, <2>2 DEF Init, S!Init, Mapped
  <1> QED
    BY <1>1, <1>2, StoreStep, DurableStep, TypeCorrect, PTL DEF Spec, StoreImplemented, S!Spec

-----------------------------------------------------------------------------
(***************************************************************************)
(* What the calls did.  Halfway through a Delete the records that go are   *)
(* the victims that are left; halfway through an Import the items before   *)
(* position Len(request.items) - Len(batch) are stored and the others are  *)
(* still in the batch.  A call that has come to its save has done it all.  *)
(***************************************************************************)
Deleting ==
  LET left == {victims[i] : i \in DOMAIN victims}
  IN  /\ request.op = "delete"
      /\ left \subseteq request.ids
      /\ DOMAIN begun \ request.ids \subseteq DOMAIN cfg.byID
      /\ DOMAIN cfg.byID \subseteq (DOMAIN begun \ request.ids) \cup left
      /\ \A id \in DOMAIN cfg.byID : id \in DOMAIN begun /\ cfg.byID[id] = begun[id]

\* The number of items of the payload that are stored, and their positions.
Count == Len(request.items) - Len(batch)
Stored == 1 .. Count

Importing ==
  /\ request.op = "import"
  /\ Len(batch) <= Len(request.items)
  /\ \A i \in DOMAIN batch :
       batch[i] = request.items[i + (Len(request.items) - Len(batch))]
  /\ ImportedUpTo(Count)
  /\ \A i \in Stored : request.items[i].id = NoId =>
       \E id \in DOMAIN cfg.byID \ Named(request.items) : cfg.byID[id] = request.items[i].rec
  /\ \A id \in DOMAIN cfg.byID \ DOMAIN begun :
       id \in NewAnonymous \/ \E i \in Stored : request.items[i].id = id

CallInv ==
  /\ CallsExact
  /\ pc = "loading" => request.op = "load"
  /\ pc = "deleting" => Deleting
  /\ pc = "importing" => Importing
  /\ pc = "saving" => CallDid

\* The record an upsert leaves under its id, and that it leaves the others alone.
LEMMA UpsertDid ==
  ASSUME NEW c \in Configuration, NEW id \in Ids, NEW r \in Record
  PROVE  LET new == upsert(c, id, r).byID
         IN  /\ DOMAIN new = DOMAIN c.byID \cup {id}
             /\ \A o \in DOMAIN c.byID \ {id} : new[o] = c.byID[o]
             /\ new[id].tags = r.tags
             /\ new[id].conn = IF r.conn = "none" /\ id \in DOMAIN c.byID
                               THEN c.byID[id].conn ELSE r.conn
             /\ id \notin DOMAIN c.byID => new[id] = r
  <1> DEFINE s == InheritConn(c, id, r)
  <1>1. upsert(c, id, r).byID = Put(c.byID, id, s)
    BY DEF upsert
  <1>2. /\ DOMAIN Put(c.byID, id, s) = DOMAIN c.byID \cup {id}
        /\ \A o \in DOMAIN c.byID \ {id} : Put(c.byID, id, s)[o] = c.byID[o]
        /\ Put(c.byID, id, s)[id] = s
    BY DEF Put
  <1>3. /\ s.tags = r.tags
        /\ s.conn = IF r.conn = "none" /\ id \in DOMAIN c.byID THEN c.byID[id].conn ELSE r.conn
        /\ id \notin DOMAIN c.byID => s = r
    BY DEF InheritConn, Record
  <1> QED
    BY <1>1, <1>2, <1>3

\* Two maps with the same keys and the same values are the same.
LEMMA SameMap ==
  ASSUME NEW m \in Map(Ids, Record), NEW D, NEW f, DOMAIN m = D, \A id \in D : m[id] = f[id]
  PROVE  m = [id \in D |-> f[id]]
  <1>1. m = [id \in DOMAIN m |-> m[id]]
    BY DEF Map
  <1> QED
    BY <1>1

\* The elements of a sequence are its first one and those of the rest.
LEMMA HeadAndTail ==
  ASSUME NEW T, NEW q \in Seq(T), q # <<>>
  PROVE  {q[i] : i \in DOMAIN q} = {Head(q)} \cup {Tail(q)[i] : i \in DOMAIN Tail(q)}
  <1>1. /\ Head(q) = q[1] /\ Len(q) \in Nat \ {0}
        /\ DOMAIN q = 1 .. Len(q) /\ DOMAIN Tail(q) = 1 .. (Len(q) - 1)
        /\ \A i \in 1 .. (Len(q) - 1) : Tail(q)[i] = q[i + 1]
    OBVIOUS
  <1>2. ASSUME NEW i \in DOMAIN q, i # 1
        PROVE  \E j \in DOMAIN Tail(q) : Tail(q)[j] = q[i]
    <2>1. i - 1 \in DOMAIN Tail(q) /\ (i - 1) + 1 = i
      BY <1>1, <1>2
    <2> QED
      BY <1>1, <2>1
  <1>3. ASSUME NEW j \in DOMAIN Tail(q)
        PROVE  \E i \in DOMAIN q : q[i] = Tail(q)[j]
    <2>1. j + 1 \in DOMAIN q
      BY <1>1
    <2> QED
      BY <1>1, <2>1
  <1>4. Head(q) \in {q[i] : i \in DOMAIN q}
    BY <1>1
  <1>5. \A i \in DOMAIN q : q[i] = Head(q) \/ \E j \in DOMAIN Tail(q) : Tail(q)[j] = q[i]
    BY <1>1, <1>2
  <1> DEFINE all == {q[i] : i \in DOMAIN q}
             rest == {Tail(q)[i] : i \in DOMAIN Tail(q)}
  <1>6. \A x \in all : x = Head(q) \/ x \in rest
    BY <1>5, Zenon
  <1>7. \A x \in rest : x \in all
    BY <1>3, Zenon
  <1> HIDE DEF all, rest
  <1>8. all = {Head(q)} \cup rest
    BY <1>4, <1>6, <1>7 DEF all
  <1> QED
    BY <1>8 DEF all, rest

\* A step in the loop of Delete.
LEMMA DeleteRecordDid ==
  ASSUME TypeOK, Deleting, DeleteRecord, pc' = "deleting"
  PROVE  Deleting'
  <1>1. /\ victims # <<>> /\ victims \in Seq(Ids) /\ cfg \in Configuration
        /\ deleteError(cfg, Head(victims)) = ""
        /\ cfg' = delete(cfg, Head(victims)) /\ victims' = Tail(victims)
        /\ UNCHANGED <<request, begun>>
    <2>1. deleteError(cfg, Head(victims)) = ""
      BY DEF DeleteRecord, Return
    <2> QED
      BY <2>1 DEF DeleteRecord, TypeOK
  <1>2. /\ DOMAIN cfg'.byID = DOMAIN cfg.byID \ {Head(victims)}
        /\ \A id \in DOMAIN cfg'.byID : cfg'.byID[id] = cfg.byID[id]
    BY <1>1 DEF delete, deleteError, Drop
  <1> DEFINE left == {victims[i] : i \in DOMAIN victims}
             rest == {Tail(victims)[i] : i \in DOMAIN Tail(victims)}
  <1>3. left = {Head(victims)} \cup rest
    BY <1>1, HeadAndTail
  <1>4. {victims'[i] : i \in DOMAIN victims'} = rest
    BY <1>1
  <1>5. /\ request.op = "delete" /\ left \subseteq request.ids
        /\ DOMAIN begun \ request.ids \subseteq DOMAIN cfg.byID
        /\ DOMAIN cfg.byID \subseteq (DOMAIN begun \ request.ids) \cup left
        /\ \A id \in DOMAIN cfg.byID : id \in DOMAIN begun /\ cfg.byID[id] = begun[id]
    BY DEF Deleting
  <1> HIDE DEF left, rest
  <1>6. /\ rest \subseteq request.ids
        /\ DOMAIN begun \ request.ids \subseteq DOMAIN cfg'.byID
        /\ DOMAIN cfg'.byID \subseteq (DOMAIN begun \ request.ids) \cup rest
        /\ \A id \in DOMAIN cfg'.byID : id \in DOMAIN begun /\ cfg'.byID[id] = begun[id]
    BY <1>2, <1>3, <1>5
  <1> QED
    BY <1>1, <1>4, <1>5, <1>6 DEF Deleting

\* The end of the loop of Delete.
LEMMA DeleteDoneDid ==
  ASSUME TypeOK, Deleting, DeleteDone
  PROVE  CallDid'
  <1>1. victims = <<>> /\ request.op = "delete" /\ UNCHANGED <<cfg, request, begun>>
    BY DEF DeleteDone, Deleting
  <1>2. {victims[i] : i \in DOMAIN victims} = {}
    BY <1>1
  <1>3. /\ DOMAIN cfg.byID = DOMAIN begun \ request.ids
        /\ \A id \in DOMAIN begun \ request.ids : cfg.byID[id] = begun[id]
    BY <1>2 DEF Deleting
  <1>4. cfg.byID \in Map(Ids, Record)
    BY DEF TypeOK, Configuration
  <1>5. Deleted
    BY <1>3, <1>4, SameMap DEF Deleted
  <1> QED
    BY <1>1, <1>5 DEF CallDid, Deleted

\* The positions that are stored grow by one as Import takes an item.
LEMMA ImportRecordPositions ==
  ASSUME TypeOK, Importing, batch # <<>>, batch' = Tail(batch), request' = request
  PROVE  LET k == Len(request.items) - Len(batch) + 1
         IN  /\ k \in DOMAIN request.items
             /\ Head(batch) = request.items[k]
             /\ Count \in Nat /\ k = Count + 1 /\ Count' = k
             /\ Stored = 1 .. Count /\ Stored' = 1 .. k
             /\ Len(batch') <= Len(request.items)
             /\ \A i \in DOMAIN batch' :
                  batch'[i] = request.items[i + (Len(request.items) - Len(batch'))]
  <1>1. batch \in Seq(Item) /\ request.items \in Seq(Item)
    BY DEF TypeOK, Request
  <1>2. /\ Len(batch) \in Nat \ {0} /\ Len(request.items) \in Nat
        /\ Len(batch) <= Len(request.items)
        /\ Len(Tail(batch)) = Len(batch) - 1
        /\ DOMAIN request.items = 1 .. Len(request.items)
        /\ DOMAIN batch = 1 .. Len(batch) /\ DOMAIN Tail(batch) = 1 .. (Len(batch) - 1)
        /\ Head(batch) = batch[1]
        /\ \A i \in DOMAIN Tail(batch) : Tail(batch)[i] = batch[i + 1]
    BY <1>1 DEF Importing
  <1>3. \A i \in DOMAIN batch : batch[i] = request.items[i + (Len(request.items) - Len(batch))]
    BY DEF Importing
  <1>4. Head(batch) = request.items[Len(request.items) - Len(batch) + 1]
    <2>1. 1 \in DOMAIN batch /\ 1 + (Len(request.items) - Len(batch)) = Len(request.items) - Len(batch) + 1
      BY <1>2
    <2> QED
      BY <1>2, <1>3, <2>1
  <1>5. ASSUME NEW i \in DOMAIN Tail(batch)
        PROVE  Tail(batch)[i] = request.items[i + (Len(request.items) - Len(Tail(batch)))]
    <2>1. i + 1 \in DOMAIN batch /\ Tail(batch)[i] = batch[i + 1]
      BY <1>2
    <2>2. (i + 1) + (Len(request.items) - Len(batch)) = i + (Len(request.items) - Len(Tail(batch)))
      <3>1. i \in Nat
        BY <1>2
      <3>2. \A n, m \in Nat : (i + 1) + (n - m) = i + (n - (m - 1))
        BY <3>1
      <3> QED
        BY <1>2, <3>2, Zenon
    <2> QED
      BY <1>3, <2>1, <2>2
  <1>6. /\ Len(request.items) - Len(batch) \in Nat
        /\ Len(request.items) - Len(Tail(batch)) = Len(request.items) - Len(batch) + 1
    BY <1>2
  <1>7. Len(request.items) - Len(batch) + 1 \in DOMAIN request.items
    BY <1>2
  <1> QED
    BY <1>2, <1>4, <1>5, <1>6, <1>7 DEF Stored, Count

\* An item without an id that is to be stored gets an id that no item names.
LEMMA FreshIsUnnamed ==
  ASSUME TypeOK, Importing, NEW id \in FreshIds \ Named(batch)
  PROVE  id \in Ids /\ id \notin DOMAIN cfg.byID /\ id \notin Named(request.items)
  <1>1. id \in Ids /\ id \notin DOMAIN cfg.byID
    BY DEF FreshIds
  <1>2. batch \in Seq(Item) /\ request.items \in Seq(Item)
    BY DEF TypeOK, Request
  <1>3. id # NoId
    BY <1>1, ConfigAssumption
  <1>4. ASSUME NEW i \in DOMAIN request.items
        PROVE  request.items[i].id # id
    <2>1. CASE i \in Stored
      <3>1. request.items[i].id # NoId => request.items[i].id \in DOMAIN cfg.byID
        BY <2>1 DEF Importing, ImportedUpTo, Stored
      <3> QED
        BY <1>1, <1>3, <3>1
    <2>2. CASE i \notin Stored
      <3> DEFINE j == i - (Len(request.items) - Len(batch))
      <3>1. j \in DOMAIN batch /\ j + (Len(request.items) - Len(batch)) = i
        BY <1>2, <2>2 DEF Stored, Count, Importing
      <3>2. batch[j] = request.items[i]
        BY <3>1 DEF Importing
      <3>3. batch[j].id # id
        BY <1>3, <3>1 DEF Named
      <3> QED
        BY <3>2, <3>3
    <2> QED
      BY <2>1, <2>2
  <1> QED
    BY <1>1, <1>4 DEF Named

\* The records that no item names and that are new, after an item is stored.
LEMMA ImportRecordNew ==
  ASSUME TypeOK, Importing, ImportRecord
  PROVE  LET N(n) == {i \in 1..n : request.items[i].id = NoId}
         IN  \E f \in [NewAnonymous' -> N(Count + 1)] :
               /\ \A a, b \in NewAnonymous' : f[a] = f[b] => a = b
               /\ \A o \in NewAnonymous' : cfg'.byID[o] = request.items[f[o]].rec
  <1> DEFINE items == request.items
             k == Len(items) - Len(batch) + 1
             N(n) == {i \in 1..n : items[i].id = NoId}
  <1>1. /\ batch # <<>> /\ batch' = Tail(batch) /\ UNCHANGED <<request, begun>>
        /\ batch \in Seq(Item) /\ cfg \in Configuration
    BY DEF ImportRecord, TypeOK
  <1>2. k \in DOMAIN items /\ Head(batch) = items[k] /\ Count \in Nat /\ k = Count + 1
    BY <1>1, ImportRecordPositions
  <1>3. PICK id \in IF Head(batch).id = NoId THEN FreshIds \ Named(batch) ELSE {Head(batch).id} :
          cfg' = upsert(cfg, id, Head(batch).rec)
    BY DEF ImportRecord
  <1>4. Head(batch) \in Item
    BY <1>1
  <1>5. id \in Ids /\ items[k].rec \in Record
    BY <1>2, <1>3, <1>4 DEF FreshIds, Item
  <1>6. /\ DOMAIN cfg'.byID = DOMAIN cfg.byID \cup {id}
        /\ \A o \in DOMAIN cfg.byID \ {id} : cfg'.byID[o] = cfg.byID[o]
        /\ id \notin DOMAIN cfg.byID => cfg'.byID[id] = items[k].rec
    BY <1>1, <1>2, <1>3, <1>5, UpsertDid
  <1>7. PICK f \in [NewAnonymous -> N(Count)] :
          /\ \A a, b \in NewAnonymous : f[a] = f[b] => a = b
          /\ \A o \in NewAnonymous : cfg.byID[o] = items[f[o]].rec
    BY DEF Importing, ImportedUpTo
  <1>8. N(Count) \subseteq N(Count + 1) /\ k \notin N(Count)
    BY <1>2
  <1>9. CASE items[k].id = NoId
    <2>1. id \notin DOMAIN cfg.byID /\ id \notin Named(items)
      BY <1>2, <1>3, <1>9, FreshIsUnnamed
    <2>2. id \notin DOMAIN begun
      <3>1. ASSUME id \in DOMAIN begun
            PROVE  FALSE
        <4>1. \A i \in 1..Count : items[i].id # id
          <5>1. \A i \in 1..Count : i \in DOMAIN items
            BY <1>1, <1>2 DEF TypeOK, Request
          <5> QED
            BY <1>5, <2>1, <5>1, ConfigAssumption DEF Named
        <4> QED
          BY <2>1, <3>1, <4>1 DEF Importing, ImportedUpTo
      <3> QED
        BY <3>1
    <2>3. NewAnonymous' = NewAnonymous \cup {id} /\ id \notin NewAnonymous
      BY <1>1, <1>6, <2>1, <2>2 DEF NewAnonymous
    <2> DEFINE g == [o \in NewAnonymous' |-> IF o = id THEN k ELSE f[o]]
    <2>4. k \in N(Count + 1)
      BY <1>2, <1>9
    <2> HIDE DEF N
    <2>5. g \in [NewAnonymous' -> N(Count + 1)]
      BY <1>7, <1>8, <2>3, <2>4
    <2>6. \A a, b \in NewAnonymous' : g[a] = g[b] => a = b
      BY <1>7, <1>8, <2>3
    <2>7. \A o \in NewAnonymous' : cfg'.byID[o] = items[g[o]].rec
      BY <1>6, <1>7, <2>1, <2>3 DEF NewAnonymous
    <2> HIDE DEF g
    <2> QED
      BY <2>5, <2>6, <2>7 DEF N
  <1>10. CASE items[k].id # NoId
    <2>1. id = items[k].id /\ id \in Named(items)
      BY <1>2, <1>3, <1>10 DEF Named
    <2>2. NewAnonymous' = NewAnonymous
      BY <1>1, <1>6, <2>1 DEF NewAnonymous
    <2>3. \A o \in NewAnonymous : cfg'.byID[o] = cfg.byID[o]
      BY <1>6, <2>1 DEF NewAnonymous
    <2> HIDE DEF N
    <2>4. f \in [NewAnonymous -> N(Count + 1)]
      BY <1>7, <1>8
    <2> QED
      BY <1>7, <2>2, <2>3, <2>4 DEF N
  <1> QED
    BY <1>9, <1>10

\* A step in the loop of Import.
LEMMA ImportRecordDid ==
  ASSUME TypeOK, Importing, ImportRecord
  PROVE  Importing'
  <1> DEFINE items == request.items
             k == Len(items) - Len(batch) + 1
             N(n) == {i \in 1..n : items[i].id = NoId}
             Later(i, n) == {j \in 1..n : j > i /\ items[j].id = items[i].id}
             None(id, n) == \A j \in 1..n : items[j].id = id => items[j].rec.conn = "none"
             Was(id) == IF id \in DOMAIN begun THEN begun[id].conn ELSE "none"
  <1>1. /\ batch # <<>> /\ batch' = Tail(batch) /\ UNCHANGED <<request, begun>>
        /\ batch \in Seq(Item) /\ cfg \in Configuration
    BY DEF ImportRecord, TypeOK
  <1>2. /\ k \in DOMAIN items /\ Head(batch) = items[k]
        /\ Count \in Nat /\ k = Count + 1 /\ Count' = k
        /\ Stored = 1 .. Count /\ Stored' = 1 .. k
        /\ Len(batch') <= Len(items)
        /\ \A i \in DOMAIN batch' : batch'[i] = items[i + (Len(items) - Len(batch'))]
    BY <1>1, ImportRecordPositions
  <1>3. PICK id \in IF Head(batch).id = NoId THEN FreshIds \ Named(batch) ELSE {Head(batch).id} :
          cfg' = upsert(cfg, id, Head(batch).rec)
    BY DEF ImportRecord
  <1>4. Head(batch) \in Item
    BY <1>1
  <1>5. id \in Ids /\ id # NoId /\ items[k].rec \in Record
    BY <1>2, <1>3, <1>4, ConfigAssumption DEF FreshIds, Item
  <1>6. /\ DOMAIN cfg'.byID = DOMAIN cfg.byID \cup {id}
        /\ \A o \in DOMAIN cfg.byID \ {id} : cfg'.byID[o] = cfg.byID[o]
        /\ id \notin DOMAIN cfg.byID => cfg'.byID[id] = items[k].rec
        /\ cfg'.byID[id].tags = items[k].rec.tags
        /\ cfg'.byID[id].conn = IF items[k].rec.conn = "none" /\ id \in DOMAIN cfg.byID
                                THEN cfg.byID[id].conn ELSE items[k].rec.conn
    BY <1>1, <1>2, <1>3, <1>5, UpsertDid
  <1>7. /\ \A o \in DOMAIN begun : (\A i \in 1..Count : items[i].id # o) =>
             o \in DOMAIN cfg.byID /\ cfg.byID[o] = begun[o]
        /\ \A i \in 1..Count : items[i].id # NoId =>
             /\ items[i].id \in DOMAIN cfg.byID
             /\ Later(i, Count) = {} => cfg.byID[items[i].id].tags = items[i].rec.tags
             /\ items[i].rec.conn # "none" /\ (\A j \in Later(i, Count) : items[j].rec.conn = "none") =>
                  cfg.byID[items[i].id].conn = items[i].rec.conn
             /\ None(items[i].id, Count) => cfg.byID[items[i].id].conn = Was(items[i].id)
        /\ \A i \in 1..Count : items[i].id = NoId =>
             \E o \in DOMAIN cfg.byID \ Named(items) : cfg.byID[o] = items[i].rec
        /\ \A o \in DOMAIN cfg.byID \ DOMAIN begun :
             o \in NewAnonymous \/ \E i \in 1..Count : items[i].id = o
        /\ request.op = "import"
    BY <1>2 DEF Importing, ImportedUpTo
  <1>8. /\ \A i \in 1..k : i \in 1..Count \/ i = k
        /\ \A i \in 1..Count : i \in 1..k /\ i < k /\ i \in Nat
        /\ k \in 1..k /\ k \in Nat
    BY <1>2
  <1>9. items[k].id = NoId => id \notin DOMAIN cfg.byID /\ id \notin Named(items)
    BY <1>2, <1>3, FreshIsUnnamed
  <1>10. items[k].id # NoId => id = items[k].id /\ id \in Named(items)
    BY <1>2, <1>3 DEF Named
  <1>11. ASSUME NEW o \in DOMAIN begun, \A i \in 1..k : items[i].id # o
         PROVE  o \in DOMAIN cfg'.byID /\ cfg'.byID[o] = begun[o]
    <2>1. o \in DOMAIN cfg.byID /\ cfg.byID[o] = begun[o]
      BY <1>7, <1>8, <1>11
    <2>2. o # id
      BY <1>8, <1>9, <1>10, <1>11, <2>1
    <2> QED
      BY <1>6, <2>1, <2>2
  <1>12. ASSUME NEW i \in 1..k, items[i].id = NoId
         PROVE  \E o \in DOMAIN cfg'.byID \ Named(items) : cfg'.byID[o] = items[i].rec
    <2>1. CASE i = k
      BY <1>6, <1>9, <1>12, <2>1
    <2>2. CASE i \in 1..Count
      <3>1. PICK o \in DOMAIN cfg.byID \ Named(items) : cfg.byID[o] = items[i].rec
        BY <1>7, <1>12, <2>2
      <3>2. o # id
        BY <1>9, <1>10
      <3> QED
        BY <1>6, <3>1, <3>2
    <2> QED
      BY <1>8, <2>1, <2>2
  <1>13. ASSUME NEW o \in DOMAIN cfg'.byID \ DOMAIN begun
         PROVE  o \in NewAnonymous' \/ \E i \in 1..k : items[i].id = o
    <2>1. CASE o = id
      BY <1>1, <1>8, <1>9, <1>10, <2>1 DEF NewAnonymous
    <2>2. CASE o # id
      <3>1. o \in DOMAIN cfg.byID \ DOMAIN begun
        BY <1>6, <2>2
      <3>2. o \in NewAnonymous => o \in NewAnonymous'
        BY <1>1 DEF NewAnonymous
      <3> QED
        BY <1>7, <1>8, <3>1, <3>2
    <2> QED
      BY <2>1, <2>2
  <1>14. ASSUME NEW i \in 1..k, items[i].id # NoId
         PROVE  /\ items[i].id \in DOMAIN cfg'.byID
                /\ Later(i, k) = {} => cfg'.byID[items[i].id].tags = items[i].rec.tags
                /\ items[i].rec.conn # "none" /\ (\A j \in Later(i, k) : items[j].rec.conn = "none") =>
                     cfg'.byID[items[i].id].conn = items[i].rec.conn
                /\ None(items[i].id, k) => cfg'.byID[items[i].id].conn = Was(items[i].id)
    <2>1. CASE items[i].id # id
      <3>1. i # k /\ i \in 1..Count
        BY <1>8, <1>10, <1>14, <2>1
      <3>2. Later(i, k) = Later(i, Count)
        BY <1>8, <1>9, <1>10, <1>14, <2>1
      <3>3. None(items[i].id, k) => None(items[i].id, Count)
        BY <1>8
      <3>4. items[i].id \in DOMAIN cfg.byID /\ cfg'.byID[items[i].id] = cfg.byID[items[i].id]
        BY <1>6, <1>7, <1>14, <2>1, <3>1
      <3> HIDE DEF Later, None, Was
      <3> QED
        BY <1>6, <1>7, <1>14, <3>1, <3>2, <3>3, <3>4
    <2>2. CASE items[i].id = id /\ i = k
      <3>1. None(id, k) => items[k].rec.conn = "none" /\ None(id, Count)
        BY <1>8, <2>2
      <3>2. ASSUME id \in DOMAIN cfg.byID, None(id, Count)
            PROVE  cfg.byID[id].conn = Was(id)
        <4>1. CASE \E j \in 1..Count : items[j].id = id
          <5> HIDE DEF Later, None, Was
          <5> QED
            BY <1>5, <1>7, <3>2, <4>1
        <4>2. CASE \A j \in 1..Count : items[j].id # id
          <5>1. id \notin NewAnonymous
            BY <1>10, <1>14, <2>2 DEF NewAnonymous
          <5>2. id \in DOMAIN begun
            BY <1>7, <3>2, <4>2, <5>1
          <5> QED
            BY <1>7, <4>2, <5>2
        <4> QED
          BY <4>1, <4>2
      <3>3. ASSUME id \notin DOMAIN cfg.byID
            PROVE  Was(id) = "none"
        <4>1. \A j \in 1..Count : items[j].id # id
          BY <1>5, <1>7, <3>3
        <4> QED
          BY <1>7, <3>3, <4>1
      <3> HIDE DEF Later, None, Was
      <3>4. None(id, k) => cfg'.byID[id].conn = Was(id)
        BY <1>6, <3>1, <3>2, <3>3
      <3> QED
        BY <1>6, <2>2, <3>4
    <2>3. CASE items[i].id = id /\ i \in 1..Count
      <3>1. items[k].id = id
        BY <1>5, <1>7, <1>9, <1>10, <2>3
      <3>2. k \in Later(i, k)
        BY <1>8, <2>3, <3>1
      <3>3. \A j \in Later(i, Count) : j \in Later(i, k)
        BY <1>8
      <3>4. None(id, k) => items[k].rec.conn = "none" /\ None(id, Count)
        BY <1>8, <3>1
      <3>5. id \in DOMAIN cfg.byID
        BY <1>5, <1>7, <2>3
      <3> HIDE DEF Later, None, Was
      <3>6. items[i].rec.conn # "none" /\ (\A j \in Later(i, k) : items[j].rec.conn = "none") =>
              cfg'.byID[id].conn = items[i].rec.conn
        BY <1>6, <1>7, <1>14, <2>3, <3>2, <3>3, <3>5
      <3>7. None(id, k) => cfg'.byID[id].conn = Was(id)
        BY <1>6, <1>7, <1>14, <2>3, <3>4, <3>5
      <3> QED
        BY <1>6, <2>3, <3>2, <3>6, <3>7
    <2> QED
      BY <1>8, <2>1, <2>2, <2>3
  <1>15. \E f \in [NewAnonymous' -> N(k)] :
           /\ \A a, b \in NewAnonymous' : f[a] = f[b] => a = b
           /\ \A o \in NewAnonymous' : cfg'.byID[o] = items[f[o]].rec
    BY <1>2, ImportRecordNew
  <1>16. ImportedUpTo(Count)'
    <2> HIDE DEF k
    <2> QED
      BY <1>1, <1>2, <1>11, <1>12, <1>14, <1>15 DEF ImportedUpTo
  <1> QED
    BY <1>1, <1>2, <1>7, <1>12, <1>13, <1>16 DEF Importing

\* The end of the loop of Import.
LEMMA ImportDoneDid ==
  ASSUME TypeOK, Importing, ImportDone
  PROVE  CallDid'
  <1>1. batch = <<>> /\ request.op = "import" /\ UNCHANGED <<cfg, request, begun>>
    BY DEF ImportDone, Importing
  <1>2. Len(request.items) \in Nat
    BY DEF TypeOK, Request
  <1>3. Count = Len(request.items)
    BY <1>1, <1>2 DEF Count
  <1>4. Imported
    BY <1>3 DEF Imported, Importing
  <1> QED
    BY <1>1, <1>4 DEF CallDid, Imported, ImportedUpTo, NewAnonymous

\* What a call did stays done while the configuration and the call are the same.
LEMMA CallDidStays ==
  ASSUME CallDid, UNCHANGED <<cfg, request, begun>>
  PROVE  CallDid'
  <1>1. Deleted => Deleted'
    BY DEF Deleted
  <1>2. Upserted => Upserted'
    BY DEF Upserted
  <1>3. Imported => Imported'
    BY DEF Imported, ImportedUpTo, NewAnonymous
  <1> QED
    BY <1>1, <1>2, <1>3 DEF CallDid

\* Every step keeps CallInv.
LEMMA CallStep == TypeOK /\ NoAnswerYet /\ CallInv /\ [Next]_vars => CallInv'
  <1> SUFFICES ASSUME TypeOK, NoAnswerYet, CallInv, [Next]_vars
               PROVE  CallInv'
    OBVIOUS
  <1>t. cfg \in Configuration /\ begun \in Map(Ids, Record)
    BY DEF TypeOK
  <1>i. ASSUME reply' # "ok", pc' \in {"idle", "down"}
        PROVE  CallInv'
    BY <1>i DEF CallInv, CallsExact
  <1>s. ASSUME CallDid', reply' # "ok", pc' = "saving"
        PROVE  CallInv'
    BY <1>s DEF CallInv, CallsExact
  <1>1. CASE Start
    BY <1>1 DEF Start, CallInv, CallsExact
  <1>2. CASE StartFails \/ SaveFails \/ UpsertRejected \/ ImportRejected \/ Crash
    BY <1>2, <1>i DEF StartFails, SaveFails, UpsertRejected, ImportRejected, Return, Crash, Die
  <1>3. CASE LoadRecord
    BY <1>3 DEF LoadRecord, NoAnswerYet, CallInv, CallsExact
  <1>4. CASE LoadDone
    BY <1>4 DEF LoadDone, Return, CallInv, CallsExact, CallDid
  <1>5. CASE DeleteRecord
    <2>1. CASE pc' = "deleting"
      <3>1. pc = "deleting" /\ reply' # "ok"
        BY <1>5 DEF DeleteRecord, Return, NoAnswerYet
      <3>2. Deleting'
        BY <1>5, <2>1, <3>1, DeleteRecordDid DEF CallInv
      <3> QED
        BY <2>1, <3>1, <3>2 DEF CallInv, CallsExact
    <2>2. CASE pc' # "deleting"
      BY <1>5, <1>i, <2>2 DEF DeleteRecord, Return
    <2> QED
      BY <2>1, <2>2
  <1>6. CASE DeleteDone
    <2>1. CallDid'
      BY <1>6, DeleteDoneDid DEF DeleteDone, CallInv
    <2> QED
      BY <1>6, <1>s, <2>1 DEF DeleteDone, NoAnswerYet
  <1>7. CASE ImportRecord
    <2>1. Importing'
      BY <1>7, ImportRecordDid DEF ImportRecord, CallInv
    <2> QED
      BY <1>7, <2>1 DEF ImportRecord, NoAnswerYet, CallInv, CallsExact
  <1>8. CASE ImportDone
    <2>1. CallDid'
      BY <1>8, ImportDoneDid DEF ImportDone, CallInv
    <2> QED
      BY <1>8, <1>s, <2>1 DEF ImportDone, NoAnswerYet
  <1>9. CASE SaveOk
    BY <1>9, CallDidStays DEF SaveOk, Return, CallInv, CallsExact
  <1>10. ASSUME NEW r \in Inputs, UpsertNew(r)
         PROVE  CallInv'
    <2>1. PICK id \in FreshIds : cfg' = upsert(cfg, id, r)
      BY <1>10 DEF UpsertNew
    <2>2. id \in Ids /\ id \notin DOMAIN cfg.byID /\ r \in Record
      BY ServerAssumption DEF FreshIds
    <2>3. /\ request' = [op |-> "upsert", ids |-> {}, items |-> <<[id |-> NoId, rec |-> r]>>]
          /\ begun' = cfg.byID /\ pc' = "saving" /\ reply' = "none"
      BY <1>10 DEF UpsertNew, Begin
    <2>4. request'.items[1].rec = r /\ request'.ids = {} /\ request'.op = "upsert"
      BY <2>3
    <2>5. Upserted'
      BY <1>t, <2>1, <2>2, <2>3, <2>4, UpsertDid DEF Upserted
    <2> QED
      BY <1>s, <2>3, <2>4, <2>5 DEF CallDid
  <1>11. ASSUME NEW id \in Ids, NEW r \in Inputs, UpsertExisting(id, r)
         PROVE  CallInv'
    <2>1. r \in Record
      BY ServerAssumption
    <2>2. clearTags(cfg, id) \in Configuration /\ clearTags(cfg, id).byID = cfg.byID
      BY <1>t, ClearTagsType
    <2>3. CASE clearTagsError(cfg, id)
      BY <1>11, <1>i, <2>3 DEF UpsertExisting, Return
    <2>4. CASE ~clearTagsError(cfg, id)
      <3>1. /\ request' = [op |-> "upsert", ids |-> {id}, items |-> <<[id |-> id, rec |-> r]>>]
            /\ begun' = cfg.byID /\ pc' = "saving" /\ reply' = "none"
            /\ cfg' = upsert(clearTags(cfg, id), id, r)
        BY <1>11, <2>4 DEF UpsertExisting, Begin
      <3>2. request'.items[1].rec = r /\ request'.ids = {id} /\ request'.op = "upsert"
        BY <3>1
      <3>3. Upserted'
        BY <2>1, <2>2, <3>1, <3>2, UpsertDid DEF Upserted
      <3> QED
        BY <1>s, <3>1, <3>2, <3>3 DEF CallDid
    <2> QED
      BY <2>3, <2>4
  <1>12. ASSUME NEW sel \in Selectors, DeleteRefused(sel)
         PROVE  CallInv'
    <2>1. reply' # "ok" /\ pc' = "idle"
      BY <1>12 DEF DeleteRefused, Return, listError
    <2> QED
      BY <1>i, <2>1
  <1>13. ASSUME NEW sel \in Selectors, Delete(sel)
         PROVE  CallInv'
    <2>1. PICK l \in listLocked(cfg, sel) :
            /\ request' = [op |-> "delete", ids |-> {l[i].id : i \in DOMAIN l}, items |-> <<>>]
            /\ begun' = cfg.byID
            /\ victims' = [i \in DOMAIN l |-> l[i].id]
      BY <1>13 DEF Delete, Begin
    <2>2. cfg' = cfg /\ pc' = "deleting" /\ reply' = "none"
      BY <1>13 DEF Delete
    <2>3. {victims'[i] : i \in DOMAIN victims'} = {l[i].id : i \in DOMAIN l}
      BY <2>1
    <2>4. Deleting'
      BY <2>1, <2>2, <2>3 DEF Deleting
    <2> QED
      BY <2>2, <2>4 DEF CallInv, CallsExact
  <1>14. ASSUME NEW items \in Importable, NEW o \in {<<>>} \cup {<<t>> : t \in Tags},
                Import(items, o)
         PROVE  CallInv'
    <2>1. /\ request'.op = "import" /\ request'.items = batch'
          /\ begun' = cfg.byID /\ cfg' = cfg /\ pc' = "importing" /\ reply' = "none"
      BY <1>14 DEF Import, Begin
    <2>2. batch' \in Seq(Item)
      BY TypeStep DEF TypeOK
    <2>3. Count' = 0 /\ Stored' = {} /\ 1 .. 0 = {}
      BY <2>1, <2>2 DEF Stored, Count
    <2>4. NewAnonymous' = {}
      BY <2>1 DEF NewAnonymous
    <2>5. \A i \in DOMAIN batch' :
            batch'[i] = request'.items[i + (Len(request'.items) - Len(batch'))]
      BY <2>1, <2>2
    <2>6. ImportedUpTo(0)'
      <3>1. [x \in {} |-> 0] \in [{} -> {i \in 1 .. 0 : request'.items[i].id = NoId}]
        OBVIOUS
      <3> QED
        BY <2>1, <2>3, <2>4, <3>1 DEF ImportedUpTo
    <2>7. Importing'
      BY <2>1, <2>2, <2>3, <2>4, <2>5, <2>6 DEF Importing
    <2> QED
      BY <2>1, <2>7 DEF CallInv, CallsExact
  <1>15. ASSUME NEW id \in Ids, Connect(id) \/ Disconnect(id)
         PROVE  CallInv'
    BY <1>15, CallDidStays DEF Connect, Disconnect, CallInv, CallsExact
  <1>16. ASSUME NEW id \in Ids, ConnectPanics(id)
         PROVE  CallInv'
    BY <1>16, <1>i DEF ConnectPanics, Die
  <1>17. CASE UNCHANGED vars
    <2>1. Deleting => Deleting'
      BY <1>17 DEF vars, Deleting
    <2>2. Importing => Importing'
      <3>1. Count' = Count /\ Stored' = Stored /\ NewAnonymous' = NewAnonymous
        BY <1>17 DEF vars, Count, Stored, NewAnonymous
      <3>2. ImportedUpTo(Count) => ImportedUpTo(Count)'
        BY <1>17, <3>1 DEF vars, ImportedUpTo
      <3> QED
        BY <1>17, <3>1, <3>2 DEF vars, Importing
    <2>3. CallDid => CallDid'
      BY <1>17, CallDidStays DEF vars
    <2> QED
      BY <1>17, <2>1, <2>2, <2>3 DEF vars, CallInv, CallsExact
  <1> QED
    BY <1>1, <1>2, <1>3, <1>4, <1>5, <1>6, <1>7, <1>8, <1>9, <1>10, <1>11, <1>12, <1>13,
       <1>14, <1>15, <1>16, <1>17
    DEF Next, ServerStep, ClientCall

(***************************************************************************)
(* A Delete, an Upsert or an Import that answered without an error did     *)
(* what it was asked for and nothing else, for every selector, payload and *)
(* order of the loops, also when a client repeats a tag.                   *)
(***************************************************************************)
THEOREM CallsAreExact == Spec => []CallsExact
  <1>1. Init => DurableInv /\ CallInv
    BY DEF Init, DurableInv, AckedIsDurable, NoAnswerYet, LoadedPart, CallInv, CallsExact
  <1>2. CallInv => CallsExact
    BY DEF CallInv
  <1>3. DurableInv => NoAnswerYet
    BY DEF DurableInv
  <1> QED
    BY <1>1, <1>2, <1>3, DurableStep, CallStep, TypeCorrect, PTL DEF Spec

(***************************************************************************)
(* The error of config.go:21 is reached through a record that repeats a    *)
(* tag and in no other way: when no client sends one, no call answers with *)
(* it.                                                                     *)
(***************************************************************************)
THEOREM NoTagIndexBugWithoutRepeats ==
  ASSUME DistinctTags
  PROVE  Spec => []NoTagIndexBug
  <1>1. Init => NoTagIndexBug
    BY DEF Init, NoTagIndexBug
  <1>2. TypeOK /\ IndexConsistent /\ NoTagIndexBug /\ [Next]_vars => NoTagIndexBug'
    <2> SUFFICES ASSUME TypeOK, IndexConsistent, NoTagIndexBug, [Next]_vars
                 PROVE  reply' # "tagIndex"
      BY DEF NoTagIndexBug
    <2>1. CASE DeleteRecord
      <3>1. cfg \in Configuration /\ cfg.byTag = IndexOf(cfg.byID)
        BY DEF TypeOK, IndexConsistent
      <3>2. deleteError(cfg, Head(victims)) # "tagIndex"
        <4>1. CASE Head(victims) \in DOMAIN cfg.byID
          BY <3>1, <4>1, DeleteNoError
        <4>2. CASE Head(victims) \notin DOMAIN cfg.byID
          BY <4>2 DEF deleteError
        <4> QED
          BY <4>1, <4>2
      <3> QED
        BY <2>1, <3>2 DEF DeleteRecord, Return, NoTagIndexBug
    <2>2. CASE Start \/ StartFails \/ LoadRecord \/ LoadDone \/ DeleteDone \/ ImportRecord
               \/ ImportDone \/ SaveOk \/ SaveFails \/ Crash \/ UNCHANGED vars
      BY <2>2 DEF Start, StartFails, LoadRecord, LoadDone, DeleteDone, ImportRecord, ImportDone,
                  SaveOk, SaveFails, Crash, Die, Return, vars, NoTagIndexBug
    <2>3. CASE ClientCall
      <3>1. \A sel \in Selectors : listError(cfg, sel) # "tagIndex"
        BY DEF listError
      <3> QED
        BY <2>3, <3>1 DEF ClientCall, UpsertRejected, UpsertNew, UpsertExisting, DeleteRefused, Delete,
                  ImportRejected, Import, Connect, ConnectPanics, Disconnect, Die, Return, NoTagIndexBug
    <2> QED
      BY <2>1, <2>2, <2>3 DEF Next, ServerStep
  <1> QED
    BY <1>1, <1>2, IndexAlwaysConsistent, TypeCorrect, PTL DEF Spec
-----------------------------------------------------------------------------
(***************************************************************************)
(* What a selector selects, by the records alone.                          *)
(***************************************************************************)
Selected(c, sel) ==
  IF sel.all THEN DOMAIN c.byID
  ELSE IF sel.ids # <<>> THEN {sel.ids[i] : i \in DOMAIN sel.ids}
  ELSE UNION {Tagged(c.byID, sel.tags[k]) : k \in DOMAIN sel.tags}

\* The identifiers of a listing.
IdsOf(l) == {l[i].id : i \in DOMAIN l}

\* An iteration over the entries of a map meets every key, and keys only.
LEMMA EntriesListed ==
  ASSUME NEW m, NEW l \in Orders(Entries(m))
  PROVE  IdsOf(l) = DOMAIN m
  <1>1. \A i \in DOMAIN l : l[i] \in Entries(m)
    BY DEF Orders
  <1>2. \A x \in Entries(m) : \E i \in DOMAIN l : l[i] = x
    BY DEF Orders
  <1>3. \A i \in DOMAIN l : l[i].id \in DOMAIN m
    BY <1>1 DEF Entries
  <1>4. ASSUME NEW id \in DOMAIN m
        PROVE  \E i \in DOMAIN l : l[i].id = id
    <2>1. [id |-> id, rec |-> m[id]] \in Entries(m)
      BY DEF Entries
    <2> QED
      BY <1>2, <2>1
  <1> QED
    BY <1>3, <1>4 DEF IdsOf

\* listByTags lists what the index has under the tags.
LEMMA TagsListed ==
  ASSUME NEW c, NEW tags, NEW l \in listByTags(c, tags)
  PROVE  IdsOf(l) = UNION {DOMAIN c.byTag[tags[k]] : k \in DOMAIN tags}
  <1> DEFINE hits == UNION {{k} \X Entries(c.byTag[tags[k]]) : k \in DOMAIN tags}
  <1>1. PICK h \in Orders(hits) : l = [i \in DOMAIN h |-> h[i][2]]
    BY DEF listByTags
  <1>2. ASSUME NEW x \in hits
        PROVE  \E k \in DOMAIN tags : x[2].id \in DOMAIN c.byTag[tags[k]]
    <2>1. PICK k \in DOMAIN tags : x \in {k} \X Entries(c.byTag[tags[k]])
      OBVIOUS
    <2> QED
      BY <2>1 DEF Entries
  <1>3. ASSUME NEW k \in DOMAIN tags, NEW id \in DOMAIN c.byTag[tags[k]]
        PROVE  \E x \in hits : x[2].id = id
    <2> DEFINE e == [id |-> id, rec |-> c.byTag[tags[k]][id]]
    <2>1. e \in Entries(c.byTag[tags[k]])
      BY DEF Entries
    <2>2. <<k, e>> \in hits
      BY <2>1
    <2> QED
      BY <2>2
  <1> HIDE DEF hits
  <1>4. /\ \A i \in DOMAIN h : h[i] \in hits
        /\ \A x \in hits : \E i \in DOMAIN h : h[i] = x
    BY DEF Orders
  <1>5. DOMAIN l = DOMAIN h /\ \A i \in DOMAIN h : l[i] = h[i][2]
    BY <1>1
  <1>6. ASSUME NEW i \in DOMAIN l
        PROVE  \E k \in DOMAIN tags : l[i].id \in DOMAIN c.byTag[tags[k]]
    BY <1>2, <1>4, <1>5
  <1>7. ASSUME NEW k \in DOMAIN tags, NEW id \in DOMAIN c.byTag[tags[k]]
        PROVE  \E i \in DOMAIN l : l[i].id = id
    BY <1>3, <1>4, <1>5
  <1> QED
    BY <1>6, <1>7 DEF IdsOf

\* With a consistent index, a listing has the selected records and no other.
LEMMA ListsSelected ==
  ASSUME NEW c, c.byTag = IndexOf(c.byID), NEW sel, listError(c, sel) = "",
         NEW l \in listLocked(c, sel)
  PROVE  IdsOf(l) = Selected(c, sel)
  <1>1. CASE sel.all
    BY <1>1, EntriesListed DEF listLocked, Selected
  <1>2. CASE ~sel.all /\ sel.ids # <<>>
    <2>1. l = [i \in DOMAIN sel.ids |-> [id |-> sel.ids[i], rec |-> c.byID[sel.ids[i]]]]
      BY <1>2 DEF listLocked, listByIDs
    <2>2. DOMAIN l = DOMAIN sel.ids /\ \A i \in DOMAIN sel.ids : l[i].id = sel.ids[i]
      BY <2>1
    <2> QED
      BY <1>2, <2>2 DEF Selected, IdsOf
  <1>3. CASE ~sel.all /\ sel.ids = <<>>
    <2>1. \A k \in DOMAIN sel.tags : sel.tags[k] \in DOMAIN c.byTag
      BY <1>3 DEF listError
    <2>2. l \in listByTags(c, sel.tags)
      BY <1>3 DEF listLocked
    <2>3. IdsOf(l) = UNION {DOMAIN c.byTag[sel.tags[k]] : k \in DOMAIN sel.tags}
      BY <2>2, TagsListed
    <2>4. \A k \in DOMAIN sel.tags :
            DOMAIN c.byTag[sel.tags[k]] = Tagged(c.byID, sel.tags[k])
      BY <2>1 DEF IndexOf
    <2> QED
      BY <1>3, <2>3, <2>4 DEF Selected
  <1> QED
    BY <1>1, <1>2, <1>3

(***************************************************************************)
(* Delete goes for the records its selector selects: all of them, those    *)
(* named, or those that have one of the tags, although it finds the last   *)
(* through the index and not in the records.  With CallsAreExact: what a   *)
(* successful Delete has removed is what was selected when it began.       *)
(***************************************************************************)
THEOREM DeleteTakesTheSelected ==
  ASSUME DistinctTags
  PROVE  Spec => [][\A sel \in Selectors :
                      Delete(sel) => request'.ids = Selected(cfg, sel)]_vars
  <1>1. TypeOK /\ IndexConsistent =>
          [\A sel \in Selectors : Delete(sel) => request'.ids = Selected(cfg, sel)]_vars
    <2> SUFFICES ASSUME IndexConsistent, NEW sel \in Selectors, Delete(sel)
                 PROVE  request'.ids = Selected(cfg, sel)
      OBVIOUS
    <2>1. PICK l \in listLocked(cfg, sel) :
             request' = [op |-> "delete", ids |-> IdsOf(l), items |-> <<>>]
      BY DEF Delete, Begin, IdsOf
    <2>2. IdsOf(l) = Selected(cfg, sel)
      BY ListsSelected DEF Delete, IndexConsistent
    <2> QED
      BY <2>1, <2>2
  <1> QED
    BY <1>1, IndexAlwaysConsistent, TypeCorrect, PTL

-----------------------------------------------------------------------------
(***************************************************************************)
(* The steps a call that holds the lock has left, at most.                 *)
(***************************************************************************)
Unloaded == DOMAIN file.recs \ DOMAIN cfg.byID

Left == CASE pc = "loading"   -> Cardinality(Unloaded) + 1
          [] pc = "deleting"  -> Len(victims) + 2
          [] pc = "importing" -> Len(batch) + 2
          [] pc = "saving"    -> 1
          [] OTHER            -> 0

\* The bound is a number, and a call that holds the lock has a step to go.
LEMMA LeftType == TypeOK => /\ Left \in Nat
                            /\ IsFiniteSet(Unloaded)
                            /\ pc \notin {"idle", "down"} => Left > 0
  <1> SUFFICES ASSUME TypeOK
               PROVE  /\ Left \in Nat
                      /\ IsFiniteSet(Unloaded)
                      /\ pc \notin {"idle", "down"} => Left > 0
    OBVIOUS
  <1>1. DOMAIN file.recs \subseteq Ids
    BY DEF TypeOK, File, Map
  <1>2. IsFiniteSet(Unloaded)
    BY <1>1, ConfigAssumption, FS_Subset DEF Unloaded
  <1>3. Cardinality(Unloaded) \in Nat
    BY <1>2, FS_CardinalityType
  <1>4. Len(victims) \in Nat /\ Len(batch) \in Nat
    BY DEF TypeOK
  <1> QED
    BY <1>2, <1>3, <1>4 DEF Left, TypeOK

(***************************************************************************)
(* While a call holds the lock every step of the server is a step of that  *)
(* call, and brings it closer to its end: no loop of Delete, Import or     *)
(* loadConfig visits anything twice, an error ends the call at once, and   *)
(* the process may die but nobody else comes in between: a call that takes *)
(* the lock gives it back after at most Left steps.                        *)
(***************************************************************************)
THEOREM CallsRunDown ==
  Spec => [][pc \notin {"idle", "down"} => Left \in Nat /\ Left' \in Nat /\ Left' < Left]_vars
  <1>1. TypeOK /\ [Next]_vars =>
          [pc \notin {"idle", "down"} => Left \in Nat /\ Left' \in Nat /\ Left' < Left]_vars
    <2> SUFFICES ASSUME TypeOK, Next, pc \notin {"idle", "down"}
                 PROVE  Left \in Nat /\ Left' \in Nat /\ Left' < Left
      OBVIOUS
    <2>1. Left \in Nat /\ Left > 0 /\ IsFiniteSet(Unloaded)
      BY LeftType
    <2>2. TypeOK'
      BY TypeStep
    <2>3. Left' \in Nat
      <3>1. Unloaded' \subseteq Ids
        BY <2>2 DEF Unloaded, TypeOK, File, Map
      <3>2. Cardinality(Unloaded') \in Nat
        BY <3>1, ConfigAssumption, FS_Subset, FS_CardinalityType
      <3>3. Len(victims') \in Nat /\ Len(batch') \in Nat
        BY <2>2 DEF TypeOK
      <3> QED
        BY <3>2, <3>3 DEF Left
    <2>4. CASE LoadRecord
      <3>1. PICK id \in Unloaded : cfg' = upsert(cfg, id, file.recs[id])
        BY <2>4 DEF LoadRecord, Unloaded
      <3>2. DOMAIN cfg'.byID = DOMAIN cfg.byID \cup {id}
        BY <3>1 DEF upsert, Put
      <3>3. Unloaded' = Unloaded \ {id}
        BY <2>4, <3>2 DEF LoadRecord, Unloaded
      <3>4. Cardinality(Unloaded') = Cardinality(Unloaded) - 1 /\ Cardinality(Unloaded) \in Nat
        BY <2>1, <3>1, <3>3, FS_RemoveElement, FS_CardinalityType
      <3>5. pc = "loading" /\ pc' = "loading"
        BY <2>4 DEF LoadRecord
      <3> QED
        BY <2>1, <2>3, <3>4, <3>5 DEF Left
    <2>5. CASE DeleteRecord
      <3>1. pc = "deleting" /\ victims \in Seq(Ids) /\ victims # <<>>
        BY <2>5 DEF DeleteRecord, TypeOK
      <3>2. Len(victims) \in Nat /\ Len(Tail(victims)) = Len(victims) - 1
        BY <3>1
      <3>3. \/ pc' = "deleting" /\ victims' = Tail(victims)
            \/ pc' = "idle"
        BY <2>5, <3>1 DEF DeleteRecord, Return
      <3> QED
        BY <2>1, <2>3, <3>1, <3>2, <3>3 DEF Left
    <2>6. CASE ImportRecord
      <3>1. pc = "importing" /\ pc' = "importing" /\ batch \in Seq(Item) /\ batch # <<>>
        BY <2>6 DEF ImportRecord, TypeOK
      <3>2. Len(batch) \in Nat /\ Len(Tail(batch)) = Len(batch) - 1
        BY <3>1
      <3>3. batch' = Tail(batch)
        BY <2>6 DEF ImportRecord
      <3> QED
        BY <2>1, <2>3, <3>1, <3>2, <3>3 DEF Left
    <2>7. CASE DeleteDone \/ ImportDone
      <3>1. /\ pc' = "saving"
            /\ \/ pc = "deleting" /\ Len(victims) \in Nat
               \/ pc = "importing" /\ Len(batch) \in Nat
        BY <2>7 DEF DeleteDone, ImportDone, TypeOK
      <3> QED
        BY <2>1, <2>3, <3>1 DEF Left
    <2>8. CASE LoadDone \/ SaveOk \/ SaveFails \/ Crash
      <3>1. pc' \in {"idle", "down"}
        BY <2>8 DEF LoadDone, SaveOk, SaveFails, Crash, Die, Return
      <3> QED
        BY <2>1, <2>3, <3>1 DEF Left
    <2>9. ~(Start \/ StartFails \/ ClientCall)
      BY DEF Start, StartFails, ClientCall, UpsertRejected, UpsertNew, UpsertExisting, DeleteRefused,
             Delete, ImportRejected, Import, Connect, ConnectPanics, Disconnect, Begin
    <2> QED
      BY <2>4, <2>5, <2>6, <2>7, <2>8, <2>9 DEF Next, ServerStep
  <1> QED
    BY <1>1, TypeCorrect, PTL DEF Spec
=============================================================================
