------------------------------ MODULE Catalog ------------------------------
(***************************************************************************)
(* The catalog gives a number to every series (a set of tags; there is one *)
(* measurement) and to every field, and remembers databases and retention  *)
(* policies.  Numbers are logged in catalog.wal before they are used; a     *)
(* checkpoint writes snapshot.bin and empties the log; databases are in     *)
(* metadata.bin.                                                            *)
(*                                                                         *)
(* c.mu is held by one call at a time.  A call is the sequence of the items *)
(* it still has to do, so that a stop or a failing write can fall between   *)
(* any two effects on the disk.                                             *)
(***************************************************************************)
EXTENDS Integers, FiniteSets, FiniteSetsExt, Functions, Sequences, SequencesExt, TLC

CONSTANTS
    Points,        \* what callers write: records [db, rp, tags, fields]
    MaxBatch,      \* points of one batch
    Durations,     \* of an explicit retention policy
    Threshold,     \* snapshotCheckpointThresholdLocked
    MaxSeries, MaxFields, MaxTagValuesPerKey,  \* Limits, 0 for none
    Faults,        \* what may fail: a subset of FaultKind
    Stops          \* how the process may end: "process" and "power"

FaultKind == {"write", "short", "sync", "snapshot", "truncate", "save"}

ASSUME CatalogAssumption ==
    /\ MaxBatch \in Nat \ {0} /\ Threshold \in Nat \ {0} /\ Durations \subseteq Nat \ {0}
    /\ MaxSeries \in Nat /\ MaxFields \in Nat /\ MaxTagValuesPerKey \in Nat
    /\ Faults \subseteq FaultKind /\ Stops \subseteq {"process", "power"}

Kinds == {"series", "field"}
Databases == {p.db : p \in Points}
Policies == {p.rp : p \in Points}
Keys(k) == IF k = "series" THEN {p.tags : p \in Points} ELSE UNION {DOMAIN p.fields : p \in Points}
Types == UNION {Range(p.fields) : p \in Points}

\* A Series or Field; only a field has a type.
Entry == [kind : {"series"}, id : Nat, key : Keys("series"), type : {"none"}]
         \cup [kind : {"field"}, id : Nat, key : Keys("field"), type : Types]

VARIABLES
    state,     \* "open", "closed" (c.wal is nil) or "down" (no process)
    index,     \* the series and field maps and the next numbers
    dirty,     \* snapshotDirtyRecords
    metadata,  \* databases and their policies: database -> policy -> duration
    call,      \* what the call that holds c.mu has left to do
    wal,       \* catalog.wal: records, whole or torn
    synced,    \* how many of them a loss of power cannot take
    snapshot,  \* snapshot.bin
    metaFile,  \* metadata.bin
    issued,    \* ghost: entries that calls returned
    created    \* ghost: databases that calls which returned nil wrote to or created

vars == <<state, index, dirty, metadata, call, wal, synced, snapshot, metaFile, issued, created>>

NoCall == [todo |-> <<>>, changed |-> FALSE, metaChanged |-> FALSE, got |-> {}, dbs |-> {}]
Empty == [byId |-> [k \in Kinds |-> <<>>], byKey |-> [k \in Kinds |-> <<>>],
          next |-> [k \in Kinds |-> 1]]

-----------------------------------------------------------------------------
(* The maps, their log and their snapshot.                                  *)

\* Mutant: the next number is compared with > instead of >=.
Apply_Greater(m, e) ==
    [byId  |-> [m.byId EXCEPT ![e.kind] = (e.id :> e) @@ @],
     byKey |-> [m.byKey EXCEPT ![e.kind] = (e.key :> e) @@ @],
     next  |-> [m.next EXCEPT ![e.kind] = IF e.id > @ THEN e.id + 1 ELSE @]]

\* Mutant: the entry is filed under the number after it.
Apply_NextSlot(m, e) ==
    [byId  |-> [m.byId EXCEPT ![e.kind] = ((e.id + 1) :> e) @@ @],
     byKey |-> [m.byKey EXCEPT ![e.kind] = (e.key :> e) @@ @],
     next  |-> [m.next EXCEPT ![e.kind] = IF e.id >= @ THEN e.id + 1 ELSE @]]

\* applySeries and applyField; byKey stands for seriesByKey, seriesByTag,
\* fieldsByKey and fieldSchemas.
Apply(m, e) ==
    [byId  |-> [m.byId EXCEPT ![e.kind] = (e.id :> e) @@ @],
     byKey |-> [m.byKey EXCEPT ![e.kind] = (e.key :> e) @@ @],
     next  |-> [m.next EXCEPT ![e.kind] = IF e.id >= @ THEN e.id + 1 ELSE @]]

\* encodeSnapshot keeps the numbers' entries, in their order, and not the keys.
Encoded(m) == [next |-> m.next, byId |-> m.byId]
InOrder(f) == [i \in 1..Cardinality(DOMAIN f) |->
                 f[CHOOSE id \in DOMAIN f : Cardinality({j \in DOMAIN f : j <= id}) = i]]

\* loadSnapshot.
Loaded(s) == FoldLeft(Apply, [Empty EXCEPT !.next = s.next],
                      InOrder(s.byId["series"]) \o InOrder(s.byId["field"]))

Loadable == \A i \in DOMAIN wal : wal[i].whole

\* replayWAL on top of loadSnapshot.
Recovered == FoldLeft(LAMBDA m, r : Apply(m, r.entry), Loaded(snapshot), wal)

\* ensureSeriesCardinalityLocked and ensureFieldCardinalityLocked.
TagValues(m, t) == {tags[t] : tags \in {s \in DOMAIN m.byKey["series"] : t \in DOMAIN s}}
\* Mutant: the limits are reached one later.
WithinLimits_OneMore(k, key) ==
    IF k = "field" THEN MaxFields = 0 \/ Cardinality(DOMAIN index.byId[k]) <= MaxFields
    ELSE /\ MaxSeries = 0 \/ Cardinality(DOMAIN index.byId[k]) <= MaxSeries
         /\ MaxTagValuesPerKey = 0 \/ \A t \in DOMAIN key :
              \/ TagValues(index, t) = {} \/ key[t] \in TagValues(index, t)
              \/ Cardinality(TagValues(index, t)) <= MaxTagValuesPerKey

WithinLimits(k, key) ==
    IF k = "field" THEN MaxFields = 0 \/ Cardinality(DOMAIN index.byId[k]) < MaxFields
    ELSE /\ MaxSeries = 0 \/ Cardinality(DOMAIN index.byId[k]) < MaxSeries
         /\ MaxTagValuesPerKey = 0 \/ \A t \in DOMAIN key :
              \/ TagValues(index, t) = {} \/ key[t] \in TagValues(index, t)
              \/ Cardinality(TagValues(index, t)) < MaxTagValuesPerKey

-----------------------------------------------------------------------------
(* What a call has to do.                                                   *)

Meta(p) == [do |-> "meta", db |-> p.db, rp |-> p.rp]
Series(p) == [do |-> "resolve", kind |-> "series", key |-> p.tags, type |-> "none"]
Field(p, f) == [do |-> "resolve", kind |-> "field", key |-> f, type |-> p.fields[f]]
Sync(e) == [do |-> "sync", entry |-> e]
Checkpoint(force) == [do |-> "checkpoint", force |-> force]
Truncate == [do |-> "truncate"]
Save == [do |-> "save"]
CloseWal == [do |-> "close"]

FieldItems(p) == LET names == SetToSeq(DOMAIN p.fields) IN [i \in DOMAIN names |-> Field(p, names[i])]
PointItems(p) == <<Meta(p), Series(p)>> \o FieldItems(p)

Head1 == Head(call.todo)
Does(what) == call.todo # <<>> /\ Head1.do = what
Rest(items) == [call EXCEPT !.todo = items \o Tail(@)]

\* The call returns an error; what it changed in memory stays.
Fails == call' = NoCall

Init ==
    /\ state = "open" /\ index = Empty /\ dirty = 0 /\ metadata = <<>> /\ call = NoCall
    /\ wal = <<>> /\ synced = 0 /\ snapshot = Encoded(Empty) /\ metaFile = <<>>
    /\ issued = {} /\ created = {}

files == <<wal, synced, snapshot, metaFile>>
ghosts == <<issued, created>>

Begin(items, dbs) ==
    /\ state # "down" /\ call = NoCall
    /\ call' = [NoCall EXCEPT !.todo = items, !.dbs = dbs]
    /\ UNCHANGED <<state, index, dirty, metadata, files, ghosts>>

\* One point: series and fields are checkpointed apart.
ResolvePoint(p) ==
    Begin(<<Meta(p), Series(p), Checkpoint(FALSE)>> \o FieldItems(p) \o <<Checkpoint(FALSE), Save>>, {p.db})

ResolvePoints(b) ==
    Begin(FlattenSeq([i \in DOMAIN b |-> PointItems(b[i])]) \o <<Checkpoint(FALSE), Save>>,
          {b[i].db : i \in DOMAIN b})

\* One database and one set of fields, which come before the rows' series.
ResolveTypedBatchColumns(b) ==
    /\ \A i \in DOMAIN b : b[i].db = b[1].db /\ b[i].rp = b[1].rp /\ b[i].fields = b[1].fields
    /\ Begin(<<Meta(b[1])>> \o FieldItems(b[1]) \o [i \in DOMAIN b |-> Series(b[i])]
               \o <<Checkpoint(FALSE), Save>>, {b[1].db})

-----------------------------------------------------------------------------
(* The steps of a resolving call.                                           *)

\* ensureMetadataLocked: changed in memory now, saved at the end.
EnsureMetadata ==
    LET db == Head1.db  rp == Head1.rp
        old == IF db \in DOMAIN metadata THEN metadata[db] ELSE <<>>
    IN /\ Does("meta")
       /\ metadata' = (db :> (old @@ (rp :> 0))) @@ metadata
       /\ call' = [Rest(<<>>) EXCEPT !.metaChanged = @ \/ metadata' # metadata]
       /\ UNCHANGED <<state, index, dirty, files, ghosts>>

Known(i) == i.key \in DOMAIN index.byKey[i.kind]
EntryOf(i) == index.byKey[i.kind][i.key]

\* The name has a number. (The series cache and the field template of a batch
\* hold what the maps hold.)
ResolveKnown ==
    /\ Does("resolve") /\ Known(Head1) /\ EntryOf(Head1).type = Head1.type
    /\ call' = [Rest(<<>>) EXCEPT !.got = @ \cup {EntryOf(Head1)}]
    /\ UNCHANGED <<state, index, dirty, metadata, files, ghosts>>

\* ErrFieldTypeConflict, ErrCardinalityLimit, or the log is closed.
ResolveRejected ==
    /\ Does("resolve")
    /\ \/ Known(Head1) /\ EntryOf(Head1).type # Head1.type
       \/ ~Known(Head1) /\ ~WithinLimits(Head1.kind, Head1.key)
       \/ ~Known(Head1) /\ state = "closed"
    /\ Fails
    /\ UNCHANGED <<state, index, dirty, metadata, files, ghosts>>

\* createSeriesNoSnapshotLocked or resolveFieldNoSnapshotLocked, up to the write
\* of appendEntryLocked.
WriteEntry ==
    LET e == [kind |-> Head1.kind, id |-> index.next[Head1.kind], key |-> Head1.key, type |-> Head1.type]
    IN /\ Does("resolve") /\ ~Known(Head1) /\ WithinLimits(Head1.kind, Head1.key) /\ state = "open"
       /\ \/ /\ wal' = Append(wal, [entry |-> e, whole |-> TRUE])
             /\ call' = Rest(<<Sync(e)>>)
          \/ "write" \in Faults /\ UNCHANGED wal /\ Fails
          \/ "short" \in Faults /\ wal' = Append(wal, [entry |-> e, whole |-> FALSE]) /\ Fails
       /\ UNCHANGED <<state, index, dirty, metadata, synced, snapshot, metaFile, ghosts>>

\* Mutant: the entry is applied without the sync of the log.
SyncEntry_Unsynced ==
    LET e == Head1.entry  m == Apply(index, e)
    IN /\ Does("sync")
       /\ index' = [m EXCEPT !.next[e.kind] = @ + 1] /\ dirty' = dirty + 1
       /\ call' = [Rest(<<>>) EXCEPT !.changed = TRUE, !.got = @ \cup {e}]
       /\ UNCHANGED <<state, metadata, wal, synced, snapshot, metaFile, ghosts>>

\* The sync, then applySeries or applyField; the number is advanced once more.
\* If the sync fails the record stays in the file and its number will be given
\* out again.
SyncEntry ==
    LET e == Head1.entry  m == Apply(index, e)
    IN /\ Does("sync")
       /\ \/ /\ synced' = Len(wal)
             /\ index' = [m EXCEPT !.next[e.kind] = @ + 1] /\ dirty' = dirty + 1
             /\ call' = [Rest(<<>>) EXCEPT !.changed = TRUE, !.got = @ \cup {e}]
          \/ "sync" \in Faults /\ UNCHANGED <<synced, index, dirty>> /\ Fails
       /\ UNCHANGED <<state, metadata, wal, snapshot, metaFile, ghosts>>

-----------------------------------------------------------------------------
(* Checkpoint, metadata, return, Close.                                     *)

Due == IF Head1.force THEN dirty > 0 ELSE call.changed /\ dirty >= Threshold

SkipCheckpoint ==
    /\ Does("checkpoint") /\ ~Due
    /\ call' = [Rest(<<>>) EXCEPT !.changed = FALSE]
    /\ UNCHANGED <<state, index, dirty, metadata, files, ghosts>>

\* saveSnapshotLocked; an error may come before or after the rename.
SaveSnapshot ==
    /\ Does("checkpoint") /\ Due
    /\ \/ snapshot' = Encoded(index) /\ call' = [Rest(<<Truncate>>) EXCEPT !.changed = FALSE]
       \/ "snapshot" \in Faults /\ snapshot' \in {snapshot, Encoded(index)} /\ Fails
    /\ UNCHANGED <<state, index, dirty, metadata, wal, synced, metaFile, ghosts>>

\* The rest of checkpointSnapshotLocked.
TruncateWal ==
    /\ Does("truncate")
    /\ \/ wal' = <<>> /\ synced' = 0 /\ dirty' = 0 /\ call' = Rest(<<>>)
       \/ /\ "truncate" \in Faults
          /\ (UNCHANGED <<wal, synced>> \/ (wal' = <<>> /\ synced' = 0)) /\ UNCHANGED dirty /\ Fails
    /\ UNCHANGED <<state, index, metadata, snapshot, metaFile, ghosts>>

SkipSave ==
    /\ Does("save") /\ ~call.metaChanged
    /\ call' = Rest(<<>>)
    /\ UNCHANGED <<state, index, dirty, metadata, files, ghosts>>

\* saveMetadataLocked.
SaveMetadata ==
    /\ Does("save") /\ call.metaChanged
    /\ \/ metaFile' = metadata /\ call' = Rest(<<>>)
       \/ "save" \in Faults /\ metaFile' \in {metaFile, metadata} /\ Fails
    /\ UNCHANGED <<state, index, dirty, metadata, wal, synced, snapshot, ghosts>>

\* The numbers are returned to the engine, which may log them with the data.
Return ==
    /\ call # NoCall /\ call.todo = <<>>
    /\ issued' = issued \cup call.got /\ created' = created \cup call.dbs
    /\ call' = NoCall
    /\ UNCHANGED <<state, index, dirty, metadata, files>>

\* CreateDatabase, CreateRetentionPolicy and DropDatabase: memory, then the file.
Manage(change, dbs) ==
    /\ state # "down" /\ call = NoCall
    /\ metadata' = change
    /\ call' = [NoCall EXCEPT !.todo = <<Save>>, !.metaChanged = TRUE, !.dbs = dbs]
    /\ UNCHANGED <<state, index, dirty, files, issued>>

CreateDatabase(db) ==
    Manage(metadata @@ (db :> <<>>), {db}) /\ UNCHANGED created

CreateRetentionPolicy(db, rp, d) ==
    /\ Manage([(metadata @@ (db :> <<>>)) EXCEPT ![db] = (rp :> d) @@ @], {db})
    /\ UNCHANGED created

DropDatabase(db) ==
    /\ Manage(Restrict(metadata, DOMAIN metadata \ {db}), {})
    /\ created' = created \ {db}

Close ==
    /\ state = "open"
    /\ Begin(<<Checkpoint(TRUE), CloseWal>>, {})

CloseReturns ==
    /\ Does("close")
    /\ state' = "closed" /\ call' = NoCall
    /\ UNCHANGED <<index, dirty, metadata, files, ghosts>>

\* The process ends; a loss of power may take or tear what was not synced.
Stop ==
    /\ state # "down" /\ state' = "down"
    /\ index' = Empty /\ dirty' = 0 /\ metadata' = <<>> /\ call' = NoCall
    /\ \/ "process" \in Stops /\ UNCHANGED <<wal, synced>>
       \/ /\ "power" \in Stops
          /\ \E n \in synced..Len(wal) :
               \/ wal' = SubSeq(wal, 1, n)
               \/ n < Len(wal) /\ wal' = [SubSeq(wal, 1, n + 1) EXCEPT ![n + 1].whole = FALSE]
          /\ synced' = Len(wal')
    /\ UNCHANGED <<snapshot, metaFile, ghosts>>

\* Mutant: the fields are loaded and fieldsByKey and fieldSchemas are not rebuilt.
Open_NoFieldNames ==
    /\ state = "down" /\ Loadable
    /\ state' = "open" /\ index' = [Recovered EXCEPT !.byKey["field"] = <<>>]
    /\ dirty' = Len(wal) /\ metadata' = metaFile
    /\ UNCHANGED <<call, files, ghosts>>

\* OpenWithOptions; a torn record in the log is an error.
Open ==
    /\ state = "down" /\ Loadable
    /\ state' = "open" /\ index' = Recovered /\ dirty' = Len(wal) /\ metadata' = metaFile
    /\ UNCHANGED <<call, files, ghosts>>

Batches == UNION {[1..n -> Points] : n \in 1..MaxBatch}

Step ==
    \/ EnsureMetadata \/ ResolveKnown \/ ResolveRejected \/ WriteEntry \/ SyncEntry
    \/ SkipCheckpoint \/ SaveSnapshot \/ TruncateWal \/ SkipSave \/ SaveMetadata
    \/ Return \/ CloseReturns

Resolve ==
    \/ \E p \in Points : ResolvePoint(p)
    \/ \E b \in Batches : ResolvePoints(b) \/ ResolveTypedBatchColumns(b)

Manages ==
    \E db \in Databases : \/ CreateDatabase(db) \/ DropDatabase(db)
                          \/ \E rp \in Policies, d \in Durations : CreateRetentionPolicy(db, rp, d)

Next == Resolve \/ Step \/ Open \/ Manages \/ Close \/ Stop

Spec == Init /\ [][Next]_vars

-----------------------------------------------------------------------------
(* Properties.                                                              *)

\* The maps are filed under the numbers of their entries, and log, metadata and
\* the call in progress hold entries and databases of the right kind.
TypeOK ==
    /\ state \in {"open", "closed", "down"} /\ dirty \in Nat /\ synced \in 0..Len(wal)
    /\ \A k \in Kinds : /\ DOMAIN index.byKey[k] \subseteq Keys(k) /\ index.next[k] \in Nat \ {0}
                        /\ \A id \in DOMAIN index.byId[k] : index.byId[k][id].id = id
    /\ Range(wal) \subseteq [entry : Entry, whole : BOOLEAN]
    /\ \A m \in {metadata, metaFile} :
         DOMAIN m \subseteq Databases /\ \A db \in DOMAIN m : Range(m[db]) \subseteq Durations \cup {0}
    /\ call.changed \in BOOLEAN /\ call.metaChanged \in BOOLEAN /\ call.dbs \subseteq Databases
    /\ issued \cup call.got \subseteq Entry /\ created \subseteq Databases

Knows(m, e) ==
    /\ e.id \in DOMAIN m.byId[e.kind] /\ m.byId[e.kind][e.id] = e
    /\ e.key \in DOMAIN m.byKey[e.kind] /\ m.byKey[e.kind][e.key] = e

\* A number that a call returned is on disk before the engine can log data under
\* it: after a stop at any moment the snapshot and the log give its name the same
\* number and the number the same name and type. (If a torn record keeps the log
\* from being read, Open reports it.)
CrashKeepsIds == Loadable => \A e \in issued : Knows(Recovered, e)

\* While the process runs, every number that any earlier call, also of an
\* earlier process, returned still has its name: two names never share one, and
\* a field never changes its type.
IdsStable == state # "down" => \A e \in issued : Knows(index, e)

\* No number in the log or the snapshot is given out again.
NextIsFresh ==
    state # "down" => \A k \in Kinds :
      /\ \A id \in DOMAIN snapshot.byId[k] : id < index.next[k]
      /\ \A i \in DOMAIN wal :
           wal[i].whole /\ wal[i].entry.kind = k /\ ~(Does("sync") /\ i = Len(wal))
             => wal[i].entry.id < index.next[k]

\* The limits bound what is stored, across restarts and calls that failed half way.
LimitsHold ==
    Loadable => \A m \in {index, Recovered} :
      /\ MaxSeries > 0 => Cardinality(DOMAIN m.byId["series"]) <= MaxSeries
      /\ MaxFields > 0 => Cardinality(DOMAIN m.byId["field"]) <= MaxFields
      /\ MaxTagValuesPerKey > 0 => \A t \in UNION {DOMAIN s : s \in Keys("series")} :
           Cardinality(TagValues(m, t)) <= MaxTagValuesPerKey

\* A database that a call which returned nil wrote to or created is there after
\* a restart.
DatabasesSurvive == created \subseteq DOMAIN metaFile

=============================================================================
