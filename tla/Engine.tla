------------------------------- MODULE Engine -------------------------------
(***************************************************************************)
(* The engine: a map of open shards guarded by e.mu, the calls that take   *)
(* shards from the map and use them after e.mu is released (Write, Delete, *)
(* Compact, queries), the calls that hold e.mu while they walk over all     *)
(* shards (Flush, ApplyRetention, Close), and Open, which loads every       *)
(* directory it finds.                                                      *)
(*                                                                         *)
(* A shard object is a handle; several handles of one shard can             *)
(* exist when a caller still holds one that retention has closed.  What     *)
(* happens inside a shard is module Shard: here a write, a flush or a       *)
(* compaction of one shard is one step.  The points of one batch share one  *)
(* write sequence number, and a point is that number.                       *)
(***************************************************************************)
EXTENDS Integers, FiniteSets, FiniteSetsExt, Functions, TLC

CONSTANTS
    Ids,         \* shard ids, numbers
    Expired,     \* ids with opts.End < cutoff
    Straddling,  \* ids with opts.Start < cutoff <= opts.End
    Clients,     \* goroutines that write, delete or compact
    Readers,     \* goroutines that query
    Faults,      \* calls that may fail: a subset of FaultKind
    PartialStop, \* a stop may fall inside RemoveAll
    MaxSeq, MaxHandle, MaxPart

FaultKind == {"append", "flush", "close", "remove", "limit"}

ASSUME EngineAssumption ==
    /\ Ids \subseteq 1..MaxHandle /\ Expired \subseteq Ids /\ Straddling \subseteq Ids \ Expired
    /\ Faults \subseteq FaultKind /\ PartialStop \in BOOLEAN
    /\ MaxSeq \in Nat /\ MaxHandle \in Nat /\ MaxPart \in Nat

VARIABLES
    engine,   \* "open", "closed" (Close has returned) or "down" (no process)
    mu,       \* the call that holds e.mu over several steps, and the shards it has left
    shards,   \* e.shards: id -> handle, 0 for none
    pending,  \* e.retentionPending
    seq,      \* e.writeSeq
    handle,   \* the shard objects
    disk,     \* the shard directories
    client,   \* what each client is doing and the handles it has left
    reader,   \* the handles each query holds a read reference of, and those to scan
    acked,    \* ghost: <<id, number>> of writes that returned nil
    deleted,  \* ghost: id -> numbers of the deletes that name it
    done,     \* ghost: numbers of the deletes that returned nil
    reached   \* ghost: id -> deletes that the data of its directory has received

vars == <<engine, mu, shards, pending, seq, handle, disk, client, reader,
          acked, deleted, done, reached>>
ghosts == <<acked, deleted, done, reached>>

Seqs == 1..MaxSeq
Handles == 1..MaxHandle

NoHandle == [id |-> 0, live |-> FALSE, mem |-> {}, tombs |-> {}, parts |-> {}, next |-> 1]
NoDir == [owner |-> 0, wal |-> {}, walTombs |-> {}, files |-> <<>>, manifest |-> {}]
Idle == [op |-> "idle", num |-> 0, ids |-> {}, todo |-> {}, err |-> FALSE]
Unlocked == [op |-> "none", by |-> {}, retry |-> {}, todo |-> {}]
NoQuery == [plan |-> {}, refs |-> {}]

TypeOK ==
    /\ engine \in {"open", "closed", "down"}
    /\ mu \in [op : {"none", "flush", "write", "after", "retention", "close"},
               by : SUBSET Clients, retry : SUBSET Ids, todo : SUBSET Ids]
    /\ shards \in [Ids -> {0} \cup Handles] /\ pending \subseteq Ids /\ seq \in 0..MaxSeq
    /\ DOMAIN handle = Handles /\ DOMAIN disk = Ids
    /\ \A h \in Handles :
        /\ handle[h].id \in Ids \cup {0} /\ handle[h].live \in BOOLEAN
        /\ handle[h].mem \subseteq Seqs /\ handle[h].tombs \subseteq Seqs
        /\ handle[h].parts \subseteq 1..MaxPart /\ handle[h].next \in 1..(MaxPart + 1)
    /\ \A id \in Ids :
        /\ disk[id].owner \in {0} \cup Handles /\ disk[id].manifest \subseteq 1..MaxPart
        /\ disk[id].wal \subseteq Seqs /\ disk[id].walTombs \subseteq Seqs
        /\ DOMAIN disk[id].files \subseteq 1..MaxPart
        /\ \A p \in DOMAIN disk[id].files : disk[id].files[p] \subseteq Seqs
    /\ client \in [Clients -> [op : {"idle", "write", "delete", "deleteShards", "compact"},
                               num : 0..MaxSeq, ids : SUBSET Ids, todo : SUBSET Handles,
                               err : BOOLEAN]]
    /\ reader \in [Readers -> [plan : SUBSET Handles, refs : SUBSET Handles]]
    /\ acked \subseteq Ids \X Seqs /\ done \subseteq Seqs
    /\ deleted \in [Ids -> SUBSET Seqs] /\ reached \in [Ids -> SUBSET Seqs]

-----------------------------------------------------------------------------
(* One shard, as far as the engine can tell.                                *)

Loadable(d) == d.manifest \subseteq DOMAIN d.files

InParts(d, ps) == UNION {d.files[p] : p \in ps \cap DOMAIN d.files}

\* What OpenShard finds, and what a query of a shard object sees.
OnDisk(d) == d.wal \cup InParts(d, d.manifest)
Contents(h) == handle[h].mem \cup InParts(disk[handle[h].id], handle[h].parts)

HasReaders(h) == \E r \in Readers : h \in reader[r].refs

\* A shard object that nobody points to: its number may be used again.
Free == {h \in Handles : /\ \A id \in Ids : shards[id] # h
                         /\ \A c \in Clients : h \notin client[c].todo
                         /\ \A r \in Readers : h \notin reader[r].plan \cup reader[r].refs}

Opened(id, d) == [id |-> id, live |-> TRUE, mem |-> d.wal, tombs |-> d.walTombs,
                  parts |-> d.manifest, next |-> Max(d.manifest \cup {0}) + 1]

\* flushLocked: the part and the manifest are written by path, whatever the
\* directory holds; the checkpoint needs the shard's own log and no tombstones.
FlushedHandle(x) ==
    IF x.mem = {} THEN x
    ELSE [x EXCEPT !.mem = {}, !.parts = @ \cup {x.next}, !.next = @ + 1]
FlushedDir(d, h, x) ==
    IF x.mem = {} THEN d
    ELSE [d EXCEPT !.files = (x.next :> x.mem) @@ @, !.manifest = x.parts \cup {x.next},
                   !.wal = IF x.tombs = {} /\ d.owner = h /\ x.live THEN {} ELSE @]

\* compactPartsLocked with all parts as input: tombstones are applied and
\* dropped, with the log that holds them.
Visible(S, tombs, id) == {n \in S : \A t \in tombs \cap deleted[id] : t < n}
NeedsMerge(x) == x.parts # {} /\ (Cardinality(x.parts) > 1 \/ x.tombs # {})
MergedHandle(x) ==
    IF ~NeedsMerge(x) THEN x
    ELSE [x EXCEPT !.parts = {x.next}, !.tombs = {}, !.next = @ + 1]
MergedDir(d, h, x) ==
    IF ~NeedsMerge(x) THEN d
    ELSE [d EXCEPT !.files = x.next :> Visible(InParts(d, x.parts), x.tombs, x.id),
                   !.manifest = {x.next},
                   !.wal = IF d.owner = h THEN {} ELSE @,
                   !.walTombs = IF d.owner = h THEN {} ELSE @]

-----------------------------------------------------------------------------
(* e.mu, and the end of the process.                                        *)

Init ==
    /\ engine = "open" /\ mu = Unlocked
    /\ shards = [id \in Ids |-> 0] /\ pending = {} /\ seq = 0
    /\ handle = [h \in Handles |-> NoHandle] /\ disk = [id \in Ids |-> NoDir]
    /\ client = [c \in Clients |-> Idle] /\ reader = [r \in Readers |-> NoQuery]
    /\ acked = {} /\ done = {}
    /\ deleted = [id \in Ids |-> {}] /\ reached = [id \in Ids |-> {}]

Mapped == {id \in Ids : shards[id] # 0}

CanCall == engine = "open"
MuFree == mu.op = "none"

Lock(op, who, first, ids) == mu' = [op |-> op, by |-> who, retry |-> first, todo |-> ids]
Unlock == mu' = Unlocked

\* The process ends: it was stopped, or a method of a closed shard used the log,
\* which closeLocked has set to nil.
ProcessEnds ==
    /\ engine' = "down" /\ mu' = Unlocked /\ pending' = {} /\ seq' = 0
    /\ shards' = [id \in Ids |-> 0] /\ handle' = [h \in Handles |-> NoHandle]
    /\ client' = [c \in Clients |-> Idle] /\ reader' = [r \in Readers |-> NoQuery]

-----------------------------------------------------------------------------
(* Flush, also as part of Write.                                            *)

Flush ==
    /\ CanCall /\ MuFree
    /\ Lock("flush", {}, {}, Mapped)
    /\ UNCHANGED <<engine, shards, pending, seq, handle, disk, client, reader, ghosts>>

\* Flush, enforceMemoryBeforeWriteLocked and enforceMemoryAfterWriteLocked flush
\* one shard after the other.
FlushShard(id) ==
    LET h == shards[id]  x == handle[h]
    IN /\ mu.op \in {"flush", "write", "after"} /\ id \in mu.todo
       /\ x.mem # {} => x.next <= MaxPart
       /\ disk' = [disk EXCEPT ![id] = FlushedDir(@, h, x)]
       /\ IF x.live \/ x.mem = {} \/ x.tombs # {}
          THEN /\ handle' = [handle EXCEPT ![h] = FlushedHandle(x)]
               /\ mu' = [mu EXCEPT !.todo = @ \ {id}]
               /\ UNCHANGED <<engine, shards, pending, seq, client, reader>>
          ELSE ProcessEnds
       /\ UNCHANGED ghosts

\* The first flush that fails ends the call that holds e.mu with its error.
FlushFails ==
    /\ "flush" \in Faults
    /\ mu.op \in {"flush", "write", "after"} /\ mu.todo # {}
    /\ client' = [c \in Clients |-> IF c \in mu.by THEN Idle ELSE client[c]]
    /\ Unlock
    /\ UNCHANGED <<engine, shards, pending, seq, handle, disk, reader, ghosts>>

\* Flush and ApplyRetention return.
EndLocked ==
    /\ mu.op \in {"flush", "retention"} /\ mu.todo = {} /\ mu.retry = {}
    /\ Unlock
    /\ UNCHANGED <<engine, shards, pending, seq, handle, disk, client, reader, ghosts>>

-----------------------------------------------------------------------------
(* Write.                                                                   *)

\* writeResolved up to enforceMemoryBeforeWriteLocked, which flushes all shards
\* or none.
Write(c, ids, flush) ==
    /\ CanCall /\ MuFree /\ client[c].op = "idle" /\ seq < MaxSeq
    /\ client' = [client EXCEPT ![c] = [Idle EXCEPT !.op = "write", !.ids = ids]]
    /\ Lock("write", {c}, {}, flush)
    /\ UNCHANGED <<engine, shards, pending, seq, handle, disk, reader, ghosts>>

\* shardForStartLocked: a removal that retention left unfinished comes first.
Cleared(id) == IF id \in pending THEN NoDir ELSE disk[id]

\* Mutant: the removal that was finished first stays noted as pending.
OpenShards_StaysPending(New, obj, dirs) ==
    /\ handle' = [h \in Handles |-> IF \E id \in New : obj[id] = h
                                    THEN LET id == CHOOSE i \in New : obj[i] = h IN Opened(id, dirs[id])
                                    ELSE handle[h]]
    /\ disk' = [id \in Ids |-> IF id \notin New THEN dirs[id]
                               ELSE [dirs[id] EXCEPT !.owner = obj[id],
                                                     !.files = Restrict(@, dirs[id].manifest)]]
    /\ shards' = [id \in Ids |-> IF id \in New THEN obj[id] ELSE shards[id]]
    /\ UNCHANGED <<pending, reached>>

\* OpenShard for every id of New, with the new objects that obj names.
OpenShards(New, obj, dirs) ==
    /\ handle' = [h \in Handles |-> IF \E id \in New : obj[id] = h
                                    THEN LET id == CHOOSE i \in New : obj[i] = h IN Opened(id, dirs[id])
                                    ELSE handle[h]]
    /\ disk' = [id \in Ids |-> IF id \notin New THEN dirs[id]
                               ELSE [dirs[id] EXCEPT !.owner = obj[id],
                                                     !.files = Restrict(@, dirs[id].manifest)]]
    /\ shards' = [id \in Ids |-> IF id \in New THEN obj[id] ELSE shards[id]]
    /\ pending' = pending \ New
    /\ reached' = [id \in Ids |-> IF id \in New \cap pending THEN {} ELSE reached[id]]

NewObjects(New) == CHOOSE obj \in [New -> Free] : \A i, j \in New : i # j => obj[i] # obj[j]

\* groupByShardLocked: the shards are looked up or opened and the batch gets its
\* number, all under e.mu.
GroupByShard(c) ==
    LET ids == client[c].ids  New == ids \ Mapped
    IN /\ mu.op = "write" /\ mu.by = {c} /\ mu.todo = {}
       /\ seq < MaxSeq /\ Cardinality(New) <= Cardinality(Free)
       /\ \A id \in New : Loadable(Cleared(id))
       /\ OpenShards(New, NewObjects(New), [id \in Ids |-> IF id \in New THEN Cleared(id) ELSE disk[id]])
       /\ seq' = seq + 1
       /\ client' = [client EXCEPT ![c].num = seq + 1, ![c].todo = {shards'[id] : id \in ids}]
       /\ Unlock
       /\ UNCHANGED <<engine, reader, acked, deleted, done>>

\* What is left of a directory when RemoveAll stops half way.
Remnants(d) ==
    {[owner |-> 0, wal |-> w.wal, walTombs |-> w.walTombs, manifest |-> m,
      files |-> Restrict(d.files, ps)] :
       w \in {d, NoDir}, m \in {d.manifest, {}}, ps \in SUBSET DOMAIN d.files}

\* One shard cannot be opened: the call returns its error, and the shards that
\* were opened before it stay open.
GroupByShardFails(c) ==
    LET New == client[c].ids \ Mapped
    IN /\ mu.op = "write" /\ mu.by = {c} /\ mu.todo = {}
       /\ \E id \in New : \E before \in SUBSET (New \ {id}) : \E left \in Remnants(disk[id]) :
            /\ \/ id \in pending /\ "remove" \in Faults
               \/ id \notin pending /\ ~Loadable(disk[id]) /\ left = [disk[id] EXCEPT !.owner = 0]
            /\ Cardinality(before) <= Cardinality(Free)
            /\ \A i \in before : Loadable(Cleared(i))
            /\ OpenShards(before, NewObjects(before),
                 [i \in Ids |-> CASE i = id -> left [] i \in before -> Cleared(i) [] OTHER -> disk[i]])
       /\ seq' \in {seq, seq + 1} \cap 0..MaxSeq
       /\ client' = [client EXCEPT ![c] = Idle]
       /\ Unlock
       /\ UNCHANGED <<engine, reader, acked, deleted, done>>

\* A goroutine of writeShardBatches is done with shard object h.
Leaves(c, h) == client' = [client EXCEPT ![c].todo = @ \ {h}]

\* The frame reaches the log file that the shard object opened; if the
\* directory was removed, or made anew, that is no longer the file in it.
Logs(h, d, points, tombs) ==
    IF d.owner = h THEN [d EXCEPT !.wal = @ \cup points, !.walTombs = @ \cup tombs] ELSE d

\* Shard.WriteBatch, with the flush that shouldFlushMemTable may ask for.
WriteBatch(c, h, flush) ==
    LET id == handle[h].id  n == client[c].num
        x == [handle[h] EXCEPT !.mem = @ \cup {n}]
        d == Logs(h, disk[id], {n}, {})
    IN /\ client[c].op = "write" /\ h \in client[c].todo
       /\ flush => x.next <= MaxPart
       /\ IF x.live
          THEN /\ handle' = [handle EXCEPT ![h] = IF flush THEN FlushedHandle(x) ELSE x]
               /\ disk' = [disk EXCEPT ![id] = IF flush THEN FlushedDir(d, h, x) ELSE d]
               /\ Leaves(c, h)
               /\ UNCHANGED <<engine, mu, shards, pending, seq, reader>>
          ELSE ProcessEnds /\ UNCHANGED disk
       /\ UNCHANGED ghosts

\* The log refuses the frame, or what follows it fails with the frame logged;
\* the other shards of the batch are written all the same.
WriteBatchFails(c, h) ==
    LET id == handle[h].id  n == client[c].num
    IN /\ "append" \in Faults
       /\ client[c].op = "write" /\ h \in client[c].todo /\ handle[h].live
       /\ client' = [client EXCEPT ![c].todo = @ \ {h}, ![c].err = TRUE]
       /\ \/ UNCHANGED <<handle, disk>>
          \/ /\ handle' = [handle EXCEPT ![h].mem = @ \cup {n}]
             /\ disk' = [disk EXCEPT ![id] = Logs(h, @, {n}, {})]
       /\ UNCHANGED <<engine, mu, shards, pending, seq, reader, ghosts>>

Written(c) == client[c].op = "write" /\ client[c].num # 0 /\ client[c].todo = {}

\* errors.Join of the shards' errors is returned.
WriteReturnsError(c) ==
    /\ Written(c) /\ client[c].err
    /\ client' = [client EXCEPT ![c] = Idle]
    /\ UNCHANGED <<engine, mu, shards, pending, seq, handle, disk, reader, ghosts>>

\* Mutant: the errors of the shards are dropped.
EnforceAfterWrite_DropsErrors(c, flush) ==
    /\ Written(c) /\ MuFree
    /\ Lock("after", {c}, {}, flush)
    /\ UNCHANGED <<engine, shards, pending, seq, handle, disk, client, reader, ghosts>>

\* enforceMemoryAfterWriteLocked flushes all shards or none.
EnforceAfterWrite(c, flush) ==
    /\ Written(c) /\ ~client[c].err /\ MuFree
    /\ Lock("after", {c}, {}, flush)
    /\ UNCHANGED <<engine, shards, pending, seq, handle, disk, client, reader, ghosts>>

\* Write returns nil, or the error of the hard limit although all is written.
WriteReturns(c) ==
    /\ mu.op = "after" /\ mu.by = {c} /\ mu.todo = {}
    /\ \/ acked' = acked \cup (client[c].ids \X {client[c].num})
       \/ "limit" \in Faults /\ acked' = acked
    /\ client' = [client EXCEPT ![c] = Idle]
    /\ Unlock
    /\ UNCHANGED <<engine, shards, pending, seq, handle, disk, reader, deleted, done, reached>>

-----------------------------------------------------------------------------
(* Delete and Compact.                                                      *)

\* Delete takes the tombstone's number before it locks e.mu.
DeleteNumbered(c, ids) ==
    /\ CanCall /\ client[c].op = "idle" /\ seq < MaxSeq
    /\ seq' = seq + 1
    /\ client' = [client EXCEPT ![c] = [Idle EXCEPT !.op = "delete", !.num = seq + 1, !.ids = ids]]
    /\ deleted' = [id \in Ids |-> deleted[id] \cup (IF id \in ids THEN {seq + 1} ELSE {})]
    /\ UNCHANGED <<engine, mu, shards, pending, handle, disk, reader, acked, done, reached>>

DeleteSnapshot(c) ==
    /\ client[c].op = "delete" /\ MuFree
    /\ client' = [client EXCEPT ![c].op = "deleteShards",
                                ![c].todo = {shards[id] : id \in client[c].ids \cap Mapped}]
    /\ UNCHANGED <<engine, mu, shards, pending, seq, handle, disk, reader, ghosts>>

\* Shard.DeleteRange.
DeleteRange(c, h) ==
    LET id == handle[h].id  n == client[c].num
    IN /\ client[c].op = "deleteShards" /\ h \in client[c].todo
       /\ IF handle[h].live
          THEN /\ handle' = [handle EXCEPT ![h].tombs = @ \cup {n}]
               /\ disk' = [disk EXCEPT ![id] = Logs(h, @, {}, {n})]
               /\ reached' = IF disk[id].owner = h THEN [reached EXCEPT ![id] = @ \cup {n}] ELSE reached
               /\ Leaves(c, h)
               /\ UNCHANGED <<engine, mu, shards, pending, seq, reader>>
          ELSE ProcessEnds /\ UNCHANGED <<disk, reached>>
       /\ UNCHANGED <<acked, deleted, done>>

\* Mutant: the error of a shard is logged and the loop goes on.
DeleteRangeFails_GoesOn(c) ==
    /\ "append" \in Faults
    /\ client[c].op = "deleteShards"
    /\ \E h \in client[c].todo : Leaves(c, h)
    /\ UNCHANGED <<engine, mu, shards, pending, seq, handle, disk, reader, ghosts>>

\* The first error ends the delete; the shards before it keep the tombstone.
DeleteRangeFails(c) ==
    /\ "append" \in Faults
    /\ client[c].op = "deleteShards" /\ client[c].todo # {}
    /\ client' = [client EXCEPT ![c] = Idle]
    /\ UNCHANGED <<engine, mu, shards, pending, seq, handle, disk, reader, ghosts>>

DeleteReturns(c) ==
    /\ client[c].op = "deleteShards" /\ client[c].todo = {}
    /\ done' = done \cup {client[c].num}
    /\ client' = [client EXCEPT ![c] = Idle]
    /\ UNCHANGED <<engine, mu, shards, pending, seq, handle, disk, reader, acked, deleted, reached>>

\* CompactWithResult takes the shards with snapshotShards.
Compact(c) ==
    /\ CanCall /\ MuFree /\ client[c].op = "idle" /\ Mapped # {}
    /\ client' = [client EXCEPT ![c] = [Idle EXCEPT !.op = "compact", !.todo = {shards[id] : id \in Mapped}]]
    /\ UNCHANGED <<engine, mu, shards, pending, seq, handle, disk, reader, ghosts>>

CompactLeaves(c, h) ==
    client' = [client EXCEPT ![c] = IF @.todo = {h} THEN Idle ELSE [@ EXCEPT !.todo = @ \ {h}]]

\* Shard.CompactWithResult: flushLocked, then the merge. On a closed shard the
\* flush still writes a part and a manifest, and stops at the log.
CompactShard(c, h) ==
    LET x == handle[h]  id == x.id  y == FlushedHandle(x)  d == FlushedDir(disk[id], h, x)
    IN /\ client[c].op = "compact" /\ h \in client[c].todo
       /\ x.next + 1 <= MaxPart
       /\ disk' = [disk EXCEPT ![id] = IF x.live THEN MergedDir(d, h, y) ELSE d]
       /\ IF x.live \/ x.mem = {} \/ x.tombs # {}
          THEN /\ handle' = [handle EXCEPT ![h] = IF x.live THEN MergedHandle(y) ELSE y]
               /\ CompactLeaves(c, h)
               /\ UNCHANGED <<engine, mu, shards, pending, seq, reader>>
          ELSE ProcessEnds
       /\ UNCHANGED ghosts

\* A shard that cannot be compacted does not keep the others from it.
CompactShardFails(c, h) ==
    /\ "flush" \in Faults
    /\ client[c].op = "compact" /\ h \in client[c].todo
    /\ CompactLeaves(c, h)
    /\ UNCHANGED <<engine, mu, shards, pending, seq, handle, disk, reader, ghosts>>

-----------------------------------------------------------------------------
(* ApplyRetention, queries, Close, Open.                                    *)

\* A shard that starts after the cutoff is left alone.
ApplyRetention ==
    /\ CanCall /\ MuFree
    /\ Lock("retention", {}, pending, Mapped \cap (Expired \cup Straddling))
    /\ UNCHANGED <<engine, shards, pending, seq, handle, disk, client, reader, ghosts>>

\* pending.files.RemoveAll of the directory of id, complete.
RemovesAll(id) ==
    /\ disk' = [disk EXCEPT ![id] = NoDir]
    /\ reached' = [reached EXCEPT ![id] = {}]

\* RemoveAll fails and leaves some of the directory.
RemovesSome(id) ==
    /\ \E left \in Remnants(disk[id]) : disk' = [disk EXCEPT ![id] = left]
    /\ UNCHANGED reached

\* retryExpiredShardCleanupLocked.
RetryCleanup(id) ==
    /\ mu.op = "retention" /\ id \in mu.retry
    /\ RemovesAll(id) /\ pending' = pending \ {id}
    /\ mu' = [mu EXCEPT !.retry = @ \ {id}]
    /\ UNCHANGED <<engine, shards, seq, handle, client, reader, acked, deleted, done>>

\* The first failure ends the call.
RetryCleanupFails(id) ==
    /\ "remove" \in Faults
    /\ mu.op = "retention" /\ id \in mu.retry
    /\ RemovesSome(id) /\ Unlock
    /\ UNCHANGED <<engine, shards, pending, seq, handle, client, reader, acked, deleted, done>>

\* removeExpiredShardLocked: closed, taken out of the map and noted as pending.
Retire(id) ==
    /\ mu.op = "retention" /\ mu.retry = {} /\ id \in mu.todo \cap Expired
    /\ ~HasReaders(shards[id])
    /\ handle' = [handle EXCEPT ![shards[id]].live = FALSE]
    /\ shards' = [shards EXCEPT ![id] = 0]

RemoveExpiredShard(id) ==
    /\ Retire(id) /\ RemovesAll(id)
    /\ mu' = [mu EXCEPT !.todo = @ \ {id}]
    /\ UNCHANGED <<engine, pending, seq, client, reader, acked, deleted, done>>

\* finishExpiredShardCleanupLocked fails: the removal stays pending.
CleanupFails(id) ==
    /\ "remove" \in Faults
    /\ Retire(id) /\ RemovesSome(id)
    /\ pending' = pending \cup {id} /\ Unlock
    /\ UNCHANGED <<engine, seq, client, reader, acked, deleted, done>>

\* ErrShardBusy, or an error of closeLocked, which has set the log to nil by
\* then; the shard stays in the map.
RemoveExpiredShardFails(id) ==
    LET h == shards[id]
    IN /\ mu.op = "retention" /\ mu.retry = {} /\ id \in mu.todo \cap Expired
       /\ \/ HasReaders(h) /\ UNCHANGED handle
          \/ /\ ~HasReaders(h) /\ "close" \in Faults
             /\ handle' = [handle EXCEPT ![h].live = FALSE]
       /\ Unlock
       /\ UNCHANGED <<engine, shards, pending, seq, disk, client, reader, ghosts>>

\* A shard that straddles the cutoff gets a tombstone for its old part. The
\* points of the model are the new ones, which it does not cover.
TombstoneOldPart(id) ==
    LET h == shards[id]
    IN /\ mu.op = "retention" /\ mu.retry = {} /\ id \in mu.todo \cap Straddling
       /\ handle[h].live /\ seq < MaxSeq
       /\ seq' = seq + 1
       /\ handle' = [handle EXCEPT ![h].tombs = @ \cup {seq + 1}]
       /\ disk' = [disk EXCEPT ![id] = Logs(h, @, {}, {seq + 1})]
       /\ mu' = [mu EXCEPT !.todo = @ \ {id}]
       /\ UNCHANGED <<engine, shards, pending, client, reader, ghosts>>

TombstoneFails(id) ==
    /\ "append" \in Faults
    /\ mu.op = "retention" /\ mu.retry = {} /\ id \in mu.todo \cap Straddling /\ seq < MaxSeq
    /\ seq' = seq + 1 /\ Unlock
    /\ UNCHANGED <<engine, shards, pending, handle, disk, client, reader, ghosts>>

\* BuildQueryPlan takes the shards from the map; ScanColumns takes a reference
\* of one shard after the other.
BuildQueryPlan(r) ==
    /\ CanCall /\ MuFree /\ reader[r] = NoQuery /\ Mapped # {}
    /\ reader' = [reader EXCEPT ![r].plan = {shards[id] : id \in Mapped}]
    /\ UNCHANGED <<engine, mu, shards, pending, seq, handle, disk, client, ghosts>>

ScanColumns(r, h) ==
    /\ h \in reader[r].plan
    /\ reader' = [reader EXCEPT ![r] = [plan |-> @.plan \ {h}, refs |-> @.refs \cup {h}]]
    /\ UNCHANGED <<engine, mu, shards, pending, seq, handle, disk, client, ghosts>>

CloseStreams(r) ==
    /\ reader[r].plan = {} /\ reader[r].refs # {}
    /\ reader' = [reader EXCEPT ![r] = NoQuery]
    /\ UNCHANGED <<engine, mu, shards, pending, seq, handle, disk, client, ghosts>>

Close ==
    /\ CanCall /\ MuFree
    /\ Lock("close", {}, {}, Mapped)
    /\ UNCHANGED <<engine, shards, pending, seq, handle, disk, client, reader, ghosts>>

\* closeForced: readers are not asked, an error does not end the loop.
CloseShard(id) ==
    /\ mu.op = "close" /\ id \in mu.todo
    /\ handle' = [handle EXCEPT ![shards[id]].live = FALSE]
    /\ mu' = [mu EXCEPT !.todo = @ \ {id}]
    /\ UNCHANGED <<engine, shards, pending, seq, disk, client, reader, ghosts>>

\* Calls that were under way go on with the closed shards.
CloseReturns ==
    /\ mu.op = "close" /\ mu.todo = {}
    /\ engine' = "closed" /\ Unlock
    /\ UNCHANGED <<shards, pending, seq, handle, disk, client, reader, ghosts>>

Stop ==
    /\ engine # "down" /\ ProcessEnds
    /\ UNCHANGED <<disk, ghosts>>

\* The process ends inside a RemoveAll of retention.
StopInRemoveAll(id) ==
    /\ PartialStop /\ mu.op = "retention"
    /\ \/ id \in mu.retry
       \/ mu.retry = {} /\ id \in mu.todo \cap Expired /\ ~HasReaders(shards[id])
    /\ ProcessEnds
    /\ RemovesSome(id)
    /\ UNCHANGED <<acked, deleted, done>>

Directories == {id \in Ids : disk[id] # NoDir}
NumbersOnDisk == UNION {OnDisk(disk[id]) \cup disk[id].walTombs : id \in Ids}

\* Mutant: the counter starts at the next number to use instead of the last used.
ObservedSeq_Next == Max(NumbersOnDisk \cup {0}) + 1

\* Mutant: the numbers of replayed tombstones are not observed.
ObservedSeq_Points == Max(UNION {OnDisk(disk[id]) : id \in Ids} \cup {0})

\* observeWriteSeq of every shard's maxSeq, from zero.
ObservedSeq == Max(NumbersOnDisk \cup {0})

\* OpenWithDeps: loadExistingShards opens every directory and fails with the
\* first one that does not open; the number goes on after the largest one.
Open ==
    /\ engine = "down" /\ \A id \in Directories : Loadable(disk[id])
    /\ engine' = "open"
    /\ shards' = [id \in Ids |-> IF id \in Directories THEN id ELSE 0]
    /\ handle' = [h \in Handles |-> IF h \in Directories THEN Opened(h, disk[h]) ELSE NoHandle]
    /\ disk' = [id \in Ids |-> IF id \notin Directories THEN NoDir
                               ELSE [disk[id] EXCEPT !.owner = id, !.files = Restrict(@, disk[id].manifest)]]
    /\ seq' = ObservedSeq
    /\ deleted' = [id \in Ids |-> deleted[id] \cap 1..seq']
    /\ done' = done \cap 1..seq'
    /\ acked' = {a \in acked : \A t \in deleted[a[1]] : t < a[2]}
    /\ UNCHANGED <<mu, pending, client, reader, reached>>

-----------------------------------------------------------------------------
\* Calls and their steps.
ClientStep(c) ==
    \/ \E ids \in SUBSET Ids \ {{}} : Write(c, ids, {}) \/ DeleteNumbered(c, ids)
    \/ GroupByShard(c)
    \/ \E h \in Handles : WriteBatch(c, h, FALSE) \/ DeleteRange(c, h) \/ CompactShard(c, h)
    \/ WriteReturnsError(c) \/ EnforceAfterWrite(c, {}) \/ WriteReturns(c)
    \/ DeleteSnapshot(c) \/ DeleteReturns(c)

ReaderStep(r) ==
    CloseStreams(r) \/ \E h \in Handles : ScanColumns(r, h)

LockedStep ==
    \/ EndLocked \/ CloseReturns
    \/ \E id \in Ids : \/ FlushShard(id) \/ RetryCleanup(id) \/ RemoveExpiredShard(id)
                       \/ TombstoneOldPart(id) \/ CloseShard(id)

Work ==
    \/ \E c \in Clients : ClientStep(c)
    \/ \E r \in Readers : ReaderStep(r)
    \/ LockedStep \/ Open

\* Flushes, compactions, queries, retention and Close begin.
Maintenance ==
    \/ Flush \/ ApplyRetention \/ Close
    \/ \E r \in Readers : BuildQueryPlan(r)
    \/ \E c \in Clients :
        \/ Compact(c) \/ EnforceAfterWrite(c, Mapped)
        \/ \E ids \in SUBSET Ids \ {{}} : Write(c, ids, Mapped)
        \/ \E h \in Handles : WriteBatch(c, h, TRUE)

\* A call fails or the process stops.
Mishap ==
    \/ FlushFails \/ Stop
    \/ \E c \in Clients : \/ GroupByShardFails(c) \/ DeleteRangeFails(c)
                          \/ \E h \in Handles : WriteBatchFails(c, h) \/ CompactShardFails(c, h)
    \/ \E id \in Ids : \/ RetryCleanupFails(id) \/ CleanupFails(id) \/ RemoveExpiredShardFails(id)
                       \/ TombstoneFails(id) \/ StopInRemoveAll(id)

Next == Work \/ Maintenance \/ Mishap

Spec == Init /\ [][Next]_vars

-----------------------------------------------------------------------------
(* Properties.                                                              *)

\* A write that returned nil and that no delete covers is on disk, and an open
\* engine serves it, unless its shard is past the retention; whatever stopped,
\* failed or was closed in between.
AckedWritesKept ==
    \A a \in acked :
        \/ a[1] \in Expired
        \/ \E t \in deleted[a[1]] : t > a[2]
        \/ /\ a[2] \in OnDisk(disk[a[1]])
           /\ engine = "open" => shards[a[1]] # 0 /\ a[2] \in Contents(shards[a[1]])

\* A delete that returned nil has reached every shard that holds a point with a
\* smaller number, shards opened while it ran included: Delete takes its number
\* before it looks at the map, and Write its own while it holds e.mu. (A shard
\* past the retention whose removal failed comes back without it at the next
\* Open.)
DeleteReachesEarlierWrites ==
    engine = "open" =>
      \A id \in Mapped \ Expired : \A t \in deleted[id] \cap done :
        t \in reached[id] \/ \A n \in Contents(shards[id]) : t < n

\* The log file of a shard in the map is the one in its directory: no removal
\* that was left unfinished is repeated on a directory that is in use again.
OpenShardOwnsDir ==
    \A id \in Mapped : handle[shards[id]].live => disk[id].owner = shards[id]

\* No number on disk is larger than the one the engine counts from, so a new
\* write is newer than all that is stored.
NumbersFresh == engine = "open" => \A n \in NumbersOnDisk : n <= seq

\* A shard in the map is open: retention takes a shard out of the map before
\* anyone can meet it closed.
RoutedShardsOpen == engine = "open" /\ mu.op # "close" => \A id \in Mapped : handle[shards[id]].live

\* The engine can be opened after every stop.
EngineOpens == engine = "down" => \A id \in Directories : Loadable(disk[id])

=============================================================================
