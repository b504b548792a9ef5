------------------------------- MODULE Shard -------------------------------
(***************************************************************************)
(* One shard of the storage engine (internal/engine/shard.go, lifecycle.go, *)
(* flush_commit.go, write_apply.go, shard_scan.go): a write-ahead log, a    *)
(* memtable, immutable parts listed by a manifest, range tombstones, flush, *)
(* levelled and full compaction, streams that read the parts, and recovery  *)
(* after the process stops at any point between two effects on the disk.    *)
(*                                                                         *)
(* A sample is the pair of what it is keyed by (series, field, timestamp)   *)
(* and its write sequence number; its value is determined by the number.    *)
(* lifecycleMu is not a variable: a writer between its two steps holds it   *)
(* shared, a deleter between its two steps or an operation whose pc is not  *)
(* "idle" holds it exclusively.                                             *)
(***************************************************************************)
EXTENDS Integers, Sequences, FiniteSets

CONSTANTS
    Keys,             \* (series, field, timestamp) triples of the shard
    Scopes,           \* the sets of keys a delete may name
    Clients,          \* goroutines that write or delete
    Readers,          \* goroutines that stream query results
    CompactionEnabled,\* opts.Compaction.Enabled
    MaxCascadeSteps,  \* opts.Compaction.MaxCascadeSteps
    ExplicitCompact,  \* whether Compact (API or background loop) is called
    UnsequencedDeletes,\* whether downsample cleanup deletes (no WriteSeq)
    Faults,           \* the I/O failures that may happen
    MaxSeq,           \* bound: write sequence numbers
    MaxPart,          \* bound: part numbers
    MaxLevel,         \* bound: compaction levels
    MaxWal            \* bound: frames in the log

FaultKinds == {"append", "apply", "part", "manifest", "dirsync", "checkpoint",
               "close", "remove"}

ASSUME ShardAssumption ==
    /\ Scopes \subseteq SUBSET Keys
    /\ CompactionEnabled \in BOOLEAN /\ ExplicitCompact \in BOOLEAN
    /\ UnsequencedDeletes \in BOOLEAN
    /\ Faults \subseteq FaultKinds
    /\ MaxCascadeSteps \in Nat /\ MaxSeq \in Nat /\ MaxPart \in Nat
    /\ MaxLevel \in Nat /\ MaxWal \in Nat

VARIABLES
    \* on disk
    wal,       \* the frames of the log, oldest first
    dirs,      \* the part directories that exist: part number -> level, samples
    manifest,  \* the parts the manifest file lists
    \* in the process
    up,        \* the shard is open
    seq,       \* the engine's last write sequence number
    mem,       \* samples in the memtable
    tombs,     \* s.tombstones
    parts,     \* s.parts, which is also s.manifest.Parts
    nextPart,  \* s.nextPart
    client,    \* what each writer or deleter is doing
    streams,   \* the parts each open stream reads
    \* the operation that holds lifecycleMu exclusively
    pc, caller, mode, step, snap, inputs, outs,
    \* what was promised to callers
    applied,   \* samples whose write was applied after it was logged
    dead,      \* applied samples that a completed delete covered
    doomed     \* samples that a logged delete covers, completed or not

diskVars   == <<wal, dirs, manifest>>
engineVars == <<seq, mem, tombs, parts, nextPart>>
opVars     == <<pc, caller, mode, step, snap, inputs, outs>>
ghostVars  == <<applied, dead, doomed>>
vars == <<diskVars, up, engineVars, client, streams, opVars, ghostVars>>

PartIds == Nat \ {0}
Sample  == [key : Keys, seq : Nat \ {0}]
Tomb    == [scope : Scopes, seq : Nat]
Frame   == [points : SUBSET Sample, tombs : SUBSET Tomb]
NoFrame == [points |-> {}, tombs |-> {}]
Part    == [level : Nat, samples : SUBSET Sample]
NoPart  == [level |-> 0, samples |-> {}]   \* what a part that was not finished holds

-----------------------------------------------------------------------------
(* Reading.                                                                 *)

\* tombstoneMatches; a tombstone without a WriteSeq covers every sequence
\* number (tombstoneWriteSeq).
Covers(t, x) == x.key \in t.scope /\ (t.seq = 0 \/ x.seq <= t.seq)

\* applyTombstones and filterTombstonedSamples.
Undeleted(S, T) == {x \in S : \A t \in T : ~Covers(t, x)}

\* mergeSamples and compactMaterializedSamples: per key the largest WriteSeq.
Newest(S) == {x \in S : \A y \in S : y.key = x.key => y.seq <= x.seq}

SamplesOf(P) == UNION {dirs[p].samples : p \in P \cap DOMAIN dirs}
WalPoints    == UNION {wal[i].points : i \in DOMAIN wal}
WalTombs     == UNION {wal[i].tombs : i \in DOMAIN wal}

\* What a query of the open shard returns.
Visible == Undeleted(Newest(mem \cup snap \cup SamplesOf(parts)), tombs)

\* What a query would return if the shard were reopened from the disk now.
Recoverable == Undeleted(Newest(SamplesOf(manifest) \cup WalPoints), WalTombs)

-----------------------------------------------------------------------------
(* lifecycleMu.                                                             *)

Logged(c)   == client[c].phase = "logged"
Exclusive   == pc # "idle" \/ \E c \in Clients : Logged(c) /\ client[c].frame.tombs # {}
CanRLock    == up /\ ~Exclusive
CanLock     == up /\ pc = "idle" /\ \A c \in Clients : ~Logged(c)

Idle == [phase |-> "idle", frame |-> NoFrame]

Init ==
    /\ wal = <<>> /\ dirs = [p \in {} |-> NoPart] /\ manifest = {}
    /\ up = TRUE /\ seq = 0 /\ mem = {} /\ tombs = {} /\ parts = {} /\ nextPart = 1
    /\ client = [c \in Clients |-> Idle]
    /\ streams = [r \in {} |-> {}]
    /\ pc = "idle" /\ caller = "Flush" /\ mode = "cascade" /\ step = 0
    /\ snap = {} /\ inputs = {} /\ outs = {}
    /\ applied = {} /\ dead = {} /\ doomed = {}

-----------------------------------------------------------------------------
(* Writers and deleters.                                                    *)

\* Mutant: the number is read before it is incremented.
AssignWriteSeq_PostIncrement(c) ==
    /\ up /\ client[c] = Idle /\ seq < MaxSeq
    /\ \E k \in Keys :
        LET x == [key |-> k, seq |-> seq] IN
        /\ client' = [client EXCEPT ![c] =
              [phase |-> "sent", frame |-> [points |-> {x}, tombs |-> {}]]]
        \* A number given out again after a restart names a new write.
        /\ applied' = applied \ {x} /\ dead' = dead \ {x} /\ doomed' = doomed \ {x}
    /\ seq' = seq + 1
    /\ UNCHANGED <<diskVars, up, mem, tombs, parts, nextPart, streams, opVars>>

\* writeResolved / groupByShardLocked: the engine numbers a point under e.mu
\* and releases it before the shard is entered.
AssignWriteSeq(c) ==
    /\ up /\ client[c] = Idle /\ seq < MaxSeq
    /\ \E k \in Keys :
        LET x == [key |-> k, seq |-> seq + 1] IN
        /\ client' = [client EXCEPT ![c] =
              [phase |-> "sent", frame |-> [points |-> {x}, tombs |-> {}]]]
        \* A number given out again after a restart names a new write.
        /\ applied' = applied \ {x} /\ dead' = dead \ {x} /\ doomed' = doomed \ {x}
    /\ seq' = seq + 1
    /\ UNCHANGED <<diskVars, up, mem, tombs, parts, nextPart, streams, opVars>>

\* Engine.Delete and applyRetentionToShardLocked number the tombstone before
\* the shard is entered; deleteDownsampleTargetRange leaves the number out.
AssignDeleteSeq(c) ==
    /\ up /\ client[c] = Idle
    /\ \E k \in Scopes :
        \/ /\ seq < MaxSeq /\ seq' = seq + 1
           /\ client' = [client EXCEPT ![c] = [phase |-> "sent",
                 frame |-> [points |-> {}, tombs |-> {[scope |-> k, seq |-> seq + 1]}]]]
        \/ /\ UnsequencedDeletes /\ seq' = seq
           /\ client' = [client EXCEPT ![c] = [phase |-> "sent",
                 frame |-> [points |-> {}, tombs |-> {[scope |-> k, seq |-> 0]}]]]
    /\ UNCHANGED <<diskVars, up, mem, tombs, parts, nextPart, streams, opVars, ghostVars>>

Issued == applied \cup UNION {client[c].frame.points : c \in Clients}

\* WriteBatch up to wal.Append, DeleteRange up to wal.AppendTombstones.
LogFrame(c) ==
    LET f == client[c].frame IN
    /\ client[c].phase = "sent" /\ Len(wal) < MaxWal
    /\ IF f.tombs = {} THEN CanRLock ELSE CanLock
    /\ wal' = Append(wal, f)
    /\ client' = [client EXCEPT ![c].phase = "logged"]
    /\ doomed' = doomed \cup {x \in Issued : \E t \in f.tombs : Covers(t, x)}
    /\ UNCHANGED <<dirs, manifest, up, engineVars, streams, opVars, applied, dead>>

\* wal.Append returns an error: the frame may be in the log (its sync failed)
\* or not; the caller gets the error and nothing is applied.
LogFrameFails(c) ==
    LET f == client[c].frame IN
    /\ "append" \in Faults
    /\ client[c].phase = "sent" /\ Len(wal) < MaxWal
    /\ IF f.tombs = {} THEN CanRLock ELSE CanLock
    /\ \/ /\ wal' = Append(wal, f)
          /\ doomed' = doomed \cup {x \in Issued : \E t \in f.tombs : Covers(t, x)}
       \/ UNCHANGED <<wal, doomed>>
    /\ client' = [client EXCEPT ![c] = Idle]
    /\ UNCHANGED <<dirs, manifest, up, engineVars, streams, opVars, applied, dead>>

\* applyMemAfterWAL / the append to s.tombstones; the lock is released.
ApplyFrame(c) ==
    LET f == client[c].frame IN
    /\ Logged(c)
    /\ mem' = mem \cup f.points
    /\ tombs' = tombs \cup f.tombs
    /\ applied' = applied \cup f.points
    /\ dead' = dead \cup {x \in applied : \E t \in f.tombs : Covers(t, x)}
    /\ client' = [client EXCEPT ![c] = Idle]
    /\ UNCHANGED <<diskVars, up, seq, parts, nextPart, streams, opVars, doomed>>

\* applyMemAfterWAL fails twice: the caller gets the error, the log keeps the
\* frame.
ApplyFrameFails(c) ==
    /\ "apply" \in Faults
    /\ Logged(c) /\ client[c].frame.tombs = {}
    /\ client' = [client EXCEPT ![c] = Idle]
    /\ UNCHANGED <<diskVars, up, engineVars, streams, opVars, ghostVars>>

-----------------------------------------------------------------------------
(* Streams.                                                                 *)

\* ScanColumns: the stream keeps the part handles, lifecycleMu is released.
ScanColumns(r) ==
    /\ CanLock /\ r \notin DOMAIN streams
    /\ streams' = [q \in DOMAIN streams \cup {r} |-> IF q = r THEN parts ELSE streams[q]]
    /\ UNCHANGED <<diskVars, up, engineVars, client, opVars, ghostVars>>

\* shardColumnDataStream.Close and releaseRead.
CloseStream(r) ==
    /\ CanLock /\ r \in DOMAIN streams
    /\ streams' = [q \in DOMAIN streams \ {r} |-> streams[q]]
    /\ UNCHANGED <<diskVars, up, engineVars, client, opVars, ghostVars>>

-----------------------------------------------------------------------------
(* Flush.                                                                   *)

\* RemoveAll of part directories: each removal may fail and leave a directory
\* that no manifest lists.
RemoveParts(S) ==
    \E left \in (IF "remove" \in Faults THEN SUBSET S ELSE {{}}) :
        dirs' = [p \in DOMAIN dirs \ (S \ left) |-> dirs[p]]

\* Part directories are created, over whatever a directory of that name holds.
WriteParts(P, content) ==
    dirs' = [p \in DOMAIN dirs \cup P |-> IF p \in P THEN content[p] ELSE dirs[p]]

\* A part writer fails: it may have taken a part number, and the directory it
\* began may outlive a failed removal.
PartWriteFails ==
    \/ UNCHANGED <<dirs, nextPart>>
    \/ nextPart' = nextPart + 1 /\ dirs' = dirs
    \/ /\ "remove" \in Faults /\ nextPart' = nextPart + 1
       /\ WriteParts({nextPart}, [p \in {nextPart} |-> NoPart])

\* The operation returns and lifecycleMu is released.
Return ==
    /\ pc' = "idle" /\ caller' = "Flush" /\ mode' = "cascade" /\ step' = 0
    /\ snap' = {} /\ inputs' = {} /\ outs' = {}

\* The operation goes on from another point with the same locals.
Goto(there) == pc' = there /\ UNCHANGED <<caller, mode, step, snap, inputs, outs>>

\* The bounds leave room for n more parts and, for Compact, for the outputs of
\* the full compaction it ends with, one level above every part.
Room(who, n) ==
    /\ nextPart + n + (IF who = "Compact" THEN 2 ELSE 0) <= MaxPart + 1
    /\ who = "Compact" => \A p \in parts : dirs[p].level < MaxLevel

\* Flush and CompactWithResult enter flushLocked; SnapshotAndReset. WriteBatch
\* and WriteTypedBatch call Flush after releasing the lock when the memtable is
\* over a limit (shouldFlushMemTable), which is left open.
BeginFlush(who) ==
    /\ CanLock /\ Room(who, 1)
    /\ who = "Compact" => ExplicitCompact
    /\ pc' = IF mem = {} THEN "flushed" ELSE "writePart"
    /\ caller' = who
    /\ snap' = mem /\ mem' = {}
    /\ UNCHANGED <<diskVars, up, seq, tombs, parts, nextPart, client, streams,
                   mode, step, inputs, outs, ghostVars>>

\* writeSnapshotPart and OpenPartTrusted.
WriteFlushPart ==
    /\ pc = "writePart"
    /\ WriteParts({nextPart}, [p \in {nextPart} |-> [level |-> 0, samples |-> Newest(snap)]])
    /\ outs' = {nextPart} /\ nextPart' = nextPart + 1
    /\ pc' = "flushManifest"
    /\ UNCHANGED <<wal, manifest, up, seq, mem, tombs, parts, client, streams,
                   caller, mode, step, snap, inputs, ghostVars>>

\* Mutant: a failed part write forgets to restore the snapshot.
WriteFlushPartFails_NoRestore ==
    /\ "part" \in Faults /\ pc = "writePart"
    /\ PartWriteFails
    /\ mem' = mem
    /\ Return
    /\ UNCHANGED <<wal, manifest, up, seq, tombs, parts, client, streams, ghostVars>>

\* reserveFlushMemory fails, or the writer fails or the part cannot be opened
\* and the directory is removed: the snapshot goes back to the memtable.
WriteFlushPartFails ==
    /\ "part" \in Faults /\ pc = "writePart"
    /\ PartWriteFails
    /\ mem' = mem \cup snap
    /\ Return
    /\ UNCHANGED <<wal, manifest, up, seq, tombs, parts, client, streams, ghostVars>>

\* Mutant: the log is checkpointed although tombstones live only in it.
CommitFlush_AlwaysCheckpoint ==
    /\ pc = "flushManifest"
    /\ manifest' = parts \cup outs
    /\ parts' = parts \cup outs
    /\ snap' = {} /\ outs' = {}
    /\ pc' = "flushCheckpoint"
    /\ UNCHANGED <<wal, dirs, up, seq, mem, tombs, nextPart, client,
                   streams, caller, mode, step, inputs, ghostVars>>

\* WriteManifest, then s.parts and s.manifest.
CommitFlush ==
    /\ pc = "flushManifest"
    /\ manifest' = parts \cup outs
    /\ parts' = parts \cup outs
    /\ snap' = {} /\ outs' = {}
    /\ pc' = IF tombs = {} THEN "flushCheckpoint" ELSE "flushed"
    /\ UNCHANGED <<wal, dirs, up, seq, mem, tombs, nextPart, client,
                   streams, caller, mode, step, inputs, ghostVars>>

\* WriteManifest fails: the new part is removed, the snapshot goes back. The
\* rename may already have happened when the directory sync fails.
CommitFlushFails ==
    /\ pc = "flushManifest"
    /\ \/ "manifest" \in Faults /\ manifest' = manifest
       \/ "dirsync" \in Faults /\ manifest' = parts \cup outs
    /\ RemoveParts(outs)
    /\ mem' = mem \cup snap
    /\ Return
    /\ UNCHANGED <<wal, up, seq, tombs, parts, nextPart, client, streams, ghostVars>>

-----------------------------------------------------------------------------
(* WAL checkpoint: segments are removed oldest first, one file at a time.   *)

\* Mutant: the log is checkpointed before the manifest is committed.
CheckpointRemoves_BeforeManifest ==
    /\ pc \in {"flushManifest", "flushCheckpoint", "compactCheckpoint"}
    /\ \E n \in 1..Len(wal) : wal' = SubSeq(wal, n + 1, Len(wal))
    /\ UNCHANGED <<dirs, manifest, up, engineVars, client, streams, opVars, ghostVars>>

\* A prefix of the log goes (where the segments end is not modelled).
CheckpointRemoves ==
    /\ pc \in {"flushCheckpoint", "compactCheckpoint"}
    /\ \E n \in 1..Len(wal) : wal' = SubSeq(wal, n + 1, Len(wal))
    /\ UNCHANGED <<dirs, manifest, up, engineVars, client, streams, opVars, ghostVars>>

\* completeCommittedFlush after Checkpoint.
FlushCheckpointed ==
    /\ pc = "flushCheckpoint" /\ wal = <<>>
    /\ Goto("flushed")
    /\ UNCHANGED <<diskVars, up, engineVars, client, streams, ghostVars>>

\* Checkpoint fails: the issue is recorded and the error returned; the part
\* stays authoritative and the snapshot is not restored.
CheckpointFails ==
    /\ "checkpoint" \in Faults
    /\ pc \in {"flushCheckpoint", "compactCheckpoint"}
    /\ Return
    /\ UNCHANGED <<diskVars, up, engineVars, client, streams, ghostVars>>

-----------------------------------------------------------------------------
(* Compaction.                                                              *)

PartsAt(l) == {p \in parts : dirs[p].level = l}
Levels     == {dirs[p].level : p \in parts}

\* buildCompactionBacklog: with tombstones every level that has parts is
\* triggered and the one with most parts wins, the lower one on a tie. Without
\* tombstones the winner depends on sizes, limits and overlap, left open here.
PlannedLevels ==
    {l \in Levels : tombs # {} =>
        \A m \in Levels \ {l} :
            \/ Cardinality(PartsAt(m)) < Cardinality(PartsAt(l))
            \/ Cardinality(PartsAt(m)) = Cardinality(PartsAt(l)) /\ l < m}

\* Mutant: maybeCompactLocked does not look for open streams.
NothingToCompact_IgnoresStreams ==
    IF caller = "Flush" THEN ~CompactionEnabled
    ELSE Cardinality(parts) <= 1 /\ tombs = {}

\* After flushLocked: maybeCompactLocked for Flush, the next check of
\* CompactWithResult for Compact.
NothingToCompact ==
    IF caller = "Flush" THEN ~CompactionEnabled \/ DOMAIN streams # {}
    ELSE Cardinality(parts) <= 1 /\ tombs = {}

AfterFlush ==
    /\ pc = "flushed"
    /\ \/ NothingToCompact /\ Return
       \/ ~NothingToCompact /\ Goto(IF CompactionEnabled THEN "cascade" ELSE "full")
    /\ UNCHANGED <<diskVars, up, engineVars, client, streams, ghostVars>>

\* runCompactionCascadeLocked: one turn of the loop picks one level.
PlanCascade ==
    /\ pc = "cascade" /\ step < MaxCascadeSteps /\ Room(caller, 2)
    /\ \E l \in PlannedLevels :
        /\ l + (IF caller = "Compact" THEN 1 ELSE 0) < MaxLevel
        /\ inputs' = PartsAt(l)
    /\ step' = step + 1
    /\ pc' = "compactWrite"
    /\ UNCHANGED <<diskVars, up, engineVars, client, streams, caller, mode, snap, outs, ghostVars>>

\* The loop ends: no plan, the step limit, or startCompactionPlan refused.
EndCascade ==
    /\ pc = "cascade"
    /\ \/ caller = "Flush" /\ Return
       \/ caller = "Compact" /\ Goto("full")
    /\ UNCHANGED <<diskVars, up, engineVars, client, streams, ghostVars>>

\* fullCompactionPlan.
PlanFull ==
    LET none == parts = {} \/ (Cardinality(parts) = 1 /\ tombs = {}) IN
    /\ pc = "full"
    /\ \/ none /\ Return
       \/ /\ ~none /\ inputs' = parts /\ mode' = "full" /\ pc' = "compactWrite"
          /\ UNCHANGED <<caller, step, snap, outs>>
    /\ UNCHANGED <<diskVars, up, engineVars, client, streams, ghostVars>>

\* Mutant: the outputs are merged but not filtered.
WriteOutputs_Unfiltered ==
    LET rows == Newest(SamplesOf(inputs)) IN
    /\ pc = "compactWrite"
    /\ \/ /\ rows = {} /\ outs' = {}
          /\ UNCHANGED <<dirs, nextPart>>
       \/ \E first \in SUBSET rows \ {{}}, top \in inputs :
            LET P == IF first = rows THEN {nextPart} ELSE {nextPart, nextPart + 1} IN
            /\ \A p \in inputs : dirs[p].level <= dirs[top].level
            /\ outs' = P
            /\ WriteParts(P, [p \in P |->
                   [level   |-> dirs[top].level + 1,
                    samples |-> IF p = nextPart THEN first ELSE rows \ first]])
            /\ nextPart' = IF first = rows THEN nextPart + 1 ELSE nextPart + 2
    /\ pc' = "compactManifest"
    /\ UNCHANGED <<wal, manifest, up, seq, mem, tombs, parts, client, streams,
                   caller, mode, step, snap, inputs, ghostVars>>

\* writeStreamingCompactionOutputsLocked: merged, then filtered by the
\* tombstones, in no part, one part, or several when an output is full, one
\* level above the inputs' highest.
WriteOutputs ==
    LET rows == Undeleted(Newest(SamplesOf(inputs)), tombs) IN
    /\ pc = "compactWrite"
    /\ \/ /\ rows = {} /\ outs' = {}
          /\ UNCHANGED <<dirs, nextPart>>
       \/ \E first \in SUBSET rows \ {{}}, top \in inputs :
            LET P == IF first = rows THEN {nextPart} ELSE {nextPart, nextPart + 1} IN
            /\ \A p \in inputs : dirs[p].level <= dirs[top].level
            /\ outs' = P
            /\ WriteParts(P, [p \in P |->
                   [level   |-> dirs[top].level + 1,
                    samples |-> IF p = nextPart THEN first ELSE rows \ first]])
            /\ nextPart' = IF first = rows THEN nextPart + 1 ELSE nextPart + 2
    /\ pc' = "compactManifest"
    /\ UNCHANGED <<wal, manifest, up, seq, mem, tombs, parts, client, streams,
                   caller, mode, step, snap, inputs, ghostVars>>

\* preflightCompactionDiskSpace, a read, or a writer fails: abort removes what
\* was written.
WriteOutputsFails ==
    /\ "part" \in Faults /\ pc = "compactWrite"
    /\ PartWriteFails
    /\ Return
    /\ UNCHANGED <<wal, manifest, up, seq, mem, tombs, parts, client, streams, ghostVars>>

\* compactPartsLocked: WriteManifest, then s.parts and s.manifest.
CommitCompaction ==
    /\ pc = "compactManifest"
    /\ manifest' = (parts \ inputs) \cup outs
    /\ parts' = (parts \ inputs) \cup outs
    /\ outs' = {}
    /\ pc' = "closeInputs"
    /\ UNCHANGED <<wal, dirs, up, seq, mem, tombs, nextPart, client,
                   streams, caller, mode, step, snap, inputs, ghostVars>>

\* Mutant: the wrong side is cleaned up.
CommitCompactionFails_RemovesInputs ==
    /\ pc = "compactManifest"
    /\ \/ "manifest" \in Faults /\ manifest' = manifest
       \/ "dirsync" \in Faults /\ manifest' = (parts \ inputs) \cup outs
    /\ RemoveParts(inputs)
    /\ Return
    /\ UNCHANGED <<wal, up, seq, mem, tombs, parts, nextPart, client, streams, ghostVars>>

\* WriteManifest fails: cleanupCompactionOutputs.
CommitCompactionFails ==
    /\ pc = "compactManifest"
    /\ \/ "manifest" \in Faults /\ manifest' = manifest
       \/ "dirsync" \in Faults /\ manifest' = (parts \ inputs) \cup outs
    /\ RemoveParts(outs)
    /\ Return
    /\ UNCHANGED <<wal, up, seq, mem, tombs, parts, nextPart, client, streams, ghostVars>>

\* closeSelectedParts.
CloseInputs ==
    /\ pc = "closeInputs" /\ Goto("removeInputs")
    /\ UNCHANGED <<diskVars, up, engineVars, client, streams, ghostVars>>

\* An error of closeSelectedParts returns before anything is removed.
CloseInputsFails ==
    /\ "close" \in Faults
    /\ pc = "closeInputs" /\ Return
    /\ UNCHANGED <<diskVars, up, engineVars, client, streams, ghostVars>>

\* removeOldParts removes the inputs one by one; a failed removal is recorded
\* and the next one is tried.
RemoveInput ==
    /\ pc = "removeInputs"
    /\ \E p \in inputs :
        /\ inputs' = inputs \ {p}
        /\ RemoveParts({p})
    /\ UNCHANGED <<wal, manifest, up, engineVars, client, streams,
                   pc, caller, mode, step, snap, outs, ghostVars>>

\* hadTombstones: every tombstone of the shard is dropped, then the log is
\* checkpointed.
DropTombstones ==
    /\ pc = "removeInputs" /\ inputs = {}
    /\ tombs' = {}
    /\ pc' = IF tombs # {} THEN "compactCheckpoint" ELSE "compacted"
    /\ UNCHANGED <<diskVars, up, seq, mem, parts, nextPart, client, streams,
                   caller, mode, step, snap, inputs, outs, ghostVars>>

CompactionCheckpointed ==
    /\ pc = "compactCheckpoint" /\ wal = <<>>
    /\ Goto("compacted")
    /\ UNCHANGED <<diskVars, up, engineVars, client, streams, ghostVars>>

\* compactPartsLocked returns nil: the cascade goes on, a full compaction ends.
EndCompaction ==
    /\ pc = "compacted"
    /\ \/ mode = "full" /\ Return
       \/ mode = "cascade" /\ Goto("cascade")
    /\ UNCHANGED <<diskVars, up, engineVars, client, streams, ghostVars>>

-----------------------------------------------------------------------------
(* Stopping and starting.                                                   *)

\* What is left of the process: nothing.
Down ==
    /\ up' = FALSE
    /\ mem' = {} /\ tombs' = {} /\ parts' = {} /\ nextPart' = 1 /\ seq' = seq
    /\ client' = [c \in Clients |-> Idle]
    /\ streams' = [r \in {} |-> {}]
    /\ Return

\* The process stops between two effects on the disk.
Crash ==
    /\ up /\ Down
    /\ UNCHANGED <<diskVars, ghostVars>>

\* Engine.Close forces the shard closed (closeForced); Shard.Close refuses with
\* ErrShardBusy while a stream is open. Nothing is flushed.
Close(forced) ==
    /\ CanLock
    /\ forced \/ DOMAIN streams = {}
    /\ Down
    /\ UNCHANGED <<diskVars, ghostVars>>

\* OpenShard: the parts of the manifest are opened, what it does not list is
\* removed, the log is replayed. Without every listed part it fails. The
\* engine's sequence number restarts at the largest one of any shard.
OpenShard ==
    /\ ~up /\ manifest \subseteq DOMAIN dirs
    /\ up' = TRUE
    /\ parts' = manifest
    /\ RemoveParts(DOMAIN dirs \ manifest)
    /\ nextPart' \in 1..(MaxPart + 1)
    /\ nextPart' - 1 \in manifest \cup {0} /\ \A p \in manifest : p < nextPart'
    /\ mem' = WalPoints /\ tombs' = WalTombs
    /\ \E s \in 0..seq :
        /\ \A x \in SamplesOf(manifest) \cup WalPoints : x.seq <= s
        /\ \A t \in WalTombs : t.seq <= s
        /\ seq' = s
    /\ UNCHANGED <<wal, manifest, client, streams, opVars, ghostVars>>

-----------------------------------------------------------------------------
FlushStep == WriteFlushPart \/ CommitFlush \/ FlushCheckpointed \/ AfterFlush

CompactStep == PlanCascade \/ EndCascade \/ PlanFull \/ WriteOutputs \/ CommitCompaction
               \/ CloseInputs \/ RemoveInput \/ DropTombstones \/ CompactionCheckpointed
               \/ EndCompaction

\* The operation that holds lifecycleMu goes on.
OpStep == FlushStep \/ CheckpointRemoves \/ CompactStep

Calm ==
    \/ \E c \in Clients : AssignWriteSeq(c) \/ AssignDeleteSeq(c) \/ LogFrame(c) \/ ApplyFrame(c)
    \/ \E r \in Readers : ScanColumns(r) \/ CloseStream(r)
    \/ \E who \in {"Flush", "Compact"} : BeginFlush(who)
    \/ OpStep
    \/ OpenShard

\* A failed call, or the end of the process.
Mishap ==
    \/ \E c \in Clients : LogFrameFails(c) \/ ApplyFrameFails(c)
    \/ WriteFlushPartFails \/ CommitFlushFails \/ CheckpointFails
    \/ WriteOutputsFails \/ CommitCompactionFails \/ CloseInputsFails
    \/ Crash
    \/ \E forced \in BOOLEAN : Close(forced)

Next == Calm \/ Mishap

Spec == Init /\ [][Next]_vars

-----------------------------------------------------------------------------
(* Properties.                                                              *)

\* The variables stay within their types.
TypeOK ==
    /\ wal \in Seq(Frame) /\ manifest \subseteq PartIds
    /\ DOMAIN dirs \subseteq PartIds /\ dirs \in [DOMAIN dirs -> Part]
    /\ up \in BOOLEAN /\ seq \in Nat /\ nextPart \in PartIds
    /\ mem \subseteq Sample /\ snap \subseteq Sample /\ tombs \subseteq Tomb
    /\ parts \subseteq PartIds /\ inputs \subseteq PartIds /\ outs \subseteq PartIds
    /\ client \in [Clients -> [phase : {"idle", "sent", "logged"}, frame : Frame]]
    /\ DOMAIN streams \subseteq Readers /\ \A r \in DOMAIN streams : streams[r] \subseteq PartIds
    /\ pc \in {"idle", "writePart", "flushManifest", "flushCheckpoint", "flushed",
               "cascade", "full", "compactWrite", "compactManifest", "closeInputs",
               "removeInputs", "compactCheckpoint", "compacted"}
    /\ caller \in {"Flush", "Compact"} /\ mode \in {"cascade", "full"} /\ step \in Nat
    /\ applied \subseteq Sample /\ dead \subseteq Sample /\ doomed \subseteq Sample

Kept(S) == \A x \in applied \ doomed : \E y \in S : y.key = x.key /\ y.seq >= x.seq

\* Stopping the process at any point, in the middle of a flush, a checkpoint
\* or a compaction included, loses no applied write: reopening from the disk
\* (manifest, parts and log replay) returns it or a newer one.
CrashKeepsWrites == Kept(Recoverable)

\* Stopping the process at any point brings back no sample that a completed
\* delete covered (replay restores the tombstone or the sample is gone).
CrashKeepsDeletes == Recoverable \cap dead = {}

\* While the shard is open a query returns every applied write or a newer one:
\* failed flushes restore the snapshot, committed ones and compactions lose
\* nothing.
QuerySeesWrites == up => Kept(Visible)

\* Once DeleteRange has returned, no query returns a sample it covered.
QueryHidesDeleted == up => Visible \cap dead = {}

\* The manifest on disk lists only parts whose directory exists, so OpenShard
\* never fails with a missing part.
ManifestPartsExist == manifest \subseteq DOMAIN dirs

\* The parts an open stream reads stay readable: a part whose files were closed
\* is read by its path (Part.readBlock), so its directory must still exist.
StreamPartsReadable == \A r \in DOMAIN streams : streams[r] \subseteq DOMAIN dirs

=============================================================================
