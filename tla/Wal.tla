-------------------------------- MODULE Wal --------------------------------
(***************************************************************************)
(* The write-ahead log of a shard (internal/wal/wal.go): segments of framed *)
(* records, batched syncs, rolling, the checkpoint that removes segments    *)
(* one file at a time, and the replay at start that cuts a torn tail.       *)
(*                                                                         *)
(* Every append gets a fresh record number. A file is the sequence of the   *)
(* writes it received, the segment header first; a write is whole or what a *)
(* failed write or a loss of power left of it. A file keeps its first       *)
(* `synced` writes through a loss of power. Directory operations are taken  *)
(* to reach the disk in order, as on a journalling file system.             *)
(***************************************************************************)
EXTENDS Integers, Sequences, FiniteSets

CONSTANTS
    Sync,          \* opts.Sync
    BatchRecords,  \* opts.BatchRecords, 0 for none
    MayRoll,       \* whether SegmentBytes is small enough to fill a segment
    Stops,         \* how the log may stop: "process" and "power"
    Tears,         \* what a loss of power may leave of an unsynced write
    Faults,        \* the calls that may fail
    MaxRecord,     \* bound: appends
    MaxSegment     \* bound: segment numbers

\* "prefix": exactly the 4 bytes of the frame's length; "partial": any other
\* part of a frame; "header": a part of the segment header. Without "header"
\* a new file's header is taken to reach the disk with its directory entry.
TearKinds == {"prefix", "partial", "header"}

ASSUME WalAssumption ==
    /\ Sync \in BOOLEAN /\ MayRoll \in BOOLEAN /\ Stops \subseteq {"process", "power"}
    /\ BatchRecords \in Nat /\ MaxRecord \in Nat /\ MaxSegment \in Nat \ {0}
    /\ Tears \subseteq TearKinds
    /\ Faults \subseteq {"write", "sync", "open", "remove"}

VARIABLES
    segs,     \* the segment files: number -> writes, and how many are synced
    up,       \* the log is open
    failed,   \* ReplayRecords returned an error: the shard cannot be opened
    segment,  \* l.segment
    file,     \* l.file is not nil
    pending,  \* l.pendingRecords
    next,     \* the number of the next record
    old,      \* the last segment Checkpoint removes, 0 when none runs
    acked,    \* records whose append returned nil
    durable,  \* records whose append returned nil after it synced
    covered,  \* records that a Checkpoint was allowed to remove
    short,    \* a failed write left a part of a frame or a header in a file
    held      \* what the last replay returned and what was appended since

vars == <<segs, up, failed, segment, file, pending, next, old, acked, durable, covered, short, held>>

Header      == [rec |-> 0, form |-> "whole"]
Whole(r)    == [rec |-> r, form |-> "whole"]
Torn(r, f)  == [rec |-> r, form |-> f]
OnDisk      == UNION {{segs[n].writes[i].rec : i \in DOMAIN segs[n].writes} : n \in DOMAIN segs}
Last(S)     == CHOOSE n \in S : \A m \in S : m <= n
First(S)    == CHOOSE n \in S : \A m \in S : n <= m

\* Mutant: the file is truncated when it is opened.
Opened_Truncates(s, n, header) ==
    [m \in DOMAIN s \cup {n} |->
        IF m = n THEN [writes |-> <<header>>, synced |-> 0] ELSE s[m]]

\* openSegment: a header is written to a file that is empty, whatever the size
\* of another.
Opened(s, n, header) ==
    IF n \in DOMAIN s /\ s[n].writes # <<>> THEN s
    ELSE [m \in DOMAIN s \cup {n} |->
            IF m = n THEN [writes |-> <<header>>, synced |-> 0] ELSE s[m]]

Added(s, n, w) == [s EXCEPT ![n].writes = Append(@, w)]
Synced(s, n)   == [s EXCEPT ![n].synced = Len(s[n].writes)]

Init ==
    /\ segs = [n \in {1} |-> [writes |-> <<Header>>, synced |-> 0]]
    /\ up = TRUE /\ failed = FALSE /\ segment = 1 /\ file = TRUE
    /\ pending = 0 /\ next = 1 /\ old = 0
    /\ acked = {} /\ durable = {} /\ covered = {} /\ short = FALSE /\ held = {}

Ready == up /\ old = 0

-----------------------------------------------------------------------------
(* Append, AppendTyped, AppendTombstones: appendFrameLocked.                *)


\* shouldSync, after the record was counted.
ShouldSync(syncWrite) ==
    syncWrite \/ Sync \/ (BatchRecords > 0 /\ pending + 1 >= BatchRecords)

\* rollIfNeeded: whether a frame fits depends on its size.
Rolls == {FALSE} \cup (IF MayRoll /\ segment < MaxSegment THEN {TRUE} ELSE {})

AppendFrame(syncWrite) ==
    /\ Ready /\ file /\ next <= MaxRecord
    /\ \E roll \in Rolls :
        LET n == IF roll THEN segment + 1 ELSE segment
            s == Added(IF roll THEN Opened(segs, n, Header) ELSE segs, n, Whole(next)) IN
        /\ segment' = n
        /\ \/ /\ ShouldSync(syncWrite)
              /\ segs' = Synced(s, n) /\ pending' = 0 /\ durable' = durable \cup {next}
           \/ /\ ~ShouldSync(syncWrite)
              /\ segs' = s /\ pending' = pending + 1 /\ durable' = durable
    /\ acked' = acked \cup {next} /\ held' = held \cup {next} /\ next' = next + 1
    /\ UNCHANGED <<up, failed, file, old, covered, short>>

\* The sync fails: the record is in the file and counted, the caller gets the
\* error.
AppendSyncFails(syncWrite) ==
    /\ "sync" \in Faults
    /\ Ready /\ file /\ next <= MaxRecord /\ ShouldSync(syncWrite)
    /\ \E roll \in Rolls :
        LET n == IF roll THEN segment + 1 ELSE segment IN
        /\ segment' = n
        /\ segs' = Added(IF roll THEN Opened(segs, n, Header) ELSE segs, n, Whole(next))
    /\ pending' = pending + 1 /\ next' = next + 1
    /\ UNCHANGED <<up, failed, file, old, acked, durable, covered, short, held>>

\* WriteFull fails: part of the frame may be in the file, which stays open.
AppendWriteFails ==
    /\ "write" \in Faults
    /\ Ready /\ file /\ next <= MaxRecord
    /\ \/ UNCHANGED <<segs, short>>
       \/ /\ \E f \in {"prefix", "partial"} : segs' = Added(segs, segment, Torn(next, f))
          /\ short' = TRUE
    /\ next' = next + 1
    /\ UNCHANGED <<up, failed, segment, file, pending, old, acked, durable, covered, held>>

\* What a failed openSegment leaves: the file may have been created, and its
\* header be there in part.
OpenFails(s, n) ==
    /\ "open" \in Faults
    /\ n <= MaxSegment
    /\ \/ segs' = s /\ short' = short
       \/ /\ "write" \in Faults
          /\ segs' = Opened(s, n, Torn(0, "header")) /\ short' = TRUE
    /\ file' = FALSE

\* rollIfNeeded fails: the old segment is closed, l.file stays nil, and every
\* later append fails.
AppendRollFails ==
    /\ Ready /\ file /\ next <= MaxRecord /\ MayRoll
    /\ OpenFails(segs, segment + 1)
    /\ next' = next + 1
    /\ UNCHANGED <<up, failed, segment, pending, old, acked, durable, covered, held>>

\* Mutant: the batch size is subtracted where the count is reset.
FlushPending_Subtracts ==
    /\ Ready /\ file /\ pending > 0
    /\ segs' = Synced(segs, segment) /\ pending' = pending - BatchRecords
    /\ UNCHANGED <<up, failed, segment, file, next, old, acked, durable, covered, short, held>>

\* FlushPending, called by intervalSyncLoop.
FlushPending ==
    /\ Ready /\ file /\ pending > 0
    /\ segs' = Synced(segs, segment) /\ pending' = 0
    /\ UNCHANGED <<up, failed, segment, file, next, old, acked, durable, covered, short, held>>

-----------------------------------------------------------------------------
(* Checkpoint.                                                              *)

\* syncPendingLocked
AfterSyncPending == IF file /\ pending > 0 THEN Synced(segs, segment) ELSE segs

\* Checkpoint up to the removals: pending records are synced, a new segment is
\* opened.
BeginCheckpoint ==
    /\ Ready /\ segment < MaxSegment
    /\ segs' = Opened(AfterSyncPending, segment + 1, Header)
    /\ pending' = IF file THEN 0 ELSE pending
    /\ old' = segment /\ segment' = segment + 1 /\ file' = TRUE
    /\ covered' = covered \cup OnDisk
    /\ UNCHANGED <<up, failed, next, acked, durable, short, held>>

\* The new segment cannot be opened: nothing is removed, l.file stays nil.
BeginCheckpointFails ==
    /\ Ready
    /\ OpenFails(AfterSyncPending, segment + 1)
    /\ pending' = IF file THEN 0 ELSE pending
    /\ UNCHANGED <<up, failed, segment, next, old, acked, durable, covered, held>>

Checkpointed == {n \in DOMAIN segs : n <= old}

\* Mutant: the newest segment is removed first.
RemoveSegment_NewestFirst ==
    /\ up /\ old > 0 /\ Checkpointed # {}
    /\ segs' = [n \in DOMAIN segs \ {Last(Checkpointed)} |-> segs[n]]
    /\ UNCHANGED <<up, failed, segment, file, pending, next, old, acked, durable, covered, short, held>>

\* listSegments is sorted: the oldest goes first.
RemoveSegment ==
    /\ up /\ old > 0 /\ Checkpointed # {}
    /\ segs' = [n \in DOMAIN segs \ {First(Checkpointed)} |-> segs[n]]
    /\ UNCHANGED <<up, failed, segment, file, pending, next, old, acked, durable, covered, short, held>>

EndCheckpoint ==
    /\ up /\ old > 0 /\ Checkpointed = {} /\ old' = 0
    /\ held' = held \ covered
    /\ UNCHANGED <<segs, up, failed, segment, file, pending, next, acked, durable, covered, short>>

\* A removal fails and ends the Checkpoint.
RemoveSegmentFails ==
    /\ "remove" \in Faults
    /\ up /\ old > 0 /\ Checkpointed # {} /\ old' = 0
    /\ UNCHANGED <<segs, up, failed, segment, file, pending, next, acked, durable, covered, short, held>>

-----------------------------------------------------------------------------
(* Stopping and replay.                                                     *)

Down == up' = FALSE /\ file' = FALSE /\ pending' = 0 /\ old' = 0 /\ held' = {}

\* Close, or the process stops: what was written stays in the files.
Stop ==
    /\ up /\ "process" \in Stops /\ Down
    /\ UNCHANGED <<segs, failed, segment, next, acked, durable, covered, short>>

\* What may be left of a file: its synced writes, some of the others, and
\* perhaps a part of the next.
Remains(g) ==
    LET keeps == {k \in g.synced..Len(g.writes) : k > 0 \/ "header" \in Tears}
        Left(w) == [writes |-> w, synced |-> Len(w)] IN
    {Left(SubSeq(g.writes, 1, k)) : k \in keeps} \cup
    {Left(Append(SubSeq(g.writes, 1, k), Torn(g.writes[k + 1].rec, f))) :
        <<k, f>> \in {kf \in (keeps \ {Len(g.writes)}) \X Tears : kf[2] = "header" <=> kf[1] = 0}}

Unsynced == {n \in DOMAIN segs : segs[n].synced < Len(segs[n].writes)}

LosePower ==
    /\ up /\ "power" \in Stops /\ Down
    /\ \E left \in [Unsynced -> UNION {Remains(segs[n]) : n \in Unsynced}] :
        /\ \A n \in Unsynced : left[n] \in Remains(segs[n])
        /\ segs' = [n \in DOMAIN segs |-> IF n \in Unsynced THEN left[n] ELSE segs[n]]
    /\ UNCHANGED <<failed, segment, next, acked, durable, covered, short>>

Bad(w) == {i \in DOMAIN w : w[i].form # "whole"}


\* How many writes replayOpenSegment reads, the header included.
Good(w) == IF Bad(w) = {} THEN Len(w) ELSE First(Bad(w)) - 1

\* readFrame met the end of the file exactly after a length: io.EOF, which
\* replayOpenSegment takes for the end of the records.
EndsClean(w) == Bad(w) = {} \/ (Bad(w) = {Len(w)} /\ w[Len(w)].form = "prefix")

\* replayOpenSegment returns an error: a bad header; a torn record that is not
\* the tail of the last segment. What follows a torn record is read as part of
\* it: the frame then runs past the end of the file (cut) or fails its CRC.
Unreadable(w, isLast, cut) ==
    \/ Good(w) = 0
    \/ ~EndsClean(w) /\ ~(isLast /\ (cut \/ Good(w) = Len(w) - 1))

\* Mutant: the tail is not truncated.
Truncated_Never(w) == w

\* replaySegment truncates the file before the torn record.
Truncated(w) == IF EndsClean(w) THEN w ELSE SubSeq(w, 1, Good(w))

\* Open and ReplayRecords.
OpenReplay ==
    /\ ~up /\ ~failed
    /\ LET last == Last(DOMAIN segs)
           s    == Opened(segs, last, Header) IN
        \E cut \in BOOLEAN :
            \/ /\ \E n \in DOMAIN s : Unreadable(s[n].writes, n = last, cut)
               /\ failed' = TRUE /\ segs' = s
               /\ UNCHANGED <<up, segment, file, held>>
            \/ /\ \A n \in DOMAIN s : ~Unreadable(s[n].writes, n = last, cut)
               /\ up' = TRUE /\ file' = TRUE /\ segment' = last /\ failed' = FALSE
               /\ held' = UNION {{s[n].writes[i].rec : i \in 2..Good(s[n].writes)} : n \in DOMAIN s}
               /\ segs' = [s EXCEPT ![last].writes = Truncated(@)]
    /\ UNCHANGED <<pending, next, old, acked, durable, covered, short>>

-----------------------------------------------------------------------------
Next ==
    \/ \E syncWrite \in BOOLEAN : AppendFrame(syncWrite) \/ AppendSyncFails(syncWrite)
    \/ AppendWriteFails \/ AppendRollFails \/ FlushPending
    \/ BeginCheckpoint \/ BeginCheckpointFails \/ RemoveSegment \/ RemoveSegmentFails \/ EndCheckpoint
    \/ Stop \/ LosePower \/ OpenReplay

Spec == Init /\ [][Next]_vars

-----------------------------------------------------------------------------
(* Properties.                                                              *)

\* The variables stay within their types.
TypeOK ==
    /\ DOMAIN segs \subseteq Nat \ {0} /\ DOMAIN segs # {}
    /\ \A n \in DOMAIN segs :
        /\ segs[n].writes \in Seq([rec : Nat, form : {"whole"} \cup TearKinds])
        /\ segs[n].synced \in Nat
    /\ up \in BOOLEAN /\ short \in BOOLEAN /\ failed \in BOOLEAN /\ file \in BOOLEAN
    /\ segment \in Nat \ {0} /\ pending \in Nat /\ next \in Nat /\ old \in Nat
    /\ acked \subseteq 1..MaxRecord /\ durable \subseteq acked
    /\ held \subseteq 1..MaxRecord

\* The records that must outlive a stop: with power, those whose append synced.
Promised == (IF "power" \in Stops THEN durable ELSE acked) \ covered

\* Unless a failed append left a part of its frame in the file (nothing removes
\* it), the log can be opened again, and what was promised and no Checkpoint was
\* allowed to remove is in it: Append's nil means what durability promises.
PromisedReplayed == short \/ (~failed /\ (up => Promised \subseteq held))


\* The segment files behave as one log that grows at its end and shrinks at
\* its front, wherever a Checkpoint stops: no tombstone goes before the points
\* it deletes, no record goes before an older one.
Log == INSTANCE AppendLog WITH log <- OnDisk \ {0}
ImplementsLog == Log!Spec


=============================================================================
