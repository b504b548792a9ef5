--------------------------- MODULE ShardInvariant ---------------------------
(***************************************************************************)
(* The inductive invariant of a shard, lemmas about the operators it is     *)
(* stated with, and the steps that keep types, files and memory right.      *)
(***************************************************************************)
EXTENDS Shard, WellFoundedInduction, TLAPS

-----------------------------------------------------------------------------
(* The inductive invariant.                                                 *)

InFlight(c) == client[c].frame

\* The manifest and s.parts agree while the shard is open; part directories
\* that either of them or the operation in progress needs exist, and new
\* numbers are fresh.
FilesInv ==
    /\ manifest \subseteq DOMAIN dirs /\ parts \subseteq DOMAIN dirs /\ outs \subseteq DOMAIN dirs
    /\ up => manifest = parts
    /\ ~up => parts = {} /\ pc = "idle"
    /\ \A p \in parts \cup outs : p < nextPart
    /\ outs \cap parts = {}
    /\ pc \notin {"flushManifest", "compactManifest"} => outs = {}
    /\ pc \in {"compactWrite", "compactManifest"} => inputs \subseteq parts
    /\ pc \in {"closeInputs", "removeInputs"} => inputs \cap parts = {}

\* What is only in memory is also in the log, and while an operation holds
\* lifecycleMu the memtable is empty and no writer is between its two steps.
MemInv ==
    /\ mem \cup snap \subseteq WalPoints
    /\ pc # "idle" => mem = {}
    /\ pc \notin {"writePart", "flushManifest"} => snap = {}
    /\ ~up => mem = {} /\ snap = {} /\ tombs = {}
    /\ \A c \in Clients :
        /\ ~up => client[c] = Idle
        /\ Logged(c) => /\ pc = "idle"
                        /\ InFlight(c).points \subseteq WalPoints
                        /\ InFlight(c).tombs \subseteq WalTombs
        /\ client[c].phase = "idle" => client[c] = Idle

\* What the parts being committed hold.
OutsInv ==
    /\ pc = "flushManifest" => SamplesOf(outs) = Newest(snap)
    /\ pc = "compactManifest" =>
         SamplesOf(outs) = Undeleted(Newest(SamplesOf(inputs)), tombs)

\* The engine's number bounds every number in use, and no tombstone lacks one.
SeqInv ==
    /\ \A x \in WalPoints \cup SamplesOf(manifest) : x.seq <= seq
    /\ \A t \in WalTombs \cup tombs : 0 < t.seq /\ t.seq <= seq
    /\ \A c \in Clients :
        /\ \A x \in InFlight(c).points : x.seq <= seq
        /\ \A t \in InFlight(c).tombs : 0 < t.seq /\ t.seq <= seq

\* A tombstone in memory or in the log hides no sample but doomed ones.
DoomedInv ==
    \A t \in tombs \cup WalTombs :
        /\ \A x \in applied : Covers(t, x) => x \in doomed
        /\ \A c \in Clients : \A x \in InFlight(c).points : Covers(t, x) => x \in doomed

\* Where samples are looked for: in memory and the open parts, or on the disk.
Stored == IF up THEN mem \cup snap \cup SamplesOf(parts)
          ELSE WalPoints \cup SamplesOf(manifest)

KeptInv == Kept(Stored)

Inv == TypeOK /\ FilesInv /\ MemInv /\ OutsInv /\ SeqInv /\ DoomedInv /\ KeptInv

ConstInv == "dirsync" \notin Faults /\ ~UnsequencedDeletes

-----------------------------------------------------------------------------
(* Facts about the operators.                                               *)

\* A bounded set of numbers that is not empty has a largest member.
LEMMA Largest ==
    ASSUME NEW S, S \subseteq Nat, S # {}, NEW b \in Nat, \A n \in S : n <= b
    PROVE  \E m \in S : \A n \in S : n <= m
<1> DEFINE U == {u \in Nat : \A n \in S : n <= u}
<1>1. U \subseteq Nat /\ b \in U
  OBVIOUS
<1>2. PICK u \in U : \A v \in U : ~(<<v, u>> \in OpToRel(<, Nat))
  <2> HIDE DEF U
  <2> QED BY <1>1, WFMin, NatLessThanWellFounded, Zenon
<1>3. \A v \in U : ~(v < u)
  BY <1>1, <1>2 DEF OpToRel
<1>4. u \in S
  <2> SUFFICES ASSUME u \notin S PROVE FALSE
    OBVIOUS
  <2>1. u # 0
    <3>1. PICK n \in S : TRUE
      OBVIOUS
    <3> QED
      BY <3>1
  <2>2. u - 1 \in U
    BY <2>1
  <2> QED
    BY <2>2, <1>3
<1> QED
  BY <1>4

\* mergeSamples keeps, for every sample, one of its key that is no older.
LEMMA NewestKeeps ==
    ASSUME NEW S, S \subseteq Sample, NEW b \in Nat, \A x \in S : x.seq <= b, NEW x \in S
    PROVE  \E y \in Newest(S) : y.key = x.key /\ y.seq >= x.seq
<1> DEFINE N == {y.seq : y \in {z \in S : z.key = x.key}}
<1>1. N \subseteq Nat /\ N # {} /\ \A n \in N : n <= b
  BY DEF Sample
<1>2. PICK m \in N : \A n \in N : n <= m
  <2> HIDE DEF N
  <2> QED BY <1>1, Largest
<1>3. PICK y \in S : y.key = x.key /\ y.seq = m
  OBVIOUS
<1>4. \A z \in S : z.key = y.key => z.seq <= y.seq
  BY <1>2, <1>3
<1>5. x.seq <= y.seq
  BY <1>3, <1>4
<1>6. y.seq \in Nat /\ x.seq \in Nat
  BY DEF Sample
<1> QED
  BY <1>3, <1>4, <1>5, <1>6 DEF Newest

\* Merging and filtering add no sample.
LEMMA NewestSubset == \A S : Newest(S) \subseteq S
  BY DEF Newest

\* A tombstone with a number that covers a sample covers every older one of
\* the same key.
LEMMA CoversOlder ==
    ASSUME NEW t, NEW x \in Sample, NEW y \in Sample, t.seq \in Nat, 0 < t.seq,
           y.key = x.key, y.seq >= x.seq, Covers(t, y)
    PROVE  Covers(t, x)
  BY DEF Covers, Sample

\* Appending a frame adds its points and its tombstones to the log.
LEMMA WalAppend ==
    ASSUME wal \in Seq(Frame), NEW f \in Frame, wal' = Append(wal, f)
    PROVE  /\ WalPoints' = WalPoints \cup f.points
           /\ WalTombs' = WalTombs \cup f.tombs
<1>1. /\ DOMAIN wal' = DOMAIN wal \cup {Len(wal) + 1} /\ wal'[Len(wal) + 1] = f
      /\ \A i \in DOMAIN wal : wal'[i] = wal[i]
  OBVIOUS
<1> QED
  BY <1>1 DEF WalPoints, WalTombs

\* Removing a prefix of the log adds nothing.
LEMMA WalSuffix ==
    ASSUME wal \in Seq(Frame), NEW n \in 1..Len(wal), wal' = SubSeq(wal, n + 1, Len(wal))
    PROVE  WalPoints' \subseteq WalPoints /\ WalTombs' \subseteq WalTombs
<1>1. \A i \in DOMAIN wal' : i + n \in DOMAIN wal /\ wal'[i] = wal[i + n]
  OBVIOUS
<1> QED
  BY <1>1 DEF WalPoints, WalTombs

\* What the log and the parts hold has the right type.
LEMMA StoredType ==
    ASSUME TypeOK
    PROVE  /\ WalPoints \subseteq Sample /\ WalTombs \subseteq Tomb
           /\ \A P : SamplesOf(P) \subseteq Sample
<1>1. \A i \in DOMAIN wal : wal[i] \in Frame
  BY DEF TypeOK
<1>2. WalPoints \subseteq Sample /\ WalTombs \subseteq Tomb
  BY <1>1 DEF WalPoints, WalTombs, Frame
<1>3. \A p \in DOMAIN dirs : dirs[p].samples \subseteq Sample
  BY DEF TypeOK, Part
<1> QED
  BY <1>2, <1>3 DEF SamplesOf

-----------------------------------------------------------------------------
(* Types, files and memory. *)

\* Every step keeps the types.
LEMMA TypeStep ==
    ASSUME Inv, [Next]_vars
    PROVE  TypeOK'
<1> USE DEF diskVars, engineVars, opVars, ghostVars, PartIds
<1> TypeOK /\ FilesInv
  BY DEF Inv
<1>1. CASE \E c \in Clients : AssignWriteSeq(c)
  BY <1>1 DEF TypeOK, AssignWriteSeq, Frame, Sample
<1>2. CASE \E c \in Clients : AssignDeleteSeq(c)
  <2>1. PICK c \in Clients : AssignDeleteSeq(c)
    BY <1>2
  <2>2. PICK k \in Scopes, n \in {0, seq + 1} :
          /\ client' = [client EXCEPT ![c] = [phase |-> "sent",
                 frame |-> [points |-> {}, tombs |-> {[scope |-> k, seq |-> n]}]]]
          /\ seq' \in {seq, seq + 1}
    BY <2>1 DEF AssignDeleteSeq
  <2>3. [points |-> {}, tombs |-> {[scope |-> k, seq |-> n]}] \in Frame
    BY DEF Frame, Tomb, TypeOK
  <2> QED
    BY <2>1, <2>2, <2>3 DEF TypeOK, AssignDeleteSeq
<1>3. CASE \E c \in Clients : LogFrame(c)
  <2>1. PICK c \in Clients : LogFrame(c)
    BY <1>3
  <2>2. client[c] \in [phase : {"idle", "sent", "logged"}, frame : Frame]
    BY DEF TypeOK
  <2>3. wal' \in Seq(Frame) /\ client' = [client EXCEPT ![c] = [@ EXCEPT !.phase = "logged"]]
    BY <2>1, <2>2 DEF TypeOK, LogFrame
  <2>4. Issued \subseteq Sample
    BY DEF Issued, TypeOK, Frame
  <2>5. doomed' \subseteq Sample
    BY <2>1, <2>4 DEF LogFrame, TypeOK
  <2> QED
    BY <2>1, <2>2, <2>3, <2>5 DEF TypeOK, LogFrame
<1>4. CASE \E c \in Clients : LogFrameFails(c)
  <2>1. PICK c \in Clients : LogFrameFails(c)
    BY <1>4
  <2>2. client[c].frame \in Frame /\ Idle \in [phase : {"idle", "sent", "logged"}, frame : Frame]
    BY DEF TypeOK, Idle, NoFrame, Frame
  <2>3. wal' \in Seq(Frame)
    <3>1. wal' = wal \/ wal' = Append(wal, client[c].frame)
      BY <2>1 DEF LogFrameFails
    <3>2. wal \in Seq(Frame) /\ Append(wal, client[c].frame) \in Seq(Frame)
      BY <2>2 DEF TypeOK
    <3> QED
      BY <3>1, <3>2
  <2>4. Issued \subseteq Sample
    BY DEF Issued, TypeOK, Frame
  <2>5. doomed' \subseteq Sample
    BY <2>1, <2>4 DEF LogFrameFails, TypeOK
  <2> QED
    BY <2>1, <2>2, <2>3, <2>5 DEF TypeOK, LogFrameFails
<1>5. CASE \E c \in Clients : ApplyFrame(c)
  BY <1>5 DEF TypeOK, ApplyFrame, Logged, Idle, NoFrame, Frame
<1>6. CASE \E c \in Clients : ApplyFrameFails(c)
  BY <1>6 DEF TypeOK, ApplyFrameFails, Idle, NoFrame, Frame
<1>7. CASE \E r \in Readers : ScanColumns(r)
  BY <1>7 DEF TypeOK, ScanColumns
<1>8. CASE \E r \in Readers : CloseStream(r)
  BY <1>8 DEF TypeOK, CloseStream
<1>9. CASE \E who \in {"Flush", "Compact"} : BeginFlush(who)
  BY <1>9 DEF TypeOK, BeginFlush
<1>10. CASE WriteFlushPart
  BY <1>10 DEF TypeOK, WriteFlushPart, WriteParts, Newest, Part
<1>11. CASE WriteFlushPartFails
  <2>1. NoPart \in Part
    BY DEF NoPart, Part
  <2>2. /\ DOMAIN dirs' \subseteq PartIds /\ dirs' \in [DOMAIN dirs' -> Part]
        /\ nextPart' \in PartIds
    BY <1>11, <2>1 DEF TypeOK, WriteFlushPartFails, PartWriteFails, WriteParts
  <2> QED
    BY <1>11, <2>2 DEF TypeOK, WriteFlushPartFails, Return
<1>12. CASE CommitFlush
  BY <1>12 DEF TypeOK, CommitFlush
<1>13. CASE CommitFlushFails
  BY <1>13 DEF TypeOK, CommitFlushFails, Return, RemoveParts
<1>14. CASE CheckpointRemoves
  <2>1. wal' \in Seq(Frame)
    BY <1>14 DEF TypeOK, CheckpointRemoves
  <2> QED
    BY <1>14, <2>1 DEF TypeOK, CheckpointRemoves
<1>15. CASE FlushCheckpointed
  BY <1>15 DEF TypeOK, FlushCheckpointed, Goto
<1>16. CASE CheckpointFails
  BY <1>16 DEF TypeOK, CheckpointFails, Return
<1>17. CASE AfterFlush
  BY <1>17 DEF TypeOK, AfterFlush, Return, Goto
<1>18. CASE PlanCascade
  BY <1>18 DEF TypeOK, PlanCascade, PartsAt
<1>19. CASE EndCascade
  BY <1>19 DEF TypeOK, EndCascade, Return, Goto
<1>20. CASE PlanFull
  BY <1>20 DEF TypeOK, PlanFull, Return
<1>21. CASE WriteOutputs
  <2>1. Undeleted(Newest(SamplesOf(inputs)), tombs) \subseteq Sample
    BY StoredType DEF Undeleted, Newest
  <2>2. inputs \subseteq DOMAIN dirs
    BY <1>21 DEF WriteOutputs, FilesInv
  <2>3. DOMAIN dirs' \subseteq PartIds /\ dirs' \in [DOMAIN dirs' -> Part]
        /\ outs' \subseteq PartIds /\ nextPart' \in PartIds
    <3>1. CASE UNCHANGED <<dirs, nextPart>> /\ outs' = {}
      BY <3>1 DEF TypeOK
    <3>2. CASE ~(UNCHANGED <<dirs, nextPart>> /\ outs' = {})
      <4> DEFINE rows == Undeleted(Newest(SamplesOf(inputs)), tombs)
      <4>1. PICK first \in SUBSET rows, top \in inputs :
              LET P == IF first = rows THEN {nextPart} ELSE {nextPart, nextPart + 1} IN
              /\ outs' = P
              /\ WriteParts(P, [p \in P |->
                   [level   |-> dirs[top].level + 1,
                    samples |-> IF p = nextPart THEN first ELSE rows \ first]])
              /\ nextPart' = IF first = rows THEN nextPart + 1 ELSE nextPart + 2
        BY <1>21, <3>2 DEF WriteOutputs
      <4>2. dirs[top].level + 1 \in Nat
        BY <2>2 DEF TypeOK, Part
      <4>3. rows \subseteq Sample
        BY <2>1
      <4> HIDE DEF rows
      <4>4. outs' \subseteq PartIds /\ nextPart' \in PartIds
        BY <4>1 DEF TypeOK
      <4>5. \A p \in outs' : dirs'[p] \in Part
        BY <4>1, <4>2, <4>3 DEF WriteParts, Part
      <4>6. DOMAIN dirs' = DOMAIN dirs \cup outs' /\ dirs' \in [DOMAIN dirs' -> {dirs'[p] : p \in DOMAIN dirs'}]
            /\ \A p \in DOMAIN dirs \ outs' : dirs'[p] = dirs[p]
        BY <4>1 DEF WriteParts
      <4>7. \A p \in DOMAIN dirs' : dirs'[p] \in Part
        BY <4>5, <4>6 DEF TypeOK
      <4> QED
        BY <4>4, <4>6, <4>7 DEF TypeOK
    <3> QED
      BY <3>1, <3>2
  <2> QED
    BY <1>21, <2>3 DEF TypeOK, WriteOutputs
<1>22. CASE WriteOutputsFails
  <2>1. NoPart \in Part
    BY DEF NoPart, Part
  <2>2. /\ DOMAIN dirs' \subseteq PartIds /\ dirs' \in [DOMAIN dirs' -> Part]
        /\ nextPart' \in PartIds
    BY <1>22, <2>1 DEF TypeOK, WriteOutputsFails, PartWriteFails, WriteParts
  <2> QED
    BY <1>22, <2>2 DEF TypeOK, WriteOutputsFails, Return
<1>23. CASE CommitCompaction
  BY <1>23 DEF TypeOK, CommitCompaction
<1>24. CASE CommitCompactionFails
  BY <1>24 DEF TypeOK, CommitCompactionFails, Return, RemoveParts
<1>25. CASE CloseInputs
  BY <1>25 DEF TypeOK, CloseInputs, Goto
<1>26. CASE CloseInputsFails
  BY <1>26 DEF TypeOK, CloseInputsFails, Return
<1>27. CASE RemoveInput
  BY <1>27 DEF TypeOK, RemoveInput, RemoveParts
<1>28. CASE DropTombstones
  BY <1>28 DEF TypeOK, DropTombstones
<1>29. CASE CompactionCheckpointed
  BY <1>29 DEF TypeOK, CompactionCheckpointed, Goto
<1>30. CASE EndCompaction
  BY <1>30 DEF TypeOK, EndCompaction, Return, Goto
<1>31. CASE Crash
  <2>1. Idle \in [phase : {"idle", "sent", "logged"}, frame : Frame]
    BY DEF Idle, NoFrame, Frame
  <2>2. DOMAIN streams' = {}
    BY <1>31 DEF Crash, Down
  <2>3. client' \in [Clients -> [phase : {"idle", "sent", "logged"}, frame : Frame]]
    BY <1>31, <2>1 DEF Crash, Down
  <2>4. /\ mem' = {} /\ tombs' = {} /\ parts' = {} /\ nextPart' = 1 /\ seq' = seq
        /\ pc' = "idle" /\ caller' = "Flush" /\ mode' = "cascade" /\ step' = 0
        /\ snap' = {} /\ inputs' = {} /\ outs' = {}
        /\ UNCHANGED <<diskVars, ghostVars>>
    BY <1>31 DEF Crash, Down, Return
  <2>5. up' \in BOOLEAN
    BY <1>31 DEF Crash, Down
  <2>6. DOMAIN streams' \subseteq Readers /\ \A r \in DOMAIN streams' : streams'[r] \subseteq PartIds
    BY <2>2
  <2> QED
    BY <2>3, <2>4, <2>5, <2>6 DEF TypeOK
<1>32. CASE \E forced \in BOOLEAN : Close(forced)
  <2>1. Idle \in [phase : {"idle", "sent", "logged"}, frame : Frame]
    BY DEF Idle, NoFrame, Frame
  <2>2. DOMAIN streams' = {}
    BY <1>32 DEF Close, Down
  <2>3. client' \in [Clients -> [phase : {"idle", "sent", "logged"}, frame : Frame]]
    BY <1>32, <2>1 DEF Close, Down
  <2>4. /\ mem' = {} /\ tombs' = {} /\ parts' = {} /\ nextPart' = 1 /\ seq' = seq
        /\ pc' = "idle" /\ caller' = "Flush" /\ mode' = "cascade" /\ step' = 0
        /\ snap' = {} /\ inputs' = {} /\ outs' = {}
        /\ UNCHANGED <<diskVars, ghostVars>>
    BY <1>32 DEF Close, Down, Return
  <2>5. up' \in BOOLEAN
    BY <1>32 DEF Close, Down
  <2>6. DOMAIN streams' \subseteq Readers /\ \A r \in DOMAIN streams' : streams'[r] \subseteq PartIds
    BY <2>2
  <2> QED
    BY <2>3, <2>4, <2>5, <2>6 DEF TypeOK
<1>33. CASE OpenShard
  <2>1. WalPoints \subseteq Sample /\ WalTombs \subseteq Tomb
    BY StoredType
  <2>2. DOMAIN dirs' \subseteq DOMAIN dirs /\ dirs' \in [DOMAIN dirs' -> Part]
    BY <1>33 DEF OpenShard, RemoveParts, TypeOK
  <2>3. nextPart' \in PartIds /\ seq' \in Nat
    BY <1>33 DEF OpenShard, ShardAssumption, TypeOK
  <2> QED
    BY <1>33, <2>1, <2>2, <2>3 DEF TypeOK, OpenShard
<1>34. CASE UNCHANGED vars
  BY <1>34 DEF TypeOK, vars
<1> QED
  BY <1>1, <1>2, <1>3, <1>4, <1>5, <1>6, <1>7, <1>8, <1>9, <1>10, <1>11, <1>12,
     <1>13, <1>14, <1>15, <1>16, <1>17, <1>18, <1>19, <1>20, <1>21, <1>22, <1>23, <1>24,
     <1>25, <1>26, <1>27, <1>28, <1>29, <1>30, <1>31, <1>32, <1>33, <1>34
  DEF Next, Calm, Mishap, OpStep, FlushStep, CompactStep

\* Every step keeps the directories the manifest and the open shard need.
LEMMA FilesStep ==
    ASSUME Inv, ConstInv, [Next]_vars
    PROVE  FilesInv'
<1> USE DEF diskVars, engineVars, opVars, ghostVars, PartIds
<1> TypeOK /\ FilesInv
  BY DEF Inv
<1>1. CASE \E c \in Clients : AssignWriteSeq(c)
  BY <1>1 DEF FilesInv, AssignWriteSeq
<1>2. CASE \E c \in Clients : AssignDeleteSeq(c)
  BY <1>2 DEF FilesInv, AssignDeleteSeq
<1>3. CASE \E c \in Clients : LogFrame(c)
  BY <1>3 DEF FilesInv, LogFrame
<1>4. CASE \E c \in Clients : LogFrameFails(c)
  BY <1>4 DEF FilesInv, LogFrameFails
<1>5. CASE \E c \in Clients : ApplyFrame(c)
  BY <1>5 DEF FilesInv, ApplyFrame
<1>6. CASE \E c \in Clients : ApplyFrameFails(c)
  BY <1>6 DEF FilesInv, ApplyFrameFails
<1>7. CASE \E r \in Readers : ScanColumns(r)
  BY <1>7 DEF FilesInv, ScanColumns, CanLock
<1>8. CASE \E r \in Readers : CloseStream(r)
  BY <1>8 DEF FilesInv, CloseStream
<1>9. CASE \E who \in {"Flush", "Compact"} : BeginFlush(who)
  BY <1>9 DEF FilesInv, BeginFlush, CanLock
<1>10. CASE WriteFlushPart
  <2>1. DOMAIN dirs' = DOMAIN dirs \cup {nextPart} /\ nextPart \notin parts
    BY <1>10 DEF WriteFlushPart, WriteParts, FilesInv, TypeOK
  <2> QED
    BY <1>10, <2>1 DEF WriteFlushPart, FilesInv, TypeOK
<1>11. CASE WriteFlushPartFails
  <2>1. DOMAIN dirs \subseteq DOMAIN dirs' /\ nextPart' \in {nextPart, nextPart + 1}
    BY <1>11 DEF WriteFlushPartFails, PartWriteFails, WriteParts
  <2> QED
    BY <1>11, <2>1 DEF WriteFlushPartFails, Return, FilesInv, TypeOK
<1>12. CASE CommitFlush
  BY <1>12 DEF FilesInv, CommitFlush
<1>13. CASE CommitFlushFails
  BY <1>13 DEF FilesInv, CommitFlushFails, Return, RemoveParts, ConstInv
<1>14. CASE CheckpointRemoves
  BY <1>14 DEF FilesInv, CheckpointRemoves
<1>15. CASE FlushCheckpointed
  BY <1>15 DEF FilesInv, FlushCheckpointed, Goto
<1>16. CASE CheckpointFails
  BY <1>16 DEF FilesInv, CheckpointFails, Return
<1>17. CASE AfterFlush
  BY <1>17 DEF FilesInv, AfterFlush, Return, Goto
<1>18. CASE PlanCascade
  BY <1>18 DEF FilesInv, PlanCascade, PartsAt
<1>19. CASE EndCascade
  BY <1>19 DEF FilesInv, EndCascade, Return, Goto
<1>20. CASE PlanFull
  BY <1>20 DEF FilesInv, PlanFull, Return
<1>21. CASE WriteOutputs
  <2>1. CASE UNCHANGED <<dirs, nextPart>> /\ outs' = {}
    BY <1>21, <2>1 DEF WriteOutputs, FilesInv
  <2>2. CASE ~(UNCHANGED <<dirs, nextPart>> /\ outs' = {})
    <3>1. PICK content : WriteParts(outs', content)
      BY <1>21, <2>2 DEF WriteOutputs
    <3>2. \/ outs' = {nextPart} /\ nextPart' = nextPart + 1
          \/ outs' = {nextPart, nextPart + 1} /\ nextPart' = nextPart + 2
      BY <1>21, <2>2 DEF WriteOutputs
    <3>3. DOMAIN dirs' = DOMAIN dirs \cup outs'
      BY <3>1 DEF WriteParts
    <3>4. outs' \cap parts = {} /\ \A p \in parts \cup outs' : p < nextPart'
      <4>1. nextPart \in Nat /\ \A p \in parts : p \in Nat /\ p < nextPart
        BY DEF FilesInv, TypeOK, PartIds
      <4> QED
        BY <3>2, <4>1
    <3> QED
      BY <1>21, <3>3, <3>4 DEF WriteOutputs, FilesInv
  <2> QED
    BY <2>1, <2>2
<1>22. CASE WriteOutputsFails
  <2>1. DOMAIN dirs \subseteq DOMAIN dirs' /\ nextPart' \in {nextPart, nextPart + 1}
    BY <1>22 DEF WriteOutputsFails, PartWriteFails, WriteParts
  <2> QED
    BY <1>22, <2>1 DEF WriteOutputsFails, Return, FilesInv, TypeOK
<1>23. CASE CommitCompaction
  BY <1>23 DEF FilesInv, CommitCompaction
<1>24. CASE CommitCompactionFails
  BY <1>24 DEF FilesInv, CommitCompactionFails, Return, RemoveParts, ConstInv
<1>25. CASE CloseInputs
  BY <1>25 DEF FilesInv, CloseInputs, Goto
<1>26. CASE CloseInputsFails
  BY <1>26 DEF FilesInv, CloseInputsFails, Return
<1>27. CASE RemoveInput
  BY <1>27 DEF FilesInv, RemoveInput, RemoveParts
<1>28. CASE DropTombstones
  BY <1>28 DEF FilesInv, DropTombstones
<1>29. CASE CompactionCheckpointed
  BY <1>29 DEF FilesInv, CompactionCheckpointed, Goto
<1>30. CASE EndCompaction
  BY <1>30 DEF FilesInv, EndCompaction, Return, Goto
<1>31. CASE Crash
  BY <1>31 DEF FilesInv, Crash, Down, Return
<1>32. CASE \E forced \in BOOLEAN : Close(forced)
  BY <1>32 DEF FilesInv, Close, Down, Return
<1>33. CASE OpenShard
  BY <1>33 DEF FilesInv, OpenShard, RemoveParts
<1>34. CASE UNCHANGED vars
  BY <1>34 DEF FilesInv, vars
<1> QED
  BY <1>1, <1>2, <1>3, <1>4, <1>5, <1>6, <1>7, <1>8, <1>9, <1>10, <1>11, <1>12,
     <1>13, <1>14, <1>15, <1>16, <1>17, <1>18, <1>19, <1>20, <1>21, <1>22, <1>23, <1>24,
     <1>25, <1>26, <1>27, <1>28, <1>29, <1>30, <1>31, <1>32, <1>33, <1>34
  DEF Next, Calm, Mishap, OpStep, FlushStep, CompactStep

\* Every step keeps what is only in memory in the log.
LEMMA MemStep ==
    ASSUME Inv, [Next]_vars
    PROVE  MemInv'
<1> USE DEF diskVars, engineVars, opVars, ghostVars, InFlight, Logged
<1> TypeOK /\ FilesInv /\ MemInv
  BY DEF Inv
<1>w. wal' = wal => WalPoints' = WalPoints /\ WalTombs' = WalTombs
  BY DEF WalPoints, WalTombs
<1>1. CASE \E c \in Clients : AssignWriteSeq(c)
  <2>1. PICK c \in Clients : AssignWriteSeq(c)
    BY <1>1
  <2>2. \A d \in Clients \ {c} : client'[d] = client[d]
    BY <2>1 DEF AssignWriteSeq, TypeOK
  <2>3. client'[c].phase = "sent" /\ up /\ WalPoints' = WalPoints /\ WalTombs' = WalTombs
    <3>1. client'[c].phase = "sent"
      BY <2>1 DEF TypeOK, AssignWriteSeq
    <3>2. up /\ wal' = wal
      BY <2>1 DEF AssignWriteSeq
    <3> QED
      BY <3>1, <3>2, <1>w
  <2>4. \A d \in Clients :
          /\ ~up' => client'[d] = Idle
          /\ client'[d].phase = "logged" => /\ pc' = "idle"
                                            /\ client'[d].frame.points \subseteq WalPoints'
                                            /\ client'[d].frame.tombs \subseteq WalTombs'
          /\ client'[d].phase = "idle" => client'[d] = Idle
    <3>1. up' = up /\ pc' = pc /\ Idle.phase = "idle"
      BY <2>1 DEF AssignWriteSeq, Idle
    <3> QED
      BY <2>2, <2>3, <3>1 DEF MemInv
  <2> QED
    BY <2>1, <2>3, <2>4 DEF MemInv, AssignWriteSeq
<1>2. CASE \E c \in Clients : AssignDeleteSeq(c)
  <2>1. PICK c \in Clients : AssignDeleteSeq(c)
    BY <1>2
  <2>2. \A d \in Clients \ {c} : client'[d] = client[d]
    BY <2>1 DEF AssignDeleteSeq, TypeOK
  <2>3. client'[c].phase = "sent" /\ up /\ WalPoints' = WalPoints /\ WalTombs' = WalTombs
    <3>1. client'[c].phase = "sent"
      BY <2>1 DEF TypeOK, AssignDeleteSeq
    <3>2. up /\ wal' = wal
      BY <2>1 DEF AssignDeleteSeq
    <3> QED
      BY <3>1, <3>2, <1>w
  <2>4. \A d \in Clients :
          /\ ~up' => client'[d] = Idle
          /\ client'[d].phase = "logged" => /\ pc' = "idle"
                                            /\ client'[d].frame.points \subseteq WalPoints'
                                            /\ client'[d].frame.tombs \subseteq WalTombs'
          /\ client'[d].phase = "idle" => client'[d] = Idle
    <3>1. up' = up /\ pc' = pc /\ Idle.phase = "idle"
      BY <2>1 DEF AssignDeleteSeq, Idle
    <3> QED
      BY <2>2, <2>3, <3>1 DEF MemInv
  <2> QED
    BY <2>1, <2>3, <2>4 DEF MemInv, AssignDeleteSeq
<1>3. CASE \E c \in Clients : LogFrame(c)
  <2>1. PICK c \in Clients : LogFrame(c)
    BY <1>3
  <2>2. \A d \in Clients \ {c} : client'[d] = client[d]
    BY <2>1 DEF LogFrame, TypeOK
  <2>3. /\ client'[c].phase = "logged" /\ client'[c].frame = client[c].frame
        /\ WalPoints' = WalPoints \cup client[c].frame.points
        /\ WalTombs' = WalTombs \cup client[c].frame.tombs
        /\ up /\ pc = "idle"
    <3>1. client[c].frame \in Frame
      BY DEF TypeOK
    <3>2. /\ WalPoints' = WalPoints \cup client[c].frame.points
          /\ WalTombs' = WalTombs \cup client[c].frame.tombs
      BY <2>1, <3>1, WalAppend DEF LogFrame, TypeOK
    <3> QED
      BY <2>1, <3>2 DEF TypeOK, CanLock, CanRLock, Exclusive, LogFrame
  <2>4. \A d \in Clients :
          /\ ~up' => client'[d] = Idle
          /\ client'[d].phase = "logged" => /\ pc' = "idle"
                                            /\ client'[d].frame.points \subseteq WalPoints'
                                            /\ client'[d].frame.tombs \subseteq WalTombs'
          /\ client'[d].phase = "idle" => client'[d] = Idle
    <3>1. up' = up /\ pc' = pc /\ Idle.phase = "idle"
      BY <2>1 DEF LogFrame, Idle
    <3> QED
      BY <2>2, <2>3, <3>1 DEF MemInv
  <2> QED
    BY <2>1, <2>3, <2>4 DEF MemInv, LogFrame
<1>4. CASE \E c \in Clients : LogFrameFails(c)
  <2>1. PICK c \in Clients : LogFrameFails(c)
    BY <1>4
  <2>2. \A d \in Clients \ {c} : client'[d] = client[d]
    BY <2>1 DEF LogFrameFails, TypeOK
  <2>3. /\ client'[c] = Idle /\ up /\ pc = "idle"
        /\ WalPoints \subseteq WalPoints' /\ WalTombs \subseteq WalTombs'
    <3>1. client[c].frame \in Frame
      BY DEF TypeOK
    <3>2. WalPoints \subseteq WalPoints' /\ WalTombs \subseteq WalTombs'
      BY <2>1, <3>1, <1>w, WalAppend DEF LogFrameFails, TypeOK
    <3> QED
      BY <2>1, <3>2 DEF TypeOK, CanLock, CanRLock, Exclusive, LogFrameFails
  <2>4. \A d \in Clients :
          /\ ~up' => client'[d] = Idle
          /\ client'[d].phase = "logged" => /\ pc' = "idle"
                                            /\ client'[d].frame.points \subseteq WalPoints'
                                            /\ client'[d].frame.tombs \subseteq WalTombs'
          /\ client'[d].phase = "idle" => client'[d] = Idle
    <3>1. up' = up /\ pc' = pc /\ Idle.phase = "idle"
      BY <2>1 DEF LogFrameFails, Idle
    <3> QED
      BY <2>2, <2>3, <3>1 DEF MemInv
  <2> QED
    BY <2>1, <2>3, <2>4 DEF MemInv, LogFrameFails
<1>5. CASE \E c \in Clients : ApplyFrame(c)
  <2>1. PICK c \in Clients : ApplyFrame(c)
    BY <1>5
  <2>2. \A d \in Clients \ {c} : client'[d] = client[d]
    BY <2>1 DEF ApplyFrame, TypeOK
  <2>3. /\ client'[c] = Idle /\ up /\ WalPoints' = WalPoints /\ WalTombs' = WalTombs
        /\ client[c].frame.points \subseteq WalPoints /\ pc = "idle"
    <3>1. client'[c] = Idle
      BY <2>1 DEF TypeOK, ApplyFrame
    <3>2. wal' = wal /\ Logged(c)
      BY <2>1 DEF ApplyFrame
    <3>3. client[c].frame.points \subseteq WalPoints /\ pc = "idle"
      BY <3>2 DEF MemInv
    <3>4. client[c] # Idle
      BY <3>2 DEF Idle
    <3>5. up
      BY <3>4 DEF MemInv
    <3> QED
      BY <3>1, <3>2, <3>3, <3>5, <1>w
  <2>4. \A d \in Clients :
          /\ ~up' => client'[d] = Idle
          /\ client'[d].phase = "logged" => /\ pc' = "idle"
                                            /\ client'[d].frame.points \subseteq WalPoints'
                                            /\ client'[d].frame.tombs \subseteq WalTombs'
          /\ client'[d].phase = "idle" => client'[d] = Idle
    <3>1. up' = up /\ pc' = pc /\ Idle.phase = "idle"
      BY <2>1 DEF ApplyFrame, Idle
    <3> QED
      BY <2>2, <2>3, <3>1 DEF MemInv
  <2> QED
    BY <2>1, <2>3, <2>4 DEF MemInv, ApplyFrame
<1>6. CASE \E c \in Clients : ApplyFrameFails(c)
  <2>1. PICK c \in Clients : ApplyFrameFails(c)
    BY <1>6
  <2>2. \A d \in Clients \ {c} : client'[d] = client[d]
    BY <2>1 DEF ApplyFrameFails, TypeOK
  <2>3. /\ client'[c] = Idle /\ up /\ WalPoints' = WalPoints /\ WalTombs' = WalTombs
        /\ client[c].frame.points \subseteq WalPoints /\ pc = "idle"
    <3>1. client'[c] = Idle
      BY <2>1 DEF TypeOK, ApplyFrameFails
    <3>2. wal' = wal /\ Logged(c)
      BY <2>1 DEF ApplyFrameFails
    <3>3. client[c].frame.points \subseteq WalPoints /\ pc = "idle"
      BY <3>2 DEF MemInv
    <3>4. client[c] # Idle
      BY <3>2 DEF Idle
    <3>5. up
      BY <3>4 DEF MemInv
    <3> QED
      BY <3>1, <3>2, <3>3, <3>5, <1>w
  <2>4. \A d \in Clients :
          /\ ~up' => client'[d] = Idle
          /\ client'[d].phase = "logged" => /\ pc' = "idle"
                                            /\ client'[d].frame.points \subseteq WalPoints'
                                            /\ client'[d].frame.tombs \subseteq WalTombs'
          /\ client'[d].phase = "idle" => client'[d] = Idle
    <3>1. up' = up /\ pc' = pc /\ Idle.phase = "idle"
      BY <2>1 DEF ApplyFrameFails, Idle
    <3> QED
      BY <2>2, <2>3, <3>1 DEF MemInv
  <2> QED
    BY <2>1, <2>3, <2>4 DEF MemInv, ApplyFrameFails
<1>7. CASE \E r \in Readers : ScanColumns(r)
  <2>1. UNCHANGED <<wal, up, mem, snap, tombs, pc, client>>
    BY <1>7 DEF ScanColumns
  <2> QED
    BY <2>1, <1>w DEF MemInv
<1>8. CASE \E r \in Readers : CloseStream(r)
  <2>1. UNCHANGED <<wal, up, mem, snap, tombs, pc, client>>
    BY <1>8 DEF CloseStream
  <2> QED
    BY <2>1, <1>w DEF MemInv
<1>9. CASE \E who \in {"Flush", "Compact"} : BeginFlush(who)
  BY <1>9, <1>w DEF MemInv, BeginFlush, CanLock
<1>10. CASE WriteFlushPart
  <2>1. UNCHANGED <<wal, up, mem, snap, tombs, client>> /\ pc = "writePart" /\ pc' = "flushManifest"
    BY <1>10 DEF WriteFlushPart
  <2> QED
    BY <2>1, <1>w DEF MemInv
<1>11. CASE WriteFlushPartFails
  BY <1>11, <1>w DEF MemInv, WriteFlushPartFails, Return, PartWriteFails, WriteParts
<1>12. CASE CommitFlush
  BY <1>12, <1>w DEF MemInv, CommitFlush
<1>13. CASE CommitFlushFails
  BY <1>13, <1>w DEF MemInv, CommitFlushFails, Return, RemoveParts
<1>14. CASE CheckpointRemoves
  BY <1>14, <1>w DEF MemInv, CheckpointRemoves
<1>15. CASE FlushCheckpointed
  BY <1>15, <1>w DEF MemInv, FlushCheckpointed, Goto
<1>16. CASE CheckpointFails
  BY <1>16, <1>w DEF MemInv, CheckpointFails, Return
<1>17. CASE AfterFlush
  BY <1>17, <1>w DEF MemInv, AfterFlush, Return, Goto
<1>18. CASE PlanCascade
  BY <1>18, <1>w DEF MemInv, PlanCascade
<1>19. CASE EndCascade
  BY <1>19, <1>w DEF MemInv, EndCascade, Return, Goto
<1>20. CASE PlanFull
  BY <1>20, <1>w DEF MemInv, PlanFull, Return
<1>21. CASE WriteOutputs
  <2>1. UNCHANGED <<wal, up, mem, snap, tombs, client>> /\ pc = "compactWrite" /\ pc' = "compactManifest"
    BY <1>21 DEF WriteOutputs
  <2> QED
    BY <2>1, <1>w DEF MemInv
<1>22. CASE WriteOutputsFails
  BY <1>22, <1>w DEF MemInv, WriteOutputsFails, Return, PartWriteFails, WriteParts
<1>23. CASE CommitCompaction
  BY <1>23, <1>w DEF MemInv, CommitCompaction
<1>24. CASE CommitCompactionFails
  BY <1>24, <1>w DEF MemInv, CommitCompactionFails, Return, RemoveParts
<1>25. CASE CloseInputs
  BY <1>25, <1>w DEF MemInv, CloseInputs, Goto
<1>26. CASE CloseInputsFails
  BY <1>26, <1>w DEF MemInv, CloseInputsFails, Return
<1>27. CASE RemoveInput
  BY <1>27, <1>w DEF MemInv, RemoveInput, RemoveParts
<1>28. CASE DropTombstones
  BY <1>28, <1>w DEF MemInv, DropTombstones
<1>29. CASE CompactionCheckpointed
  BY <1>29, <1>w DEF MemInv, CompactionCheckpointed, Goto
<1>30. CASE EndCompaction
  BY <1>30, <1>w DEF MemInv, EndCompaction, Return, Goto
<1>31. CASE Crash
  <2>1. /\ wal' = wal /\ mem' = {} /\ snap' = {} /\ tombs' = {} /\ pc' = "idle"
        /\ \A c \in Clients : client'[c] = Idle
    BY <1>31 DEF Crash, Down, Return
  <2>2. Idle.phase = "idle"
    BY DEF Idle
  <2> QED
    BY <2>1, <2>2, <1>w DEF MemInv
<1>32. CASE \E forced \in BOOLEAN : Close(forced)
  <2>1. /\ wal' = wal /\ mem' = {} /\ snap' = {} /\ tombs' = {} /\ pc' = "idle"
        /\ \A c \in Clients : client'[c] = Idle
    BY <1>32 DEF Close, Down, Return
  <2>2. Idle.phase = "idle"
    BY DEF Idle
  <2> QED
    BY <2>1, <2>2, <1>w DEF MemInv
<1>33. CASE OpenShard
  BY <1>33, <1>w DEF MemInv, OpenShard, RemoveParts, FilesInv, Idle
<1>34. CASE UNCHANGED vars
  BY <1>34, <1>w DEF MemInv, vars
<1> QED
  BY <1>1, <1>2, <1>3, <1>4, <1>5, <1>6, <1>7, <1>8, <1>9, <1>10, <1>11, <1>12,
     <1>13, <1>14, <1>15, <1>16, <1>17, <1>18, <1>19, <1>20, <1>21, <1>22, <1>23, <1>24,
     <1>25, <1>26, <1>27, <1>28, <1>29, <1>30, <1>31, <1>32, <1>33, <1>34
  DEF Next, Calm, Mishap, OpStep, FlushStep, CompactStep
=============================================================================
