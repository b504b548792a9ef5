---------------------------- MODULE ShardProofs ----------------------------
(***************************************************************************)
(* For every set of keys, clients and readers, every bound and every choice *)
(* of failing calls except a directory sync that fails after the manifest's *)
(* rename, and with every delete carrying a sequence number: the manifest   *)
(* stays loadable and no applied write is lost, neither by a query of the   *)
(* open shard nor by stopping the process at any point.                     *)
(***************************************************************************)
EXTENDS ShardInvariant

-----------------------------------------------------------------------------
(* Samples, numbers and tombstones. *)

\* No step changes or removes a part that the manifest or s.parts lists.
LEMMA DirsFrame ==
    ASSUME Inv, [Next]_vars
    PROVE  \A p \in manifest \cup parts : p \in DOMAIN dirs' /\ dirs'[p] = dirs[p]
<1> USE DEF diskVars, engineVars
<1>1. TypeOK /\ FilesInv
  BY DEF Inv
<1> DEFINE Same == dirs' = dirs
           Removes(S) == dirs' = [p \in DOMAIN dirs \ S |-> dirs[p]]
           Writes(P) == /\ DOMAIN dirs' = DOMAIN dirs \cup P
                        /\ \A p \in DOMAIN dirs \ P : dirs'[p] = dirs[p]
<1>2. CASE Same
  BY <1>1, <1>2 DEF FilesInv
<1>3. ASSUME NEW S, S \cap (manifest \cup parts) = {}, Removes(S)
      PROVE  \A p \in manifest \cup parts : p \in DOMAIN dirs' /\ dirs'[p] = dirs[p]
  BY <1>1, <1>3 DEF FilesInv
<1>4. ASSUME NEW P, up, \A p \in P : p >= nextPart, Writes(P)
      PROVE  \A p \in manifest \cup parts : p \in DOMAIN dirs' /\ dirs'[p] = dirs[p]
  <2>1. \A p \in manifest \cup parts : p \in DOMAIN dirs /\ p \notin P
    BY <1>1, <1>4 DEF FilesInv, TypeOK, PartIds
  <2> QED
    BY <1>4, <2>1
<1>5. CASE WriteFlushPart
  <2>1. Writes({nextPart}) /\ up
    BY <1>1, <1>5 DEF WriteFlushPart, WriteParts, FilesInv
  <2>2. \A p \in {nextPart} : p >= nextPart
    BY <1>1 DEF TypeOK, PartIds
  <2> HIDE DEF Writes
  <2> QED
    BY <2>1, <2>2, <1>4
<1>6. CASE PartWriteFails /\ pc # "idle"
  <2>1. CASE Same
    BY <2>1, <1>2
  <2>2. CASE ~Same
    <3>1. Writes({nextPart}) /\ up
      BY <1>1, <1>6, <2>2 DEF PartWriteFails, WriteParts, FilesInv
    <3>2. \A p \in {nextPart} : p >= nextPart
      BY <1>1 DEF TypeOK, PartIds
    <3> HIDE DEF Writes
    <3> QED
      BY <3>1, <3>2, <1>4
  <2> QED
    BY <2>1, <2>2
<1>7. CASE CommitFlushFails \/ CommitCompactionFails
  <2>1. outs \cap (manifest \cup parts) = {}
    BY <1>1, <1>7 DEF CommitFlushFails, CommitCompactionFails, FilesInv
  <2>2. PICK left \in SUBSET outs : Removes(outs \ left)
    BY <1>7 DEF CommitFlushFails, CommitCompactionFails, RemoveParts
  <2>3. (outs \ left) \cap (manifest \cup parts) = {}
    BY <2>1
  <2> HIDE DEF Removes
  <2> QED
    BY <2>2, <2>3, <1>3
<1>8. CASE WriteOutputs
  <2>1. CASE Same
    BY <2>1, <1>2
  <2>2. CASE ~Same
    <3>1. PICK content : WriteParts(outs', content)
      BY <1>8, <2>2 DEF WriteOutputs
    <3>2. \A p \in outs' : p >= nextPart
      <4>1. outs' \subseteq {nextPart, nextPart + 1}
        BY <1>8 DEF WriteOutputs
      <4>2. nextPart \in Nat
        BY <1>1 DEF TypeOK, PartIds
      <4> QED
        BY <4>1, <4>2
    <3>3. Writes(outs') /\ up
      BY <1>1, <1>8, <3>1 DEF WriteOutputs, WriteParts, FilesInv
    <3> QED
      BY <3>2, <3>3, <1>4
  <2> QED
    BY <2>1, <2>2
<1>9. CASE RemoveInput
  <2>1. PICK p \in inputs : RemoveParts({p})
    BY <1>9 DEF RemoveInput
  <2>2. {p} \cap (manifest \cup parts) = {}
    BY <1>1, <1>9 DEF RemoveInput, FilesInv
  <2>3. PICK left \in SUBSET {p} : Removes({p} \ left)
    BY <2>1 DEF RemoveParts
  <2>4. ({p} \ left) \cap (manifest \cup parts) = {}
    BY <2>2
  <2> HIDE DEF Removes
  <2> QED
    BY <2>3, <2>4, <1>3
<1>10. CASE OpenShard
  <2>1. PICK left \in SUBSET (DOMAIN dirs \ manifest) : Removes((DOMAIN dirs \ manifest) \ left)
    BY <1>10 DEF OpenShard, RemoveParts
  <2>2. ((DOMAIN dirs \ manifest) \ left) \cap (manifest \cup parts) = {}
    BY <1>1, <1>10 DEF OpenShard, FilesInv
  <2> HIDE DEF Removes
  <2> QED
    BY <2>1, <2>2, <1>3
<1>11. \/ Same \/ WriteFlushPart \/ (PartWriteFails /\ pc # "idle")
       \/ CommitFlushFails \/ CommitCompactionFails \/ WriteOutputs \/ RemoveInput \/ OpenShard
  BY DEF Next, Calm, Mishap, OpStep, FlushStep, CompactStep, vars,
     AssignWriteSeq, AssignDeleteSeq, LogFrame, LogFrameFails, ApplyFrame, ApplyFrameFails,
     ScanColumns, CloseStream, BeginFlush, WriteFlushPartFails, CommitFlush, CheckpointRemoves,
     FlushCheckpointed, CheckpointFails, AfterFlush, PlanCascade, EndCascade, PlanFull,
     WriteOutputsFails, CommitCompaction, CloseInputs, CloseInputsFails, DropTombstones,
     CompactionCheckpointed, EndCompaction, Crash, Close
<1> QED
  BY <1>2, <1>5, <1>6, <1>7, <1>8, <1>9, <1>10, <1>11

\* So the samples of listed parts stay what they are.
LEMMA SamplesFrame ==
    ASSUME Inv, [Next]_vars
    PROVE  /\ manifest' = manifest => SamplesOf(manifest)' = SamplesOf(manifest)
           /\ parts' = parts => SamplesOf(parts)' = SamplesOf(parts)
           /\ up' /\ ~up => parts' = manifest /\ SamplesOf(parts)' = SamplesOf(manifest)
<1>1. manifest \subseteq DOMAIN dirs /\ parts \subseteq DOMAIN dirs
  BY DEF Inv, FilesInv
<1>2. \A p \in manifest \cup parts : p \in DOMAIN dirs' /\ dirs'[p] = dirs[p]
  BY DirsFrame
<1> DEFINE Now(P)  == UNION {dirs[p].samples : p \in P \cap DOMAIN dirs}
           Then(P) == UNION {dirs'[p].samples : p \in P \cap DOMAIN dirs'}
<1>3. Now(manifest) = Then(manifest) /\ Now(parts) = Then(parts)
  BY <1>1, <1>2
<1> HIDE DEF Now, Then
<1>4. SamplesOf(manifest)' = Then(manifest') /\ SamplesOf(parts)' = Then(parts')
  BY DEF SamplesOf, Then
<1>5. SamplesOf(manifest) = Now(manifest) /\ SamplesOf(parts) = Now(parts)
  BY DEF SamplesOf, Now
<1>6. ASSUME up', ~up
      PROVE  parts' = manifest
  BY <1>6 DEF Next, Calm, Mishap, OpStep, FlushStep, CompactStep, vars, Inv, FilesInv, MemInv,
     diskVars, engineVars, Logged, Idle, CanLock, Down,
     AssignWriteSeq, AssignDeleteSeq, LogFrame, LogFrameFails, ApplyFrame, ApplyFrameFails,
     ScanColumns, CloseStream, BeginFlush, WriteFlushPart, WriteFlushPartFails, CommitFlush,
     CommitFlushFails, CheckpointRemoves,
     FlushCheckpointed, CheckpointFails, AfterFlush, PlanCascade, EndCascade, PlanFull,
     WriteOutputs, WriteOutputsFails, CommitCompaction, CommitCompactionFails, CloseInputs,
     CloseInputsFails, RemoveInput, DropTombstones,
     CompactionCheckpointed, EndCompaction, Crash, Close, OpenShard
<1> QED
  BY <1>3, <1>4, <1>5, <1>6

\* Every step keeps what the parts being committed hold.
LEMMA OutsStep ==
    ASSUME Inv, [Next]_vars
    PROVE  OutsInv'
<1> USE DEF diskVars, engineVars, opVars, ghostVars
<1> TypeOK /\ FilesInv /\ OutsInv /\ MemInv
  BY DEF Inv
<1>s. UNCHANGED <<dirs, pc, snap, inputs, outs, tombs>> => OutsInv'
  BY DEF OutsInv, SamplesOf, Newest, Undeleted, Covers
<1>1. CASE WriteFlushPart
  <2>1. outs' = {nextPart} /\ snap' = snap /\ pc' = "flushManifest"
    BY <1>1 DEF WriteFlushPart
  <2>2. nextPart \in DOMAIN dirs' /\ dirs'[nextPart].samples = Newest(snap)
    BY <1>1 DEF WriteFlushPart, WriteParts
  <2>3. SamplesOf(outs)' = Newest(snap)
    BY <2>1, <2>2 DEF SamplesOf
  <2>4. Newest(snap)' = Newest(snap)
    BY <2>1 DEF Newest
  <2> QED
    BY <2>1, <2>3, <2>4 DEF OutsInv
<1>2. CASE WriteOutputs
  <2> DEFINE rows == Undeleted(Newest(SamplesOf(inputs)), tombs)
  <2>1. inputs' = inputs /\ tombs' = tombs /\ pc' = "compactManifest"
    BY <1>2 DEF WriteOutputs
  <2>2. SamplesOf(outs)' = rows
    <3>1. CASE rows = {} /\ outs' = {}
      BY <3>1 DEF SamplesOf
    <3>2. CASE ~(rows = {} /\ outs' = {})
      <4> HIDE DEF rows
      <4>1. PICK first \in SUBSET rows \ {{}}, top \in inputs :
              LET P == IF first = rows THEN {nextPart} ELSE {nextPart, nextPart + 1} IN
              /\ outs' = P
              /\ WriteParts(P, [p \in P |->
                   [level   |-> dirs[top].level + 1,
                    samples |-> IF p = nextPart THEN first ELSE rows \ first]])
        BY <1>2, <3>2 DEF WriteOutputs, rows
      <4>2. nextPart \in outs' /\ nextPart \in DOMAIN dirs' /\ dirs'[nextPart].samples = first
        BY <4>1 DEF WriteParts
      <4>3. CASE first = rows
        <5>1. outs' = {nextPart}
          BY <4>1, <4>3
        <5> QED
          BY <4>2, <4>3, <5>1 DEF SamplesOf
      <4>4. CASE first # rows
        <5>1. outs' = {nextPart, nextPart + 1} /\ nextPart + 1 # nextPart
          BY <4>1, <4>4 DEF TypeOK, PartIds
        <5>2. nextPart + 1 \in DOMAIN dirs' /\ dirs'[nextPart + 1].samples = rows \ first
          BY <4>1, <4>4, <5>1 DEF WriteParts
        <5> QED
          BY <4>1, <4>2, <5>1, <5>2 DEF SamplesOf
      <4> QED
        BY <4>3, <4>4
    <3> QED
      BY <3>1, <3>2
  <2>3. SamplesOf(inputs)' = SamplesOf(inputs)
    <3>1. inputs \subseteq parts /\ parts \subseteq DOMAIN dirs
      BY <1>2 DEF WriteOutputs, FilesInv
    <3>2. \A p \in inputs : p \in DOMAIN dirs' /\ dirs'[p] = dirs[p]
      BY <3>1, DirsFrame
    <3> QED
      BY <2>1, <3>1, <3>2 DEF SamplesOf
  <2>4. Undeleted(Newest(SamplesOf(inputs)), tombs)' = rows
    BY <2>1, <2>3 DEF Undeleted, Newest
  <2> QED
    BY <2>1, <2>2, <2>4 DEF OutsInv
<1>3. CASE UNCHANGED <<dirs, pc, snap, inputs, outs, tombs>> \/ pc' \notin {"flushManifest", "compactManifest"}
  BY <1>3, <1>s DEF OutsInv
<1> DEFINE Cases == \/ WriteFlushPart \/ WriteOutputs
                   \/ UNCHANGED <<dirs, pc, snap, inputs, outs, tombs>> \/ pc' \notin {"flushManifest", "compactManifest"}
<1>4. OpStep => Cases
  BY ZenonT(60) DEF OpStep, FlushStep, CompactStep, CommitFlush, CheckpointRemoves, FlushCheckpointed,
     AfterFlush, PlanCascade, EndCascade, PlanFull, CommitCompaction, CloseInputs, RemoveInput,
     DropTombstones, CompactionCheckpointed, EndCompaction, FilesInv, MemInv, Return, Goto,
     CanLock, CanRLock, Exclusive, Logged, Down
<1>5. Mishap => Cases
  BY ZenonT(60) DEF Mishap, LogFrameFails, ApplyFrameFails, WriteFlushPartFails, CommitFlushFails,
     CheckpointFails, WriteOutputsFails, CommitCompactionFails, CloseInputsFails, Crash, Close,
     FilesInv, MemInv, Return, Goto, CanLock, CanRLock, Exclusive, Logged, Down
<1>6. Calm => Cases
  BY <1>4, ZenonT(60) DEF Calm, AssignWriteSeq, AssignDeleteSeq, LogFrame, ApplyFrame, ScanColumns, CloseStream,
     BeginFlush, OpenShard, FilesInv, MemInv, Return, Goto, CanLock, CanRLock, Exclusive, Logged,
     Down
<1>7. UNCHANGED vars => Cases
  BY DEF vars
<1> QED
  BY <1>1, <1>2, <1>3, <1>5, <1>6, <1>7 DEF Next

\* Every step keeps the numbers in use at or below the engine's.
LEMMA SeqStep ==
    ASSUME ConstInv, Inv, [Next]_vars
    PROVE  SeqInv'
<1> USE DEF diskVars, engineVars, opVars, ghostVars, InFlight
<1> TypeOK /\ FilesInv /\ MemInv /\ OutsInv /\ SeqInv
  BY DEF Inv
<1>w. wal' = wal => WalPoints' = WalPoints /\ WalTombs' = WalTombs
  BY DEF WalPoints, WalTombs
<1>s. manifest' = manifest => SamplesOf(manifest)' = SamplesOf(manifest)
  BY SamplesFrame
<1>n. /\ seq \in Nat /\ WalPoints \subseteq Sample /\ WalTombs \subseteq Tomb
      /\ SamplesOf(manifest) \subseteq Sample /\ tombs \subseteq Tomb
      /\ \A c \in Clients : /\ client[c].frame \in Frame
                            /\ client[c].frame.points \subseteq Sample
                            /\ client[c].frame.tombs \subseteq Tomb
  BY StoredType DEF TypeOK, Frame
<1>u. UNCHANGED <<wal, manifest, seq, client>> /\ tombs' \subseteq tombs => SeqInv'
  BY <1>w, <1>s DEF SeqInv
<1>1. CASE \E c \in Clients : AssignWriteSeq(c)
  <2>1. PICK c \in Clients : AssignWriteSeq(c)
    BY <1>1
  <2>2. seq' = seq + 1 /\ tombs' = tombs /\ \A d \in Clients \ {c} : client'[d] = client[d]
    BY <2>1 DEF AssignWriteSeq, TypeOK
  <2>3. /\ client'[c].frame.tombs = {}
        /\ \A x \in client'[c].frame.points : x.seq <= seq'
    BY <2>1, <1>n DEF AssignWriteSeq, TypeOK
  <2>4. \A x \in WalPoints \cup SamplesOf(manifest) : x.seq <= seq + 1
    BY <1>n DEF SeqInv, Sample
  <2>5. \A t \in WalTombs \cup tombs : 0 < t.seq /\ t.seq <= seq + 1
    BY <1>n DEF SeqInv, Tomb
  <2>6. \A d \in Clients : /\ \A x \in client[d].frame.points : x.seq <= seq + 1
                           /\ \A t \in client[d].frame.tombs : 0 < t.seq /\ t.seq <= seq + 1
    BY <1>n DEF SeqInv, Sample, Tomb
  <2>7. UNCHANGED <<wal, manifest>>
    BY <2>1 DEF AssignWriteSeq
  <2> QED
    BY <2>2, <2>3, <2>4, <2>5, <2>6, <2>7, <1>w, <1>s DEF SeqInv
<1>2. CASE \E c \in Clients : AssignDeleteSeq(c)
  <2>1. PICK c \in Clients : AssignDeleteSeq(c)
    BY <1>2
  <2>2. seq' = seq + 1 /\ tombs' = tombs /\ \A d \in Clients \ {c} : client'[d] = client[d]
    BY <2>1 DEF AssignDeleteSeq, TypeOK, ConstInv
  <2>3. /\ client'[c].frame.points = {}
        /\ \A t \in client'[c].frame.tombs : 0 < t.seq /\ t.seq <= seq'
    BY <2>1, <1>n DEF AssignDeleteSeq, TypeOK, ConstInv
  <2>4. \A x \in WalPoints \cup SamplesOf(manifest) : x.seq <= seq + 1
    BY <1>n DEF SeqInv, Sample
  <2>5. \A t \in WalTombs \cup tombs : 0 < t.seq /\ t.seq <= seq + 1
    BY <1>n DEF SeqInv, Tomb
  <2>6. \A d \in Clients : /\ \A x \in client[d].frame.points : x.seq <= seq + 1
                           /\ \A t \in client[d].frame.tombs : 0 < t.seq /\ t.seq <= seq + 1
    BY <1>n DEF SeqInv, Sample, Tomb
  <2>7. UNCHANGED <<wal, manifest>>
    BY <2>1 DEF AssignDeleteSeq
  <2> QED
    BY <2>2, <2>3, <2>4, <2>5, <2>6, <2>7, <1>w, <1>s DEF SeqInv
<1>3. CASE \E c \in Clients : LogFrame(c)
  <2>1. PICK c \in Clients : LogFrame(c)
    BY <1>3
  <2>2. /\ WalPoints' \subseteq WalPoints \cup client[c].frame.points
        /\ WalTombs' \subseteq WalTombs \cup client[c].frame.tombs
    BY <2>1, <1>n, <1>w, WalAppend DEF LogFrame, TypeOK
  <2>3. seq' = seq /\ tombs' = tombs /\ manifest' = manifest
    BY <2>1 DEF LogFrame
  <2>4. \A d \in Clients : /\ client'[d].frame.points \subseteq client[d].frame.points
                           /\ client'[d].frame.tombs \subseteq client[d].frame.tombs
    BY <2>1 DEF LogFrame, TypeOK, Idle, NoFrame
  <2> QED
    BY <2>2, <2>3, <2>4, <1>s DEF SeqInv
<1>4. CASE \E c \in Clients : LogFrameFails(c)
  <2>1. PICK c \in Clients : LogFrameFails(c)
    BY <1>4
  <2>2. /\ WalPoints' \subseteq WalPoints \cup client[c].frame.points
        /\ WalTombs' \subseteq WalTombs \cup client[c].frame.tombs
    BY <2>1, <1>n, <1>w, WalAppend DEF LogFrameFails, TypeOK
  <2>3. seq' = seq /\ tombs' = tombs /\ manifest' = manifest
    BY <2>1 DEF LogFrameFails
  <2>4. \A d \in Clients : /\ client'[d].frame.points \subseteq client[d].frame.points
                           /\ client'[d].frame.tombs \subseteq client[d].frame.tombs
    BY <2>1 DEF LogFrameFails, TypeOK, Idle, NoFrame
  <2> QED
    BY <2>2, <2>3, <2>4, <1>s DEF SeqInv
<1>5. CASE \E c \in Clients : ApplyFrame(c)
  <2>1. PICK c \in Clients : ApplyFrame(c)
    BY <1>5
  <2>2. seq' = seq /\ tombs' \subseteq tombs \cup client[c].frame.tombs /\ UNCHANGED <<wal, manifest>>
    BY <2>1 DEF ApplyFrame
  <2>3. \A d \in Clients : /\ client'[d].frame.points \subseteq client[d].frame.points
                           /\ client'[d].frame.tombs \subseteq client[d].frame.tombs
    BY <2>1 DEF ApplyFrame, TypeOK, Idle, NoFrame
  <2> QED
    BY <2>2, <2>3, <1>w, <1>s DEF SeqInv
<1>6. CASE \E c \in Clients : ApplyFrameFails(c)
  <2>1. PICK c \in Clients : ApplyFrameFails(c)
    BY <1>6
  <2>2. seq' = seq /\ tombs' \subseteq tombs \cup client[c].frame.tombs /\ UNCHANGED <<wal, manifest>>
    BY <2>1 DEF ApplyFrameFails
  <2>3. \A d \in Clients : /\ client'[d].frame.points \subseteq client[d].frame.points
                           /\ client'[d].frame.tombs \subseteq client[d].frame.tombs
    BY <2>1 DEF ApplyFrameFails, TypeOK, Idle, NoFrame
  <2> QED
    BY <2>2, <2>3, <1>w, <1>s DEF SeqInv
<1>7. CASE CommitFlush
  <2>1. /\ manifest' = parts \cup outs /\ manifest = parts /\ dirs' = dirs
        /\ UNCHANGED <<wal, tombs, seq, client>>
    BY <1>7 DEF CommitFlush, FilesInv
  <2>2. SamplesOf(manifest)' \subseteq SamplesOf(manifest) \cup SamplesOf(outs)
    BY <2>1 DEF SamplesOf
  <2>3. SamplesOf(outs) \subseteq WalPoints
    BY <1>7, NewestSubset DEF CommitFlush, OutsInv, MemInv
  <2> QED
    BY <2>1, <2>2, <2>3, <1>w DEF SeqInv
<1>8. CASE CheckpointRemoves
  <2>1. WalPoints' \subseteq WalPoints /\ WalTombs' \subseteq WalTombs
    BY <1>8, WalSuffix DEF CheckpointRemoves, TypeOK
  <2> QED
    BY <1>8, <2>1, <1>s DEF SeqInv, CheckpointRemoves
<1>9. CASE CommitCompaction
  <2>1. /\ manifest' = (parts \ inputs) \cup outs /\ manifest = parts /\ dirs' = dirs
        /\ UNCHANGED <<wal, tombs, seq, client>>
    BY <1>9 DEF CommitCompaction, FilesInv
  <2>2. SamplesOf(manifest)' \subseteq SamplesOf(manifest) \cup SamplesOf(outs)
    BY <2>1 DEF SamplesOf
  <2>3. SamplesOf(outs) \subseteq SamplesOf(inputs)
    BY <1>9, NewestSubset DEF CommitCompaction, OutsInv, Undeleted
  <2>4. SamplesOf(inputs) \subseteq SamplesOf(manifest)
    BY <1>9, <2>1 DEF CommitCompaction, FilesInv, SamplesOf
  <2> QED
    BY <2>1, <2>2, <2>3, <2>4, <1>w DEF SeqInv
<1>10. CASE Crash
  <2>1. UNCHANGED <<wal, manifest, seq>> /\ tombs' = {} /\ \A c \in Clients : client'[c].frame = NoFrame
    BY <1>10 DEF Crash, Down, Idle
  <2> QED
    BY <2>1, <1>w, <1>s DEF SeqInv, NoFrame
<1>11. CASE \E forced \in BOOLEAN : Close(forced)
  <2>1. UNCHANGED <<wal, manifest, seq>> /\ tombs' = {} /\ \A c \in Clients : client'[c].frame = NoFrame
    BY <1>11 DEF Close, Down, Idle
  <2> QED
    BY <2>1, <1>w, <1>s DEF SeqInv, NoFrame
<1>12. CASE OpenShard
  <2>1. /\ UNCHANGED <<wal, manifest, client>> /\ tombs' = WalTombs
        /\ \A x \in SamplesOf(manifest) \cup WalPoints : x.seq <= seq'
        /\ \A t \in WalTombs : t.seq <= seq'
    BY <1>12 DEF OpenShard
  <2>2. \A c \in Clients : client[c].frame = NoFrame
    <3>1. ~up
      BY <1>12 DEF OpenShard
    <3>2. \A c \in Clients : client[c] = Idle
      BY <3>1 DEF MemInv
    <3> QED
      BY <3>2 DEF Idle
  <2> QED
    BY <2>1, <2>2, <1>w, <1>s DEF SeqInv, NoFrame
<1>13. CASE UNCHANGED <<wal, manifest, seq, client>> /\ tombs' \subseteq tombs
  BY <1>13, <1>u
<1> DEFINE Cases == \/ (\E c \in Clients : AssignWriteSeq(c)) \/ (\E c \in Clients : AssignDeleteSeq(c))
                   \/ (\E c \in Clients : LogFrame(c)) \/ (\E c \in Clients : LogFrameFails(c))
                   \/ (\E c \in Clients : ApplyFrame(c)) \/ (\E c \in Clients : ApplyFrameFails(c))
                   \/ CommitFlush \/ CheckpointRemoves \/ CommitCompaction \/ Crash
                   \/ (\E forced \in BOOLEAN : Close(forced)) \/ OpenShard
                   \/ (UNCHANGED <<wal, manifest, seq, client>> /\ tombs' \subseteq tombs)
<1>14. OpStep => Cases
  BY ZenonT(60) DEF OpStep, FlushStep, CompactStep, WriteFlushPart, FlushCheckpointed, AfterFlush, PlanCascade,
     EndCascade, PlanFull, WriteOutputs, CloseInputs, RemoveInput, DropTombstones,
     CompactionCheckpointed, EndCompaction, ConstInv
<1>15. Mishap => Cases
  BY ZenonT(60) DEF Mishap, WriteFlushPartFails, CommitFlushFails, CheckpointFails, WriteOutputsFails,
     CommitCompactionFails, CloseInputsFails, ConstInv
<1>16. Calm => Cases
  BY <1>14, ZenonT(60) DEF Calm, ScanColumns, CloseStream, BeginFlush, ConstInv
<1>17. UNCHANGED vars => Cases
  BY DEF vars
<1> QED
  BY <1>1, <1>2, <1>3, <1>4, <1>5, <1>6, <1>7, <1>8, <1>9, <1>10, <1>11, <1>12, <1>13, <1>15,
     <1>16, <1>17 DEF Next

\* Every step keeps the tombstones from hiding anything but doomed samples.
LEMMA DoomedStep ==
    ASSUME Inv, [Next]_vars
    PROVE  DoomedInv'
<1> USE DEF diskVars, engineVars, opVars, ghostVars, InFlight
<1> TypeOK /\ MemInv /\ SeqInv /\ DoomedInv
  BY DEF Inv
<1>w. wal' = wal => WalTombs' = WalTombs
  BY DEF WalTombs
<1>n. /\ seq \in Nat /\ WalTombs \subseteq Tomb /\ tombs \subseteq Tomb
      /\ \A c \in Clients : client[c].frame \in Frame
  BY StoredType DEF TypeOK
<1>u. /\ UNCHANGED <<wal, tombs, applied, doomed>>
      /\ \A c \in Clients : client'[c].frame.points \subseteq client[c].frame.points
      => DoomedInv'
  BY <1>w DEF DoomedInv
<1>1. CASE \E c \in Clients : AssignWriteSeq(c)
  <2>1. PICK c \in Clients : AssignWriteSeq(c)
    BY <1>1
  <2>2. PICK k \in Keys : client' = [client EXCEPT ![c] =
             [phase |-> "sent", frame |-> [points |-> {[key |-> k, seq |-> seq + 1]}, tombs |-> {}]]]
             /\ applied' = applied \ {[key |-> k, seq |-> seq + 1]}
             /\ doomed' = doomed \ {[key |-> k, seq |-> seq + 1]}
    BY <2>1 DEF AssignWriteSeq
  <2> DEFINE x == [key |-> k, seq |-> seq + 1]
  <2>3. \A t \in tombs \cup WalTombs : ~Covers(t, x)
    <3>1. \A t \in tombs \cup WalTombs : t.seq \in Nat /\ 0 < t.seq /\ t.seq <= seq
      BY <1>n DEF SeqInv, Tomb
    <3>2. x.seq = seq + 1
      OBVIOUS
    <3> HIDE DEF x
    <3> QED
      BY <1>n, <3>1, <3>2 DEF Covers
  <2>4. UNCHANGED <<wal, tombs>>
    BY <2>1 DEF AssignWriteSeq
  <2>5. \A d \in Clients : client'[d].frame.points \subseteq client[d].frame.points \cup {x}
    BY <2>2 DEF TypeOK
  <2>6. applied' = applied \ {x} /\ doomed' = doomed \ {x}
    BY <2>2
  <2> HIDE DEF x
  <2> QED
    BY <2>3, <2>4, <2>5, <2>6, <1>w DEF DoomedInv
<1>2. CASE \E c \in Clients : AssignDeleteSeq(c)
  <2>1. PICK c \in Clients : AssignDeleteSeq(c)
    BY <1>2
  <2>2. \A d \in Clients : client'[d].frame.points \subseteq client[d].frame.points
    BY <2>1 DEF AssignDeleteSeq, TypeOK
  <2>3. UNCHANGED <<wal, tombs, applied, doomed>>
    BY <2>1 DEF AssignDeleteSeq
  <2> QED
    BY <2>2, <2>3, <1>u
<1>3. CASE \E c \in Clients : LogFrame(c)
  <2>1. PICK c \in Clients : LogFrame(c)
    BY <1>3
  <2>2. UNCHANGED <<tombs, applied>>
    BY <2>1 DEF LogFrame
  <2>3. \A d \in Clients : client'[d].frame.points \subseteq client[d].frame.points
    BY <2>1 DEF LogFrame, TypeOK, Idle, NoFrame
  <2>4. CASE UNCHANGED <<wal, doomed>>
    BY <2>2, <2>3, <2>4, <1>u
  <2>5. CASE ~UNCHANGED <<wal, doomed>>
    <3>1. /\ wal' = Append(wal, client[c].frame)
          /\ doomed' = doomed \cup {x \in Issued : \E t \in client[c].frame.tombs : Covers(t, x)}
      BY <2>1, <2>5 DEF LogFrame
    <3>2. WalTombs' = WalTombs \cup client[c].frame.tombs
      BY <3>1, <1>n, WalAppend DEF TypeOK
    <3>3. applied \subseteq Issued /\ \A d \in Clients : client[d].frame.points \subseteq Issued
      BY DEF Issued
    <3> QED
      BY <2>2, <2>3, <3>1, <3>2, <3>3 DEF DoomedInv
  <2> QED
    BY <2>4, <2>5
<1>4. CASE \E c \in Clients : LogFrameFails(c)
  <2>1. PICK c \in Clients : LogFrameFails(c)
    BY <1>4
  <2>2. UNCHANGED <<tombs, applied>>
    BY <2>1 DEF LogFrameFails
  <2>3. \A d \in Clients : client'[d].frame.points \subseteq client[d].frame.points
    BY <2>1 DEF LogFrameFails, TypeOK, Idle, NoFrame
  <2>4. CASE UNCHANGED <<wal, doomed>>
    BY <2>2, <2>3, <2>4, <1>u
  <2>5. CASE ~UNCHANGED <<wal, doomed>>
    <3>1. /\ wal' = Append(wal, client[c].frame)
          /\ doomed' = doomed \cup {x \in Issued : \E t \in client[c].frame.tombs : Covers(t, x)}
      BY <2>1, <2>5 DEF LogFrameFails
    <3>2. WalTombs' = WalTombs \cup client[c].frame.tombs
      BY <3>1, <1>n, WalAppend DEF TypeOK
    <3>3. applied \subseteq Issued /\ \A d \in Clients : client[d].frame.points \subseteq Issued
      BY DEF Issued
    <3> QED
      BY <2>2, <2>3, <3>1, <3>2, <3>3 DEF DoomedInv
  <2> QED
    BY <2>4, <2>5
<1>5. CASE \E c \in Clients : ApplyFrame(c)
  <2>1. PICK c \in Clients : ApplyFrame(c)
    BY <1>5
  <2>2. /\ tombs' = tombs \cup client[c].frame.tombs /\ applied' = applied \cup client[c].frame.points
        /\ UNCHANGED <<wal, doomed>>
    BY <2>1 DEF ApplyFrame
  <2>3. \A d \in Clients : client'[d].frame.points \subseteq client[d].frame.points
    BY <2>1 DEF ApplyFrame, TypeOK, Idle, NoFrame
  <2>4. client[c].frame.tombs \subseteq WalTombs
    BY <2>1 DEF ApplyFrame, MemInv
  <2> QED
    BY <2>2, <2>3, <2>4, <1>w DEF DoomedInv
<1>6. CASE \E c \in Clients : ApplyFrameFails(c)
  <2>1. PICK c \in Clients : ApplyFrameFails(c)
    BY <1>6
  <2>2. \A d \in Clients : client'[d].frame.points \subseteq client[d].frame.points
    BY <2>1 DEF ApplyFrameFails, TypeOK, Idle, NoFrame
  <2>3. UNCHANGED <<wal, tombs, applied, doomed>>
    BY <2>1 DEF ApplyFrameFails
  <2> QED
    BY <2>2, <2>3, <1>u
<1>7. CASE CheckpointRemoves
  <2>1. WalTombs' \subseteq WalTombs
    BY <1>7, WalSuffix DEF CheckpointRemoves, TypeOK
  <2> QED
    BY <1>7, <2>1 DEF DoomedInv, CheckpointRemoves
<1>8. CASE Crash
  <2>1. UNCHANGED <<wal, applied, doomed>> /\ tombs' = {} /\ \A c \in Clients : client'[c].frame.points = {}
    BY <1>8 DEF Crash, Down, Idle, NoFrame
  <2> QED
    BY <2>1, <1>w DEF DoomedInv
<1>9. CASE \E forced \in BOOLEAN : Close(forced)
  <2>1. UNCHANGED <<wal, applied, doomed>> /\ tombs' = {} /\ \A c \in Clients : client'[c].frame.points = {}
    BY <1>9 DEF Close, Down, Idle, NoFrame
  <2> QED
    BY <2>1, <1>w DEF DoomedInv
<1>10. CASE OpenShard
  <2>1. UNCHANGED <<wal, client, applied, doomed>> /\ tombs' = WalTombs
    BY <1>10 DEF OpenShard
  <2> QED
    BY <2>1, <1>w DEF DoomedInv
<1>11. CASE UNCHANGED <<wal, client, applied, doomed>> /\ tombs' \subseteq tombs
  BY <1>11, <1>w DEF DoomedInv
<1> DEFINE Cases == \/ (\E c \in Clients : AssignWriteSeq(c)) \/ (\E c \in Clients : AssignDeleteSeq(c))
                   \/ (\E c \in Clients : LogFrame(c)) \/ (\E c \in Clients : LogFrameFails(c))
                   \/ (\E c \in Clients : ApplyFrame(c)) \/ (\E c \in Clients : ApplyFrameFails(c))
                   \/ CheckpointRemoves \/ Crash \/ (\E forced \in BOOLEAN : Close(forced))
                   \/ OpenShard
                   \/ (UNCHANGED <<wal, client, applied, doomed>> /\ tombs' \subseteq tombs)
<1>12. OpStep => Cases
  BY ZenonT(60) DEF OpStep, FlushStep, CompactStep, WriteFlushPart, CommitFlush, FlushCheckpointed, AfterFlush,
     PlanCascade, EndCascade, PlanFull, WriteOutputs, CommitCompaction, CloseInputs, RemoveInput,
     DropTombstones, CompactionCheckpointed, EndCompaction
<1>13. Mishap => Cases
  BY ZenonT(60) DEF Mishap, WriteFlushPartFails, CommitFlushFails, CheckpointFails, WriteOutputsFails,
     CommitCompactionFails, CloseInputsFails
<1>14. Calm => Cases
  BY <1>12, ZenonT(60) DEF Calm, ScanColumns, CloseStream, BeginFlush
<1>15. UNCHANGED vars => Cases
  BY DEF vars
<1> QED
  BY <1>1, <1>2, <1>3, <1>4, <1>5, <1>6, <1>7, <1>8, <1>9, <1>10, <1>11, <1>13, <1>14, <1>15 DEF Next

\* A sample that no delete covers outlives the merge and the tombstone filter.
LEMMA Survives ==
    ASSUME TypeOK, SeqInv, DoomedInv, NEW S, S \subseteq Sample, \A z \in S : z.seq <= seq,
           NEW T, T \subseteq tombs \cup WalTombs,
           NEW x \in applied \ doomed, NEW y \in S, y.key = x.key, y.seq >= x.seq
    PROVE  \E z \in Undeleted(Newest(S), T) : z.key = x.key /\ z.seq >= x.seq
<1>1. seq \in Nat /\ x \in Sample /\ y \in Sample
  BY DEF TypeOK
<1>2. PICK z \in Newest(S) : z.key = y.key /\ z.seq >= y.seq
  BY <1>1, NewestKeeps
<1>3. z \in Sample
  BY NewestSubset
<1>4. z.key = x.key /\ z.seq >= x.seq
  BY <1>1, <1>2, <1>3 DEF Sample
<1>5. ASSUME NEW t \in T, Covers(t, z)
      PROVE  FALSE
  <2>1. t.seq \in Nat /\ 0 < t.seq
    BY StoredType DEF TypeOK, SeqInv, Tomb
  <2>2. Covers(t, x)
    BY <1>1, <1>3, <1>4, <1>5, <2>1, CoversOlder
  <2> QED
    BY <2>2 DEF DoomedInv
<1> QED
  BY <1>2, <1>4, <1>5 DEF Undeleted

\* Every step keeps each applied write, or a newer one of its key, stored.
LEMMA KeptStep ==
    ASSUME ConstInv, Inv, [Next]_vars
    PROVE  KeptInv'
<1> USE DEF diskVars, engineVars, opVars, ghostVars
<1> TypeOK /\ FilesInv /\ MemInv /\ OutsInv /\ SeqInv /\ DoomedInv /\ KeptInv
  BY DEF Inv
<1>w. wal' = wal => WalPoints' = WalPoints
  BY DEF WalPoints
<1>s. /\ manifest' = manifest => SamplesOf(manifest)' = SamplesOf(manifest)
      /\ parts' = parts => SamplesOf(parts)' = SamplesOf(parts)
  BY SamplesFrame
<1>n. Stored \subseteq Sample
  BY StoredType DEF Stored, TypeOK
<1>t. ASSUME UNCHANGED <<applied, doomed>>,
             \A x \in Stored : \E y \in Stored' : y.key = x.key /\ y.seq >= x.seq,
             \A y \in Stored' : y.seq \in Nat
      PROVE  KeptInv'
  <2> SUFFICES ASSUME NEW x \in applied \ doomed
               PROVE  \E z \in Stored' : z.key = x.key /\ z.seq >= x.seq
    BY <1>t DEF KeptInv, Kept
  <2>1. PICK y \in Stored : y.key = x.key /\ y.seq >= x.seq
    BY DEF KeptInv, Kept
  <2>2. PICK z \in Stored' : z.key = y.key /\ z.seq >= y.seq
    BY <1>t
  <2>3. x.seq \in Nat /\ y.seq \in Nat /\ z.seq \in Nat
    BY <1>n, <1>t DEF TypeOK, Sample
  <2> QED
    BY <2>1, <2>2, <2>3
<1>1. CASE \E c \in Clients : LogFrameFails(c)
  <2>1. UNCHANGED <<up, mem, snap, parts, applied>> /\ up /\ doomed \subseteq doomed'
    BY <1>1 DEF LogFrameFails, CanRLock, CanLock
  <2> QED
    BY <2>1, <1>s DEF KeptInv, Kept, Stored
<1>2. CASE \E c \in Clients : ApplyFrame(c)
  <2>1. PICK c \in Clients : ApplyFrame(c)
    BY <1>2
  <2>2. /\ UNCHANGED <<up, snap, parts, doomed>>
        /\ mem' = mem \cup client[c].frame.points /\ applied' = applied \cup client[c].frame.points
    BY <2>1 DEF ApplyFrame
  <2>3. up
    <3>1. client[c].phase = "logged" /\ Idle.phase = "idle"
      BY <2>1 DEF ApplyFrame, Logged, Idle
    <3> QED
      BY <3>1 DEF MemInv
  <2>4. Stored' = Stored \cup client[c].frame.points
    BY <2>2, <2>3, <1>s DEF Stored
  <2>5. \A x \in client[c].frame.points : x.seq >= x.seq
    BY DEF TypeOK, Frame, Sample
  <2> QED
    BY <2>2, <2>4, <2>5 DEF KeptInv, Kept
<1>3. CASE \E c \in Clients : ApplyFrameFails(c)
  <2>1. UNCHANGED <<up, mem, snap, parts, wal, manifest, applied, doomed>>
    BY <1>3 DEF ApplyFrameFails
  <2> QED
    BY <2>1, <1>s, <1>w DEF KeptInv, Kept, Stored
<1>4. CASE WriteFlushPartFails
  <2>1. UNCHANGED <<up, parts, applied, doomed>> /\ up /\ mem' = mem \cup snap
    BY <1>4 DEF WriteFlushPartFails, FilesInv
  <2> QED
    BY <2>1, <1>s DEF KeptInv, Kept, Stored
<1>5. CASE CommitFlush
  <2>1. /\ UNCHANGED <<up, mem, dirs, applied, doomed>> /\ up
        /\ parts' = parts \cup outs
    BY <1>5 DEF CommitFlush, FilesInv
  <2>2. SamplesOf(parts)' = SamplesOf(parts) \cup Newest(snap)
    <3>1. SamplesOf(parts)' = SamplesOf(parts) \cup SamplesOf(outs)
      BY <2>1 DEF SamplesOf
    <3> QED
      BY <1>5, <3>1 DEF CommitFlush, OutsInv
  <2>3. \A x \in snap : \E y \in Newest(snap) : y.key = x.key /\ y.seq >= x.seq
    <3>1. seq \in Nat /\ snap \subseteq Sample /\ \A x \in snap : x.seq <= seq
      BY DEF TypeOK, MemInv, SeqInv
    <3> QED
      BY <3>1, NewestKeeps
  <2>4. mem \cup Newest(snap) \cup SamplesOf(parts) \subseteq Stored'
    BY <2>1, <2>2 DEF Stored
  <2>5. Stored = mem \cup snap \cup SamplesOf(parts)
    BY <2>1 DEF Stored
  <2>6. \A x \in Stored : \E y \in Stored' : y.key = x.key /\ y.seq >= x.seq
    BY <2>3, <2>4, <2>5, <1>n DEF Sample
  <2>7. \A y \in Stored' : y.seq \in Nat
    <3>1. Stored' \subseteq Stored
      <4>1. snap' = {} /\ Newest(snap) \subseteq snap
        BY <1>5, NewestSubset DEF CommitFlush
      <4>2. Stored' = mem \cup {} \cup SamplesOf(parts)'
        BY <2>1, <4>1 DEF Stored
      <4> QED
        BY <2>2, <2>5, <4>1, <4>2
    <3> QED
      BY <3>1, <1>n DEF Sample
  <2> QED
    BY <2>1, <2>6, <2>7, <1>t
<1>6. CASE CommitFlushFails
  <2>1. UNCHANGED <<up, parts, applied, doomed>> /\ up /\ mem' = mem \cup snap
    BY <1>6 DEF CommitFlushFails, FilesInv
  <2> QED
    BY <2>1, <1>s DEF KeptInv, Kept, Stored
<1>7. CASE CheckpointFails
  <2>1. UNCHANGED <<up, mem, parts, applied, doomed>> /\ up /\ snap = {}
    BY <1>7 DEF CheckpointFails, FilesInv, MemInv
  <2> QED
    BY <2>1, <1>s DEF KeptInv, Kept, Stored
<1>8. CASE WriteOutputsFails
  <2>1. UNCHANGED <<up, mem, parts, applied, doomed>> /\ up /\ snap = {}
    BY <1>8 DEF WriteOutputsFails, FilesInv, MemInv
  <2> QED
    BY <2>1, <1>s DEF KeptInv, Kept, Stored
<1>9. CASE CommitCompaction
  <2>1. /\ UNCHANGED <<up, mem, snap, dirs, applied, doomed>> /\ up
        /\ parts' = (parts \ inputs) \cup outs
    BY <1>9 DEF CommitCompaction, FilesInv
  <2>2. SamplesOf(parts)' = SamplesOf(parts \ inputs) \cup SamplesOf(outs)
    BY <2>1 DEF SamplesOf
  <2>3. SamplesOf(parts) \subseteq SamplesOf(parts \ inputs) \cup SamplesOf(inputs)
    BY DEF SamplesOf
  <2>4. SamplesOf(outs) = Undeleted(Newest(SamplesOf(inputs)), tombs)
    BY <1>9 DEF CommitCompaction, OutsInv
  <2>5. SamplesOf(inputs) \subseteq SamplesOf(manifest)
    BY <1>9 DEF CommitCompaction, FilesInv, SamplesOf
  <2>6. /\ SamplesOf(inputs) \subseteq Sample
        /\ \A y \in SamplesOf(inputs) : y.seq <= seq
    BY <2>5, StoredType DEF SeqInv
  <2> SUFFICES ASSUME NEW x \in applied \ doomed
               PROVE  \E z \in Stored' : z.key = x.key /\ z.seq >= x.seq
    BY <2>1 DEF KeptInv, Kept
  <2>7. PICK y \in Stored : y.key = x.key /\ y.seq >= x.seq
    BY DEF KeptInv, Kept
  <2>8. y \in Stored' \/ y \in SamplesOf(inputs)
    BY <2>1, <2>2, <2>3 DEF Stored
  <2>9. CASE y \in SamplesOf(inputs)
    <3>1. \E z \in SamplesOf(outs) : z.key = x.key /\ z.seq >= x.seq
      <4> DEFINE S == SamplesOf(inputs)
      <4>1. S \subseteq Sample /\ (\A z \in S : z.seq <= seq) /\ y \in S
        BY <2>6, <2>9
      <4>2. tombs \subseteq tombs \cup WalTombs
        OBVIOUS
      <4> HIDE DEF S
      <4>3. \E z \in Undeleted(Newest(S), tombs) : z.key = x.key /\ z.seq >= x.seq
        BY <4>1, <4>2, <2>7, Survives
      <4> QED
        BY <4>3, <2>4 DEF S
    <3> QED
      BY <2>1, <2>2, <3>1 DEF Stored
  <2> QED
    BY <2>7, <2>8, <2>9
<1>10. CASE CommitCompactionFails
  <2>1. UNCHANGED <<up, mem, parts, applied, doomed>> /\ up /\ snap = {}
    BY <1>10 DEF CommitCompactionFails, FilesInv, MemInv
  <2> QED
    BY <2>1, <1>s DEF KeptInv, Kept, Stored
<1>11. CASE CloseInputsFails
  <2>1. UNCHANGED <<up, mem, parts, applied, doomed>> /\ up /\ snap = {}
    BY <1>11 DEF CloseInputsFails, FilesInv, MemInv
  <2> QED
    BY <2>1, <1>s DEF KeptInv, Kept, Stored
<1>12. CASE Crash
  <2>1. ~up' /\ up /\ UNCHANGED <<wal, manifest, applied, doomed>>
    BY <1>12 DEF Crash, Down, CanLock
  <2>2. Stored \subseteq Stored'
    BY <2>1, <1>s, <1>w DEF Stored, MemInv, FilesInv
  <2> QED
    BY <2>1, <2>2 DEF KeptInv, Kept
<1>13. CASE \E forced \in BOOLEAN : Close(forced)
  <2>1. ~up' /\ up /\ UNCHANGED <<wal, manifest, applied, doomed>>
    BY <1>13 DEF Close, Down, CanLock
  <2>2. Stored \subseteq Stored'
    BY <2>1, <1>s, <1>w DEF Stored, MemInv, FilesInv
  <2> QED
    BY <2>1, <2>2 DEF KeptInv, Kept
<1>14. CASE OpenShard
  <2>1. up' /\ ~up /\ mem' = WalPoints /\ UNCHANGED <<applied, doomed>>
    BY <1>14 DEF OpenShard
  <2>2. SamplesOf(parts)' = SamplesOf(manifest)
    BY <2>1, SamplesFrame
  <2>3. Stored \subseteq Stored'
    BY <2>1, <2>2 DEF Stored
  <2> QED
    BY <2>1, <2>3 DEF KeptInv, Kept
<1>15. CASE up /\ UNCHANGED <<up, parts>> /\ mem \cup snap \subseteq mem' \cup snap' /\ applied' \ doomed' \subseteq applied \ doomed
  BY <1>15, <1>s DEF KeptInv, Kept, Stored
<1>16. CASE UNCHANGED vars
  BY <1>16, <1>s, <1>w DEF vars, KeptInv, Kept, Stored
<1> DEFINE Cases == \/ (\E c \in Clients : LogFrameFails(c)) \/ (\E c \in Clients : ApplyFrame(c))
                   \/ (\E c \in Clients : ApplyFrameFails(c)) \/ WriteFlushPartFails \/ CommitFlush
                   \/ CommitFlushFails \/ CheckpointFails \/ WriteOutputsFails \/ CommitCompaction
                   \/ CommitCompactionFails \/ CloseInputsFails \/ Crash
                   \/ (\E forced \in BOOLEAN : Close(forced)) \/ OpenShard
                   \/ (up /\ UNCHANGED <<up, parts>> /\ mem \cup snap \subseteq mem' \cup snap' /\ applied' \ doomed' \subseteq applied \ doomed)
                   \/ UNCHANGED vars
<1>17. OpStep => Cases
  BY ZenonT(60) DEF OpStep, FlushStep, CompactStep, WriteFlushPart, CheckpointRemoves, FlushCheckpointed,
     AfterFlush, PlanCascade, EndCascade, PlanFull, WriteOutputs, CloseInputs, RemoveInput,
     DropTombstones, CompactionCheckpointed, EndCompaction, FilesInv, MemInv, Return, Goto,
     CanLock, CanRLock, Logged, Idle
<1>18. Mishap => Cases
  BY ZenonT(60) DEF Mishap, FilesInv, MemInv, Return, Goto, CanLock, CanRLock, Logged, Idle
<1>19. Calm => Cases
  BY <1>17, ZenonT(60) DEF Calm, AssignWriteSeq, AssignDeleteSeq, LogFrame, ScanColumns, CloseStream, BeginFlush,
     FilesInv, MemInv, Return, Goto, CanLock, CanRLock, Logged, Idle
<1>20. UNCHANGED vars => Cases
  BY DEF vars
<1> QED
  BY <1>1, <1>2, <1>3, <1>4, <1>5, <1>6, <1>7, <1>8, <1>9, <1>10, <1>11, <1>12, <1>13, <1>14,
     <1>15, <1>16, <1>18, <1>19, <1>20 DEF Next

-----------------------------------------------------------------------------
(* The theorems.                                                            *)

\* A new shard satisfies the invariant.
LEMMA InitInv == Init => Inv
<1> SUFFICES ASSUME Init PROVE Inv
  OBVIOUS
<1>1. TypeOK
  <2>1. Idle \in [phase : {"idle", "sent", "logged"}, frame : Frame]
    BY DEF Idle, NoFrame, Frame
  <2>2. <<>> \in Seq(Frame)
    OBVIOUS
  <2> QED
    BY <2>1, <2>2 DEF Init, TypeOK, PartIds
<1>2. WalPoints = {} /\ WalTombs = {} /\ SamplesOf(parts) = {} /\ SamplesOf(manifest) = {}
  <2>1. wal = <<>> /\ DOMAIN wal = {} /\ parts = {} /\ manifest = {}
    BY DEF Init
  <2> QED
    BY <2>1 DEF WalPoints, WalTombs, SamplesOf
<1>3. FilesInv /\ OutsInv
  BY DEF Init, FilesInv, OutsInv
<1>4. MemInv
  BY <1>2 DEF Init, MemInv, Logged, Idle
<1>5. SeqInv
  BY <1>2 DEF Init, SeqInv, InFlight, Idle, NoFrame
<1>6. DoomedInv /\ KeptInv
  BY <1>2 DEF Init, DoomedInv, KeptInv, Kept
<1> QED
  BY <1>1, <1>3, <1>4, <1>5, <1>6 DEF Inv

\* The invariant is inductive when the manifest's directory sync does not fail
\* after the rename (WriteFileAtomic) and every delete carries a WriteSeq.
THEOREM Invariance == ASSUME ConstInv PROVE Spec => []Inv
<1>1. Init => Inv
  BY InitInv
<1>2. Inv /\ [Next]_vars => Inv'
  <2> SUFFICES ASSUME Inv, [Next]_vars PROVE Inv'
    OBVIOUS
  <2>1. TypeOK'
    BY TypeStep DEF Inv
  <2>2. FilesInv' /\ MemInv' /\ OutsInv'
    BY FilesStep, MemStep, OutsStep
  <2>3. SeqInv' /\ DoomedInv' /\ KeptInv'
    BY SeqStep, DoomedStep, KeptStep
  <2> QED
    BY <2>1, <2>2, <2>3 DEF Inv
<1> QED
  BY <1>1, <1>2, PTL DEF Spec

\* Every variable of a shard keeps its type.
THEOREM TypeCorrect == ASSUME ConstInv PROVE Spec => []TypeOK
<1>1. Inv => TypeOK
  BY DEF Inv
<1> QED
  BY <1>1, Invariance, PTL

\* OpenShard never meets a manifest that lists a missing part: flush and
\* compaction write parts before the manifest, and remove inputs after it.
THEOREM ManifestLoadable == ASSUME ConstInv PROVE Spec => []ManifestPartsExist
<1>1. Inv => ManifestPartsExist
  BY DEF Inv, FilesInv, ManifestPartsExist
<1> QED
  BY <1>1, Invariance, PTL

\* No applied write is lost by stopping the process at any point of a write,
\* flush, checkpoint, compaction or delete, and reopening the shard.
THEOREM Durable == ASSUME ConstInv PROVE Spec => []CrashKeepsWrites
<1>1. Inv => CrashKeepsWrites
  <2> SUFFICES ASSUME Inv, NEW x \in applied \ doomed
               PROVE  \E z \in Recoverable : z.key = x.key /\ z.seq >= x.seq
    BY DEF CrashKeepsWrites, Kept
  <2> DEFINE S == SamplesOf(manifest) \cup WalPoints
  <2>1. PICK y \in Stored : y.key = x.key /\ y.seq >= x.seq
    BY DEF Inv, KeptInv, Kept
  <2>2. y \in S
    BY DEF Stored, Inv, FilesInv, MemInv
  <2>3. S \subseteq Sample /\ \A z \in S : z.seq <= seq
    BY StoredType DEF Inv, SeqInv
  <2>4. Recoverable = Undeleted(Newest(S), WalTombs)
    BY DEF Recoverable
  <2> HIDE DEF S
  <2> QED
    BY <2>1, <2>2, <2>3, <2>4, Survives DEF Inv
<1> QED
  BY <1>1, Invariance, PTL

\* A query of the open shard returns every applied write or a newer one of its
\* key, during and after every flush and compaction, failed ones included.
THEOREM ReadYourWrites == ASSUME ConstInv PROVE Spec => []QuerySeesWrites
<1>1. Inv => QuerySeesWrites
  <2> SUFFICES ASSUME Inv, up, NEW x \in applied \ doomed
               PROVE  \E z \in Visible : z.key = x.key /\ z.seq >= x.seq
    BY DEF QuerySeesWrites, Kept
  <2> DEFINE S == mem \cup snap \cup SamplesOf(parts)
  <2>1. PICK y \in Stored : y.key = x.key /\ y.seq >= x.seq
    BY DEF Inv, KeptInv, Kept
  <2>2. y \in S
    BY DEF Stored
  <2>3. S \subseteq Sample /\ \A z \in S : z.seq <= seq
    <3>1. mem \cup snap \subseteq WalPoints /\ parts = manifest
      BY DEF Inv, MemInv, FilesInv
    <3>2. S \subseteq WalPoints \cup SamplesOf(manifest)
      BY <3>1
    <3> QED
      BY <3>2, StoredType DEF Inv, SeqInv
  <2>4. Visible = Undeleted(Newest(S), tombs)
    BY DEF Visible
  <2> HIDE DEF S
  <2> QED
    BY <2>1, <2>2, <2>3, <2>4, Survives DEF Inv
<1> QED
  BY <1>1, Invariance, PTL
=============================================================================
