--------------------------- MODULE AcmSnapshotProofs ---------------------------
(***************************************************************************)
(* What AcmSnapshot keeps for every set of calls, roles and accounts, every *)
(* chain and every order of commands, kills and pulls.                     *)
(***************************************************************************)
EXTENDS AcmSnapshot, WellFoundedInduction, TLAPS

-----------------------------------------------------------------------------
(* Types *)

LEMMA RolesOfEntries == \A granted \in SUBSET Entries : RolesOf(granted) \in SUBSET Roles
BY DEF RolesOf, Entries

LEMMA NothingType == Nothing \in SnapshotType
BY SnapshotAssumption DEF Nothing, SnapshotType

(* Each pure part of the tool, by the fields of what it returns. *)
LEMMA ReannotatedIs ==
    \A snap \in SnapshotType :
        /\ Reannotated(snap) \in SnapshotType
        /\ Reannotated(snap).height = snap.height
        /\ Reannotated(snap).granted = snap.granted
        /\ Reannotated(snap).seen = snap.seen
        /\ Reannotated(snap).decoded = snap.decoded \cup (RolesOf(snap.granted) \cap Known)
BY RolesOfEntries DEF Reannotated, SnapshotType

LEMMA SweptIs ==
    \A snap \in SnapshotType :
        /\ Swept(snap) \in SnapshotType
        /\ Swept(snap).height = snap.height
        /\ Swept(snap).granted = snap.granted \cap At(snap.height)
        /\ Swept(snap).seen = snap.seen
        /\ Swept(snap).decoded = snap.decoded \cap RolesOf(snap.granted \cap At(snap.height))
BY DEF Swept, SnapshotType

LEMMA VerifiedIs ==
    \A prev \in SnapshotType, snap \in SnapshotType :
        LET changed == Diff(prev, snap)
            granted == (snap.granted \ changed) \cup (changed \cap At(snap.height))
        IN /\ Verified(prev, snap) \in SnapshotType
           /\ Verified(prev, snap).height = snap.height
           /\ Verified(prev, snap).granted = granted
           /\ Verified(prev, snap).seen = snap.seen
           /\ Verified(prev, snap).decoded =
                 RolesOf(granted) \cap (snap.decoded \cup (prev.decoded \ RolesOf(snap.granted)))
<1> SUFFICES ASSUME NEW prev \in SnapshotType, NEW snap \in SnapshotType
             PROVE  LET changed == Diff(prev, snap)
                        granted == (snap.granted \ changed) \cup (changed \cap At(snap.height))
                    IN /\ Verified(prev, snap) \in SnapshotType
                       /\ Verified(prev, snap).height = snap.height
                       /\ Verified(prev, snap).granted = granted
                       /\ Verified(prev, snap).seen = snap.seen
                       /\ Verified(prev, snap).decoded =
                             RolesOf(granted) \cap
                                (snap.decoded \cup (prev.decoded \ RolesOf(snap.granted)))
  OBVIOUS
<1> DEFINE changed == Diff(prev, snap)
           granted == (snap.granted \ changed) \cup (changed \cap At(snap.height))
           decoded == RolesOf(granted) \cap (snap.decoded \cup (prev.decoded \ RolesOf(snap.granted)))
<1>1. Verified(prev, snap) = [snap EXCEPT !.granted = granted, !.decoded = decoded]
  BY DEF Verified
<1>2. granted \in SUBSET Entries
  BY DEF Diff, SnapshotType
<1>3. decoded \in SUBSET Roles
  BY DEF SnapshotType
<1> HIDE DEF changed, granted, decoded
<1>4. /\ Verified(prev, snap) \in SnapshotType
      /\ Verified(prev, snap).height = snap.height
      /\ Verified(prev, snap).granted = granted
      /\ Verified(prev, snap).seen = snap.seen
      /\ Verified(prev, snap).decoded = decoded
  BY <1>1, <1>2, <1>3 DEF SnapshotType
<1> QED BY <1>4 DEF changed, granted, decoded

LEMMA ReplayIs ==
    ASSUME TypeOK
    PROVE  \A snap \in SnapshotType, end \in 0..MaxBlock :
              LET last == LesserOf(end, Tip)
                  granted == GrantedAfter(snap.granted, snap.height + 1, last)
              IN /\ Replay(snap, end) \in SnapshotType
                 /\ Replay(snap, end).height = end
                 /\ Replay(snap, end).granted = granted
                 /\ Replay(snap, end).seen = snap.seen \cup ((snap.height + 1)..last)
                 /\ Replay(snap, end).decoded \subseteq snap.decoded \cup Known
                 /\ RolesOf(granted) \cap Known \subseteq Replay(snap, end).decoded
<1> SUFFICES ASSUME NEW snap \in SnapshotType, NEW end \in 0..MaxBlock
             PROVE  LET last == LesserOf(end, Tip)
                        granted == GrantedAfter(snap.granted, snap.height + 1, last)
                    IN /\ Replay(snap, end) \in SnapshotType
                       /\ Replay(snap, end).height = end
                       /\ Replay(snap, end).granted = granted
                       /\ Replay(snap, end).seen = snap.seen \cup ((snap.height + 1)..last)
                       /\ Replay(snap, end).decoded \subseteq snap.decoded \cup Known
                       /\ RolesOf(granted) \cap Known \subseteq Replay(snap, end).decoded
  OBVIOUS
<1> DEFINE last == LesserOf(end, Tip)
           granted == GrantedAfter(snap.granted, snap.height + 1, last)
           kept == {r \in snap.decoded : \A b \in (snap.height + 1)..last :
                       r \in RolesOf(GrantedAfter(snap.granted, snap.height + 1, b))}
           seen == snap.seen \cup ((snap.height + 1)..last)
<1>1. Replay(snap, end) = [height |-> end, granted |-> granted,
                           decoded |-> RolesOf(granted) \cap (kept \cup Known), seen |-> seen]
  BY DEF Replay
<1>2. granted \in SUBSET Entries
  BY DEF GrantedAfter
<1>3. seen \in SUBSET (1..MaxBlock)
  BY SnapshotAssumption DEF SnapshotType, LesserOf, TypeOK, Tip
<1>4. kept \subseteq snap.decoded
  OBVIOUS
<1> HIDE DEF granted, kept, seen
<1>5. RolesOf(granted) \in SUBSET Roles
  BY <1>2, RolesOfEntries
<1>6. Replay(snap, end) \in SnapshotType
  BY <1>1, <1>2, <1>3, <1>5 DEF SnapshotType
<1>7. /\ Replay(snap, end).height = end
      /\ Replay(snap, end).granted = granted
      /\ Replay(snap, end).seen = seen
      /\ Replay(snap, end).decoded \subseteq snap.decoded \cup Known
      /\ RolesOf(granted) \cap Known \subseteq Replay(snap, end).decoded
  BY <1>1, <1>4
<1> QED BY <1>6, <1>7 DEF granted, seen

LEMMA IdleType == Idle \in RunType /\ Idle.phase = "idle"
BY NothingType, SnapshotAssumption DEF Idle, RunType, Phases

LEMMA PublishingType ==
    \A b \in BOOLEAN : Publishing(b) \in RunType /\ Publishing(b).phase = "render"
BY IdleType DEF Publishing, RunType, Phases

LEMMA InitType == Init => TypeOK
<1> SUFFICES ASSUME Init PROVE TypeOK
  OBVIOUS
<1>1. run \in RunType
  BY NothingType, IdleType, SnapshotAssumption DEF Init, RunType, Phases
<1>2. checkpoint \in [base : 0..MaxBlock, snap : SnapshotType]
  BY NothingType, SnapshotAssumption DEF Init, NoCheckpoint
<1>3. blocks \in Seq([call : Calls, after : SUBSET Entries]) /\ Tip = 0
  BY DEF Init, Tip
<1>4. discards \in 0..MaxDiscards /\ Tip <= MaxBlock
  BY <1>3, SnapshotAssumption DEF Init
<1> QED
  BY <1>1, <1>2, <1>3, <1>4, NothingType DEF Init, TypeOK

Block == [call : Calls, after : SUBSET Entries]

(* What the manager grants after a call is again a set of its entries. *)
LEMMA MineBlock ==
    ASSUME TypeOK, NEW call \in Calls
    PROVE  [call |-> call, after |-> Effect(At(Tip), call)] \in Block
<1>1. Tip \in Nat /\ \A b \in 1..Tip : blocks[b].after \in SUBSET Entries
  <2>1. blocks \in Seq(Block)
    BY DEF TypeOK, Block
  <2>2. \A block \in Block : block.after \in SUBSET Entries
    BY DEF Block
  <2> QED BY <2>1, <2>2 DEF Tip
<1>2. At(Tip) \in SUBSET Entries
  BY <1>1 DEF At, LesserOf
<1>3. Effect(At(Tip), call) \in SUBSET Entries
  BY <1>2 DEF Effect, Calls, Entries
<1> QED BY <1>3 DEF Block

LEMMA MineType == ASSUME TypeOK, NEW call \in Calls, Mine(call) PROVE TypeOK'
<1> DEFINE block == [call |-> call, after |-> Effect(At(Tip), call)]
<1>1. block \in Block
  BY MineBlock
<1>2. blocks \in Seq(Block) /\ blocks' = Append(blocks, block) /\ Tip < MaxBlock
  BY DEF TypeOK, Mine, Block
<1> HIDE DEF block
<1>3. blocks' \in Seq(Block) /\ Tip \in Nat /\ Tip' = Tip + 1
  BY <1>1, <1>2 DEF Tip
<1> QED
  BY <1>2, <1>3, SnapshotAssumption
     DEF Mine, TypeOK, Block, registry, outputs, history, SnapshotType

LEMMA FetchType ==
    ASSUME TypeOK, NEW to \in 0..MaxBlock, NEW chunkSize \in ChunkSizes, Fetch(to, chunkSize)
    PROVE  TypeOK'
<1> DEFINE from == IF Pending THEN checkpoint.snap ELSE file
<1>1. from \in SnapshotType
  BY DEF TypeOK
<1>2. Reannotated(from) \in SnapshotType
  BY <1>1, ReannotatedIs
<1> HIDE DEF from
<1>3. run' \in RunType
  BY <1>2, IdleType, NothingType, SnapshotAssumption DEF Fetch, RunType, Phases, from
<1>4. checkpoint' \in [base : 0..MaxBlock, snap : SnapshotType]
  BY NothingType, SnapshotAssumption DEF Fetch, TypeOK, NoCheckpoint
<1> QED
  BY <1>3, <1>4 DEF Fetch, TypeOK, chain, registry, outputs, history, Tip

LEMMA RebuildType ==
    ASSUME TypeOK, NEW to \in 0..MaxBlock, NEW chunkSize \in ChunkSizes, Rebuild(to, chunkSize)
    PROVE  TypeOK'
<1>1. run' \in RunType
  BY IdleType, NothingType, SnapshotAssumption DEF Rebuild, RunType, Phases
<1>2. checkpoint' \in [base : 0..MaxBlock, snap : SnapshotType]
  BY NothingType, SnapshotAssumption DEF Rebuild, NoCheckpoint
<1>3. discards' \in 0..MaxDiscards
  BY SnapshotAssumption DEF Rebuild, TypeOK
<1> QED
  BY <1>1, <1>2, <1>3, NothingType DEF Rebuild, TypeOK, chain, registry, Tip

LEMMA ScanType == ASSUME TypeOK, ScanChunk PROVE TypeOK'
<1> DEFINE end == LesserOf(run.snap.height + run.chunkSize, run.to)
           snap == Replay(run.snap, end)
<1>1. end \in 0..MaxBlock /\ run.snap \in SnapshotType /\ run \in RunType
  <2>1. run \in RunType
    BY DEF TypeOK
  <2>2. /\ run.snap \in SnapshotType /\ run.to \in 0..MaxBlock
        /\ run.chunkSize \in {0} \cup ChunkSizes
    BY <2>1 DEF RunType
  <2>3. run.snap.height \in 0..MaxBlock
    BY <2>2 DEF SnapshotType
  <2>4. run.chunkSize \in Nat
    <3>1. ChunkSizes \subseteq Nat
      BY SnapshotAssumption
    <3>2. run.chunkSize \in {0} \cup ChunkSizes
      BY <2>2
    <3>3. CASE run.chunkSize = 0
      BY <3>3
    <3>4. CASE run.chunkSize \in ChunkSizes
      BY <3>1, <3>4
    <3> QED BY <3>2, <3>3, <3>4
  <2>5. end \in 0..MaxBlock
    BY <2>2, <2>3, <2>4, SnapshotAssumption DEF LesserOf
  <2> QED BY <2>1, <2>2, <2>5
<1>2. snap \in SnapshotType
  BY <1>1, ReplayIs
<1> HIDE DEF end, snap
<1>3. run' \in RunType
  BY <1>1, <1>2 DEF ScanChunk, RunType, Phases, end, snap
<1>4. checkpoint' \in [base : 0..MaxBlock, snap : SnapshotType]
  BY <1>2 DEF ScanChunk, TypeOK, SnapshotType, end, snap
<1> QED
  BY <1>3, <1>4 DEF ScanChunk, TypeOK, chain, registry, outputs, history, Tip

(* The commands that save a snapshot. *)
LEMMA SaveType ==
    ASSUME TypeOK, NEW snap \in SnapshotType, Save(snap), NEW fetching \in BOOLEAN,
           run' = Publishing(fetching),
           UNCHANGED <<chain, registry, checkpoint, outputs, discards, torn, forgotten>>
    PROVE  TypeOK'
<1>1. run' \in RunType
  BY PublishingType
<1>2. resolved' \subseteq Roles
  BY DEF Save, TypeOK, SnapshotType
<1> QED
  BY <1>1, <1>2 DEF Save, TypeOK, chain, registry, outputs, Tip

LEMMA SaversType == ASSUME TypeOK, VerifyDiff \/ Verify \/ Relabel PROVE TypeOK'
<1>1. file \in SnapshotType /\ run.snap \in SnapshotType
  BY DEF TypeOK, RunType
<1>2. CASE VerifyDiff
  <2>1. Verified(Reannotated(file), run.snap) \in SnapshotType
    BY <1>1, ReannotatedIs, VerifiedIs
  <2> QED BY <1>2, <2>1, SaveType DEF VerifyDiff
<1>3. CASE Verify
  BY <1>1, <1>3, SweptIs, SaveType DEF Verify
<1>4. CASE Relabel
  BY <1>1, <1>4, ReannotatedIs, SaveType DEF Relabel
<1> QED BY <1>2, <1>3, <1>4

LEMMA PullType == ASSUME TypeOK, NEW height \in 1..Tip, Pull(height) PROVE TypeOK'
<1> DEFINE snap == Verified(Nothing, Replay(Nothing, height))
<1>1. height \in 0..MaxBlock
  BY SnapshotAssumption DEF TypeOK, Tip
<1>2. snap \in SnapshotType
  BY <1>1, NothingType, ReplayIs, VerifiedIs
<1>3. Unresolved(snap) \subseteq Roles
  BY <1>2, RolesOfEntries DEF Unresolved, SnapshotType
<1> HIDE DEF snap
<1>4. file' = snap /\ md' = snap /\ unresolved' = Unresolved(snap)
      /\ resolved' = resolved \cup snap.decoded
  BY DEF Pull, Save, snap
<1>5. resolved' \subseteq Roles
  BY <1>2, <1>4 DEF TypeOK, SnapshotType
<1>6. discards' \in 0..MaxDiscards
  BY SnapshotAssumption DEF Pull, TypeOK
<1> QED
  BY <1>2, <1>3, <1>4, <1>5, <1>6 DEF Pull, TypeOK, chain, registry, Tip

(* The commands that write something else, and their end. *)
LEMMA OthersType ==
    ASSUME TypeOK,
           \/ RenderMd \/ WriteUnresolved \/ ClearCheckpoint \/ RecordDroppedSignatures \/ Stop
           \/ \E found \in SUBSET (Roles \ {DEFAULT_ADMIN_ROLE}) :
                 BuildSignatures(found) \/ BuildContracts(found)
    PROVE  TypeOK'
<1>1. run \in RunType /\ Idle \in RunType /\ Idle.phase = "idle"
  BY IdleType, NothingType, SnapshotAssumption DEF TypeOK, RunType
<1>2. CASE RenderMd
  <2>1. run' \in RunType
    BY <1>1, <1>2 DEF RenderMd, RunType, Phases
  <2> QED
    BY <1>2, <2>1 DEF RenderMd, TypeOK, chain, registry, history, Tip
<1>3. CASE WriteUnresolved
  <2>1. run' \in RunType
    BY <1>1, <1>3 DEF WriteUnresolved, RunType, Phases
  <2>2. Unresolved(file) \subseteq Roles
    BY RolesOfEntries DEF Unresolved, TypeOK, SnapshotType
  <2> QED
    BY <1>3, <2>1, <2>2 DEF WriteUnresolved, TypeOK, chain, registry, Tip
<1>4. CASE ClearCheckpoint
  BY <1>1, <1>4, NothingType, SnapshotAssumption
     DEF ClearCheckpoint, TypeOK, chain, registry, outputs, history, Tip, RunType, NoCheckpoint
<1>5. CASE RecordDroppedSignatures
  <2>1. run' \in RunType
    BY <1>1, <1>5 DEF RecordDroppedSignatures, RunType, Phases
  <2>2. archived' \subseteq Roles
    BY <1>1, <1>5 DEF RecordDroppedSignatures, TypeOK, RunType
  <2> QED
    BY <1>5, <2>1, <2>2
       DEF RecordDroppedSignatures, TypeOK, chain, outputs, history, Tip
<1>6. CASE Stop
  <2>1. forgotten' \subseteq Roles
    BY <1>1, <1>6 DEF Stop, TypeOK, RunType
  <2>2. torn' \in BOOLEAN
    BY <1>6 DEF Stop, TypeOK
  <2> QED
    BY <1>1, <1>6, <2>1, <2>2 DEF Stop, TypeOK, chain, registry, outputs, Tip, RunType
<1>7. ASSUME NEW found \in SUBSET (Roles \ {DEFAULT_ADMIN_ROLE}), BuildSignatures(found)
      PROVE  TypeOK'
  <2>1. run' \in RunType
    BY <1>1, <1>7 DEF BuildSignatures, RunType, Phases, TypeOK
  <2> QED
    BY <1>7, <2>1 DEF BuildSignatures, TypeOK, chain, outputs, history, Tip
<1>8. ASSUME NEW found \in SUBSET (Roles \ {DEFAULT_ADMIN_ROLE}), BuildContracts(found)
      PROVE  TypeOK'
  <2>1. forgotten' \subseteq Roles
    BY <1>8 DEF BuildContracts, TypeOK
  <2> QED
    BY <1>1, <1>8, <2>1 DEF BuildContracts, TypeOK, chain, outputs, Tip, RunType
<1> QED BY <1>2, <1>3, <1>4, <1>5, <1>6, <1>7, <1>8

LEMMA StutterType == ASSUME TypeOK, UNCHANGED vars PROVE TypeOK'
BY DEF vars, TypeOK, chain, registry, outputs, history, Tip

LEMMA NextType == TypeOK /\ [Next]_vars => TypeOK'
BY MineType, FetchType, RebuildType, ScanType, SaversType, PullType, OthersType, StutterType
   DEF Next

(* Every reachable state of the tool's files and of its command is well typed: *)
(* a snapshot names no block beyond the bound, and no role that is not one.    *)
THEOREM TypeCorrect == Spec => []TypeOK
BY InitType, NextType, PTL DEF Spec

LEMMA Snapshots ==
    ASSUME TypeOK
    PROVE  /\ file \in SnapshotType /\ run \in RunType /\ run.snap \in SnapshotType
           /\ checkpoint.snap \in SnapshotType /\ checkpoint.base \in Nat
           /\ file.height \in Nat /\ run.snap.height \in Nat /\ checkpoint.snap.height \in Nat
<1>1. file \in SnapshotType /\ run \in RunType /\ run.snap \in SnapshotType
      /\ checkpoint.snap \in SnapshotType /\ checkpoint.base \in 0..MaxBlock
  BY DEF TypeOK, RunType
<1>2. \A snap \in SnapshotType : snap.height \in Nat
  BY SnapshotAssumption DEF SnapshotType
<1> QED BY <1>1, <1>2, SnapshotAssumption

-----------------------------------------------------------------------------
(* A fetch changes in the saved snapshot only what it has checked with the     *)
(* manager: a difference between the old and the new snapshot was one before   *)
(* the correction, and the correction took the manager's word.                 *)

THEOREM AlwaysVerified == Spec => ChangesAreVerified
<1>1. TypeOK /\ [Next]_vars =>
        [VerifyDiff => \A e \in Diff(file, file') : e \in file'.granted <=> e \in At(file'.height)]_vars
  <2> SUFFICES ASSUME TypeOK, VerifyDiff, NEW e \in Diff(file, file')
               PROVE  e \in file'.granted <=> e \in At(file'.height)
    OBVIOUS
  <2> DEFINE prev == Reannotated(file)
             changed == Diff(prev, run.snap)
  <2>1. prev \in SnapshotType /\ prev.granted = file.granted
    BY Snapshots, ReannotatedIs
  <2>2. file' = Verified(prev, run.snap)
    BY DEF VerifyDiff, Save
  <2>3. /\ file'.height = run.snap.height
        /\ file'.granted = (run.snap.granted \ changed) \cup (changed \cap At(run.snap.height))
    BY <2>1, <2>2, Snapshots, VerifiedIs
  <2>4. e \in changed
    BY <2>1, <2>3 DEF Diff
  <2> QED BY <2>3, <2>4
<1> QED BY <1>1, TypeCorrect, PTL DEF Spec, ChangesAreVerified

-----------------------------------------------------------------------------
(* A scan in memory is at least at the block of the saved snapshot and not yet *)
(* at its goal, a checkpoint at least at the block of the one it was built on. *)
Ahead ==
    /\ run.phase \in {"scan", "verify"} => run.snap.height >= file.height
    /\ run.phase = "scan" => run.snap.height < run.to
    /\ checkpoint.snap.height >= checkpoint.base

Step == TypeOK /\ [Next]_vars

LEMMA FetchAhead ==
    ASSUME TypeOK, Ahead, NEW to \in 0..MaxBlock, NEW chunkSize \in ChunkSizes,
           Fetch(to, chunkSize) \/ Rebuild(to, chunkSize)
    PROVE  Ahead'
<1>1. CASE Fetch(to, chunkSize)
  <2> DEFINE from == IF Pending THEN checkpoint.snap ELSE file
             started == [Idle EXCEPT !.to = to, !.snap = Reannotated(from)]
  <2>1. from.height >= file.height /\ Reannotated(from).height = from.height
    BY Snapshots, ReannotatedIs DEF Ahead, Pending
  <2>2. started.snap = Reannotated(from) /\ started.to = to /\ started \in RunType
    BY IdleType, Snapshots, ReannotatedIs DEF RunType
  <2>3. file' = file /\ checkpoint'.snap.height >= checkpoint'.base
    BY <1>1, SnapshotAssumption DEF Fetch, Ahead, NoCheckpoint, Nothing
  <2> HIDE DEF started
  <2>4. CASE from.height < to
    <3>1. run' = [started EXCEPT !.phase = "scan", !.chunkSize = chunkSize]
      BY <1>1, <2>4 DEF Fetch, started
    <3>2. run'.phase = "scan" /\ run'.snap.height = from.height /\ run'.to = to
      BY <2>1, <2>2, <3>1 DEF RunType
    <3> QED BY <2>1, <2>3, <2>4, <3>2 DEF Ahead
  <2>5. CASE ~(from.height < to) /\ Pending
    <3>1. run' = [started EXCEPT !.phase = "verify"]
      BY <1>1, <2>5 DEF Fetch, started
    <3>2. run'.phase = "verify" /\ run'.snap.height = from.height
      BY <2>1, <2>2, <3>1 DEF RunType
    <3> QED BY <2>1, <2>3, <3>2 DEF Ahead
  <2>6. CASE ~(from.height < to) /\ ~Pending
    <3>1. run' = Idle
      BY <1>1, <2>6 DEF Fetch
    <3> QED BY <2>3, <3>1, IdleType DEF Ahead
  <2> QED BY <2>4, <2>5, <2>6
<1>2. CASE Rebuild(to, chunkSize)
  <2>1. file'.height = 0 /\ checkpoint'.snap.height >= checkpoint'.base
    BY <1>2 DEF Rebuild, Nothing, NoCheckpoint
  <2>2. CASE to = 0
    BY <1>2, <2>1, <2>2, IdleType DEF Rebuild, Ahead
  <2>3. CASE to # 0
    <3>1. run' = [Idle EXCEPT !.phase = "scan", !.to = to, !.chunkSize = chunkSize]
      BY <1>2, <2>3 DEF Rebuild
    <3>2. run'.phase = "scan" /\ run'.to = to /\ run'.snap.height = 0
      BY <3>1 DEF Idle, Nothing
    <3> QED BY <2>1, <2>3, <3>2, SnapshotAssumption DEF Ahead
  <2> QED BY <2>2, <2>3
<1> QED BY <1>1, <1>2

LEMMA ScanAhead == ASSUME TypeOK, Ahead, ScanChunk PROVE Ahead'
<1> DEFINE end == LesserOf(run.snap.height + run.chunkSize, run.to)
           snap == Replay(run.snap, end)
<1>1. run.to \in 0..MaxBlock /\ run.chunkSize \in Nat
  <2>1. ChunkSizes \subseteq Nat /\ 0 \in Nat
    BY SnapshotAssumption
  <2>2. run.to \in 0..MaxBlock /\ run.chunkSize \in {0} \cup ChunkSizes
    BY Snapshots DEF RunType
  <2> QED BY <2>1, <2>2
<1>2. run.snap.height < run.to /\ run.snap.height >= file.height
  BY DEF Ahead, ScanChunk
<1>3. end \in 0..MaxBlock /\ end >= file.height /\ end <= run.to
  BY <1>1, <1>2, Snapshots, SnapshotAssumption DEF LesserOf
<1>4. snap.height = end
  BY <1>3, Snapshots, ReplayIs
<1> HIDE DEF end, snap
<1>5. /\ checkpoint' = [base |-> file.height, snap |-> snap] /\ file' = file
      /\ run' = [run EXCEPT !.snap = snap, !.phase = IF end = run.to THEN "verify" ELSE "scan"]
  BY DEF ScanChunk, end, snap
<1>6. /\ run'.snap = snap /\ run'.to = run.to
      /\ run'.phase = IF end = run.to THEN "verify" ELSE "scan"
  BY <1>5, Snapshots DEF RunType
<1> QED BY <1>1, <1>3, <1>4, <1>5, <1>6, Snapshots DEF Ahead

LEMMA NextAhead == Ahead /\ Step => Ahead'
<1> SUFFICES ASSUME Ahead, TypeOK, [Next]_vars PROVE Ahead'
  BY DEF Step
<1>1. ASSUME NEW to \in 0..MaxBlock, NEW chunkSize \in ChunkSizes,
             Fetch(to, chunkSize) \/ Rebuild(to, chunkSize)
      PROVE  Ahead'
  BY <1>1, FetchAhead
<1>2. CASE ScanChunk
  BY <1>2, ScanAhead
<1>3. CASE VerifyDiff \/ Verify \/ Relabel
  BY <1>3, PublishingType DEF Ahead, VerifyDiff, Verify, Relabel
<1>4. CASE Stop
  BY <1>4, IdleType DEF Ahead, Stop
<1>5. CASE RenderMd
  <2>1. run'.phase = "unresolved" /\ UNCHANGED <<file, checkpoint>>
    BY <1>5, Snapshots DEF RenderMd, RunType
  <2> QED BY <2>1 DEF Ahead
<1>6. CASE WriteUnresolved
  <2>1. run'.phase \in {"clear", "idle"} /\ UNCHANGED <<file, checkpoint>>
    BY <1>6, Snapshots, IdleType DEF WriteUnresolved, RunType
  <2> QED BY <2>1 DEF Ahead
<1>7. CASE ClearCheckpoint
  BY <1>7, IdleType DEF Ahead, ClearCheckpoint, NoCheckpoint, Nothing
<1>8. CASE RecordDroppedSignatures
  <2>1. run'.phase = "contracts" /\ UNCHANGED <<file, checkpoint>>
    BY <1>8, IdleType DEF RecordDroppedSignatures, RunType
  <2> QED BY <2>1 DEF Ahead
<1>9. ASSUME NEW found \in SUBSET (Roles \ {DEFAULT_ADMIN_ROLE}),
             BuildSignatures(found) \/ BuildContracts(found)
      PROVE  Ahead'
  <2>1. run'.phase \in {"archive", "idle"} /\ UNCHANGED <<file, checkpoint>>
    BY <1>9, IdleType DEF BuildSignatures, BuildContracts, RunType
  <2> QED BY <2>1 DEF Ahead
<1>10. ASSUME NEW height \in 1..Tip, Pull(height) PROVE Ahead'
  BY <1>10 DEF Ahead, Pull
<1>11. ASSUME NEW call \in Calls, Mine(call) PROVE Ahead'
  BY <1>11 DEF Ahead, Mine
<1>12. CASE UNCHANGED vars
  BY <1>12 DEF Ahead, vars
<1> QED
  BY <1>1, <1>2, <1>3, <1>4, <1>5, <1>6, <1>7, <1>8, <1>9, <1>10, <1>11, <1>12 DEF Next

(* However checkpoints are taken up, dropped or left behind by checkouts, no   *)
(* command but --rebuild puts an older snapshot in the place of a newer one.   *)
THEOREM HeightsOnlyGrow == Spec => HeightNeverDrops
<1>1. Init => Ahead
  BY IdleType DEF Init, Ahead, NoCheckpoint, Nothing
<1>2. TypeOK /\ Ahead /\ [Next]_vars => [discards' = discards => file'.height >= file.height]_vars
  <2> SUFFICES ASSUME TypeOK, Ahead, Next, discards' = discards
               PROVE  file'.height >= file.height
    OBVIOUS
  <2>1. CASE VerifyDiff
    <3>1. file' = Verified(Reannotated(file), run.snap)
      BY <2>1 DEF VerifyDiff, Save
    <3>2. Reannotated(file) \in SnapshotType /\ run.snap \in SnapshotType
      BY Snapshots, ReannotatedIs
    <3>3. file'.height = run.snap.height
      BY <3>1, <3>2, VerifiedIs
    <3> QED BY <2>1, <3>3 DEF Ahead, VerifyDiff
  <2>2. CASE Verify \/ Relabel
    <3>1. file' = Swept(file) \/ file' = Reannotated(file)
      BY <2>2 DEF Verify, Relabel, Save
    <3>2. file'.height = file.height
      BY <3>1, Snapshots, ReannotatedIs, SweptIs
    <3> QED BY <3>2, Snapshots
  <2>3. ASSUME \/ \E height \in 1..Tip : Pull(height)
               \/ \E to \in 0..MaxBlock, chunkSize \in ChunkSizes : Rebuild(to, chunkSize)
        PROVE  FALSE
    <3>1. discards \in Nat
      BY SnapshotAssumption DEF TypeOK
    <3>2. discards' = discards + 1
      BY <2>3 DEF Pull, Rebuild
    <3> QED BY <3>1, <3>2
  <2>4. CASE file' = file
    BY <2>4, Snapshots
  <2> QED
    BY <2>1, <2>2, <2>3, <2>4
       DEF Next, Mine, Fetch, ScanChunk, RenderMd, WriteUnresolved, ClearCheckpoint,
           RecordDroppedSignatures, Stop, BuildSignatures, BuildContracts
<1> QED BY <1>1, <1>2, NextAhead, TypeCorrect, PTL DEF Spec, HeightNeverDrops, Step

-----------------------------------------------------------------------------
(* The page is written before the list, and both before anything else happens  *)
(* to the snapshot.                                                            *)
PageFirst == run.phase = "unresolved" => md = file

LEMMA SaveFollows ==
    ASSUME NEW fetching \in BOOLEAN, run' = Publishing(fetching)
    PROVE  OutputsFollow' /\ PageFirst'
BY PublishingType DEF OutputsFollow, PageFirst

LEMMA NextFollows == OutputsFollow /\ PageFirst /\ Step => OutputsFollow' /\ PageFirst'
<1> SUFFICES ASSUME OutputsFollow, PageFirst, TypeOK, [Next]_vars
             PROVE  OutputsFollow' /\ PageFirst'
  BY DEF Step
<1> USE DEF OutputsFollow, PageFirst, outputs, history
<1>1. ASSUME NEW to \in 0..MaxBlock, NEW chunkSize \in ChunkSizes, Fetch(to, chunkSize)
      PROVE  OutputsFollow' /\ PageFirst'
  <2> DEFINE from == IF Pending THEN checkpoint.snap ELSE file
             started == [Idle EXCEPT !.to = to, !.snap = Reannotated(from)]
  <2>1. started \in RunType
    BY IdleType, Snapshots, ReannotatedIs DEF RunType
  <2> HIDE DEF started
  <2>2. \/ run' = [started EXCEPT !.phase = "scan", !.chunkSize = chunkSize]
        \/ run' = [started EXCEPT !.phase = "verify"]
        \/ run' = Idle
    BY <1>1 DEF Fetch, started
  <2>3. run'.phase \in {"scan", "verify", "idle"}
    BY <2>1, <2>2, IdleType DEF RunType
  <2>4. run.phase = "idle" /\ UNCHANGED <<md, unresolved, file, torn>>
    BY <1>1 DEF Fetch
  <2> QED BY <2>3, <2>4 DEF Unresolved
<1>2. ASSUME NEW to \in 0..MaxBlock, NEW chunkSize \in ChunkSizes, Rebuild(to, chunkSize)
      PROVE  OutputsFollow' /\ PageFirst'
  <2>1. file' = Nothing /\ md' = Nothing /\ unresolved' = {}
    BY <1>2 DEF Rebuild
  <2>2. Unresolved(Nothing) = {}
    BY DEF Unresolved, Nothing, RolesOf
  <2> QED BY <2>1, <2>2 DEF Unresolved
<1>3. CASE ScanChunk
  <2> DEFINE end == LesserOf(run.snap.height + run.chunkSize, run.to)
             snap == Replay(run.snap, end)
  <2>1. run' = [run EXCEPT !.snap = snap, !.phase = IF end = run.to THEN "verify" ELSE "scan"]
    BY <1>3 DEF ScanChunk
  <2> HIDE DEF end, snap
  <2>2. run'.phase \in {"scan", "verify"}
    BY <2>1, Snapshots DEF RunType
  <2>3. run.phase = "scan" /\ UNCHANGED <<md, unresolved, file, torn>>
    BY <1>3 DEF ScanChunk
  <2> QED BY <2>2, <2>3 DEF Unresolved
<1>4. CASE VerifyDiff \/ Verify \/ Relabel
  BY <1>4, SaveFollows DEF VerifyDiff, Verify, Relabel
<1>5. CASE RenderMd
  <2>1. run'.phase = "unresolved" /\ md' = file /\ file' = file
    BY <1>5, Snapshots DEF RenderMd, RunType
  <2> QED BY <2>1
<1>6. CASE WriteUnresolved
  <2>1. run'.phase \in {"clear", "idle"}
    BY <1>6, Snapshots, IdleType DEF WriteUnresolved, RunType
  <2>2. md = file /\ unresolved' = Unresolved(file) /\ UNCHANGED <<md, file>>
    BY <1>6 DEF WriteUnresolved
  <2> QED BY <2>1, <2>2 DEF Unresolved
<1>7. CASE ClearCheckpoint
  BY <1>7, IdleType DEF ClearCheckpoint, Unresolved
<1>8. CASE RecordDroppedSignatures
  <2>1. run'.phase = "contracts" /\ run.phase = "archive"
    BY <1>8, IdleType DEF RecordDroppedSignatures, RunType
  <2> QED BY <1>8, <2>1 DEF RecordDroppedSignatures, Unresolved
<1>9. ASSUME NEW found \in SUBSET (Roles \ {DEFAULT_ADMIN_ROLE}), BuildSignatures(found)
      PROVE  OutputsFollow' /\ PageFirst'
  <2>1. run'.phase = "archive" /\ run.phase = "idle"
    BY <1>9, IdleType DEF BuildSignatures, RunType
  <2> QED BY <1>9, <2>1 DEF BuildSignatures, Unresolved
<1>10. ASSUME NEW found \in SUBSET (Roles \ {DEFAULT_ADMIN_ROLE}), BuildContracts(found)
       PROVE  OutputsFollow' /\ PageFirst'
  BY <1>10, IdleType DEF BuildContracts, Unresolved
<1>11. CASE Stop
  BY <1>11, IdleType DEF Stop, Unresolved
<1>12. ASSUME NEW height \in 1..Tip, Pull(height) PROVE OutputsFollow' /\ PageFirst'
  BY <1>12 DEF Pull, Save, Unresolved
<1>13. ASSUME NEW call \in Calls, Mine(call) PROVE OutputsFollow' /\ PageFirst'
  BY <1>13 DEF Mine, Unresolved
<1>14. CASE UNCHANGED vars
  BY <1>14 DEF vars, Unresolved
<1> QED
  BY <1>1, <1>2, <1>3, <1>4, <1>5, <1>6, <1>7, <1>8, <1>9, <1>10, <1>11, <1>12, <1>13, <1>14
     DEF Next

(* The page and the list of unresolved roles show the saved snapshot whenever  *)
(* no command died between saving it and writing them.                         *)
THEOREM OutputsAlwaysFollow == Spec => []OutputsFollow
<1>1. Init => OutputsFollow /\ PageFirst
  BY IdleType DEF Init, OutputsFollow, PageFirst, Unresolved, Nothing, RolesOf
<1> QED BY <1>1, NextFollows, TypeCorrect, PTL DEF Spec, Step

-----------------------------------------------------------------------------
(* Whatever any snapshot decodes can still be decoded, or was forgotten, or is *)
(* on its way to the archive; and a scan leaves no role undecoded that can be. *)
Parked  == IF run.phase = "archive" THEN run.dropped \cap addresses ELSE {}
Covered == Known \cup forgotten \cup Parked
Kept ==
    /\ file.decoded \cup checkpoint.snap.decoded \cup run.snap.decoded \cup resolved \subseteq Covered
    /\ run.phase \in {"scan", "verify"} => Unresolved(run.snap) \cap Known = {}
    /\ ResolvedStays

LEMMA UnionOfRoles ==
    \A a, b, c : c \subseteq a \cup b => RolesOf(c) \subseteq RolesOf(a) \cup RolesOf(b)
BY DEF RolesOf

(* What the three ways to make a snapshot leave undecoded. *)
LEMMA ReannotatedResolves ==
    \A snap \in SnapshotType : Unresolved(Reannotated(snap)) \cap Known = {}
BY ReannotatedIs DEF Unresolved

LEMMA ReplayResolves ==
    ASSUME TypeOK
    PROVE  \A snap \in SnapshotType, end \in 0..MaxBlock :
              Unresolved(Replay(snap, end)) \cap Known = {}
<1> SUFFICES ASSUME NEW snap \in SnapshotType, NEW end \in 0..MaxBlock
             PROVE  Unresolved(Replay(snap, end)) \cap Known = {}
  OBVIOUS
<1>1. RolesOf(Replay(snap, end).granted) \cap Known \subseteq Replay(snap, end).decoded
  BY ReplayIs
<1> QED BY <1>1 DEF Unresolved

LEMMA VerifiedResolves ==
    \A prev \in SnapshotType, snap \in SnapshotType :
        /\ RolesOf(prev.granted) \cap Known \subseteq prev.decoded
        /\ Unresolved(snap) \cap Known = {}
        => Unresolved(Verified(prev, snap)) \cap Known = {}
<1> SUFFICES ASSUME NEW prev \in SnapshotType, NEW snap \in SnapshotType,
                    RolesOf(prev.granted) \cap Known \subseteq prev.decoded,
                    Unresolved(snap) \cap Known = {}
             PROVE  Unresolved(Verified(prev, snap)) \cap Known = {}
  OBVIOUS
<1> DEFINE v == Verified(prev, snap)
           changed == Diff(prev, snap)
           granted == (snap.granted \ changed) \cup (changed \cap At(snap.height))
<1>1. /\ v.granted = granted
      /\ v.decoded = RolesOf(granted) \cap (snap.decoded \cup (prev.decoded \ RolesOf(snap.granted)))
  BY VerifiedIs
<1>2. granted \subseteq snap.granted \cup prev.granted
  BY DEF Diff
<1> HIDE DEF v, granted
<1>3. RolesOf(granted) \subseteq RolesOf(snap.granted) \cup RolesOf(prev.granted)
  BY <1>2, UnionOfRoles
<1>4. RolesOf(snap.granted) \cap Known \subseteq snap.decoded
  BY DEF Unresolved
<1>5. RolesOf(granted) \cap Known \subseteq v.decoded
  BY <1>1, <1>3, <1>4
<1>6. Unresolved(v) \cap Known = {}
  BY <1>1, <1>5 DEF Unresolved
<1> QED BY <1>6 DEF v

LEMMA SaveKept ==
    ASSUME TypeOK, Kept, NEW snap \in SnapshotType, Save(snap), NEW fetching \in BOOLEAN,
           run' = Publishing(fetching), run.phase # "archive",
           snap.decoded \subseteq Known \cup forgotten,
           Unresolved(snap) \cap resolved \subseteq forgotten,
           UNCHANGED <<chain, registry, checkpoint, forgotten>>
    PROVE  Kept'
<1>1. run'.phase = "render" /\ run'.snap.decoded = {}
  <2>1. run'.snap = Nothing
    BY DEF Publishing, Idle
  <2> QED BY <2>1, PublishingType DEF Nothing
<1>2. Known' = Known /\ Covered = Known \cup forgotten /\ Covered' = Covered
  BY <1>1 DEF Known, Covered, Parked, chain, registry
<1>3. ResolvedStays'
  BY DEF ResolvedStays, Save, Unresolved
<1>4. /\ file'.decoded \subseteq Covered' /\ resolved' \subseteq Covered'
      /\ checkpoint'.snap.decoded \subseteq Covered'
  BY <1>2 DEF Kept, Save
<1> QED BY <1>1, <1>3, <1>4 DEF Kept

LEMMA SaversKept ==
    ASSUME TypeOK, Kept, VerifyDiff \/ Verify \/ Relabel PROVE Kept'
<1> DEFINE prev == Reannotated(file)
<1>1. run.phase # "archive"
  BY DEF VerifyDiff, Verify, Relabel
<1>2. /\ file.decoded \cup run.snap.decoded \subseteq Known \cup forgotten
      /\ resolved \subseteq Known \cup forgotten
  BY <1>1 DEF Kept, Covered, Parked
<1>3. /\ prev \in SnapshotType /\ prev.granted = file.granted
      /\ prev.decoded = file.decoded \cup (RolesOf(file.granted) \cap Known)
  BY Snapshots, ReannotatedIs
<1> HIDE DEF prev
<1>4. CASE VerifyDiff
  <2> DEFINE v == Verified(prev, run.snap)
  <2>1. v \in SnapshotType /\ v.decoded \subseteq run.snap.decoded \cup prev.decoded
    <3> DEFINE changed == Diff(prev, run.snap)
               granted == (run.snap.granted \ changed) \cup (changed \cap At(run.snap.height))
    <3>1. /\ v \in SnapshotType
          /\ v.decoded = RolesOf(granted) \cap
                (run.snap.decoded \cup (prev.decoded \ RolesOf(run.snap.granted)))
      BY <1>3, Snapshots, VerifiedIs
    <3> HIDE DEF v, granted
    <3> QED BY <3>1
  <2>2. Unresolved(run.snap) \cap Known = {}
    BY <1>4 DEF Kept, VerifyDiff
  <2>3. RolesOf(prev.granted) \cap Known \subseteq prev.decoded
    BY <1>3
  <2>4. Unresolved(v) \cap Known = {}
    BY <1>3, <2>2, <2>3, Snapshots, VerifiedResolves
  <2>5. Save(v) /\ run' = Publishing(TRUE) /\ UNCHANGED <<chain, registry, checkpoint, forgotten>>
    BY <1>4 DEF VerifyDiff, prev
  <2> HIDE DEF v
  <2>6. v.decoded \subseteq Known \cup forgotten
    BY <1>2, <1>3, <2>1
  <2>7. Unresolved(v) \cap resolved \subseteq forgotten
    BY <1>2, <2>4
  <2> QED BY <1>1, <2>1, <2>5, <2>6, <2>7, SaveKept
<1>5. CASE Verify
  <2> DEFINE v == Swept(file)
  <2>1. /\ v \in SnapshotType /\ v.granted \subseteq file.granted
        /\ v.decoded = file.decoded \cap RolesOf(v.granted)
    BY Snapshots, SweptIs
  <2>2. Save(v) /\ run' = Publishing(FALSE) /\ UNCHANGED <<chain, registry, checkpoint, forgotten>>
    BY <1>5 DEF Verify
  <2> HIDE DEF v
  <2>3. Unresolved(v) \subseteq Unresolved(file)
    BY <2>1 DEF Unresolved, RolesOf
  <2>4. Unresolved(v) \cap resolved \subseteq forgotten
    BY <2>3 DEF Kept, ResolvedStays
  <2> QED BY <1>1, <1>2, <2>1, <2>2, <2>4, SaveKept
<1>6. CASE Relabel
  <2>1. Save(prev) /\ run' = Publishing(FALSE) /\ UNCHANGED <<chain, registry, checkpoint, forgotten>>
    BY <1>6 DEF Relabel, prev
  <2>2. Unresolved(prev) \cap resolved \subseteq forgotten
    BY <1>2, <1>3 DEF Unresolved
  <2> QED BY <1>1, <1>2, <1>3, <2>1, <2>2, SaveKept
<1> QED BY <1>4, <1>5, <1>6

LEMMA FetchKept ==
    ASSUME TypeOK, Kept, NEW to \in 0..MaxBlock, NEW chunkSize \in ChunkSizes,
           Fetch(to, chunkSize) \/ Rebuild(to, chunkSize)
    PROVE  Kept'
<1>1. run.phase = "idle" /\ Known' = Known /\ forgotten' = forgotten /\ resolved' = resolved
  <2>1. run.phase = "idle" /\ UNCHANGED <<legacy, generated, archived, addresses, forgotten, resolved>>
    BY DEF Fetch, Rebuild, chain, registry, history
  <2> QED BY <2>1 DEF Known
<1>2. Covered = Known \cup forgotten
  BY <1>1 DEF Covered, Parked
<1>3. CASE Fetch(to, chunkSize)
  <2> DEFINE from == IF Pending THEN checkpoint.snap ELSE file
             snap == Reannotated(from)
             started == [Idle EXCEPT !.to = to, !.snap = snap]
  <2>1. /\ snap \in SnapshotType /\ Unresolved(snap) \cap Known = {}
        /\ snap.decoded \subseteq Known \cup forgotten
    <3>1. from \in SnapshotType /\ from.decoded \subseteq Known \cup forgotten
      BY <1>2, Snapshots DEF Kept
    <3> HIDE DEF from
    <3> QED BY <3>1, ReannotatedIs, ReannotatedResolves
  <2>2. started.snap = snap /\ started \in RunType
    BY <2>1, IdleType DEF RunType
  <2>3. \/ run' = [started EXCEPT !.phase = "scan", !.chunkSize = chunkSize]
        \/ run' = [started EXCEPT !.phase = "verify"]
        \/ run' = Idle
    BY <1>3 DEF Fetch
  <2> HIDE DEF started, snap
  <2>4. \/ run'.phase \in {"scan", "verify"} /\ run'.snap = snap
        \/ run'.phase = "idle" /\ run'.snap = Nothing
    <3>1. Idle.phase = "idle" /\ Idle.snap = Nothing
      BY DEF Idle
    <3> QED BY <2>2, <2>3, <3>1 DEF RunType
  <2>5. Covered' = Covered
    BY <1>1, <1>2, <2>4 DEF Covered, Parked
  <2>6. run'.snap.decoded \subseteq Known \cup forgotten
        /\ (run'.phase \in {"scan", "verify"} => Unresolved(run'.snap) \cap Known = {})
    BY <2>1, <2>4 DEF Nothing
  <2>7. file' = file /\ checkpoint'.snap.decoded \subseteq Covered
    BY <1>3 DEF Fetch, Kept, NoCheckpoint, Nothing
  <2> QED BY <1>1, <1>2, <2>5, <2>6, <2>7 DEF Kept, ResolvedStays, Unresolved
<1>4. CASE Rebuild(to, chunkSize)
  <2>1. run'.phase \in {"idle", "scan"} /\ run'.snap = Nothing
    BY <1>4 DEF Rebuild, Idle
  <2>2. Covered' = Covered
    BY <1>1, <1>2, <2>1 DEF Covered, Parked
  <2>3. file' = Nothing /\ checkpoint'.snap = Nothing
    BY <1>4 DEF Rebuild, NoCheckpoint
  <2>4. Nothing.decoded = {} /\ Unresolved(Nothing) = {}
    BY DEF Nothing, Unresolved, RolesOf
  <2> QED BY <1>1, <2>1, <2>2, <2>3, <2>4 DEF Kept, ResolvedStays, Unresolved
<1> QED BY <1>3, <1>4

LEMMA ScanKept == ASSUME TypeOK, Kept, ScanChunk PROVE Kept'
<1> DEFINE end == LesserOf(run.snap.height + run.chunkSize, run.to)
           snap == Replay(run.snap, end)
<1>1. end \in 0..MaxBlock
  <2>1. ChunkSizes \subseteq Nat /\ 0 \in Nat
    BY SnapshotAssumption
  <2>2. run.to \in 0..MaxBlock /\ run.chunkSize \in {0} \cup ChunkSizes
    BY Snapshots DEF RunType
  <2>3. run.chunkSize \in Nat
    BY <2>1, <2>2
  <2> QED BY <2>2, <2>3, Snapshots, SnapshotAssumption DEF LesserOf
<1>2. Unresolved(snap) \cap Known = {} /\ snap.decoded \subseteq run.snap.decoded \cup Known
  BY <1>1, Snapshots, ReplayIs, ReplayResolves
<1>3. /\ run' = [run EXCEPT !.snap = snap, !.phase = IF end = run.to THEN "verify" ELSE "scan"]
      /\ checkpoint'.snap = snap /\ run.phase = "scan"
      /\ UNCHANGED <<chain, registry, file, history>>
  BY DEF ScanChunk
<1> HIDE DEF end, snap
<1>4. run'.snap = snap /\ run'.phase \in {"scan", "verify"}
  BY <1>3, Snapshots DEF RunType
<1>5. Known' = Known /\ Covered = Known \cup forgotten /\ Covered' = Covered
  BY <1>3, <1>4 DEF Known, Covered, Parked, chain, registry, history
<1> QED BY <1>2, <1>3, <1>4, <1>5 DEF Kept, ResolvedStays, Unresolved, history

(* build-registry: a role leaves Known for the archive, or for good. *)
LEMMA RegistryKept ==
    ASSUME TypeOK, Kept,
           \/ RecordDroppedSignatures
           \/ \E found \in SUBSET (Roles \ {DEFAULT_ADMIN_ROLE}) :
                 BuildSignatures(found) \/ BuildContracts(found)
    PROVE  Kept'
<1>1. /\ run'.phase \in {"archive", "contracts", "idle"} /\ run'.snap.decoded = {}
      /\ UNCHANGED <<file, checkpoint, resolved>> /\ forgotten \subseteq forgotten'
  <2>1. \/ run' = [Idle EXCEPT !.phase = "contracts"]
        \/ \E dropped : run' = [Idle EXCEPT !.phase = "archive", !.dropped = dropped]
        \/ run' = Idle
    BY DEF RecordDroppedSignatures, BuildSignatures, BuildContracts
  <2>2. run'.phase \in {"archive", "contracts", "idle"} /\ run'.snap.decoded = {}
    <3>1. Nothing.decoded = {}
      BY DEF Nothing
    <3>2. CASE run' = [Idle EXCEPT !.phase = "contracts"]
      BY <3>1, <3>2 DEF Idle
    <3>3. ASSUME NEW dropped, run' = [Idle EXCEPT !.phase = "archive", !.dropped = dropped]
          PROVE  run'.phase = "archive" /\ run'.snap.decoded = {}
      BY <3>1, <3>3 DEF Idle
    <3>4. CASE run' = Idle
      BY <3>1, <3>4 DEF Idle
    <3> QED BY <2>1, <3>2, <3>3, <3>4
  <2>3. UNCHANGED <<file, checkpoint, resolved>> /\ forgotten \subseteq forgotten'
    BY DEF RecordDroppedSignatures, BuildSignatures, BuildContracts, history
  <2> QED BY <2>2, <2>3
<1>2. Covered \subseteq Covered'
  <2>1. CASE RecordDroppedSignatures
    <3>1. /\ run.phase = "archive" /\ archived' = archived \cup run.dropped
          /\ UNCHANGED <<legacy, generated, addresses, forgotten>>
      BY <2>1 DEF RecordDroppedSignatures, chain, history
    <3>2. Known \cup Parked \subseteq Known' \/ ~legacy
      BY <3>1 DEF Known, Parked
    <3>3. run.dropped \subseteq Roles
      BY Snapshots DEF RunType
    <3>4. ~legacy => Known \cup Parked \subseteq Known'
      BY <3>1, <3>3 DEF Known, Parked
    <3> QED BY <3>1, <3>2, <3>4 DEF Covered
  <2>2. ASSUME NEW found \in SUBSET (Roles \ {DEFAULT_ADMIN_ROLE}), BuildSignatures(found)
        PROVE  Covered \subseteq Covered'
    <3>1. /\ run.phase = "idle" /\ generated' = found /\ legacy
          /\ run'.phase = "archive" /\ run'.dropped = generated \ found
          /\ UNCHANGED <<legacy, archived, addresses, forgotten>>
      BY <2>2 DEF BuildSignatures, chain, history, Idle
    <3> QED BY <3>1 DEF Covered, Known, Parked
  <2>3. ASSUME NEW found \in SUBSET (Roles \ {DEFAULT_ADMIN_ROLE}), BuildContracts(found)
        PROVE  Covered \subseteq Covered'
    <3>1. /\ run.phase = "contracts" /\ addresses' = found
          /\ forgotten' = forgotten \cup (addresses \ found)
          /\ UNCHANGED <<legacy, generated, archived>>
      BY <2>3 DEF BuildContracts, chain
    <3> QED BY <3>1 DEF Covered, Known, Parked
  <2> QED BY <2>1, <2>2, <2>3
<1> QED BY <1>1, <1>2 DEF Kept, ResolvedStays, Unresolved

LEMMA StopKept == ASSUME TypeOK, Kept, Stop PROVE Kept'
<1>1. /\ run'.phase = "idle" /\ run'.snap.decoded = {}
      /\ UNCHANGED <<file, checkpoint, resolved, legacy, generated, archived, addresses>>
      /\ forgotten' = IF run.phase = "archive"
                      THEN forgotten \cup (run.dropped \ archived) ELSE forgotten
  BY DEF Stop, Idle, Nothing, chain, registry
<1>2. run.dropped \subseteq Roles
  BY Snapshots DEF RunType
<1>3. Known' = Known
  BY <1>1 DEF Known
<1>4. Parked \subseteq Known \cup forgotten'
  BY <1>1, <1>2 DEF Parked, Known
<1>5. Covered \subseteq Covered' /\ forgotten \subseteq forgotten'
  BY <1>1, <1>3, <1>4 DEF Covered
<1> QED BY <1>1, <1>5 DEF Kept, ResolvedStays, Unresolved

LEMMA PullKept == ASSUME TypeOK, Kept, NEW height \in 1..Tip, Pull(height) PROVE Kept'
<1> DEFINE scan == Replay(Nothing, height)
           snap == Verified(Nothing, scan)
<1>1. height \in 0..MaxBlock
  BY SnapshotAssumption DEF TypeOK, Tip
<1>2. scan \in SnapshotType /\ Unresolved(scan) \cap Known = {}
      /\ scan.decoded \subseteq Nothing.decoded \cup Known
  BY <1>1, NothingType, ReplayIs, ReplayResolves
<1>3. Nothing.granted = {} /\ Nothing.decoded = {} /\ RolesOf({}) = {}
  BY DEF Nothing, RolesOf
<1> HIDE DEF scan
<1>4. snap \in SnapshotType /\ snap.decoded \subseteq scan.decoded
  <2> DEFINE changed == Diff(Nothing, scan)
             granted == (scan.granted \ changed) \cup (changed \cap At(scan.height))
  <2>1. /\ snap \in SnapshotType
        /\ snap.decoded = RolesOf(granted) \cap
              (scan.decoded \cup (Nothing.decoded \ RolesOf(scan.granted)))
    BY <1>2, NothingType, VerifiedIs
  <2> HIDE DEF snap, granted
  <2> QED BY <1>3, <2>1
<1>5. Unresolved(snap) \cap Known = {}
  BY <1>2, <1>3, NothingType, VerifiedResolves
<1>6. /\ file' = snap /\ resolved' = resolved \cup snap.decoded
      /\ run.phase = "idle"
      /\ UNCHANGED <<legacy, generated, archived, addresses, checkpoint, run, forgotten>>
  BY DEF Pull, Save, chain, registry, scan
<1> HIDE DEF snap
<1>7. Known' = Known /\ Covered = Known \cup forgotten /\ Covered' = Covered
  BY <1>6 DEF Known, Covered, Parked
<1> QED BY <1>2, <1>3, <1>4, <1>5, <1>6, <1>7 DEF Kept, ResolvedStays, Unresolved

(* The steps that touch neither snapshots in the making nor the registry. *)
LEMMA OthersKept ==
    ASSUME TypeOK, Kept,
           \/ \E call \in Calls : Mine(call)
           \/ RenderMd \/ WriteUnresolved \/ ClearCheckpoint \/ UNCHANGED vars
    PROVE  Kept'
<1>1. /\ UNCHANGED <<file, resolved, forgotten, legacy, generated, archived, addresses>>
      /\ checkpoint' = checkpoint \/ checkpoint' = NoCheckpoint
  BY DEF Mine, RenderMd, WriteUnresolved, ClearCheckpoint, vars, chain, registry, history
<1>2. \/ run' = run
      \/ run.phase # "archive" /\ run'.phase \in {"idle", "unresolved", "clear"}
         /\ run'.snap.decoded \in {{}, run.snap.decoded}
  <2>1. Idle.phase = "idle" /\ Idle.snap.decoded = {}
    BY DEF Idle, Nothing
  <2>2. CASE RenderMd
    BY <2>2, Snapshots DEF RenderMd, RunType
  <2>3. CASE WriteUnresolved
    BY <2>1, <2>3, Snapshots DEF WriteUnresolved, RunType
  <2>4. CASE ClearCheckpoint
    BY <2>1, <2>4 DEF ClearCheckpoint
  <2>5. CASE run' = run
    BY <2>5
  <2> QED BY <2>2, <2>3, <2>4, <2>5 DEF Mine, vars
<1>3. NoCheckpoint.snap.decoded = {}
  BY DEF NoCheckpoint, Nothing
<1>4. Known' = Known
  BY <1>1 DEF Known
<1>5. Covered' = Covered
  BY <1>1, <1>2, <1>4 DEF Covered, Parked
<1>6. checkpoint'.snap.decoded \cup run'.snap.decoded \subseteq Covered
  BY <1>1, <1>2, <1>3 DEF Kept
<1>7. run'.phase \in {"scan", "verify"} => Unresolved(run'.snap) \cap Known = {}
  BY <1>2 DEF Kept
<1> QED BY <1>1, <1>4, <1>5, <1>6, <1>7 DEF Kept, ResolvedStays, Unresolved

LEMMA NextKept == Kept /\ Step => Kept'
BY SaversKept, FetchKept, ScanKept, RegistryKept, StopKept, PullKept, OthersKept DEF Step, Next

(* A role some snapshot could name is named by every later one that has it,    *)
(* however signatures come and go in the sources, unless its contract left the *)
(* deployments or build-registry died before it archived the signature.        *)
THEOREM ResolvedAlwaysStays == Spec => []ResolvedStays
<1>1. Init => Kept
  BY DEF Init, Kept, ResolvedStays, Unresolved, RolesOf, NoCheckpoint, Idle, Nothing
<1>2. Kept => ResolvedStays
  BY DEF Kept
<1> QED BY <1>1, <1>2, NextKept, TypeCorrect, PTL DEF Spec, Step

-----------------------------------------------------------------------------
(* The chain: what the manager grants changes by one entry a block.            *)

LEMMA LeastOf == ASSUME NEW S \in SUBSET Nat, S # {} PROVE \E m \in S : \A x \in S : m <= x
<1>1. PICK m \in S : \A x \in S : ~ (<<x, m>> \in OpToRel(<, Nat))
  BY WFMin, NatLessThanWellFounded
<1>2. \A x, y \in Nat : x < y => <<x, y>> \in OpToRel(<, Nat)
  BY DEF OpToRel
<1>3. \A x \in S : ~ (x < m)
  BY <1>1, <1>2
<1> QED BY <1>3

LEMMA GreatestOf ==
    ASSUME NEW n \in Nat, NEW S \in SUBSET (0..n), S # {}
    PROVE  \E m \in S : \A x \in S : x <= m
<1> DEFINE T == {k \in Nat : n - k \in S}
<1>1. \A x \in S : n - x \in T
  OBVIOUS
<1>2. PICK k \in T : \A j \in T : k <= j
  BY <1>1, LeastOf
<1>3. n - k \in S /\ \A x \in S : x <= n - k
  BY <1>1, <1>2
<1> QED BY <1>3

ChainOK == \A b \in 1..Tip : blocks[b].after = Effect(At(b - 1), blocks[b].call)

LEMMA TipType ==
    ASSUME TypeOK
    PROVE  /\ Tip \in Nat
           /\ \A b \in 1..Tip : blocks[b].call \in Calls
<1>1. blocks \in Seq(Block)
  BY DEF TypeOK, Block
<1>2. \A block \in Block : block.call \in Calls
  BY DEF Block
<1> QED BY <1>1, <1>2 DEF Tip

LEMMA CallsAre ==
    \A call \in Calls : /\ call.op \in GrantCalls \cup RevokeCalls
                        /\ call.op \in GrantCalls => call.op \notin RevokeCalls
<1>1. \A op \in GrantCalls : op \notin RevokeCalls
  BY DEF GrantCalls, RevokeCalls
<1>2. \A call \in Calls : call.op \in Ops
  BY DEF Calls
<1> QED BY <1>1, <1>2, SnapshotAssumption

(* Beyond the tip, the state is the last one. *)
LEMMA AtLesser ==
    ASSUME TypeOK
    PROVE  \A height \in Nat : /\ LesserOf(height, Tip) \in 0..Tip
                               /\ LesserOf(height, Tip) <= height
                               /\ At(height) = At(LesserOf(height, Tip))
BY TipType DEF At, LesserOf

LEMMA BlockEffect ==
    ASSUME TypeOK, ChainOK, NEW b \in 1..Tip, NEW e \in Entries
    PROVE  /\ e # Entry(b) => (e \in At(b) <=> e \in At(b - 1))
           /\ e = Entry(b) => (e \in At(b) <=> blocks[b].call.op \in GrantCalls)
<1>1. At(b) = blocks[b].after
  BY TipType DEF At, LesserOf
<1>2. At(b) = Effect(At(b - 1), blocks[b].call)
  BY <1>1 DEF ChainOK
<1> QED BY <1>2 DEF Effect, Entry

LEMMA NoChangeBetween ==
    ASSUME TypeOK, NEW e \in Entries, NEW hi \in 0..Tip, NEW lo \in 0..hi,
           \A b \in (lo + 1)..hi : ~Changes(b, e)
    PROVE  e \in At(lo) <=> e \in At(hi)
<1> SUFFICES ASSUME ~(e \in At(lo) <=> e \in At(hi)) PROVE FALSE
  OBVIOUS
<1> DEFINE S == {b \in lo..hi : ~(e \in At(b) <=> e \in At(lo))}
<1>1. hi \in S /\ S \in SUBSET Nat /\ lo \notin S
  BY TipType
<1>2. PICK m \in S : \A x \in S : m <= x
  BY <1>1, LeastOf
<1>3. m \in (lo + 1)..hi /\ m - 1 \in lo..hi /\ m - 1 \notin S
  BY <1>1, <1>2, TipType
<1>4. Changes(m, e)
  BY <1>2, <1>3 DEF Changes
<1> QED BY <1>3, <1>4

(* The last change up to a block, if there is one after "lo". *)
LEMMA LastChange ==
    ASSUME TypeOK, NEW e \in Entries, NEW hi \in 0..Tip, NEW lo \in 0..hi,
           ~(\A b \in (lo + 1)..hi : ~Changes(b, e))
    PROVE  \E b \in (lo + 1)..hi : Changes(b, e) /\ \A c \in (b + 1)..hi : ~Changes(c, e)
<1> DEFINE S == {b \in (lo + 1)..hi : Changes(b, e)}
<1>1. S # {} /\ S \in SUBSET (0..hi) /\ hi \in Nat
  BY TipType
<1>2. PICK m \in S : \A x \in S : x <= m
  BY <1>1, GreatestOf
<1>3. \A c \in (m + 1)..hi : ~Changes(c, e)
  <2> SUFFICES ASSUME NEW c \in (m + 1)..hi, Changes(c, e) PROVE FALSE
    OBVIOUS
  <2>1. c \in S
    BY <1>1, <1>2
  <2> QED BY <1>1, <1>2, <2>1
<1> QED BY <1>2, <1>3

-----------------------------------------------------------------------------
(* Each way to make a snapshot keeps it true but for hidden changes.           *)

LEMMA NothingIsTrue == TrueUnlessHidden(Nothing) /\ Nothing.seen = {}
BY DEF TrueUnlessHidden, Nothing, At

LEMMA CorrectedIsTrue ==
    ASSUME NEW old \in SnapshotType, NEW new \in SnapshotType, TrueUnlessHidden(old),
           new.height = old.height, new.seen = old.seen,
           \A e \in Entries :
               (e \in new.granted <=> e \in At(old.height)) \/ (e \in new.granted <=> e \in old.granted)
    PROVE  TrueUnlessHidden(new)
<1>1. \A e \in Entries : HiddenChange(old, e) => HiddenChange(new, e)
  BY DEF HiddenChange
<1> QED BY <1>1 DEF TrueUnlessHidden

LEMMA ReannotatedIsTrue ==
    \A snap \in SnapshotType : TrueUnlessHidden(snap) => TrueUnlessHidden(Reannotated(snap))
<1> SUFFICES ASSUME NEW snap \in SnapshotType, TrueUnlessHidden(snap)
             PROVE  TrueUnlessHidden(Reannotated(snap))
  OBVIOUS
<1> DEFINE v == Reannotated(snap)
<1>1. /\ v \in SnapshotType /\ v.height = snap.height /\ v.seen = snap.seen
      /\ v.granted = snap.granted
  BY ReannotatedIs
<1> HIDE DEF v
<1>2. TrueUnlessHidden(v)
  BY <1>1, CorrectedIsTrue
<1> QED BY <1>2 DEF v

LEMMA SweptIsTrue ==
    \A snap \in SnapshotType : TrueUnlessHidden(snap) => TrueUnlessHidden(Swept(snap))
<1> SUFFICES ASSUME NEW snap \in SnapshotType, TrueUnlessHidden(snap)
             PROVE  TrueUnlessHidden(Swept(snap))
  OBVIOUS
<1> DEFINE v == Swept(snap)
<1>1. /\ v \in SnapshotType /\ v.height = snap.height /\ v.seen = snap.seen
      /\ v.granted = snap.granted \cap At(snap.height)
  BY SweptIs
<1> HIDE DEF v
<1>2. ASSUME NEW e \in Entries
      PROVE  (e \in v.granted <=> e \in At(snap.height)) \/ (e \in v.granted <=> e \in snap.granted)
  <2>1. CASE e \in snap.granted
    BY <1>1, <2>1
  <2>2. CASE e \notin snap.granted
    BY <1>1, <2>2
  <2> QED BY <2>1, <2>2
<1>3. TrueUnlessHidden(v)
  BY <1>1, <1>2, CorrectedIsTrue
<1> QED BY <1>3 DEF v

LEMMA VerifiedIsTrue ==
    \A prev \in SnapshotType, snap \in SnapshotType :
        TrueUnlessHidden(snap) => TrueUnlessHidden(Verified(prev, snap))
<1> SUFFICES ASSUME NEW prev \in SnapshotType, NEW snap \in SnapshotType, TrueUnlessHidden(snap)
             PROVE  TrueUnlessHidden(Verified(prev, snap))
  OBVIOUS
<1> DEFINE v == Verified(prev, snap)
           changed == Diff(prev, snap)
<1>1. /\ v \in SnapshotType /\ v.height = snap.height /\ v.seen = snap.seen
      /\ v.granted = (snap.granted \ changed) \cup (changed \cap At(snap.height))
  BY VerifiedIs
<1> HIDE DEF v, changed
<1>2. ASSUME NEW e \in Entries
      PROVE  (e \in v.granted <=> e \in At(snap.height)) \/ (e \in v.granted <=> e \in snap.granted)
  <2>1. CASE e \in changed
    BY <1>1, <2>1
  <2>2. CASE e \notin changed
    BY <1>1, <2>2
  <2> QED BY <2>1, <2>2
<1>3. TrueUnlessHidden(v)
  BY <1>1, <1>2, CorrectedIsTrue
<1> QED BY <1>3 DEF v

(* A scan replays what it sees in the order of the blocks: the last event of   *)
(* an entry decides, and a change after it, or without any, was hidden.        *)
LEMMA ReplayIsTrue ==
    ASSUME TypeOK, ChainOK, NEW snap \in SnapshotType, TrueUnlessHidden(snap),
           NEW end \in 0..MaxBlock, snap.height <= end
    PROVE  TrueUnlessHidden(Replay(snap, end))
<1> DEFINE new == Replay(snap, end)
           L0 == LesserOf(snap.height, Tip)
           L1 == LesserOf(end, Tip)
           W == (L0 + 1)..L1
<1>1. snap.height \in Nat /\ end \in Nat /\ Tip \in Nat
  BY TipType, SnapshotAssumption DEF SnapshotType
<1>2. L0 \in 0..L1 /\ L1 \in 0..Tip /\ (snap.height + 1)..L1 = W
  BY <1>1 DEF LesserOf
<1>3. /\ new.height = end /\ new.seen = snap.seen \cup W
      /\ new.granted = GrantedAfter(snap.granted, snap.height + 1, L1)
  <2>1. /\ new.height = end /\ new.seen = snap.seen \cup ((snap.height + 1)..L1)
        /\ new.granted = GrantedAfter(snap.granted, snap.height + 1, L1)
    BY ReplayIs
  <2> HIDE DEF new, L0, L1
  <2> QED BY <1>2, <2>1
<1>4. At(snap.height) = At(L0) /\ At(end) = At(L1)
  BY <1>1, AtLesser
<1>5. \A e \in Entries : e \in new.granted <=>
          \/ e \in snap.granted /\ \A b \in W : ~Revokes(b, e)
          \/ \E b \in W : Grants(b, e) /\ \A c \in (b + 1)..L1 : ~Revokes(c, e)
  BY <1>2, <1>3 DEF GrantedAfter
<1> HIDE DEF new, L0, L1
<1> SUFFICES ASSUME NEW e \in Entries, ~(e \in new.granted <=> e \in At(L1))
             PROVE  HiddenChange(new, e)
  BY <1>3, <1>4 DEF TrueUnlessHidden, new
<1>6. W \subseteq 1..Tip /\ W \subseteq 1..L1 /\ 0 <= L1
  BY <1>1, <1>2
<1>7. \A b \in 1..L1 : /\ Changes(b, e) /\ (\A c \in (b + 1)..L1 : ~Changes(c, e))
                       /\ b \notin new.seen \/ ~Announced(b)
                       => HiddenChange(new, e)
  BY <1>3 DEF HiddenChange, L1
<1>8. ASSUME NEW lo \in L0..L1, \A b \in (lo + 1)..L1 : ~(Entry(b) = e /\ Announced(b)),
             ~(\A b \in (lo + 1)..L1 : ~Changes(b, e))
      PROVE  HiddenChange(new, e)
  <2>1. lo \in 0..L1
    BY <1>2, <1>8
  <2>2. PICK b \in (lo + 1)..L1 : Changes(b, e) /\ \A c \in (b + 1)..L1 : ~Changes(c, e)
    BY <1>2, <1>8, <2>1, LastChange
  <2>3. b \in 1..Tip /\ b \in 1..L1
    BY <1>1, <1>2, <2>1, <2>2
  <2>4. Entry(b) = e
    BY <2>2, <2>3, BlockEffect DEF Changes
  <2>5. ~Announced(b)
    BY <1>8, <2>2, <2>4
  <2> QED BY <1>7, <2>2, <2>3, <2>5
<1>9. CASE \E b \in W : Entry(b) = e /\ Announced(b)
  <2> DEFINE S == {b \in W : Entry(b) = e /\ Announced(b)}
  <2>1. S # {} /\ S \in SUBSET (0..L1) /\ L1 \in Nat
    BY <1>1, <1>2, <1>9
  <2>2. PICK c \in S : \A x \in S : x <= c
    BY <2>1, GreatestOf
  <2>3. c \in 1..Tip /\ c \in W /\ c \in L0..L1 /\ Entry(c) = e /\ Announced(c)
    BY <1>1, <1>2, <2>2
  <2>4. \A b \in (c + 1)..L1 : ~(Entry(b) = e /\ Announced(b))
    <3> SUFFICES ASSUME NEW b \in (c + 1)..L1, Entry(b) = e, Announced(b) PROVE FALSE
      OBVIOUS
    <3>1. b \in W /\ b > c
      BY <1>1, <1>2, <2>3
    <3> QED BY <1>1, <1>2, <2>2, <2>3, <3>1
  <2>5. e \in At(c) <=> blocks[c].call.op \in GrantCalls
    BY <2>3, BlockEffect
  <2>6. /\ blocks[c].call.op \in GrantCalls \cup RevokeCalls
        /\ blocks[c].call.op \in GrantCalls => blocks[c].call.op \notin RevokeCalls
    BY <2>3, TipType, CallsAre
  <2>7. e \in new.granted <=> blocks[c].call.op \in GrantCalls
    <3>1. CASE blocks[c].call.op \in GrantCalls
      <4>1. Grants(c, e) /\ \A b \in (c + 1)..L1 : ~Revokes(b, e)
        BY <2>3, <2>4, <3>1 DEF Grants, Revokes
      <4> QED BY <1>5, <2>3, <3>1, <4>1
    <3>2. CASE blocks[c].call.op \notin GrantCalls
      <4>1. Revokes(c, e)
        BY <2>3, <2>6, <3>2 DEF Revokes
      <4>2. ASSUME NEW b \in W, Grants(b, e) PROVE c \in (b + 1)..L1
        <5>1. b \in S /\ b # c
          BY <3>2, <4>2 DEF Grants
        <5> QED BY <1>1, <1>2, <2>2, <2>3, <5>1
      <4> QED BY <1>5, <2>3, <3>2, <4>1, <4>2
    <3> QED BY <3>1, <3>2
  <2>8. ~(e \in At(c) <=> e \in At(L1))
    BY <2>5, <2>7
  <2>9. ~(\A b \in (c + 1)..L1 : ~Changes(b, e))
    <3>1. c \in 0..L1
      BY <1>1, <1>2, <2>3
    <3> QED BY <1>2, <2>8, <3>1, NoChangeBetween
  <2> QED BY <1>8, <2>3, <2>4, <2>9
<1>10. CASE ~\E b \in W : Entry(b) = e /\ Announced(b)
  <2>1. \A b \in W : ~Grants(b, e) /\ ~Revokes(b, e)
    BY <1>10 DEF Grants, Revokes
  <2>2. e \in new.granted <=> e \in snap.granted
    BY <1>5, <2>1
  <2>3. CASE ~(\A b \in W : ~Changes(b, e))
    <3>1. L0 \in L0..L1
      BY <1>1, <1>2
    <3> QED BY <1>8, <1>10, <2>3, <3>1
  <2>4. CASE \A b \in W : ~Changes(b, e)
    <3>1. e \in At(L0) <=> e \in At(L1)
      BY <1>2, <2>4, NoChangeBetween
    <3>2. HiddenChange(snap, e)
      BY <1>4, <2>2, <3>1 DEF TrueUnlessHidden
    <3>3. PICK b \in 1..L0 : /\ Changes(b, e)
                             /\ \A c \in (b + 1)..L0 : ~Changes(c, e)
                             /\ b \notin snap.seen \/ ~Announced(b)
      BY <3>2 DEF HiddenChange, L0
    <3>4. b \in 1..L1 /\ b \notin W
      BY <1>1, <1>2, <3>3
    <3>5. \A c \in (b + 1)..L1 : ~Changes(c, e)
      <4> SUFFICES ASSUME NEW c \in (b + 1)..L1 PROVE ~Changes(c, e)
        OBVIOUS
      <4>1. c \in (b + 1)..L0 \/ c \in W
        BY <1>1, <1>2
      <4> QED BY <2>4, <3>3, <4>1
    <3>6. b \notin new.seen \/ ~Announced(b)
      BY <1>3, <3>3, <3>4
    <3> QED BY <1>7, <3>3, <3>4, <3>5, <3>6
  <2> QED BY <2>3, <2>4
<1> QED BY <1>9, <1>10

-----------------------------------------------------------------------------
(* The same of any chain "bs", to compare the chain before and after a step.   *)

AtOf(bs, height) == IF height = 0 \/ Len(bs) = 0 THEN {}
                    ELSE bs[LesserOf(height, Len(bs))].after
ChangesOf(bs, b, e) == (e \in AtOf(bs, b)) # (e \in AtOf(bs, b - 1))
AnnouncedOf(old, bs, b) == IF old THEN AtOf(bs, b) # AtOf(bs, b - 1)
                           ELSE bs[b].call.op \in PermissionCalls
HiddenOf(old, bs, snap, e) ==
    \E b \in 1..LesserOf(snap.height, Len(bs)) :
        /\ ChangesOf(bs, b, e)
        /\ \A c \in b + 1..LesserOf(snap.height, Len(bs)) : ~ChangesOf(bs, c, e)
        /\ b \notin snap.seen \/ ~AnnouncedOf(old, bs, b)
TrueOf(old, bs, snap) ==
    \A e \in Entries :
        (e \in snap.granted) # (e \in AtOf(bs, snap.height)) => HiddenOf(old, bs, snap, e)

LEMMA TrueNow == \A snap : TrueUnlessHidden(snap) <=> TrueOf(legacy, blocks, snap)
BY DEF TrueUnlessHidden, HiddenChange, Announced, Changes, At, Tip,
       TrueOf, HiddenOf, AnnouncedOf, ChangesOf, AtOf

LEMMA TrueThen ==
    /\ TrueUnlessHidden(file)' <=> TrueOf(legacy', blocks', file')
    /\ TrueUnlessHidden(checkpoint.snap)' <=> TrueOf(legacy', blocks', checkpoint'.snap)
    /\ TrueUnlessHidden(run.snap)' <=> TrueOf(legacy', blocks', run'.snap)
BY DEF TrueUnlessHidden, HiddenChange, Announced, Changes, At, Tip,
       TrueOf, HiddenOf, AnnouncedOf, ChangesOf, AtOf

(* A block more: what was said of the blocks before stays, and a snapshot that *)
(* claims to know of it has not seen it.                                       *)
LEMMA BlockExtends ==
    ASSUME NEW bs \in Seq(Block), NEW block \in Block, NEW old
    PROVE  LET more == Append(bs, block)
           IN /\ Len(bs) \in Nat /\ Len(more) = Len(bs) + 1
              /\ more[Len(bs) + 1] = block
              /\ \A b \in 1..Len(bs) : more[b] = bs[b]
              /\ \A h \in 0..Len(bs) : AtOf(more, h) = AtOf(bs, h)
              /\ \A b \in 1..Len(bs) : AnnouncedOf(old, more, b) <=> AnnouncedOf(old, bs, b)
              /\ \A b \in 1..Len(bs) : \A e : ChangesOf(more, b, e) <=> ChangesOf(bs, b, e)
<1> DEFINE more == Append(bs, block)
<1>1. /\ Len(bs) \in Nat /\ Len(more) = Len(bs) + 1 /\ more[Len(bs) + 1] = block
      /\ \A b \in 1..Len(bs) : more[b] = bs[b]
  OBVIOUS
<1> HIDE DEF more
<1>2. \A h \in 0..Len(bs) : AtOf(more, h) = AtOf(bs, h)
  BY <1>1 DEF AtOf, LesserOf
<1>3. \A b \in 1..Len(bs) : b \in 0..Len(bs) /\ b - 1 \in 0..Len(bs)
  BY <1>1
<1>4. \A b \in 1..Len(bs) : AtOf(more, b) = AtOf(bs, b) /\ AtOf(more, b - 1) = AtOf(bs, b - 1)
  BY <1>2, <1>3
<1>5. \A b \in 1..Len(bs) : AnnouncedOf(old, more, b) <=> AnnouncedOf(old, bs, b)
  BY <1>1, <1>4 DEF AnnouncedOf
<1>6. \A b \in 1..Len(bs) : \A e : ChangesOf(more, b, e) <=> ChangesOf(bs, b, e)
  BY <1>4 DEF ChangesOf
<1> QED BY <1>1, <1>2, <1>5, <1>6 DEF more

LEMMA BlockIsTrue ==
    ASSUME NEW bs \in Seq(Block), NEW block \in Block, NEW old, NEW snap \in SnapshotType,
           TrueOf(old, bs, snap), snap.seen \subseteq 1..Len(bs)
    PROVE  TrueOf(old, Append(bs, block), snap)
<1> DEFINE more == Append(bs, block)
           n == Len(bs)
           L == LesserOf(snap.height, n)
           M == LesserOf(snap.height, n + 1)
<1>1. /\ n \in Nat /\ Len(more) = n + 1
      /\ \A h \in 0..n : AtOf(more, h) = AtOf(bs, h)
      /\ \A b \in 1..n : AnnouncedOf(old, more, b) <=> AnnouncedOf(old, bs, b)
      /\ \A b \in 1..n : \A e : ChangesOf(more, b, e) <=> ChangesOf(bs, b, e)
  BY BlockExtends
<1>2. snap.height \in Nat
  BY SnapshotAssumption DEF SnapshotType
<1>3. n + 1 \notin snap.seen
  BY <1>1
<1> HIDE DEF more, n
<1> SUFFICES ASSUME NEW e \in Entries, ~(e \in snap.granted <=> e \in AtOf(more, snap.height))
             PROVE  HiddenOf(old, more, snap, e)
  BY DEF TrueOf, more
<1>4. \A b \in 1..M : /\ ChangesOf(more, b, e) /\ (\A c \in (b + 1)..M : ~ChangesOf(more, c, e))
                      /\ b \notin snap.seen \/ ~AnnouncedOf(old, more, b)
                      => HiddenOf(old, more, snap, e)
  BY <1>1 DEF HiddenOf
<1>5. ASSUME NEW hi \in 0..n, L = hi, M = hi \/ (M = hi + 1 /\ ~ChangesOf(more, hi + 1, e)),
             ~(e \in snap.granted <=> e \in AtOf(bs, snap.height))
      PROVE  HiddenOf(old, more, snap, e)
  <2>1. HiddenOf(old, bs, snap, e)
    BY <1>5 DEF TrueOf
  <2>2. PICK b \in 1..hi : /\ ChangesOf(bs, b, e)
                           /\ \A c \in (b + 1)..hi : ~ChangesOf(bs, c, e)
                           /\ b \notin snap.seen \/ ~AnnouncedOf(old, bs, b)
    BY <1>5, <2>1 DEF HiddenOf, n
  <2>3. b \in 1..n /\ b \in 1..M
    BY <1>1, <1>5
  <2>4. ChangesOf(more, b, e) /\ (b \notin snap.seen \/ ~AnnouncedOf(old, more, b))
    BY <1>1, <2>2, <2>3
  <2>5. ASSUME NEW c \in (b + 1)..M PROVE ~ChangesOf(more, c, e)
    <3>1. CASE c \in (b + 1)..hi
      <4>1. c \in 1..n
        BY <1>1, <3>1
      <4> QED BY <1>1, <2>2, <3>1, <4>1
    <3>2. CASE c \notin (b + 1)..hi
      <4>1. c = hi + 1 /\ M = hi + 1
        BY <1>1, <1>5, <3>2
      <4>2. ~ChangesOf(more, hi + 1, e)
        BY <1>1, <1>5, <4>1
      <4> QED BY <4>1, <4>2
    <3> QED BY <3>1, <3>2
  <2> HIDE DEF M
  <2> QED BY <1>4, <2>3, <2>4, <2>5
<1>6. CASE snap.height <= n
  <2>1. L = snap.height /\ M = snap.height /\ snap.height \in 0..n
    BY <1>1, <1>2, <1>6 DEF LesserOf
  <2>2. AtOf(more, snap.height) = AtOf(bs, snap.height)
    BY <1>1, <2>1
  <2> HIDE DEF L, M
  <2> QED BY <1>5, <2>1, <2>2
<1>7. CASE snap.height > n
  <2>1. L = n /\ M = n + 1 /\ n \in 0..n /\ n + 1 \in 1..M
    BY <1>1, <1>2, <1>7 DEF LesserOf
  <2>2. AtOf(more, snap.height) = AtOf(more, n + 1) /\ AtOf(bs, snap.height) = AtOf(bs, n)
    <3>1. AtOf(more, snap.height) = AtOf(more, n + 1)
      BY <1>1, <1>2, <1>7 DEF AtOf, LesserOf
    <3>2. AtOf(bs, snap.height) = AtOf(bs, n)
      BY <1>1, <1>2, <1>7 DEF AtOf, LesserOf, n
    <3> QED BY <3>1, <3>2
  <2>3. CASE ChangesOf(more, n + 1, e)
    <3>1. \A c \in (n + 1 + 1)..M : ~ChangesOf(more, c, e)
      <4>1. (n + 1 + 1)..M = {}
        BY <1>1, <2>1
      <4> QED BY <4>1
    <3> HIDE DEF M
    <3> QED BY <1>3, <1>4, <2>1, <2>3, <3>1
  <2>4. CASE ~ChangesOf(more, n + 1, e)
    <3>1. (n + 1) - 1 = n
      BY <1>1
    <3>2. AtOf(more, n) = AtOf(bs, n)
      BY <1>1, <2>1
    <3>3. e \in AtOf(more, n + 1) <=> e \in AtOf(bs, n)
      BY <2>4, <3>1, <3>2 DEF ChangesOf
    <3>4. ~(e \in snap.granted <=> e \in AtOf(bs, snap.height))
      BY <2>2, <3>3
    <3> HIDE DEF L, M
    <3> QED BY <1>5, <2>1, <2>4, <3>4
  <2> QED BY <2>3, <2>4
<1> QED BY <1>1, <1>2, <1>6, <1>7

-----------------------------------------------------------------------------
(* The invariant: the chain does what its calls do, and no snapshot claims to  *)
(* have seen a block that is still to come or is wrong for another reason than *)
(* a hidden change.                                                            *)
Good(snap) == TrueUnlessHidden(snap) /\ snap.seen \subseteq 1..Tip
Truth == ChainOK /\ Good(file) /\ Good(checkpoint.snap) /\ Good(run.snap)

(* Each way to make a snapshot, once more. *)
LEMMA GoodSnapshots ==
    ASSUME TypeOK, ChainOK
    PROVE  /\ Good(Nothing)
           /\ \A snap \in SnapshotType : Good(snap) =>
                 /\ Good(Reannotated(snap)) /\ Good(Swept(snap))
                 /\ \A prev \in SnapshotType : Good(Verified(prev, snap))
                 /\ \A end \in 0..MaxBlock : snap.height <= end => Good(Replay(snap, end))
<1>1. Good(Nothing)
  BY NothingIsTrue DEF Good
<1> SUFFICES ASSUME NEW snap \in SnapshotType, Good(snap)
             PROVE  /\ Good(Reannotated(snap)) /\ Good(Swept(snap))
                    /\ \A prev \in SnapshotType : Good(Verified(prev, snap))
                    /\ \A end \in 0..MaxBlock : snap.height <= end => Good(Replay(snap, end))
  BY <1>1
<1>2. Good(Reannotated(snap))
  BY ReannotatedIs, ReannotatedIsTrue DEF Good
<1>3. Good(Swept(snap))
  BY SweptIs, SweptIsTrue DEF Good
<1>4. ASSUME NEW prev \in SnapshotType PROVE Good(Verified(prev, snap))
  <2>1. Verified(prev, snap).seen = snap.seen
    BY VerifiedIs
  <2> QED BY <2>1, VerifiedIsTrue DEF Good
<1>5. ASSUME NEW end \in 0..MaxBlock, snap.height <= end PROVE Good(Replay(snap, end))
  <2>1. TrueUnlessHidden(Replay(snap, end))
    BY <1>5, ReplayIsTrue DEF Good
  <2>2. snap.height \in Nat /\ LesserOf(end, Tip) <= Tip
    BY TipType, SnapshotAssumption DEF SnapshotType, LesserOf
  <2>3. Replay(snap, end).seen = snap.seen \cup ((snap.height + 1)..LesserOf(end, Tip))
    BY ReplayIs
  <2>4. LesserOf(end, Tip) \in Int
    BY TipType DEF LesserOf
  <2>5. (snap.height + 1)..LesserOf(end, Tip) \subseteq 1..Tip
    BY <2>2, <2>4, TipType
  <2> QED BY <2>1, <2>3, <2>5 DEF Good
<1> QED BY <1>2, <1>3, <1>4, <1>5

LEMMA SameChain ==
    ASSUME Truth, UNCHANGED chain,
           Good(file'), Good(checkpoint'.snap), Good(run'.snap)
    PROVE  Truth'
<1>1. legacy' = legacy /\ blocks' = blocks /\ Tip' = Tip
  BY DEF chain, Tip
<1>2. ChainOK'
  BY <1>1 DEF Truth, ChainOK, At, Tip
<1>3. /\ TrueOf(legacy, blocks, file') /\ TrueOf(legacy, blocks, checkpoint'.snap)
      /\ TrueOf(legacy, blocks, run'.snap)
  BY TrueNow DEF Good
<1>4. /\ TrueUnlessHidden(file)' /\ TrueUnlessHidden(checkpoint.snap)'
      /\ TrueUnlessHidden(run.snap)'
  BY <1>1, <1>3, TrueThen
<1>5. file'.seen \cup checkpoint'.snap.seen \cup run'.snap.seen \subseteq 1..Tip'
  BY <1>1 DEF Good
<1> QED BY <1>2, <1>4, <1>5 DEF Truth, Good

LEMMA MineTruth == ASSUME TypeOK, Truth, NEW call \in Calls, Mine(call) PROVE Truth'
<1> DEFINE block == [call |-> call, after |-> Effect(At(Tip), call)]
<1>1. /\ blocks \in Seq(Block) /\ blocks' = Append(blocks, block)
      /\ UNCHANGED <<legacy, file, checkpoint, run>>
  BY DEF TypeOK, Mine, Block
<1>2. block \in Block
  BY MineBlock DEF Block
<1> HIDE DEF block
<1>3. /\ Tip \in Nat /\ Tip' = Tip + 1 /\ blocks'[Tip + 1] = block
      /\ \A b \in 1..Tip : blocks'[b] = blocks[b]
      /\ \A h \in 0..Tip : AtOf(blocks', h) = AtOf(blocks, h)
  BY <1>1, <1>2, BlockExtends DEF Tip
<1>4. ChainOK'
  <2>1. ChainOK' <=> \A b \in 1..(Tip + 1) :
                        blocks'[b].after = Effect(AtOf(blocks', b - 1), blocks'[b].call)
    BY <1>3 DEF ChainOK, At, AtOf, Tip
  <2>2. ASSUME NEW b \in 1..(Tip + 1)
        PROVE  blocks'[b].after = Effect(AtOf(blocks', b - 1), blocks'[b].call)
    <3>1. b - 1 \in 0..Tip /\ AtOf(blocks', b - 1) = AtOf(blocks, b - 1)
      BY <1>3
    <3>2. AtOf(blocks, b - 1) = At(b - 1)
      BY DEF AtOf, At, Tip
    <3>3. CASE b \in 1..Tip
      BY <1>3, <3>1, <3>2, <3>3 DEF Truth, ChainOK
    <3>4. CASE b = Tip + 1
      <4>1. b - 1 = Tip
        BY <1>3, <3>4
      <4> QED BY <1>3, <3>1, <3>2, <3>4, <4>1 DEF block
    <3> QED BY <1>3, <3>3, <3>4
  <2> QED BY <2>1, <2>2
<1>5. \A snap \in SnapshotType :
          Good(snap) => TrueOf(legacy', blocks', snap) /\ snap.seen \subseteq 1..Tip'
  <2> SUFFICES ASSUME NEW snap \in SnapshotType, Good(snap)
               PROVE  TrueOf(legacy', blocks', snap) /\ snap.seen \subseteq 1..Tip'
    OBVIOUS
  <2>1. TrueOf(legacy, blocks, snap) /\ snap.seen \subseteq 1..Len(blocks)
    BY TrueNow DEF Good, Tip
  <2>2. TrueOf(legacy, Append(blocks, block), snap)
    BY <1>1, <1>2, <2>1, BlockIsTrue
  <2>3. snap.seen \subseteq 1..Tip'
    BY <1>3 DEF Good
  <2> QED BY <1>1, <2>2, <2>3
<1>6. /\ TrueUnlessHidden(file)' /\ TrueUnlessHidden(checkpoint.snap)'
      /\ TrueUnlessHidden(run.snap)'
      /\ file'.seen \cup checkpoint'.snap.seen \cup run'.snap.seen \subseteq 1..Tip'
  BY <1>1, <1>5, Snapshots, TrueThen DEF Truth
<1> QED BY <1>4, <1>6 DEF Truth, Good

LEMMA NextTruth == Truth /\ Ahead /\ Step => Truth'
<1> SUFFICES ASSUME Truth, Ahead, TypeOK, [Next]_vars PROVE Truth'
  BY DEF Step
<1> USE DEF Truth
<1>1. /\ Good(Nothing) /\ Idle.snap = Nothing
      /\ \A b \in BOOLEAN : Publishing(b).snap = Nothing
  BY GoodSnapshots DEF Idle, Publishing
<1>2. ASSUME NEW to \in 0..MaxBlock, NEW chunkSize \in ChunkSizes, Fetch(to, chunkSize)
      PROVE  Truth'
  <2> DEFINE from == IF Pending THEN checkpoint.snap ELSE file
             snap == Reannotated(from)
             started == [Idle EXCEPT !.to = to, !.snap = snap]
  <2>1. from \in SnapshotType /\ Good(from)
    BY Snapshots
  <2>2. snap \in SnapshotType /\ Good(snap)
    BY <2>1, ReannotatedIs, GoodSnapshots
  <2>3. started.snap = snap /\ started \in RunType
    BY <2>2, IdleType DEF RunType
  <2>4. \/ run' = [started EXCEPT !.phase = "scan", !.chunkSize = chunkSize]
        \/ run' = [started EXCEPT !.phase = "verify"]
        \/ run' = Idle
    BY <1>2 DEF Fetch
  <2> HIDE DEF started, snap, from
  <2>5. run'.snap = snap \/ run'.snap = Nothing
    BY <1>1, <2>3, <2>4 DEF RunType
  <2>6. UNCHANGED <<chain, file>> /\ (checkpoint' = checkpoint \/ checkpoint'.snap = Nothing)
    BY <1>2 DEF Fetch, NoCheckpoint
  <2> QED BY <1>1, <2>2, <2>5, <2>6, SameChain
<1>3. ASSUME NEW to \in 0..MaxBlock, NEW chunkSize \in ChunkSizes, Rebuild(to, chunkSize)
      PROVE  Truth'
  <2>1. run'.snap = Nothing /\ file' = Nothing /\ checkpoint'.snap = Nothing /\ UNCHANGED chain
    BY <1>3 DEF Rebuild, Idle, NoCheckpoint
  <2> QED BY <1>1, <2>1, SameChain
<1>4. CASE ScanChunk
  <2> DEFINE end == LesserOf(run.snap.height + run.chunkSize, run.to)
             snap == Replay(run.snap, end)
  <2>1. run.to \in 0..MaxBlock /\ run.chunkSize \in Nat
    <3>1. ChunkSizes \subseteq Nat /\ 0 \in Nat
      BY SnapshotAssumption
    <3>2. run.to \in 0..MaxBlock /\ run.chunkSize \in {0} \cup ChunkSizes
      BY Snapshots DEF RunType
    <3> QED BY <3>1, <3>2
  <2>2. run.snap.height < run.to
    BY <1>4 DEF Ahead, ScanChunk
  <2>3. end \in 0..MaxBlock /\ run.snap.height <= end
    BY <2>1, <2>2, Snapshots, SnapshotAssumption DEF LesserOf
  <2> HIDE DEF end
  <2>4. Good(snap)
    BY <2>3, Snapshots, GoodSnapshots
  <2>5. /\ run' = [run EXCEPT !.snap = snap, !.phase = IF end = run.to THEN "verify" ELSE "scan"]
        /\ checkpoint'.snap = snap /\ UNCHANGED <<chain, file>>
    BY <1>4 DEF ScanChunk, end
  <2> HIDE DEF snap
  <2>6. run'.snap = snap
    BY <2>5, Snapshots DEF RunType
  <2> QED BY <2>4, <2>5, <2>6, SameChain
<1>5. CASE VerifyDiff
  <2> DEFINE snap == Verified(Reannotated(file), run.snap)
  <2>1. Good(snap)
    BY Snapshots, ReannotatedIs, GoodSnapshots
  <2>2. file' = snap /\ run'.snap = Nothing /\ UNCHANGED <<chain, checkpoint>>
    BY <1>1, <1>5 DEF VerifyDiff, Save
  <2> QED BY <1>1, <2>1, <2>2, SameChain
<1>6. CASE Verify \/ Relabel
  <2>1. Good(Swept(file)) /\ Good(Reannotated(file))
    BY Snapshots, GoodSnapshots
  <2>2. /\ file' = Swept(file) \/ file' = Reannotated(file)
        /\ run'.snap = Nothing /\ UNCHANGED <<chain, checkpoint>>
    BY <1>1, <1>6 DEF Verify, Relabel, Save
  <2> QED BY <1>1, <2>1, <2>2, SameChain
<1>7. CASE RenderMd \/ WriteUnresolved
  <2>1. \/ run' = [run EXCEPT !.phase = "unresolved"]
        \/ run' = [run EXCEPT !.phase = "clear"]
        \/ run' = Idle
    BY <1>7 DEF RenderMd, WriteUnresolved
  <2>2. run'.snap = run.snap \/ run'.snap = Nothing
    BY <1>1, <2>1, Snapshots DEF RunType
  <2>3. UNCHANGED <<chain, file, checkpoint>>
    BY <1>7 DEF RenderMd, WriteUnresolved
  <2> QED BY <1>1, <2>2, <2>3, SameChain
<1>8. CASE ClearCheckpoint \/ Stop
  <2>1. /\ run'.snap = Nothing /\ (checkpoint' = checkpoint \/ checkpoint'.snap = Nothing)
        /\ UNCHANGED <<chain, file>>
    BY <1>1, <1>8 DEF ClearCheckpoint, Stop, NoCheckpoint
  <2> QED BY <1>1, <2>1, SameChain
<1>9. ASSUME \/ RecordDroppedSignatures
             \/ \E found \in SUBSET (Roles \ {DEFAULT_ADMIN_ROLE}) :
                   BuildSignatures(found) \/ BuildContracts(found)
      PROVE  Truth'
  <2>1. \/ run' = [Idle EXCEPT !.phase = "contracts"]
        \/ \E dropped : run' = [Idle EXCEPT !.phase = "archive", !.dropped = dropped]
        \/ run' = Idle
    BY <1>9 DEF RecordDroppedSignatures, BuildSignatures, BuildContracts
  <2>2. run'.snap = Nothing
    <3>1. CASE run' = [Idle EXCEPT !.phase = "contracts"]
      BY <3>1 DEF Idle
    <3>2. ASSUME NEW dropped, run' = [Idle EXCEPT !.phase = "archive", !.dropped = dropped]
          PROVE  run'.snap = Nothing
      BY <3>2 DEF Idle
    <3>3. CASE run' = Idle
      BY <3>3 DEF Idle
    <3> QED BY <2>1, <3>1, <3>2, <3>3
  <2>3. UNCHANGED <<chain, file, checkpoint>>
    BY <1>9 DEF RecordDroppedSignatures, BuildSignatures, BuildContracts
  <2> QED BY <1>1, <2>2, <2>3, SameChain
<1>10. ASSUME NEW height \in 1..Tip, Pull(height) PROVE Truth'
  <2> DEFINE scan == Replay(Nothing, height)
  <2>1. height \in 0..MaxBlock /\ Nothing.height <= height
    BY SnapshotAssumption DEF TypeOK, Tip, Nothing
  <2>2. scan \in SnapshotType /\ Good(scan)
    BY <1>1, <2>1, NothingType, ReplayIs, GoodSnapshots
  <2> HIDE DEF scan
  <2>3. Good(Verified(Nothing, scan))
    BY <2>2, NothingType, GoodSnapshots
  <2>4. file' = Verified(Nothing, scan) /\ UNCHANGED <<chain, checkpoint, run>>
    BY <1>10 DEF Pull, Save, scan
  <2> QED BY <2>3, <2>4, SameChain
<1>11. ASSUME NEW call \in Calls, Mine(call) PROVE Truth'
  BY <1>11, MineTruth
<1>12. CASE UNCHANGED vars
  <2>1. UNCHANGED <<chain, file, checkpoint, run>>
    BY <1>12 DEF vars
  <2> QED BY <2>1, SameChain
<1> HIDE DEF Truth
<1> QED
  BY <1>2, <1>3, <1>4, <1>5, <1>6, <1>7, <1>8, <1>9, <1>10, <1>11, <1>12 DEF Next

(* Whatever was killed, resumed, corrected, pulled or fetched too far, a       *)
(* snapshot is only wrong where a change was hidden from its scan.             *)
THEOREM SnapshotsAlwaysTrue == Spec => []SnapshotsAreTrue
<1>1. Init => Truth /\ Ahead
  <2> SUFFICES ASSUME Init PROVE Truth /\ Ahead
    OBVIOUS
  <2>1. Ahead
    BY IdleType DEF Init, Ahead, NoCheckpoint, Nothing
  <2>2. ChainOK
    BY DEF Init, ChainOK, Tip
  <2>3. file = Nothing /\ checkpoint.snap = Nothing /\ run.snap = Nothing
    BY DEF Init, NoCheckpoint, Idle
  <2>4. Good(Nothing)
    BY NothingIsTrue DEF Good
  <2> QED BY <2>1, <2>2, <2>3, <2>4 DEF Truth
<1>2. Truth => SnapshotsAreTrue
  BY DEF Truth, Good, SnapshotsAreTrue
<1> QED BY <1>1, <1>2, NextTruth, NextAhead, TypeCorrect, PTL DEF Spec, Step
=============================================================================
