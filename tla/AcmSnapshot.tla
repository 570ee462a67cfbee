------------------------------ MODULE AcmSnapshot ------------------------------
(* The tool that keeps snapshots of an access control manager beside the code  *)
(* (scripts/acm-permissions), for one network: the commands fetch, verify,     *)
(* relabel and build-registry, the files they leave, and the chain they read.  *)
(* Only the files survive a command that is killed or gives up on its node.    *)
EXTENDS AccessControlManager, Integers, Sequences

CONSTANTS Ops,            \* the calls of the manager that occur
          Roles,          \* those calls are about, by hash
          Accounts,
          ChunkSizes,     \* blocks per getLogs, --chunk-size
          MaxBlock,       \* bound: the chain's length, and the largest --to
          MaxDiscards     \* bound: how often snapshots are rebuilt or replaced

ASSUME SnapshotAssumption ==
    /\ Ops \subseteq GrantCalls \cup RevokeCalls
    /\ ChunkSizes \subseteq Nat \ {0}
    /\ MaxBlock \in Nat
    /\ MaxDiscards \in Nat

VARIABLES
    legacy,       \* whether the manager is the one that announces roles only
    blocks,       \* the chain: one call to the manager and its grants after it
    generated,    \* signatures.json: the roles whose signature it has
    archived,     \* legacy-signatures.json: likewise
    addresses,    \* contracts/: the roles whose contract it has
    file,         \* permissions.json
    checkpoint,   \* checkpoint.json
    md,           \* what permissions.md shows
    unresolved,   \* unresolved-roles.json; empty when there is no such file
    run,          \* the command under way
    discards,
    torn,         \* history: a command ended between a snapshot and its outputs
    forgotten,    \* history: roles build-registry made unreadable
    resolved      \* history: roles some saved snapshot had decoded

chain    == <<legacy, blocks>>
registry == <<generated, archived, addresses>>
outputs  == <<md, unresolved>>
history  == <<torn, forgotten, resolved>>
vars == <<chain, registry, file, checkpoint, outputs, run, discards, history>>

Entries == Roles \X Accounts
Calls ==
    {c \in [op : Ops, role : Roles, account : Accounts] :
        c.op \in PermissionCalls => c.role # DEFAULT_ADMIN_ROLE}

RolesOf(granted) == {e[1] : e \in granted}
LesserOf(a, b) == IF a <= b THEN a ELSE b

(* A snapshot: the block it describes, who has which role, which roles could   *)
(* be decoded. "seen" is history: the blocks that were there to be scanned.    *)
Nothing == [height |-> 0, granted |-> {}, decoded |-> {}, seen |-> {}]
NoCheckpoint == [base |-> 0, snap |-> Nothing]
Idle == [phase |-> "idle", fetching |-> FALSE, to |-> 0, chunkSize |-> 0,
         snap |-> Nothing, dropped |-> {}]
Publishing(fetching) == [Idle EXCEPT !.phase = "render", !.fetching = fetching]

-----------------------------------------------------------------------------
(* The chain *)

Tip == Len(blocks)

(* What the manager grants at a block; at later ones, what it grants now. *)
At(height) == IF height = 0 \/ Tip = 0 THEN {}
              ELSE blocks[LesserOf(height, Tip)].after

Entry(b) == <<blocks[b].call.role, blocks[b].call.account>>
Changes(b, e) == (e \in At(b)) # (e \in At(b - 1))

(* Whether a block has an event the tool asks for: the old manager announces   *)
(* every change of a role, and that is what is read of it; of the current one  *)
(* it reads what giveCallPermission and revokeCallPermission announce.         *)
Announced(b) == IF legacy THEN At(b) # At(b - 1)
                ELSE blocks[b].call.op \in PermissionCalls
Grants(b, e)  == Announced(b) /\ Entry(b) = e /\ blocks[b].call.op \in GrantCalls
Revokes(b, e) == Announced(b) /\ Entry(b) = e /\ blocks[b].call.op \in RevokeCalls

Mine(call) ==
    /\ Tip < MaxBlock
    /\ blocks' = Append(blocks, [call |-> call, after |-> Effect(At(Tip), call)])
    /\ UNCHANGED <<legacy, registry, file, checkpoint, outputs, run, discards, history>>

-----------------------------------------------------------------------------
(* Pure parts of the tool *)

(* Mutant: the archive is not consulted. *)
KnownNow == IF legacy THEN (generated \cap addresses) \cup {DEFAULT_ADMIN_ROLE} ELSE Roles

(* Roles the tool can decode: of the old manager, those whose hash it can make *)
(* from a contract and a signature. Events of the current manager name both.   *)
Known == IF legacy
         THEN ((generated \cup archived) \cap addresses) \cup {DEFAULT_ADMIN_ROLE}
         ELSE Roles

Reannotated(snap) ==
    [snap EXCEPT !.decoded = @ \cup (RolesOf(snap.granted) \cap Known)]

(* Mutant: a grant counts though it was revoked later. *)
GrantedOnce(granted, first, last) ==
    {e \in Entries :
        \/ e \in granted /\ \A b \in first..last : ~Revokes(b, e)
        \/ \E b \in first..last : Grants(b, e)}

(* Who has which role after the events of the blocks "first" to "last", and    *)
(* which of these roles are decoded: one that nobody had meanwhile is new.     *)
GrantedAfter(granted, first, last) ==
    {e \in Entries :
        \/ e \in granted /\ \A b \in first..last : ~Revokes(b, e)
        \/ \E b \in first..last : Grants(b, e) /\ \A c \in b + 1..last : ~Revokes(c, e)}

Replay(snap, end) ==
    LET first == snap.height + 1
        last == LesserOf(end, Tip)
        granted == GrantedAfter(snap.granted, first, last)
        kept == {r \in snap.decoded :
                    \A b \in first..last : r \in RolesOf(GrantedAfter(snap.granted, first, b))}
    IN [height |-> end, granted |-> granted,
        decoded |-> RolesOf(granted) \cap (kept \cup Known),
        seen |-> snap.seen \cup (first..last)]

(* The changes against "prev", and the snapshot in which each of them says what *)
(* the manager says at the snapshot's own block.                               *)
Diff(prev, snap) == (prev.granted \ snap.granted) \cup (snap.granted \ prev.granted)

(* Mutant: only what disappears is checked with the manager. *)
VerifiedRevocations(prev, snap) ==
    LET granted == snap.granted \cup ((prev.granted \ snap.granted) \cap At(snap.height))
    IN [snap EXCEPT !.granted = granted,
                    !.decoded = RolesOf(granted) \cap (@ \cup prev.decoded)]

Verified(prev, snap) ==
    LET granted == (snap.granted \ Diff(prev, snap))
                       \cup (Diff(prev, snap) \cap At(snap.height))
        restored == prev.decoded \ RolesOf(snap.granted)
    IN [snap EXCEPT !.granted = granted,
                    !.decoded = RolesOf(granted) \cap (@ \cup restored)]

(* The full sweep only drops what the manager denies. *)
Swept(snap) ==
    LET granted == snap.granted \cap At(snap.height)
    IN [snap EXCEPT !.granted = granted, !.decoded = @ \cap RolesOf(granted)]

Unresolved(snap) == RolesOf(snap.granted) \ snap.decoded

-----------------------------------------------------------------------------
(* The commands *)

(* Every snapshot that is put in place is remembered by what it decodes. *)
Save(snap) == file' = snap /\ resolved' = resolved \cup snap.decoded

(* Mutant: a checkpoint is taken up whatever it was built on. *)
PendingOnAnything == checkpoint.snap.height > 0

(* A checkpoint is taken up if it was built on the snapshot that is there. *)
Pending == checkpoint.snap.height > 0 /\ checkpoint.base = file.height

(* A run that finds nothing new and has nothing pending writes nothing. *)
Fetch(to, chunkSize) ==
    /\ run.phase = "idle"
    /\ LET from == IF Pending THEN checkpoint.snap ELSE file
           started == [Idle EXCEPT !.to = to, !.snap = Reannotated(from)]
       IN run' = IF from.height < to
                 THEN [started EXCEPT !.phase = "scan", !.chunkSize = chunkSize]
                 ELSE IF Pending THEN [started EXCEPT !.phase = "verify"] ELSE Idle
    /\ checkpoint' = IF Pending THEN checkpoint ELSE NoCheckpoint
    /\ UNCHANGED <<chain, registry, file, outputs, discards, history>>

(* --rebuild deletes the network's directory, the checkpoint included. *)
Rebuild(to, chunkSize) ==
    /\ run.phase = "idle"
    /\ discards < MaxDiscards
    /\ file' = Nothing
    /\ checkpoint' = NoCheckpoint
    /\ md' = Nothing
    /\ unresolved' = {}
    /\ torn' = FALSE
    /\ run' = IF to = 0 THEN Idle ELSE [Idle EXCEPT !.phase = "scan", !.to = to, !.chunkSize = chunkSize]
    /\ discards' = discards + 1
    /\ UNCHANGED <<chain, registry, forgotten, resolved>>

(* Mutant: a chunk is not saved. *)
ScanUnsaved ==
    /\ run.phase = "scan"
    /\ LET end == LesserOf(run.snap.height + run.chunkSize, run.to)
       IN run' = [run EXCEPT !.snap = Replay(run.snap, end),
                             !.phase = IF end = run.to THEN "verify" ELSE "scan"]
    /\ UNCHANGED <<chain, registry, file, checkpoint, outputs, discards, history>>

ScanChunk ==
    /\ run.phase = "scan"
    /\ LET end == LesserOf(run.snap.height + run.chunkSize, run.to)
           snap == Replay(run.snap, end)
       IN /\ checkpoint' = [base |-> file.height, snap |-> snap]
          /\ run' = [run EXCEPT !.snap = snap,
                                !.phase = IF end = run.to THEN "verify" ELSE "scan"]
    /\ UNCHANGED <<chain, registry, file, outputs, discards, history>>

(* Reading the state at a block the chain does not have yet fails. *)
VerifyDiff ==
    /\ run.phase = "verify"
    /\ LET prev == Reannotated(file)
       IN /\ Diff(prev, run.snap) # {} => run.snap.height <= Tip
          /\ Save(Verified(prev, run.snap))
    /\ run' = Publishing(TRUE)
    /\ UNCHANGED <<chain, registry, checkpoint, outputs, discards, torn, forgotten>>

(* verify; fetch --verify runs the same right after a fetch. *)
Verify ==
    /\ run.phase = "idle"
    /\ file.height \in 1..Tip
    /\ Save(Swept(file))
    /\ run' = Publishing(FALSE)
    /\ UNCHANGED <<chain, registry, checkpoint, outputs, discards, torn, forgotten>>

Relabel ==
    /\ run.phase = "idle"
    /\ file.height > 0
    /\ Save(Reannotated(file))
    /\ run' = Publishing(FALSE)
    /\ UNCHANGED <<chain, registry, checkpoint, outputs, discards, torn, forgotten>>

RenderMd ==
    /\ run.phase = "render"
    /\ md' = file
    /\ run' = [run EXCEPT !.phase = "unresolved"]
    /\ UNCHANGED <<chain, registry, file, checkpoint, unresolved, discards, history>>

(* Mutant: nothing is written, and nothing removed, if all is resolved. *)
WriteUnresolvedIfAny ==
    /\ run.phase = "unresolved"
    /\ unresolved' = IF Unresolved(file) = {} THEN unresolved ELSE Unresolved(file)
    /\ torn' = FALSE
    /\ run' = IF run.fetching THEN [run EXCEPT !.phase = "clear"] ELSE Idle
    /\ UNCHANGED <<chain, registry, file, checkpoint, md, discards, forgotten, resolved>>

WriteUnresolved ==
    /\ run.phase = "unresolved"
    /\ unresolved' = Unresolved(file)
    /\ torn' = FALSE
    /\ run' = IF run.fetching THEN [run EXCEPT !.phase = "clear"] ELSE Idle
    /\ UNCHANGED <<chain, registry, file, checkpoint, md, discards, forgotten, resolved>>

ClearCheckpoint ==
    /\ run.phase = "clear"
    /\ checkpoint' = NoCheckpoint
    /\ run' = Idle
    /\ UNCHANGED <<chain, registry, file, outputs, discards, history>>

(* build-registry writes the signatures the sources have now, archives those   *)
(* the sources dropped, then writes the contracts of the deployments, which it *)
(* does not archive. Only the old manager's roles depend on them.              *)
BuildSignatures(found) ==
    /\ run.phase = "idle"
    /\ legacy
    /\ generated' = found
    /\ run' = [Idle EXCEPT !.phase = "archive", !.dropped = generated \ found]
    /\ UNCHANGED <<chain, archived, addresses, file, checkpoint, outputs, discards, history>>

RecordDroppedSignatures ==
    /\ run.phase = "archive"
    /\ archived' = archived \cup run.dropped
    /\ run' = [Idle EXCEPT !.phase = "contracts"]
    /\ UNCHANGED <<chain, generated, addresses, file, checkpoint, outputs, discards, history>>

BuildContracts(found) ==
    /\ run.phase = "contracts"
    /\ addresses' = found
    /\ forgotten' = forgotten \cup (addresses \ found)
    /\ run' = Idle
    /\ UNCHANGED <<chain, generated, archived, file, checkpoint, outputs, discards, torn,
                   resolved>>

-----------------------------------------------------------------------------
(* Around the tool *)

(* The command is killed, or its node fails once too often. *)
Stop ==
    /\ run.phase # "idle"
    /\ run' = Idle
    /\ torn' = (torn \/ run.phase \in {"render", "unresolved"})
    /\ forgotten' = IF run.phase = "archive"
                    THEN forgotten \cup (run.dropped \ archived) ELSE forgotten
    /\ UNCHANGED <<chain, registry, file, checkpoint, outputs, discards, resolved>>

(* Someone else's first fetch up to a block comes from the repository, which   *)
(* has the snapshot and its outputs but not the checkpoint.                    *)
Pull(height) ==
    /\ run.phase = "idle"
    /\ discards < MaxDiscards
    /\ LET snap == Verified(Nothing, Replay(Nothing, height))
       IN /\ Save(snap)
          /\ md' = snap
          /\ unresolved' = Unresolved(snap)
    /\ torn' = FALSE
    /\ discards' = discards + 1
    /\ UNCHANGED <<chain, registry, checkpoint, run, forgotten>>

Init ==
    /\ legacy \in BOOLEAN
    /\ blocks = <<>>
    /\ generated \in SUBSET (Roles \ {DEFAULT_ADMIN_ROLE})
    /\ archived = {}
    /\ addresses = Roles \ {DEFAULT_ADMIN_ROLE}
    /\ file = Nothing
    /\ checkpoint = NoCheckpoint
    /\ md = Nothing
    /\ unresolved = {}
    /\ run = Idle
    /\ discards = 0
    /\ torn = FALSE
    /\ forgotten = {}
    /\ resolved = {}

Next ==
    \/ \E call \in Calls : Mine(call)
    \/ \E to \in 0..MaxBlock, chunkSize \in ChunkSizes :
          Fetch(to, chunkSize) \/ Rebuild(to, chunkSize)
    \/ \E height \in 1..Tip : Pull(height)
    \/ \E found \in SUBSET (Roles \ {DEFAULT_ADMIN_ROLE}) :
          BuildSignatures(found) \/ BuildContracts(found)
    \/ ScanChunk \/ VerifyDiff \/ RenderMd \/ WriteUnresolved \/ ClearCheckpoint
    \/ Verify \/ Relabel \/ RecordDroppedSignatures
    \/ Stop

Spec == Init /\ [][Next]_vars

(* Somebody fetches up to the head again and again, and of what a command      *)
(* does, no kind of step fails every time it is tried. The chain goes on.      *)
Fairness ==
    /\ WF_vars(\E call \in Calls : Mine(call))
    /\ SF_vars(\E chunkSize \in ChunkSizes : Fetch(Tip, chunkSize))
    /\ SF_vars(ScanChunk)
    /\ SF_vars(VerifyDiff)
    /\ WF_vars(RenderMd)
    /\ WF_vars(WriteUnresolved)
    /\ WF_vars(ClearCheckpoint)
    /\ WF_vars(RecordDroppedSignatures)
    /\ WF_vars(\E found \in SUBSET (Roles \ {DEFAULT_ADMIN_ROLE}) : BuildContracts(found))
FairSpec == Spec /\ Fairness

-----------------------------------------------------------------------------
(* Properties *)

SnapshotType == [height : 0..MaxBlock, granted : SUBSET Entries,
                 decoded : SUBSET Roles, seen : SUBSET (1..MaxBlock)]
Phases == {"idle", "scan", "verify", "render", "unresolved", "clear", "archive", "contracts"}
RunType == [phase : Phases, fetching : BOOLEAN, to : 0..MaxBlock,
            chunkSize : {0} \cup ChunkSizes, snap : SnapshotType, dropped : SUBSET Roles]
TypeOK ==
    /\ legacy \in BOOLEAN
    /\ blocks \in Seq([call : Calls, after : SUBSET Entries])
    /\ Tip <= MaxBlock
    /\ generated \cup archived \cup addresses \subseteq Roles
    /\ forgotten \cup resolved \cup unresolved \subseteq Roles
    /\ file \in SnapshotType /\ md \in SnapshotType
    /\ checkpoint \in [base : 0..MaxBlock, snap : SnapshotType]
    /\ run \in RunType
    /\ discards \in 0..MaxDiscards
    /\ torn \in BOOLEAN

(* A snapshot, saved, half-way or in memory, can only be wrong about a role of *)
(* an account if the last change of that role up to its block was hidden from  *)
(* the scan: made by a call that the tool does not look for, or in a block     *)
(* that did not exist when a fetch with --to went past it. So a snapshot of    *)
(* the old manager is exact as long as nobody fetches beyond the head,         *)
(* whatever was killed, resumed, corrected or pulled.                          *)
HiddenChange(snap, e) ==
    \E b \in 1..LesserOf(snap.height, Tip) :
        /\ Changes(b, e)
        /\ \A c \in b + 1..LesserOf(snap.height, Tip) : ~Changes(c, e)
        /\ b \notin snap.seen \/ ~Announced(b)
TrueUnlessHidden(snap) ==
    \A e \in Entries :
        (e \in snap.granted) # (e \in At(snap.height)) => HiddenChange(snap, e)
SnapshotsAreTrue ==
    /\ TrueUnlessHidden(file)
    /\ TrueUnlessHidden(checkpoint.snap)
    /\ TrueUnlessHidden(run.snap)

(* Whatever a fetch changes in the saved snapshot was checked with the manager *)
(* at the block the new snapshot names, though parts of it were scanned by     *)
(* earlier runs that were killed, and the chain has gone on since.             *)
ChangesAreVerified ==
    [][VerifyDiff => \A e \in Diff(file, file') :
            e \in file'.granted <=> e \in At(file'.height)]_vars

(* Fetching again never takes the snapshot back to an earlier block; only a    *)
(* checkout or a rebuild does.                                                 *)
HeightNeverDrops == [][discards' = discards => file'.height >= file.height]_vars

(* The rendered page and the list of unresolved roles show the snapshot, except *)
(* after a command ended between saving the one and writing the others.        *)
OutputsFollow ==
    ~torn /\ run.phase \notin {"render", "unresolved"} =>
        md = file /\ unresolved = Unresolved(file)

(* A role that some snapshot resolved is not unresolved in a later one, though *)
(* its signature left the sources and the snapshot was rebuilt, unless its     *)
(* contract left the deployments, or a build-registry was killed before it     *)
(* archived the signature.                                                     *)
ResolvedStays == Unresolved(file) \cap resolved \subseteq forgotten

(* However often commands are killed, the snapshot reaches the head: a fetch   *)
(* takes up where the last one was.                                            *)
CatchesUp == <>[](file.height >= Tip)
=============================================================================
