--------------------------- MODULE StorageLayoutCheck ---------------------------
(* The check of storage layouts (scripts/checkStorageLayout.ts) in the place   *)
(* it has: pull requests to a base branch, each checked against what the base  *)
(* branch has then and merged later, when other ones may have gone in.         *)
EXTENDS Naturals, Sequences

CONSTANTS Networks,     \* that deployments/ may have
          Names,        \* of deployed implementations
          Delegators,   \* DELEGATOR_IMPLS
          Sources,      \* fully qualified names of contracts in the sources
          Layouts,      \* that sources have: sequences of annotated variables
          Opaque,       \* a deployment artifact without a layout or a source
          Absent,       \* no such file, or no such contract in the sources
          Pulls,        \* pull requests open at a time
          MaxMerges     \* bound on what is merged

ASSUME LayoutAssumption ==
    /\ Delegators \subseteq Names
    /\ Networks \cap {"NETWORKS", "DELEGATOR_IMPLS"} = {}
    /\ MaxMerges \in Nat

VARIABLES
    base,      \* the files of the base branch
    pulls,     \* the open pull requests
    merges

branchVars == <<base, pulls, merges>>

(* Files, of which trees are functions and pull requests partial ones. *)
Source(contract)  == <<"source", contract>>
Artifact(n, name) == <<"artifact", n, name>>
Listed    == <<"NETWORKS">>
Skipped   == <<"SKIPPED_NETWORKS">>
Allowlist == <<"allowlist">>
Files == {Source(contract) : contract \in Sources}
           \cup {Artifact(n, name) : n \in Networks, name \in Names}
           \cup {Listed, Skipped, Allowlist}

-----------------------------------------------------------------------------
(* Layouts *)

(* An artifact records the contract it was compiled from, and the labels of    *)
(* its layout but not the annotations.                                         *)
Stripped(layout) == [i \in DOMAIN layout |-> [layout[i] EXCEPT !.renamedFrom = ""]]
Recorded(contract, layout) ==
    IF layout = Absent THEN Opaque ELSE [of |-> contract, layout |-> Stripped(layout)]

(* A rename that has shipped is annotated on the deployed side, too.           *)
RestoreDeployedRenames(deployed, updated) ==
    [i \in DOMAIN deployed |->
        IF i \in DOMAIN updated /\ updated[i].label = deployed[i].label
        THEN updated[i] ELSE deployed[i]]

(* The library's rules: variables stay in their slots, further ones may follow, *)
(* and a new label must be annotated with the old one.                         *)
SameVariable(old, new) ==
    \/ old.label = (IF new.renamedFrom = "" THEN new.label ELSE new.renamedFrom)
    \/ old.renamedFrom = new.renamedFrom /\ new.renamedFrom # ""
Upgradable(deployed, updated) ==
    /\ Len(deployed) <= Len(updated)
    /\ \A i \in DOMAIN deployed : SameVariable(deployed[i], updated[i])

(* A contract the sources do not have any more fails. *)
Compatible(deployed, updated) ==
    /\ updated # Absent
    /\ Upgradable(RestoreDeployedRenames(deployed, updated), updated)

-----------------------------------------------------------------------------
(* The check of a working tree against a reference *)

HasDirectory(tree, n) == \E name \in Names : tree[Artifact(n, name)] # Absent

(* The working tree says which deployments there are, the reference what they  *)
(* are: one it does not have is new.                                           *)
Implementations(work) ==
    {t \in Networks \X Names : t[1] \in work[Listed] /\ work[Artifact(t[1], t[2])] # Absent}
Deployed(ref, t) == ref[Artifact(t[1], t[2])]

(* A name that is listed in vain, or a network that is in neither list, is a   *)
(* target too, one that nothing can be compared with.                          *)
Misfits(work) ==
    {<<"NETWORKS", n>> : n \in {m \in work[Listed] : ~HasDirectory(work, m)}}
      \cup {<<"NETWORKS", n>> :
               n \in {m \in Networks \ (work[Listed] \cup work[Skipped]) : HasDirectory(work, m)}}
      \cup {<<"DELEGATOR_IMPLS", name>> :
               name \in {d \in Delegators : \A t \in Implementations(work) : t[2] # d}}

Targets(work) == Implementations(work) \cup Misfits(work)

IsBlocked(ref, work, t) == t \in Misfits(work) \/ Deployed(ref, t) = Opaque

(* What was deployed against the contract that it was compiled from.           *)
Fits(deployed, work) == Compatible(deployed.layout, work[Source(deployed.of)])

(* Mutant: the allowlist excuses what compares badly, too.                     *)
VerdictExcused(ref, work, t) ==
    IF t \in work[Allowlist] THEN "skipped"
    ELSE IF IsBlocked(ref, work, t) THEN "failed"
    ELSE IF Deployed(ref, t) = Absent THEN "new"
    ELSE IF Fits(Deployed(ref, t), work) THEN "ok" ELSE "failed"

Verdict(ref, work, t) ==
    LET allowed == t \in work[Allowlist]
    IN IF IsBlocked(ref, work, t) THEN (IF allowed THEN "skipped" ELSE "failed")
       ELSE IF Deployed(ref, t) = Absent THEN "new"
       ELSE IF ~Fits(Deployed(ref, t), work) THEN "failed"
       ELSE IF allowed THEN "stale" ELSE "ok"

(* Mutant: the working tree is compared with itself.                           *)
PassesAgainstItself(ref, work) ==
    /\ \A t \in Targets(work) : Verdict(work, work, t) \notin {"failed", "stale"}
    /\ work[Allowlist] \subseteq Targets(work)

Passes(ref, work) ==
    /\ \A t \in Targets(work) : Verdict(ref, work, t) \notin {"failed", "stale"}
    /\ work[Allowlist] \subseteq Targets(work)

-----------------------------------------------------------------------------
(* Pull requests *)

(* What a pull request does to the tree it starts from: it changes a source,   *)
(* deploys what the sources then say, retires a deployment or edits the lists. *)
NoPull == [stage |-> "none"]

Edit(file, content) == [f \in {file} |-> content]
Over(change, tree) ==
    [f \in DOMAIN change \cup DOMAIN tree |->
        IF f \in DOMAIN change THEN change[f] ELSE tree[f]]

EditSource(contract, layout) == Edit(Source(contract), layout)
Redeploy(n, name, contract, layout) ==
    {Edit(Artifact(n, name), Recorded(contract, layout)), Edit(Artifact(n, name), Opaque)}
Retire(n, name) == Edit(Artifact(n, name), Absent)
Enlist(tree, n) ==
    {Edit(Listed, tree[Listed] \cup {n}), Edit(Skipped, tree[Skipped] \cup {n})}
Delist(tree, n) ==
    Over(Edit(Listed, tree[Listed] \ {n}), Edit(Skipped, tree[Skipped] \ {n}))

(* An entry of the allowlist that is added or taken out. *)
Keys(n, name) == {<<n, name>>, <<"NETWORKS", n>>, <<"DELEGATOR_IMPLS", name>>}
Excuse(tree, t) ==
    Edit(Allowlist, IF t \in tree[Allowlist] THEN tree[Allowlist] \ {t}
                                             ELSE tree[Allowlist] \cup {t})
Excuses(tree, n, name) == {Excuse(tree, t) : t \in Keys(n, name)}

(* A deployment of what the sources say, with its network listed or a target *)
(* of it excused.                                                            *)
Deployments(tree, n, name, contract) ==
    LET deploy == Redeploy(n, name, contract, tree[Source(contract)]) IN
    deploy \cup {Over(d, e) : d \in deploy, e \in Enlist(tree, n) \cup Excuses(tree, n, name)}

(* A deployment of an edited contract, with the edit. *)
Upgrades(n, name, contract) ==
    {Over(Edit(Artifact(n, name), Recorded(contract, layout)), EditSource(contract, layout)) :
        layout \in Layouts}

(* The end of a deployment, with its network taken out or a target excused.  *)
Retirements(tree, n, name) ==
    {Retire(n, name)}
      \cup {Over(Retire(n, name), e) : e \in {Delist(tree, n)} \cup Excuses(tree, n, name)}

Changes(tree) ==
    {EditSource(contract, layout) : contract \in Sources, layout \in Layouts \cup {Absent}}
      \cup (UNION {Deployments(tree, n, name, contract) \cup Upgrades(n, name, contract) :
                      n \in Networks, name \in Names, contract \in Sources})
      \cup (UNION {Retirements(tree, n, name) \cup Excuses(tree, n, name) :
                      n \in Networks, name \in Names})

Open(p) ==
    /\ pulls[p] = NoPull
    /\ merges < MaxMerges
    /\ \E change \in Changes(base) :
           /\ \E f \in DOMAIN change : change[f] # base[f]
           /\ pulls' = [pulls EXCEPT ![p] = [stage |-> "open", change |-> change]]
    /\ UNCHANGED <<base, merges>>

(* The check runs on the pull request merged into the base branch, against the *)
(* base branch. "ref" is history: the base branch it was run with.             *)
Check(p) ==
    /\ pulls[p].stage = "open"
    /\ Passes(base, Over(pulls[p].change, base))
    /\ pulls' = [pulls EXCEPT ![p] = [stage |-> "passed", change |-> @.change, ref |-> base]]
    /\ UNCHANGED <<base, merges>>

(* What was merged meanwhile does not matter unless it is the same files, and  *)
(* then the other pull request has to be made anew.                            *)
Merge(p) ==
    /\ pulls[p].stage = "passed"
    /\ base' = Over(pulls[p].change, base)
    /\ pulls' = [q \in Pulls |->
                    IF q = p \/ pulls[q] = NoPull THEN NoPull
                    ELSE IF DOMAIN pulls[q].change \cap DOMAIN pulls[p].change # {}
                    THEN NoPull ELSE pulls[q]]
    /\ merges' = merges + 1

Close(p) ==
    /\ pulls[p] # NoPull
    /\ pulls' = [pulls EXCEPT ![p] = NoPull]
    /\ UNCHANGED <<base, merges>>

(* A branch on which everything deployed is listed and what the sources say. *)
BranchInit ==
    /\ \E listed \in SUBSET Networks, source \in [Sources -> Layouts \cup {Absent}],
           of \in [Names -> Sources] :
           /\ \A name \in Names : source[of[name]] # Absent
           /\ base = [f \in Files |->
                         CASE f[1] = "source" -> source[f[2]]
                           [] f[1] = "artifact" ->
                                  IF f[2] \in listed THEN Recorded(of[f[3]], source[of[f[3]]])
                                                     ELSE Absent
                           [] f = Listed -> listed
                           [] OTHER -> {}]
    /\ Passes(base, base)
    /\ pulls = [p \in Pulls |-> NoPull]
    /\ merges = 0

BranchNext == \E p \in Pulls : Open(p) \/ Check(p) \/ Merge(p) \/ Close(p)

BranchSpec == BranchInit /\ [][BranchNext]_branchVars

-----------------------------------------------------------------------------
(* Properties *)

Merged(p) == pulls[p].stage = "passed" /\ Merge(p)
Layout(file) == file \notin {Absent, Opaque}

(* What a deployment is replaced with is a compatible upgrade of it, on every  *)
(* network that is listed, if it was built from the contract that the old one  *)
(* was built from, as the check saw it: a check on an older base branch is     *)
(* good enough for that, since nothing else may have touched the artifact.     *)
UpgradesAreCompatible ==
    [][\A p \in Pulls : Merged(p) =>
         LET work == Over(pulls[p].change, pulls[p].ref)
         IN \A t \in Implementations(work) :
               LET old == Deployed(base, t)
                   new == Deployed(base', t)
                   checked == work[Source(old.of)]
               IN Layout(old) /\ new # old /\ new = Recorded(old.of, checked)
                    => Compatible(old.layout, checked)]_branchVars

(* A merge whose check is up to date leaves sources that can replace all that  *)
(* was deployed, excused or not, unless its network is unlisted on purpose: in *)
(* the other list, or excused by its own key.                                  *)
IsLeftOut(tree, n) ==
    /\ n \notin tree[Listed]
    /\ n \in tree[Skipped] \/ <<"NETWORKS", n>> \in tree[Allowlist]

SourcesFitDeployments ==
    [][\A p \in Pulls : Merged(p) /\ pulls[p].ref = base =>
         \A n \in Networks, name \in Names :
            LET old == base[Artifact(n, name)]
            IN ~IsLeftOut(base', n) /\ Layout(old) /\ base'[Artifact(n, name)] # Absent
                 => Fits(old, base')]_branchVars
=============================================================================
