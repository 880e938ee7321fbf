--------------------------- MODULE MCVaultMerge ---------------------------
(***************************************************************************)
(* Runs the merge, the detection of conflicts and the resolution on every  *)
(* pair of small vaults: Init picks the two sides, then one step of each   *)
(* algorithm follows, as _pushVault and the conflict screen chain them.    *)
(***************************************************************************)
EXTENDS VaultMerge

CONSTANT Times      \* the updatedAt values of the input versions

ASSUME TimesAssumption == Times \subseteq Nat

VARIABLES
    local,          \* the device's vault before the merge
    remote,         \* the server's vault
    merged,         \* the vault after the step taken last
    choice,         \* the decisions, a function on the conflicts found
    pc              \* "merge" | "resolve" | "done"

vars == <<local, remote, merged, choice, pc>>

Inputs == [Ids -> [content : Contents, at : Times] \cup {Absent}]

Init ==
    /\ local \in Inputs
    /\ remote \in Inputs
    /\ merged = EmptyVault
    /\ choice = << >>
    /\ pc = "merge"

Merge ==
    /\ pc = "merge"
    /\ merged' = MergeVaults(local, remote)
    /\ \E fp \in LocalFp(local) :
          \E f \in [FindConflicts(local, remote, fp) -> Choices] :
              /\ \A c \in DOMAIN f : c.kind = "editedEdited" => f[c] # "both"
              /\ choice' = f
    /\ pc' = "resolve"
    /\ UNCHANGED <<local, remote>>

Resolve ==
    /\ pc = "resolve"
    /\ merged' = ResolveConflicts(merged, choice)
    /\ pc' = "done"
    /\ UNCHANGED <<local, remote, choice>>

Next == Merge \/ Resolve

Spec == Init /\ [][Next]_vars

----------------------------------------------------------------------------
\* The direction of the merge does not matter, except for two different
\* versions of one time: two devices that merge each other's vault agree.
MergeConverges ==
    pc = "resolve" =>
        \A i \in Ids :
            \/ merged[i] = MergeVaults(remote, local)[i]
            \/ /\ Present(local, i) /\ Present(remote, i)
               /\ local[i].at = remote[i].at

\* No entry's content disappears in a merge without the user being shown it:
\* what each side held is in the merged vault or offered by a conflict.
NothingDiscardedUnasked ==
    pc = "resolve" =>
        \A v \in {local, remote}, i \in Entries :
            \/ ~Present(v, i)
            \/ merged[i].content = v[i].content
            \/ \E c \in DOMAIN choice : v[i] \in {c.local, c.remote}

\* Applying what the screen proposes leaves the merged vault's contents as they
\* are: a user who only confirms loses nothing the merge kept.
DefaultsKeepMerge ==
    pc = "resolve" =>
        LET proposed == [c \in DOMAIN choice |-> DefaultChoice(merged, c)]
            after == ResolveConflicts(merged, proposed)
        IN  \A i \in Ids : /\ Present(after, i) <=> Present(merged, i)
                           /\ Present(after, i) => after[i].content = merged[i].content

\* The entries in play in a decision that takes an entry out of the vault.
Contested(c) == {c.localId, c.remoteId}

\* What a conflict's side held is still in the vault when it was the chosen one.
Kept(c) ==
    LET holds(x) == \E i \in Entries : Present(merged, i) /\ merged[i].content = x.content
    IN  /\ choice[c] \in {"local", "both"} => holds(c.local)
        /\ choice[c] \in {"remote", "both"} => holds(c.remote)

\* Decisions of one kind are honoured, however many they are: when a merge found
\* only edited entries, or only duplicates, the copies chosen all remain.
UnmixedDecisionsHonoured ==
    pc = "done" /\ (\E k \in Kinds : \A c \in DOMAIN choice : c.kind = k) =>
        \A c \in DOMAIN choice : Kept(c)

\* Every decision is honoured: the copy the user chose remains in the vault.
DecisionsHonoured == pc = "done" => \A c \in DOMAIN choice : Kept(c)

\* A resolution changes no folder and no entry the user was not asked about.
ResolutionIsLocal ==
    [][pc = "resolve" =>
        \A i \in Ids : merged'[i] = merged[i] \/ \E c \in DOMAIN choice : i \in Contested(c)]_vars
=============================================================================
