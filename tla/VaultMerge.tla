---------------------------- MODULE VaultMerge ----------------------------
(***************************************************************************)
(* The pure algorithms of the app's synchronisation: the last-writer-wins  *)
(* merge of two vaults, the detection of the conflicts between them and    *)
(* the application of the user's decisions.                                *)
(*                                                                         *)
(* A vault is a function from the identifiers of entries and folders to a  *)
(* version or Absent.  A version keeps the only two things the algorithms  *)
(* look at: the content (what entryFingerprint compares) and `at`, the     *)
(* updatedAt time.  The order of the lists is not modelled (every vault is *)
(* sorted by name after a merge), except where it decides a result: which  *)
(* of several entries of equal content stands for them in findConflicts.   *)
(***************************************************************************)
EXTENDS Integers, FiniteSets

CONSTANTS
    Entries,    \* identifiers of vault entries
    Folders,    \* identifiers of folders
    Contents,   \* contents an entry or a folder may have
    Absent      \* "there is no entry of this identifier"

ASSUME IdsAssumption == Entries \cap Folders = {}
ASSUME AbsentAssumption == Absent \notin [content : Contents, at : Nat]

Ids == Entries \cup Folders
Version == [content : Contents, at : Nat]
Vault == [Ids -> Version \cup {Absent}]
EmptyVault == [i \in Ids |-> Absent]

Present(v, i) == v[i] # Absent

\* An older version of the same entry: what no last-writer-wins step brings back.
Older(x, y) == /\ x # Absent
               /\ y # Absent
               /\ x.at < y.at

----------------------------------------------------------------------------
(* Merge *)

\* Mutant of RemoteWins: the times are not compared.
RemoteAlwaysWins(l, r, i) == Present(r, i)

\* The remote version of i replaces the local one only when it is the only one
\* or strictly newer.
RemoteWins(l, r, i) ==
    /\ Present(r, i)
    /\ Present(l, i) => Older(l[i], r[i])

MergeVaults(l, r) == [i \in Ids |-> IF RemoteWins(l, r, i) THEN r[i] ELSE l[i]]

----------------------------------------------------------------------------
(* Conflicts *)

Kinds == {"editedEdited", "duplicate"}
Choices == {"local", "remote", "both"}

\* `local` and `remote` are the two VaultEntry objects of a conflict: the
\* identifier and the version each of them had when the conflict was found.
Conflict == [kind : Kinds, localId : Entries, remoteId : Entries,
             local : Version, remote : Version]

\* Mutant of EditedEdited: only what the merge is about to replace.
EditedEditedOlder(l, r) ==
    {[kind |-> "editedEdited", localId |-> i, remoteId |-> i,
      local |-> l[i], remote |-> r[i]] :
        i \in {j \in Entries : Older(l[j], r[j]) /\ l[j].content # r[j].content}}

EditedEdited(l, r) ==
    {[kind |-> "editedEdited", localId |-> i, remoteId |-> i,
      local |-> l[i], remote |-> r[i]] :
        i \in {j \in Entries : /\ Present(l, j)
                               /\ Present(r, j)
                               /\ l[j].content # r[j].content}}

\* localFp keeps the last local entry of each content.  The order of the list
\* is not modelled: any entry of that content may be the last.
LocalFp(l) ==
    {f \in [Contents -> Entries \cup {Absent}] :
        \A c \in Contents :
            LET same == {i \in Entries : Present(l, i) /\ l[i].content = c}
            IN  IF same = {} THEN f[c] = Absent ELSE f[c] \in same}

Duplicates(l, r, fp) ==
    {[kind |-> "duplicate", localId |-> fp[r[j].content], remoteId |-> j,
      local |-> l[fp[r[j].content]], remote |-> r[j]] :
        j \in {k \in Entries : /\ Present(r, k)
                               /\ fp[r[k].content] \notin {Absent, k}}}

FindConflicts(l, r, fp) == EditedEdited(l, r) \cup Duplicates(l, r, fp)

----------------------------------------------------------------------------
(* Resolution *)

\* The entries a decision on a duplicate takes out of the vault.
Dropped(choice) ==
    {c.remoteId : c \in {d \in DOMAIN choice : d.kind = "duplicate" /\ choice[d] = "local"}}
      \cup
    {c.localId : c \in {d \in DOMAIN choice : d.kind = "duplicate" /\ choice[d] = "remote"}}

\* Mutant of Chosen: the two sides are mixed up.
ChosenSwapped(choice, i) ==
    {IF choice[c] = "local" THEN c.remote ELSE c.local :
        c \in {d \in DOMAIN choice : d.kind = "editedEdited" /\ d.localId = i}}

\* The versions the decisions on editedEdited conflicts put back at i.
Chosen(choice, i) ==
    {c.local : c \in {d \in DOMAIN choice : /\ d.kind = "editedEdited"
                                            /\ d.localId = i
                                            /\ choice[d] = "local"}}
      \cup
    {c.remote : c \in {d \in DOMAIN choice : /\ d.kind = "editedEdited"
                                             /\ d.localId = i
                                             /\ choice[d] = "remote"}}

\* Mutant of ResolveConflicts: the resolved vault is built from the entries only.
ResolveEntriesOnly(v, choice) ==
    [i \in Ids |->
        IF ~Present(v, i) \/ i \in Dropped(choice) \cup Folders THEN Absent
        ELSE IF Chosen(choice, i) = {} THEN v[i]
        ELSE CHOOSE x \in Chosen(choice, i) : TRUE]

\* The code walks the decisions one by one; each assigns to or removes the
\* entry of one identifier and a removed entry is never put back, so the order
\* of the walk does not matter.
ResolveConflicts(v, choice) ==
    [i \in Ids |->
        IF ~Present(v, i) \/ i \in Dropped(choice) THEN Absent
        ELSE IF Chosen(choice, i) = {} THEN v[i]
        ELSE CHOOSE x \in Chosen(choice, i) : TRUE]

\* Mutant of DefaultChoice: the local copy is proposed whatever the merge kept.
DefaultLocal(v, c) == IF c.kind = "duplicate" THEN "both" ELSE "local"

\* What the screen proposes for a conflict: both copies of a duplicate, and for
\* an entry edited on both sides the version the vault v holds now.
DefaultChoice(v, c) ==
    CASE c.kind = "duplicate" -> "both"
      [] /\ c.kind = "editedEdited"
         /\ Present(v, c.localId) => v[c.localId].content # c.local.content -> "remote"
      [] OTHER -> "local"

=============================================================================
