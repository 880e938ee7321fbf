------------------------ MODULE MCVaultMergeProofs ------------------------
(***************************************************************************)
(* The properties of MCVaultMerge for any two vaults, of any number of     *)
(* entries, contents and times: what a merge keeps and shows, and what the *)
(* decisions on its conflicts do.                                          *)
(***************************************************************************)
EXTENDS MCVaultMerge, VaultMergeProofs

\* The decisions are on the conflicts of one merge, and an edited entry is never
\* kept twice.
Decided ==
    /\ \E fp \in LocalFp(local) : choice \in [FindConflicts(local, remote, fp) -> Choices]
    /\ \A c \in DOMAIN choice : c.kind = "editedEdited" => choice[c] # "both"

Inv ==
    /\ local \in Vault /\ remote \in Vault
    /\ pc \in {"merge", "resolve", "done"}
    /\ pc = "resolve" => Decided /\ merged = MergeVaults(local, remote)
    /\ pc = "done" =>
          Decided /\ merged = ResolveConflicts(MergeVaults(local, remote), choice)

\* A merge, then a resolution.
LEMMA Inductive == Spec => []Inv
  <1>1. Init => Inv
    <2>1. Inputs \subseteq Vault
      BY TimesAssumption DEF Inputs, Vault, Version
    <2>2. QED
      BY <2>1 DEF Init, Inv
  <1>2. Inv /\ [Next]_vars => Inv'
    <2> SUFFICES ASSUME Inv, [Next]_vars PROVE Inv'
      OBVIOUS
    <2>1. CASE Merge
      <3>1. PICK fp \in LocalFp(local) :
                \E f \in [FindConflicts(local, remote, fp) -> Choices] :
                    /\ \A c \in DOMAIN f : c.kind = "editedEdited" => f[c] # "both"
                    /\ choice' = f
        BY <2>1 DEF Merge
      <3>2. Decided'
        BY <2>1, <3>1 DEF Merge, Decided
      <3>3. QED
        BY <2>1, <3>2 DEF Merge, Inv
    <2>2. CASE Resolve
      BY <2>2 DEF Resolve, Inv, Decided
    <2>3. CASE UNCHANGED vars
      BY <2>3 DEF vars, Inv, Decided
    <2>4. QED
      BY <2>1, <2>2, <2>3 DEF Next
  <1>3. QED
    BY <1>1, <1>2, PTL DEF Spec

----------------------------------------------------------------------------
(* The merge *)

\* Two devices that merge each other's vault agree, but for versions of one time
\* (_mergeVaults compares updatedAt strictly).
THEOREM Converges == Spec => []MergeConverges
  <1>1. Inv => MergeConverges
    BY MergeCommutes DEF Inv, MergeConverges
  <1>2. QED
    BY <1>1, Inductive, PTL

\* The conflict of an entry both sides hold with different contents.
Edit(i) == [kind |-> "editedEdited", localId |-> i, remoteId |-> i,
            local |-> local[i], remote |-> remote[i]]

\* Where the contents of the two sides differ there is such a conflict, and no other
\* conflict of that kind.
LEMMA Edits ==
    ASSUME Inv, Decided
    PROVE  /\ \A i \in Entries : /\ Present(local, i) /\ Present(remote, i)
                                 /\ local[i].content # remote[i].content
                                 => Edit(i) \in DOMAIN choice
           /\ \A c \in DOMAIN choice : c.kind = "editedEdited" =>
                 \E i \in Entries : /\ c = Edit(i)
                                    /\ Present(local, i) /\ Present(remote, i)
  <1>1. PICK fp \in LocalFp(local) : DOMAIN choice = FindConflicts(local, remote, fp)
    BY DEF Decided
  <1>2. QED
    BY <1>1 DEF FindConflicts, EditedEdited, Duplicates, Edit

\* What one side held is kept by the merge or shown in a conflict (findConflicts
\* compares the contents of all entries, not only of those the merge replaces).
THEOREM NothingUnasked == Spec => []NothingDiscardedUnasked
  <1>1. Inv => NothingDiscardedUnasked
    <2> SUFFICES ASSUME Inv, pc = "resolve", NEW v \in {local, remote}, NEW i \in Entries,
                        Present(v, i), merged[i].content # v[i].content
                 PROVE  \E c \in DOMAIN choice : v[i] \in {c.local, c.remote}
      BY DEF NothingDiscardedUnasked
    <2>1. merged[i] = IF RemoteWins(local, remote, i) THEN remote[i] ELSE local[i]
      BY MergeAt DEF Inv, Ids
    <2>2. Present(local, i) /\ Present(remote, i) /\ local[i].content # remote[i].content
      BY <2>1 DEF RemoteWins
    <2>3. Edit(i) \in DOMAIN choice /\ v[i] \in {Edit(i).local, Edit(i).remote}
      BY <2>2, Edits DEF Inv, Edit
    <2>4. QED
      BY <2>3
  <1>2. QED
    BY <1>1, Inductive, PTL

----------------------------------------------------------------------------
(* The decisions *)

\* What the conflict screen proposes changes no content (DefaultChoice looks at the
\* version the merge kept).
THEOREM DefaultsKeep == Spec => []DefaultsKeepMerge
  <1>1. Inv => DefaultsKeepMerge
    <2> DEFINE proposed == [c \in DOMAIN choice |-> DefaultChoice(merged, c)]
               after == ResolveConflicts(merged, proposed)
    <2> SUFFICES ASSUME Inv, pc = "resolve", NEW i \in Ids
                 PROVE  /\ Present(after, i) <=> Present(merged, i)
                        /\ Present(after, i) => after[i].content = merged[i].content
      BY DEF DefaultsKeepMerge
    <2>0. /\ Decided /\ local \in Vault /\ remote \in Vault
          /\ merged = MergeVaults(local, remote)
      BY DEF Inv
    <2>1. merged[i] = IF RemoteWins(local, remote, i) THEN remote[i] ELSE local[i]
      BY <2>0, MergeAt
    <2>2. Dropped(proposed) = {}
      BY DEF Dropped, DefaultChoice
    <2>3. after[i] = IF ~Present(merged, i) THEN Absent
                     ELSE IF Chosen(proposed, i) = {} THEN merged[i]
                     ELSE CHOOSE x \in Chosen(proposed, i) : TRUE
      BY <2>2 DEF ResolveConflicts
    <2>4. ASSUME NEW x \in Chosen(proposed, i), Present(merged, i)
          PROVE  x # Absent /\ x.content = merged[i].content
      <3>1. PICK c \in DOMAIN choice :
                /\ c.kind = "editedEdited" /\ c.localId = i
                /\ \/ proposed[c] = "local" /\ x = c.local
                   \/ proposed[c] = "remote" /\ x = c.remote
        BY DEF Chosen
      <3>2. PICK j \in Entries : c = Edit(j) /\ Present(local, j) /\ Present(remote, j)
        BY <2>0, <3>1, Edits
      <3>3. j = i /\ c.local = local[i] /\ c.remote = remote[i]
        BY <3>1, <3>2 DEF Edit
      <3>4. proposed[c] = IF merged[i].content # local[i].content THEN "remote" ELSE "local"
        BY <2>4, <3>1, <3>3 DEF DefaultChoice
      <3>5. QED
        BY <2>1, <3>1, <3>2, <3>3, <3>4 DEF Present
    <2> HIDE DEF after, proposed
    <2>5. CASE Present(merged, i) /\ Chosen(proposed, i) # {}
      <3>1. after[i] \in Chosen(proposed, i)
        BY <2>3, <2>5
      <3>2. QED
        BY <2>4, <2>5, <3>1 DEF Present
    <2>6. CASE ~Present(merged, i) \/ Chosen(proposed, i) = {}
      BY <2>3, <2>6 DEF Present
    <2>7. QED
      BY <2>5, <2>6
  <1>2. QED
    BY <1>1, Inductive, PTL

\* The conflict of an entry of the server whose content the local entry fp names
\* has under another identifier.
Twin(fp, j) == [kind |-> "duplicate", localId |-> fp[remote[j].content], remoteId |-> j,
                local |-> local[fp[remote[j].content]], remote |-> remote[j]]

\* Copies of one content, and no edited entry: deciding about them removes some of the
\* copies, never the last (findConflicts names one local entry for a content, and each
\* entry of the server at most once).
LEMMA CopyStays ==
    ASSUME Inv, Decided, \A c \in DOMAIN choice : c.kind = "duplicate", NEW c \in DOMAIN choice
    PROVE  /\ c.local.content = c.remote.content
           /\ \E i \in Entries :
                 /\ i \notin Dropped(choice)
                 /\ Present(MergeVaults(local, remote), i)
                 /\ MergeVaults(local, remote)[i].content = c.remote.content
  <1> DEFINE v == MergeVaults(local, remote)
             Copy(i) == /\ i \in Entries /\ i \notin Dropped(choice) /\ Present(v, i)
                        /\ v[i].content = c.remote.content
  <1>1. /\ local \in Vault /\ remote \in Vault
        /\ \A i \in Entries : v[i] = IF RemoteWins(local, remote, i) THEN remote[i] ELSE local[i]
    BY MergeAt DEF Inv, Ids
  <1> HIDE DEF v
  <1>2. PICK fp \in LocalFp(local) : choice \in [FindConflicts(local, remote, fp) -> Choices]
    BY DEF Decided
  <1>3. \A x \in DOMAIN choice : \E j \in Entries :
           /\ x = Twin(fp, j) /\ Present(remote, j) /\ fp[remote[j].content] \notin {Absent, j}
    BY <1>2 DEF FindConflicts, EditedEdited, Duplicates, Twin
  <1>4. \A i \in Entries : Present(local, i) /\ Present(remote, i) =>
                           local[i].content = remote[i].content
    <2>1. \A i \in Entries : Edit(i).kind = "editedEdited"
      BY DEF Edit
    <2>2. QED
      BY <2>1, Edits
  <1>5. \A i \in Entries : /\ Present(local, i) => Present(v, i) /\ v[i].content = local[i].content
                           /\ Present(remote, i) => Present(v, i) /\ v[i].content = remote[i].content
    BY <1>1, <1>4 DEF RemoteWins, Present
  <1>6. \A k \in Contents : fp[k] # Absent =>
           fp[k] \in Entries /\ Present(local, fp[k]) /\ local[fp[k]].content = k
    <2> SUFFICES ASSUME NEW k \in Contents, fp[k] # Absent
                 PROVE  fp[k] \in Entries /\ Present(local, fp[k]) /\ local[fp[k]].content = k
      OBVIOUS
    <2> DEFINE same == {i \in Entries : Present(local, i) /\ local[i].content = k}
    <2>1. fp[k] \in same
      BY DEF LocalFp
    <2>2. QED
      BY <2>1
  <1>7. \A i \in Entries : Present(remote, i) => remote[i].content \in Contents
    BY <1>1, VersionAt DEF Ids, Version, Present
  <1>8. ASSUME NEW x \in DOMAIN choice, choice[x] # "local",
               x.remote.content = c.remote.content
        PROVE  Copy(x.remoteId)
    <2>1. PICK j \in Entries : /\ x = Twin(fp, j) /\ Present(remote, j)
                               /\ fp[remote[j].content] \notin {Absent, j}
      BY <1>3
    <2>2. x.remoteId = j /\ x.remote = remote[j]
      BY <2>1 DEF Twin
    <2>3. ASSUME NEW y \in DOMAIN choice, choice[y] = "local", y.remoteId = j
          PROVE  FALSE
      <3>1. PICK k \in Entries : y = Twin(fp, k)
        BY <1>3
      <3>2. k = j
        BY <2>3, <3>1 DEF Twin
      <3>3. QED
        BY <1>8, <2>1, <2>3, <3>1, <3>2
    <2>4. ASSUME NEW y \in DOMAIN choice, y.localId = j
          PROVE  FALSE
      <3>1. PICK k \in Entries : /\ y = Twin(fp, k) /\ Present(remote, k)
                                 /\ fp[remote[k].content] \notin {Absent, k}
        BY <1>3
      <3>2. fp[remote[k].content] = j
        BY <2>4, <3>1 DEF Twin
      <3>3. Present(local, j) /\ local[j].content = remote[k].content
        BY <1>6, <1>7, <3>1, <3>2
      <3>4. remote[j].content = remote[k].content
        BY <1>4, <2>1, <3>3
      <3>5. QED
        BY <2>1, <3>2, <3>4
    <2>5. j \notin Dropped(choice)
      BY <2>3, <2>4 DEF Dropped
    <2>6. QED
      BY <1>5, <1>8, <2>1, <2>2, <2>5
  <1>9. PICK j \in Entries : /\ c = Twin(fp, j) /\ Present(remote, j)
                             /\ fp[remote[j].content] \notin {Absent, j}
    BY <1>3
  <1> DEFINE L == fp[remote[j].content]
  <1>10. /\ c.remote.content = remote[j].content /\ L \in Entries /\ Present(local, L)
         /\ local[L].content = remote[j].content /\ c.local = local[L]
    BY <1>6, <1>7, <1>9 DEF Twin
  <1>11. CASE L \notin Dropped(choice)
    <2>1. Copy(L)
      BY <1>5, <1>10, <1>11
    <2>2. QED
      BY <1>10, <2>1 DEF v
  <1>12. CASE L \in Dropped(choice)
    <2>1. ASSUME NEW y \in DOMAIN choice, y.remoteId = L
          PROVE  FALSE
      <3>1. PICK k \in Entries : /\ y = Twin(fp, k) /\ Present(remote, k)
                                 /\ fp[remote[k].content] \notin {Absent, k}
        BY <1>3
      <3>2. k = L
        BY <2>1, <3>1 DEF Twin
      <3>3. remote[L].content = remote[j].content
        BY <1>4, <1>10, <3>1, <3>2
      <3>4. QED
        BY <3>1, <3>2, <3>3
    <2>2. PICK y \in DOMAIN choice : choice[y] = "remote" /\ y.localId = L
      BY <1>12, <2>1 DEF Dropped
    <2>3. PICK k \in Entries : /\ y = Twin(fp, k) /\ Present(remote, k)
                               /\ fp[remote[k].content] \notin {Absent, k}
      BY <1>3
    <2>4. fp[remote[k].content] = L /\ y.remote = remote[k]
      BY <2>2, <2>3 DEF Twin
    <2>5. y.remote.content = c.remote.content
      BY <1>6, <1>7, <1>10, <2>3, <2>4
    <2>6. Copy(y.remoteId)
      BY <1>8, <2>2, <2>5
    <2>7. QED
      BY <1>10, <2>6 DEF v
  <1>13. QED
    BY <1>11, <1>12

\* When only edited entries, or only duplicates, were decided about, every copy
\* chosen is still in the vault (resolveConflicts).
THEOREM UnmixedHonoured == Spec => []UnmixedDecisionsHonoured
  <1>1. Inv => UnmixedDecisionsHonoured
    <2> SUFFICES ASSUME Inv, pc = "done", NEW k \in Kinds,
                        \A c \in DOMAIN choice : c.kind = k,
                        NEW c \in DOMAIN choice
                 PROVE  Kept(c)
      BY DEF UnmixedDecisionsHonoured
    <2> DEFINE v == MergeVaults(local, remote)
    <2>1. Decided /\ local \in Vault /\ remote \in Vault /\ merged = ResolveConflicts(v, choice)
      BY DEF Inv
    <2>2. \A i \in Entries :
             merged[i] = IF ~Present(v, i) \/ i \in Dropped(choice) THEN Absent
                         ELSE IF Chosen(choice, i) = {} THEN v[i]
                         ELSE CHOOSE x \in Chosen(choice, i) : TRUE
      BY <2>1 DEF ResolveConflicts, Ids
    <2>3. CASE k = "duplicate"
      <3>1. \A i \in Entries : Chosen(choice, i) = {}
        BY <2>3 DEF Chosen
      <3>2. PICK i \in Entries : /\ i \notin Dropped(choice) /\ Present(v, i)
                                 /\ v[i].content = c.remote.content
        BY <2>1, <2>3, CopyStays
      <3>3. c.local.content = c.remote.content
        BY <2>1, <2>3, CopyStays
      <3> HIDE DEF v
      <3>4. Present(merged, i) /\ merged[i].content = c.remote.content
        BY <2>2, <3>1, <3>2 DEF Present
      <3>5. QED
        BY <3>3, <3>4 DEF Kept
    <2>4. CASE k = "editedEdited"
      <3>1. PICK i \in Entries : c = Edit(i) /\ Present(local, i) /\ Present(remote, i)
        BY <2>1, <2>4, Edits
      <3>2. c.localId = i /\ c.local = local[i] /\ c.remote = remote[i]
        BY <3>1 DEF Edit
      <3>3. Present(v, i)
        BY <2>1, <3>1, MergeAt DEF Ids, Present
      <3>4. Dropped(choice) = {}
        BY <2>4 DEF Dropped
      <3>5. choice[c] \in {"local", "remote"}
        BY <2>1, <2>4 DEF Decided, Choices
      <3>6. \A x \in DOMAIN choice : x.localId = i => x = c
        <4> SUFFICES ASSUME NEW x \in DOMAIN choice, x.localId = i PROVE x = c
          OBVIOUS
        <4>1. PICK j \in Entries : x = Edit(j)
          BY <2>1, <2>4, Edits
        <4>2. j = i
          BY <4>1 DEF Edit
        <4>3. QED
          BY <3>1, <4>1, <4>2
      <3>7. Chosen(choice, i) = {IF choice[c] = "local" THEN c.local ELSE c.remote}
        BY <2>4, <3>2, <3>5, <3>6 DEF Chosen
      <3> HIDE DEF v
      <3>8. merged[i] = IF choice[c] = "local" THEN c.local ELSE c.remote
        BY <2>2, <3>3, <3>4, <3>7
      <3>9. Present(merged, i)
        BY <3>1, <3>2, <3>8 DEF Present
      <3>10. QED
        BY <3>5, <3>8, <3>9 DEF Kept
    <2>5. QED
      BY <2>3, <2>4 DEF Kinds
  <1>2. QED
    BY <1>1, Inductive, PTL

\* A resolution touches only what its decisions are about.
THEOREM DecisionsAreLocal == Spec => ResolutionIsLocal
  <1> DEFINE Local ==
        pc = "resolve" =>
            \A i \in Ids : merged'[i] = merged[i] \/ \E c \in DOMAIN choice : i \in Contested(c)
  <1>1. ASSUME Inv, [Next]_vars, pc = "resolve", NEW i \in Ids,
               \A c \in DOMAIN choice : i \notin Contested(c)
        PROVE  merged'[i] = merged[i]
    <2>1. CASE Resolve
      <3>1. PICK fp \in LocalFp(local) : choice \in [FindConflicts(local, remote, fp) -> Choices]
        BY <1>1 DEF Inv, Decided
      <3>2. local \in Vault /\ remote \in Vault /\ merged = MergeVaults(local, remote)
        BY <1>1 DEF Inv
      <3>3. FindConflicts(local, remote, fp) \in SUBSET Conflict /\ merged \in Vault
        BY <3>2, FoundAreConflicts, MergeIsVault
      <3>4. \A c \in FindConflicts(local, remote, fp) : i \notin {c.localId, c.remoteId}
        BY <1>1, <3>1 DEF Contested
      <3>5. ResolveConflicts(merged, choice)[i] = merged[i]
        BY <3>1, <3>3, <3>4, UntouchedByResolution
      <3>6. QED
        BY <2>1, <3>5 DEF Resolve
    <2>2. CASE Merge \/ UNCHANGED vars
      BY <1>1, <2>2 DEF Merge, vars
    <2>3. QED
      BY <1>1, <2>1, <2>2 DEF Next
  <1>2. Inv /\ [Next]_vars => Local
    BY <1>1
  <1>3. QED
    BY <1>2, Inductive, PTL DEF ResolutionIsLocal, Spec
=============================================================================
