------------------------- MODULE VaultMergeProofs -------------------------
(***************************************************************************)
(* What the merge, the conflicts and their resolution return, for any      *)
(* vaults: the facts the proofs about VaultSync rest on, and the algebra   *)
(* of the last-writer-wins merge.                                          *)
(***************************************************************************)
EXTENDS VaultMerge, TLAPS

----------------------------------------------------------------------------
(* Merge *)

\* The merge of two vaults is a vault.
LEMMA MergeIsVault ==
    ASSUME NEW l \in Vault, NEW r \in Vault
    PROVE  MergeVaults(l, r) \in Vault
  BY DEF MergeVaults, Vault

\* What one identifier holds after a merge.
LEMMA MergeAt ==
    ASSUME NEW l \in Vault, NEW r \in Vault, NEW i \in Ids
    PROVE  MergeVaults(l, r)[i] = IF RemoteWins(l, r, i) THEN r[i] ELSE l[i]
  BY DEF MergeVaults

\* A version is Absent or has a time that is a number.
LEMMA VersionAt ==
    ASSUME NEW v \in Vault, NEW i \in Ids
    PROVE  v[i] # Absent => v[i] \in Version /\ v[i].at \in Nat
  BY DEF Vault, Version

\* The merge loses nothing of either side and invents nothing (_mergeVaults keeps
\* every identifier and the newer of two versions, the local one of two equally
\* old): what it holds is a version one side has, and it leaves the local version
\* for a newer one only.
THEOREM MergeKeepsBoth ==
    ASSUME NEW l \in Vault, NEW r \in Vault, NEW i \in Ids
    PROVE  LET m == MergeVaults(l, r)
           IN  /\ Present(l, i) => Present(m, i) /\ ~Older(m[i], l[i])
               /\ Present(r, i) => Present(m, i) /\ ~Older(m[i], r[i])
               /\ Present(m, i) => \/ (Present(l, i) /\ m[i] = l[i])
                                  \/ (Present(r, i) /\ m[i] = r[i])
               /\ Present(l, i) /\ m[i] # l[i] => Present(r, i) /\ Older(l[i], r[i])
  <1>1. CASE RemoteWins(l, r, i)
    <2>1. MergeVaults(l, r)[i] = r[i]
      BY <1>1, MergeAt
    <2>2. QED
      BY <1>1, <2>1, VersionAt DEF RemoteWins, Present, Older
  <1>2. CASE ~RemoteWins(l, r, i)
    <2>1. MergeVaults(l, r)[i] = l[i]
      BY <1>2, MergeAt
    <2>2. QED
      BY <1>2, <2>1, VersionAt DEF RemoteWins, Present, Older
  <1>3. QED
    BY <1>1, <1>2

\* A vault that was merged is not changed by the same merge again: the second 409
\* against an unchanged server vault pushes what the first one pushed.
THEOREM MergeIsStable ==
    ASSUME NEW l \in Vault, NEW r \in Vault
    PROVE  MergeVaults(MergeVaults(l, r), r) = MergeVaults(l, r)
  <1> DEFINE m == MergeVaults(l, r)
  <1>1. m \in Vault
    BY MergeIsVault
  <1>2. ASSUME NEW i \in Ids
        PROVE  MergeVaults(m, r)[i] = m[i]
    <2>1. m[i] = IF RemoteWins(l, r, i) THEN r[i] ELSE l[i]
      BY MergeAt
    <2>2. MergeVaults(m, r)[i] = IF RemoteWins(m, r, i) THEN r[i] ELSE m[i]
      BY <1>1, MergeAt
    <2> HIDE DEF m
    <2>3. QED
      BY <2>1, <2>2 DEF RemoteWins, Present, Older
  <1>3. MergeVaults(m, r) \in Vault
    BY <1>1, MergeIsVault
  <1>4. QED
    BY <1>1, <1>2, <1>3 DEF Vault

\* Merging three vaults one after the other gives one result, however the merges
\* are grouped: it does not matter on which device two of them met first.
THEOREM MergeIsAssociative ==
    ASSUME NEW a \in Vault, NEW b \in Vault, NEW c \in Vault
    PROVE  MergeVaults(MergeVaults(a, b), c) = MergeVaults(a, MergeVaults(b, c))
  <1> DEFINE ab == MergeVaults(a, b)
             bc == MergeVaults(b, c)
  <1>1. ab \in Vault /\ bc \in Vault
    BY MergeIsVault
  <1>2. ASSUME NEW i \in Ids
        PROVE  MergeVaults(ab, c)[i] = MergeVaults(a, bc)[i]
    <2>1. /\ ab[i] = IF RemoteWins(a, b, i) THEN b[i] ELSE a[i]
          /\ bc[i] = IF RemoteWins(b, c, i) THEN c[i] ELSE b[i]
      BY MergeAt
    <2>2. /\ MergeVaults(ab, c)[i] = IF RemoteWins(ab, c, i) THEN c[i] ELSE ab[i]
          /\ MergeVaults(a, bc)[i] = IF RemoteWins(a, bc, i) THEN bc[i] ELSE a[i]
      BY <1>1, MergeAt
    <2>3. /\ a[i] # Absent => a[i].at \in Nat
          /\ b[i] # Absent => b[i].at \in Nat
          /\ c[i] # Absent => c[i].at \in Nat
      BY VersionAt
    <2> HIDE DEF ab, bc
    <2>4. QED
      BY <2>1, <2>2, <2>3 DEF RemoteWins, Present, Older
  <1>3. MergeVaults(ab, c) \in Vault /\ MergeVaults(a, bc) \in Vault
    BY <1>1, MergeIsVault
  <1>4. QED
    BY <1>2, <1>3 DEF Vault

\* The two directions of a merge agree but for two versions of one time: devices
\* that merge each other's vault hold the same entries.
THEOREM MergeCommutes ==
    ASSUME NEW l \in Vault, NEW r \in Vault, NEW i \in Ids,
           Present(l, i) /\ Present(r, i) => l[i].at # r[i].at
    PROVE  MergeVaults(l, r)[i] = MergeVaults(r, l)[i]
  <1>1. /\ MergeVaults(l, r)[i] = IF RemoteWins(l, r, i) THEN r[i] ELSE l[i]
        /\ MergeVaults(r, l)[i] = IF RemoteWins(r, l, i) THEN l[i] ELSE r[i]
    BY MergeAt
  <1>2. QED
    BY <1>1, VersionAt DEF RemoteWins, Present, Older

----------------------------------------------------------------------------
(* Conflicts and decisions *)

\* A conflict names two entries that are there and the versions they have.
LEMMA FoundAreConflicts ==
    ASSUME NEW l \in Vault, NEW r \in Vault, NEW fp \in LocalFp(l)
    PROVE  FindConflicts(l, r, fp) \subseteq Conflict
  <1>1. ASSUME NEW i \in Entries
        PROVE  /\ i \in Ids
               /\ Present(l, i) => l[i] \in Version
               /\ Present(r, i) => r[i] \in Version
    BY VersionAt DEF Ids, Present
  <1>2. EditedEdited(l, r) \subseteq Conflict
    BY <1>1 DEF EditedEdited, Conflict, Kinds
  <1>3. ASSUME NEW j \in Entries, Present(r, j), fp[r[j].content] \notin {Absent, j}
        PROVE  [kind |-> "duplicate", localId |-> fp[r[j].content], remoteId |-> j,
                local |-> l[fp[r[j].content]], remote |-> r[j]] \in Conflict
    <2> DEFINE c == r[j].content
               same == {i \in Entries : Present(l, i) /\ l[i].content = c}
    <2>1. r[j] \in Version /\ c \in Contents
      BY <1>1, <1>3 DEF Version
    <2>2. fp[c] \in same
      BY <1>3, <2>1 DEF LocalFp
    <2>3. fp[c] \in Entries /\ l[fp[c]] \in Version
      BY <1>1, <2>2
    <2>4. QED
      BY <2>1, <2>3 DEF Conflict, Kinds
  <1>4. Duplicates(l, r, fp) \subseteq Conflict
    BY <1>3 DEF Duplicates
  <1>5. QED
    BY <1>2, <1>4 DEF FindConflicts

\* Whatever is decided about conflicts, the result is a vault.
LEMMA ResolvedIsVault ==
    ASSUME NEW v \in Vault, NEW found \in SUBSET Conflict, NEW choice \in [found -> Choices]
    PROVE  ResolveConflicts(v, choice) \in Vault
  <1>1. ASSUME NEW i \in Ids
        PROVE  Chosen(choice, i) \subseteq Version
    BY DEF Chosen, Conflict
  <1>2. ASSUME NEW i \in Ids, Chosen(choice, i) # {}
        PROVE  (CHOOSE x \in Chosen(choice, i) : TRUE) \in Version
    BY <1>1, <1>2
  <1>3. QED
    BY <1>2 DEF ResolveConflicts, Vault

\* Only entries are taken out by a decision.
LEMMA DroppedAreEntries ==
    ASSUME NEW found \in SUBSET Conflict, NEW choice \in [found -> Choices]
    PROVE  Dropped(choice) \subseteq Ids
  BY DEF Dropped, Conflict, Ids

\* A decision changes nothing but entries it is about: resolveConflicts touches no
\* folder and no entry the user was not asked about.
THEOREM UntouchedByResolution ==
    ASSUME NEW v \in Vault, NEW found \in SUBSET Conflict, NEW choice \in [found -> Choices],
           NEW i \in Ids, \A c \in found : i \notin {c.localId, c.remoteId}
    PROVE  ResolveConflicts(v, choice)[i] = v[i]
  <1>1. i \notin Dropped(choice)
    BY DEF Dropped
  <1>2. Chosen(choice, i) = {}
    BY DEF Chosen
  <1>3. QED
    BY <1>1, <1>2 DEF ResolveConflicts, Present

=============================================================================
