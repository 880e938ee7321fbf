------------------------- MODULE VaultStoreProofs -------------------------
(***************************************************************************)
(* The history of the register is linear, whatever it holds.               *)
(***************************************************************************)
EXTENDS VaultStore, TLAPS

Inv == TypeOK /\ LinearHistory /\ revision >= 1

\* The register starts with one publication.
LEMMA InitInv == Init => Inv
  BY DEF Init, Inv, TypeOK, LinearHistory, Publication

\* A publication takes the next revision, which no earlier one has.
LEMMA StepInv == Inv /\ [Next]_vars => Inv'
  <1> SUFFICES ASSUME Inv, [Next]_vars PROVE Inv'
    OBVIOUS
  <1>1. CASE Publish
    <2> DEFINE new == [revision |-> revision + 1, blob |-> value']
    <2>1. /\ published' = published \cup {new}
          /\ revision' = revision + 1
          /\ revision \in Nat /\ revision >= 1
          /\ value' \in Values /\ writes' \subseteq writes
      BY <1>1 DEF Publish, Inv, TypeOK, Write
    <2>2. TypeOK' /\ revision' >= 1
      BY <2>1 DEF Inv, TypeOK, Publication, Write
    <2>3. \A p \in published' : p.revision \in 1..revision'
      BY <2>1 DEF Inv, LinearHistory
    <2>4. \A r \in 1..revision' : \E p \in published' : p.revision = r
      <3> SUFFICES ASSUME NEW r \in 1..revision' PROVE \E p \in published' : p.revision = r
        OBVIOUS
      <3>1. CASE r \in 1..revision
        BY <2>1, <3>1 DEF Inv, LinearHistory
      <3>2. CASE r = revision + 1
        <4>1. new \in published' /\ new.revision = r
          BY <2>1, <3>2
        <4>2. QED
          BY <4>1
      <3>3. QED
        BY <2>1, <3>1, <3>2
    <2>5. \A p, q \in published' : p.revision = q.revision => p = q
      BY <2>1 DEF Inv, LinearHistory
    <2>6. [revision |-> revision', blob |-> value'] \in published'
      BY <2>1
    <2>7. QED
      BY <2>2, <2>3, <2>4, <2>5, <2>6 DEF Inv, LinearHistory
  <1>2. CASE Send \/ UNCHANGED vars
    <2>1. /\ UNCHANGED <<value, revision, published>>
          /\ \A w \in writes' : w \in Write /\ w.base <= revision
      BY <1>2 DEF Send, vars, Inv, TypeOK
    <2>2. TypeOK'
      BY <2>1 DEF Inv, TypeOK
    <2>3. QED
      BY <2>1, <2>2 DEF Inv, LinearHistory
  <1>3. QED
    BY <1>1, <1>2 DEF Next

\* Every revision is published once, with one content, and the register holds the
\* last one.
THEOREM History == Spec => []LinearHistory
  <1>1. Inv => LinearHistory
    BY DEF Inv
  <1>2. QED
    BY InitInv, StepInv, <1>1, PTL DEF Spec

=============================================================================
