---------------------------- MODULE VaultStore ----------------------------
(***************************************************************************)
(* What the server promises about one user's vault, seen by all devices:   *)
(* a register written by compare-and-swap. A write in flight names the     *)
(* revision its sender started from; it replaces the content only while    *)
(* that is the current revision, the revision then goes up by one, and the *)
(* past is never rewritten. `published` is the whole past: one record per  *)
(* revision.                                                               *)
(***************************************************************************)
EXTENDS Integers

CONSTANT Values     \* what the register may hold

VARIABLES
    value, revision, published,
    writes          \* the writes in flight: what a sender wants in place of what

vars == <<value, revision, published, writes>>

Publication == [revision : Nat, blob : Values]
Write == [base : Nat, value : Values]

Init ==
    /\ value \in Values
    /\ revision = 1
    /\ published = {[revision |-> 1, blob |-> value]}
    /\ writes = {}

\* Writers start from revisions the register has had; any write in flight may be
\* lost, refused or withdrawn. The register does not change.
Send ==
    /\ \A w \in writes' \ writes : w \in Write /\ w.base <= revision
    /\ UNCHANGED <<value, revision, published>>

\* One of the writes in flight is taken: its sender started from the current
\* revision. Others may be withdrawn at the same time, none is added.
Publish ==
    /\ \E w \in writes :
          /\ w.base = revision
          /\ value' = w.value
          /\ revision' = revision + 1
          /\ published' = published \cup {[revision |-> revision + 1, blob |-> w.value]}
    /\ writes' \subseteq writes

Next == Send \/ Publish

Spec == Init /\ [][Next]_vars

----------------------------------------------------------------------------
\* Every variable holds a value of its kind, and no writer is ahead.
TypeOK ==
    /\ value \in Values
    /\ revision \in Nat
    /\ published \subseteq Publication
    /\ writes \subseteq Write
    /\ \A w \in writes : w.base <= revision

\* Every revision up to the current one was published once, with one content,
\* and the register holds the last: two devices that name the same revision
\* mean the same vault.
LinearHistory ==
    /\ \A p \in published : p.revision \in 1..revision
    /\ \A r \in 1..revision : \E p \in published : p.revision = r
    /\ \A p, q \in published : p.revision = q.revision => p = q
    /\ [revision |-> revision, blob |-> value] \in published

=============================================================================
