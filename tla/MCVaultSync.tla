---------------------------- MODULE MCVaultSync ---------------------------
(***************************************************************************)
(* Instances of VaultSync for TLC.                                         *)
(***************************************************************************)
EXTENDS VaultSync, TLC

CONSTANTS d1, d2, s1, s2, e1, e2, e3

\* Synchronised clocks: a later edit has a later updatedAt.
MCClock == [n \in 1..MaxEdits |-> n]
MCContents == 0..MaxEdits

\* Devices are interchangeable, and so are the slots of all devices.
MCSymmetry == Permutations(Devices) \cup Permutations(Slots)
=============================================================================
