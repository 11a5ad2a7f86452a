----------------------------- MODULE KvStoreMC -----------------------------
(***************************************************************************)
(* KvStore for TLC.  Keys and values are only compared for equality, so    *)
(* permuting them maps behaviours to behaviours.                           *)
(***************************************************************************)
EXTENDS KvStore, TLC

Symmetry == Permutations(Keys) \cup Permutations(Values)
=============================================================================
