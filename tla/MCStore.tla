------------------------------ MODULE MCStore ------------------------------
(* Instances of Store for TLC.                                             *)
EXTENDS Store, TLC

\* Keys are only ever compared for equality.
KeySymmetry == Permutations(Keys)

=============================================================================
