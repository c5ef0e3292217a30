--------------------------- MODULE MCJobLifecycle ---------------------------
(***************************************************************************)
(* Small instances of JobLifecycle for TLC.                                *)
(***************************************************************************)
EXTENDS JobLifecycle, TLC

\* Messages, jobs and processes are interchangeable in the safety runs.
Symmetry ==
  Permutations(Jobs) \union Permutations(Messages) \union
  Permutations(Apis) \union Permutations(Workers)
=============================================================================
