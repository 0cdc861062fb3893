------------------------------- MODULE MCPool -------------------------------
(***************************************************************************)
(* Pool on small instances.                                                *)
(***************************************************************************)
EXTENDS Pool, TLC

\* Workers and tasks are interchangeable.
PoolSymmetry == Permutations(Workers) \cup Permutations(Tasks)

\* Submitters are interchangeable too when there are several.
SubmitterSymmetry == PoolSymmetry \cup Permutations(Submitters)

=============================================================================
