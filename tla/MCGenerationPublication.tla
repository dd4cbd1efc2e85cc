---------------------- MODULE MCGenerationPublication ----------------------
(***************************************************************************)
(* GenerationPublication on small instances: a few processes, contents and *)
(* generation ids, and a bound on every kind of failure.                   *)
(***************************************************************************)
EXTENDS GenerationPublication, TLC

CONSTANTS p1, p2, g1, g2, g3, g4, c1, c2

TwoProcs == {p1, p2}
FourGens == {g1, g2, g3, g4}
ThreeGens == {g1, g2, g3}
TwoContents == {c1, c2}
NeverPin == {FALSE}

\* Ids, contents and processes are interchangeable.
Symmetry == Permutations(Gens) \cup Permutations(Contents) \cup Permutations(Procs)

=============================================================================
