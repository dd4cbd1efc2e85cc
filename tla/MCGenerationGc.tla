--------------------------- MODULE MCGenerationGc ---------------------------
(***************************************************************************)
(* GenerationGc on small instances.                                        *)
(***************************************************************************)
EXTENDS GenerationGc, TLC

CONSTANTS p1, p2, g1, g2, g3, g4, c1, c2

OneProc == {p1}
TwoProcs == {p1, p2}
ThreeGens == {g1, g2, g3}
FourGens == {g1, g2, g3, g4}
TwoContents == {c1, c2}
NeverPin == {FALSE}
AnyPin == BOOLEAN

\* A bound of GcRace: of the crash, the power loss and the removal of the
\* manifest that the budget allows, only one happens.
OneFailure == budget.crashes + budget.powerLosses + budget.removals >= 2

\* Ids, contents and processes are interchangeable.
Symmetry == Permutations(Gens) \cup Permutations(Contents) \cup Permutations(Procs)

=============================================================================
