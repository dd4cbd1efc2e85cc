-------------------------- MODULE MCIndexPipeline --------------------------
(***************************************************************************)
(* An instance of IndexPipeline for TLC: two files, one of which only the  *)
(* full mode visits, that call each other and change together; the other   *)
(* is the package file of its folder.                                      *)
(***************************************************************************)
EXTENDS IndexPipeline

MCFiles    == {"a", "b"}
MCFullOnly == {"b"}
MCCalls    == {<<"a", "b">>, <<"b", "a">>}
MCCoupled  == {<<"a", "b">>}
MCHollow   == {2}
MCPackages == {"a"}

============================================================================
