-------------------------- MODULE MCPageCitations --------------------------
(***************************************************************************)
(* PageCitations for TLC.                                                  *)
(***************************************************************************)
EXTENDS PageCitations, TLC

\* Ids and titles are only compared, never ordered.
IdsAndTitles == Permutations(RevIds) \cup Permutations(Titles)
=============================================================================
