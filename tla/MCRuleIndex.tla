---------------------------- MODULE MCRuleIndex ----------------------------
(* Small instances of RuleIndex. *)
EXTENDS RuleIndex, TLC

SymIndexed == Permutations(Indexed)
=============================================================================
