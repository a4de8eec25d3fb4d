---------------------------- MODULE MCPathRules ----------------------------
(* Small instances of PathRules: a directory in two spellings, a file, the *)
(* pattern that matches everything and one that matches files only.        *)
EXTENDS PathRules

CONSTANTS src, SRC, leaf, star, starPy

FoldDef == [s \in Segments |-> IF s = SRC THEN src ELSE s]
MatchesDef == [p \in Patterns |->
                 IF p = star THEN Segments \ {SRC} ELSE {leaf, starPy}]
\* '*.py' itself is text with an extension.
ExtendedDef == {leaf, starPy}
=============================================================================
