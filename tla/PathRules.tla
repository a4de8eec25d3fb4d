----------------------------- MODULE PathRules -----------------------------
(***************************************************************************)
(* The two questions tools/bm_store.py asks about declared paths:          *)
(* paths_overlap, "can two claims name the same file" (the fence), and     *)
(* path_within_allowed, "is this inside the founder's boundary" (a         *)
(* contract's allowed_paths).                                              *)
(*                                                                         *)
(* A canonical path is its sequence of segments; the whole root, spelled   *)
(* '.', is the empty sequence; Empty is the empty string.  A segment is a  *)
(* literal name or a pattern (it has a wildcard character).  What a        *)
(* pattern matches, which names carry an extension and what case and       *)
(* Unicode folding does to a segment are parameters.                       *)
(***************************************************************************)
EXTENDS Naturals, Sequences

CONSTANTS
    Literals,     \* segments without a wildcard
    Patterns,     \* segments with one
    Matches,      \* pattern -> the folded segments fnmatchcase accepts for it
    Extended,     \* the folded segments _names_a_file takes for a file's name
    Fold,         \* _normcase, segment by segment
    Empty,        \* the empty string
    MaxDepth      \* bound: segments of a path in a run

Segments == Literals \cup Patterns

\* Folding lower-cases and composes; it neither adds nor removes a wildcard.
ASSUME FoldKeepsKind ==
    /\ Fold \in [Segments -> Segments]
    /\ \A s \in Segments : Fold[Fold[s]] = Fold[s]
    /\ \A s \in Segments : s \in Patterns <=> Fold[s] \in Patterns
ASSUME MatchesTyped == Matches \in [Patterns -> SUBSET Segments]
ASSUME EmptyIsNoPath == Empty \notin Seq(Segments)
ASSUME DepthIsNat == MaxDepth \in Nat

Root == <<>>
Normal(p) == [i \in DOMAIN p |-> Fold[p[i]]]
HasGlob(p) == \E i \in DOMAIN p : p[i] \in Patterns

\* Mutant: the coverage key of a pattern is the pattern itself.
CoverageKeyVerbatim(p) == [i \in DOMAIN p |-> p[i]]
\* The segments before the first one with a wildcard.
CoverageKey(p) ==
    [i \in {k \in DOMAIN p : \A j \in 1 .. k : p[j] \notin Patterns} |-> p[i]]

\* Directory prefix a is the root, is b, or is an ancestor of b.
PrefixContains(a, b) ==
    /\ DOMAIN a \subseteq DOMAIN b
    /\ \A i \in DOMAIN a : a[i] = b[i]

PathsOverlap(a, b) ==
    /\ a # Empty /\ b # Empty
    /\ LET ka == CoverageKey(Normal(a))
           kb == CoverageKey(Normal(b))
       IN PrefixContains(ka, kb) \/ PrefixContains(kb, ka)

NamesAFile(seg) == seg \in Extended

\* fnmatchcase of one segment against one segment of an allowed entry.
Accepts(pat, seg) ==
    \/ pat = seg
    \/ pat \in Patterns /\ seg \in Matches[pat]

\* Mutant: a pattern grants a directory it matches, too.
WithinAllowedAnyKind(allowed, candidate) ==
    /\ allowed # Empty /\ candidate # Empty
    /\ LET na == Normal(allowed)
           nb == Normal(candidate)
       IN \/ na = Root
          \/ /\ nb # Root /\ ~HasGlob(na)
             /\ PrefixContains(na, nb)
          \/ /\ nb # Root /\ HasGlob(na)
             /\ Len(na) = Len(nb)
             /\ \A i \in DOMAIN na : Accepts(na[i], nb[i])
\* A plain entry grants its subtree, a pattern the files it matches at its
\* own depth.
WithinAllowed(allowed, candidate) ==
    /\ allowed # Empty /\ candidate # Empty
    /\ LET na == Normal(allowed)
           nb == Normal(candidate)
       IN \/ na = Root
          \/ /\ nb # Root /\ ~HasGlob(na)
             /\ PrefixContains(na, nb)
          \/ /\ nb # Root /\ HasGlob(na)
             /\ Len(na) = Len(nb)
             /\ \A i \in DOMAIN na : Accepts(na[i], nb[i])
             /\ NamesAFile(nb[Len(nb)])

-----------------------------------------------------------------------------
(* What the answers are measured against *)

\* A file on disk: literal names, only the last of which may carry an
\* extension (the reading _names_a_file settles on).
IsFile(f) ==
    /\ f \in Seq(Literals) /\ f # Root
    /\ \A i \in 1 .. Len(f) - 1 : ~NamesAFile(Fold[f[i]])

\* The declared path p can name f: every segment of p is, or matches, the
\* segment of f at its place; p may be a directory f lies under.
CanName(p, f) ==
    /\ Len(p) <= Len(f)
    /\ \A i \in DOMAIN p : Accepts(Normal(p)[i], Normal(f)[i])

\* A fence over p reaches file f: the direction of the overlap in which f is
\* the file and p its directory, its pattern or itself.
FenceCovers(p, f) ==
    IsFile(f) /\ PrefixContains(CoverageKey(Normal(p)), CoverageKey(Normal(f)))

-----------------------------------------------------------------------------
(* Every pair of declared paths, one per state *)

VARIABLES left, right
vars == <<left, right>>

PathsUpTo(n, S) == UNION {[1 .. k -> S] : k \in 0 .. n}
Declared == PathsUpTo(MaxDepth, Segments) \cup {Empty}
FilesUpTo(n) == {f \in PathsUpTo(n, Literals) : IsFile(f)}

Init == left = Root /\ right = Root
DeclareLeft == left = Root /\ right = Root /\ left' \in Declared /\ UNCHANGED right
DeclareRight == right = Root /\ right' \in Declared /\ UNCHANGED left
Next == DeclareLeft \/ DeclareRight
Spec == Init /\ [][Next]_vars

-----------------------------------------------------------------------------
(* Properties *)

\* No missed conflict: two claims that can name one file overlap, whatever
\* mix of directories, patterns and spellings they are.
SharedFileOverlaps ==
    left # Empty /\ right # Empty =>
      \A f \in FilesUpTo(MaxDepth + 1) :
         CanName(left, f) /\ CanName(right, f) => PathsOverlap(left, right)

\* The order in which two claims arrive does not matter.
OverlapSymmetric == PathsOverlap(left, right) <=> PathsOverlap(right, left)

\* "An entry grants a candidate ONLY IF it also grants everything a fence
\* over that candidate would cover", for the literal candidates a write scope
\* consists of.
GrantsWhatItsFenceCovers ==
    right # Empty /\ ~HasGlob(right) /\ WithinAllowed(left, right)
      => \A f \in FilesUpTo(MaxDepth + 1) :
            FenceCovers(right, f) => WithinAllowed(left, f)
=============================================================================
