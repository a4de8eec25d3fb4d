---------------------------- MODULE FilesProofs ----------------------------
(***************************************************************************)
(* What is promised about files: which paths conflict and which a contract *)
(* grants, what a store's file holds, which snapshot recovery offers, what *)
(* people wrote in STATE.md, and what the hooks let happen to a file under *)
(* a fence.  The five parts share no state.                                *)
(*                                                                         *)
(* Paths.  Coverage keys of paths that can name one file are prefixes of   *)
(* that file, and two prefixes of one sequence are comparable.             *)
(*                                                                         *)
(* The store's file.  A version is written in two places only: by the row  *)
(* that ends the building of the schema, once the tables are all there,    *)
(* and by the transaction of a migration, with them.  Tables are never     *)
(* dropped, and moving a file changes nothing in it.  An opener that       *)
(* nobody has written under is at the file at the path and has read what   *)
(* is there (Untroubled), so what it condemns is not whole.  Writers of    *)
(* one age never leave more than one older store, because the versions     *)
(* they give are all the newest, so the copy kept under one name is of the *)
(* store about to be migrated (Copied).                                    *)
(*                                                                         *)
(* Snapshots.  The attempt at work holds the lock, and nobody else moves   *)
(* the pointer, so what it read of the pointer is still true when it moves *)
(* it.  That is false once a lock was taken for stale while its owner was  *)
(* alive (robbed), or an attempt died between the reference and the        *)
(* pointer (torn): the claims except these two cases.  A publication that  *)
(* git refused, or a clearing whose mark could not be written, leaves the  *)
(* pointer wrong (lapsed) until a later one goes through.                  *)
(*                                                                         *)
(* The view.  As long as each redraw could read the file (unseen is empty) *)
(* redraws of several commands disturb each other's blocks, but not the    *)
(* prose: what one holds would leave the same prose as the file it is      *)
(* about to replace (SameProse).  Notes between the markers are lost by    *)
(* the first redraw that replaces the file; until then everybody holds the *)
(* same text, and the newest backups are of it (SavedLast), which pruning  *)
(* cannot reach, since what it lists has Keep newer ones (DoomedAreOld).   *)
(*                                                                         *)
(* The hooks.  A call holds what it has read.  Before an edit: the fences  *)
(* as they were, unless one over its file has moved since.  Around a       *)
(* command: a snapshot that the files can only outgrow, and which is there *)
(* from before the command until its alerts are recorded; between the      *)
(* comparison and the last alert, the files still to be told about.        *)
(* ShellOK and EditOK say this of one call.  An action is a step of one    *)
(* call, and CallStep carries both over it for all the others.             *)
(***************************************************************************)
EXTENDS PathRules, StoreOpen, Autosave, StateView, FenceGuard, FiniteSetTheorems, TLAPS

(* Paths *)

LEMMA PathIsFunction ==
    ASSUME NEW S, NEW p \in Seq(S)
    PROVE  /\ Len(p) \in Nat
           /\ DOMAIN p = 1 .. Len(p)
           /\ \A i \in DOMAIN p : p[i] \in S
OBVIOUS

LEMMA NormalPath ==
    ASSUME NEW p \in Seq(Segments)
    PROVE  /\ Normal(p) \in Seq(Segments)
           /\ Len(Normal(p)) = Len(p)
           /\ DOMAIN Normal(p) = 1 .. Len(p)
           /\ \A i \in 1 .. Len(p) : Normal(p)[i] = Fold[p[i]]
<1>1. Len(p) \in Nat /\ DOMAIN p = 1 .. Len(p) /\ \A i \in DOMAIN p : p[i] \in Segments
  BY PathIsFunction
<1>2. Normal(p) = [i \in 1 .. Len(p) |-> Fold[p[i]]]
  BY <1>1 DEF Normal
<1>3. \A i \in 1 .. Len(p) : Fold[p[i]] \in Segments
  BY <1>1, FoldKeepsKind
<1> QED
  BY <1>1, <1>2, <1>3

\* Two prefixes of one sequence are comparable.
LEMMA KeysComparable ==
    ASSUME NEW a \in Seq(Segments), NEW b \in Seq(Segments), NEW f \in Seq(Segments),
           \A i \in DOMAIN CoverageKey(a) : i \in 1 .. Len(f) /\ a[i] = f[i],
           \A i \in DOMAIN CoverageKey(b) : i \in 1 .. Len(f) /\ b[i] = f[i]
    PROVE  \/ PrefixContains(CoverageKey(a), CoverageKey(b))
           \/ PrefixContains(CoverageKey(b), CoverageKey(a))
<1>1. /\ Len(a) \in Nat /\ DOMAIN a = 1 .. Len(a)
      /\ Len(b) \in Nat /\ DOMAIN b = 1 .. Len(b)
  BY PathIsFunction
<1> DEFINE A == DOMAIN CoverageKey(a)
           B == DOMAIN CoverageKey(b)
<1>2. /\ A = {k \in 1 .. Len(a) : \A j \in 1 .. k : a[j] \notin Patterns}
      /\ B = {k \in 1 .. Len(b) : \A j \in 1 .. k : b[j] \notin Patterns}
  BY <1>1 DEF CoverageKey
<1>3. A \subseteq B \/ B \subseteq A
  <2>1. SUFFICES ASSUME NEW i \in A, i \notin B, NEW k \in B, k \notin A
                 PROVE  FALSE
    OBVIOUS
  <2>2. i \in Nat /\ k \in Nat /\ i # k
    BY <2>1, <1>1, <1>2
  <2>3. CASE i < k
    BY <2>1, <2>2, <2>3, <1>1, <1>2
  <2>4. CASE k < i
    BY <2>1, <2>2, <2>4, <1>1, <1>2
  <2> QED
    BY <2>2, <2>3, <2>4
<1>4. /\ \A i \in A : CoverageKey(a)[i] = f[i]
      /\ \A i \in B : CoverageKey(b)[i] = f[i]
  BY DEF CoverageKey
<1> QED
  BY <1>3, <1>4 DEF PrefixContains

\* A path agrees with every file it can name up to its first wildcard.
LEMMA KeyAgrees ==
    ASSUME NEW p \in Seq(Segments), NEW f \in Seq(Segments), CanName(p, f)
    PROVE  \A i \in DOMAIN CoverageKey(Normal(p)) :
             i \in 1 .. Len(Normal(f)) /\ Normal(p)[i] = Normal(f)[i]
<1>1. /\ Len(p) \in Nat /\ DOMAIN p = 1 .. Len(p) /\ Len(f) \in Nat
  BY PathIsFunction
<1>2. DOMAIN Normal(p) = 1 .. Len(p) /\ Len(Normal(f)) = Len(f)
  BY NormalPath
<1>3. \A i \in DOMAIN CoverageKey(Normal(p)) :
        i \in 1 .. Len(p) /\ Normal(p)[i] \notin Patterns
  BY <1>1, <1>2 DEF CoverageKey
<1> QED
  BY <1>1, <1>2, <1>3 DEF CanName, Accepts

(* Two declared paths that can name one file conflict: however the paths   *)
(* are spelled and whatever their wildcards match, paths_overlap does not  *)
(* miss it.                                                                *)
THEOREM NoMissedConflict ==
    ASSUME NEW p \in Seq(Segments), NEW q \in Seq(Segments),
           NEW f \in Seq(Segments), CanName(p, f), CanName(q, f)
    PROVE  PathsOverlap(p, q)
<1>1. /\ Normal(p) \in Seq(Segments) /\ Normal(q) \in Seq(Segments)
      /\ Normal(f) \in Seq(Segments)
  BY NormalPath
<1>2. /\ \A i \in DOMAIN CoverageKey(Normal(p)) :
           i \in 1 .. Len(Normal(f)) /\ Normal(p)[i] = Normal(f)[i]
      /\ \A i \in DOMAIN CoverageKey(Normal(q)) :
           i \in 1 .. Len(Normal(f)) /\ Normal(q)[i] = Normal(f)[i]
  BY KeyAgrees
<1>3. \/ PrefixContains(CoverageKey(Normal(p)), CoverageKey(Normal(q)))
      \/ PrefixContains(CoverageKey(Normal(q)), CoverageKey(Normal(p)))
  BY <1>1, <1>2, KeysComparable
<1>4. p # Empty /\ q # Empty
  BY EmptyIsNoPath
<1> QED
  BY <1>3, <1>4 DEF PathsOverlap

(* What a literal candidate is granted, its fence stays within: a contract *)
(* that allows it allows every file the fence over it reaches.             *)
THEOREM GrantStaysInside ==
    ASSUME NEW a \in Seq(Segments), NEW c \in Seq(Segments),
           NEW f \in Seq(Literals),
           ~HasGlob(c), WithinAllowed(a, c), FenceCovers(c, f)
    PROVE  WithinAllowed(a, f)
<1> DEFINE na == Normal(a)
           nc == Normal(c)
           nf == Normal(f)
<1>f. f \in Seq(Segments) /\ f # Root /\ IsFile(f)
  BY DEF FenceCovers, IsFile, Segments
<1>1. /\ Len(a) \in Nat /\ Len(c) \in Nat /\ Len(f) \in Nat
      /\ DOMAIN c = 1 .. Len(c) /\ \A i \in DOMAIN c : c[i] \in Segments
  BY <1>f, PathIsFunction
<1>2. /\ na \in Seq(Segments) /\ Len(na) = Len(a) /\ DOMAIN na = 1 .. Len(a)
      /\ nc \in Seq(Segments) /\ Len(nc) = Len(c) /\ DOMAIN nc = 1 .. Len(c)
      /\ nf \in Seq(Segments) /\ Len(nf) = Len(f) /\ DOMAIN nf = 1 .. Len(f)
  BY <1>f, NormalPath
<1>3. \A i \in 1 .. Len(c) : nc[i] \notin Patterns
  BY <1>1, NormalPath, FoldKeepsKind DEF HasGlob
<1>4. Len(c) <= Len(f) /\ \A i \in 1 .. Len(c) : nc[i] = nf[i]
  <2>1. /\ DOMAIN CoverageKey(nc) = 1 .. Len(c)
        /\ \A i \in 1 .. Len(c) : CoverageKey(nc)[i] = nc[i]
    BY <1>1, <1>2, <1>3 DEF CoverageKey
  <2>2. /\ DOMAIN CoverageKey(nf) \subseteq 1 .. Len(f)
        /\ \A i \in DOMAIN CoverageKey(nf) : CoverageKey(nf)[i] = nf[i]
    BY <1>2 DEF CoverageKey
  <2>3. PrefixContains(CoverageKey(nc), CoverageKey(nf))
    BY DEF FenceCovers
  <2>4. /\ 1 .. Len(c) \subseteq 1 .. Len(f)
        /\ \A i \in 1 .. Len(c) : nc[i] = nf[i]
    BY <2>1, <2>2, <2>3 DEF PrefixContains
  <2> QED
    BY <2>4, <1>1
<1>5. nf # Root /\ f # Empty /\ a # Empty
  <2>1. Len(f) # 0
    BY <1>f DEF Root
  <2> QED
    BY <2>1, <1>f, <1>2, EmptyIsNoPath DEF Root
<1>6. CASE na = Root
  BY <1>5, <1>6 DEF WithinAllowed
<1>7. CASE nc # Root /\ ~HasGlob(na) /\ PrefixContains(na, nc)
  <2>1. PrefixContains(na, nf)
    BY <1>1, <1>2, <1>4, <1>7 DEF PrefixContains
  <2> QED
    BY <2>1, <1>5, <1>7 DEF WithinAllowed
<1>8. CASE /\ nc # Root /\ HasGlob(na) /\ Len(na) = Len(nc)
           /\ \A i \in DOMAIN na : Accepts(na[i], nc[i])
           /\ NamesAFile(nc[Len(nc)])
  <2>1. Len(c) # 0
    BY <1>2, <1>8 DEF Root
  <2>2. Len(c) = Len(f)
    <3>1. SUFFICES ASSUME Len(c) < Len(f) PROVE FALSE
      BY <1>1, <1>4
    <3>2. Len(c) \in 1 .. Len(f) - 1
      BY <3>1, <2>1, <1>1
    <3>3. ~NamesAFile(Fold[f[Len(c)]])
      BY <3>2, <1>f DEF IsFile
    <3>4. Fold[f[Len(c)]] = nf[Len(c)]
      BY <3>2, <1>1, <1>f, NormalPath
    <3>5. nf[Len(c)] = nc[Len(nc)]
      BY <3>2, <1>1, <1>2, <1>4
    <3> QED
      BY <3>3, <3>4, <3>5, <1>8
  <2>3. /\ Len(na) = Len(nf)
        /\ \A i \in DOMAIN na : nc[i] = nf[i]
        /\ nc[Len(nc)] = nf[Len(nf)]
    BY <1>1, <1>2, <1>4, <1>8, <2>1, <2>2
  <2>4. \A i \in DOMAIN na : Accepts(na[i], nf[i])
    BY <2>3, <1>8
  <2> QED
    BY <2>3, <2>4, <1>5, <1>8 DEF WithinAllowed
<1> QED
  BY <1>6, <1>7, <1>8 DEF WithinAllowed

(* The invariants of the enumeration, for every MaxDepth.                  *)

Typed ==
    /\ left \in Seq(Segments) \cup {Empty}
    /\ right \in Seq(Segments) \cup {Empty}

LEMMA DeclaredIsPath ==
    ASSUME NEW p \in Declared
    PROVE  p \in Seq(Segments) \cup {Empty}
<1>1. CASE p = Empty
  BY <1>1
<1>2. CASE \E k \in 0 .. MaxDepth : p \in [1 .. k -> Segments]
  BY <1>2, DepthIsNat
<1> QED
  BY <1>1, <1>2 DEF Declared, PathsUpTo

LEMMA FileIsPath ==
    ASSUME NEW n \in Nat, NEW f \in FilesUpTo(n)
    PROVE  f \in Seq(Literals) /\ f \in Seq(Segments)
<1>1. f \in Seq(Literals)
  BY DEF FilesUpTo, IsFile
<1> QED
  BY <1>1 DEF Segments

LEMMA TypedHolds == Spec => []Typed
<1>1. Init => Typed
  BY DEF Init, Typed, Root
<1>2. Typed /\ [Next]_vars => Typed'
  BY DeclaredIsPath DEF Typed, Next, DeclareLeft, DeclareRight, vars
<1> QED
  BY <1>1, <1>2, PTL DEF Spec

(* paths_overlap never misses a conflict, at any depth.                    *)
THEOREM SharedFileOverlapsHolds == Spec => []SharedFileOverlaps
<1>1. Typed => SharedFileOverlaps
  <2>1. SUFFICES ASSUME Typed, left # Empty, right # Empty,
                        NEW f \in FilesUpTo(MaxDepth + 1),
                        CanName(left, f), CanName(right, f)
                 PROVE  PathsOverlap(left, right)
    BY DEF SharedFileOverlaps
  <2>2. f \in Seq(Segments)
    BY FileIsPath, DepthIsNat
  <2> QED
    BY <2>1, <2>2, NoMissedConflict DEF Typed
<1> QED
  BY <1>1, TypedHolds, PTL

(* paths_overlap is symmetric: what RecordStore assumes of Overlap.        *)
THEOREM OverlapSymmetricHolds == Spec => []OverlapSymmetric
<1>1. OverlapSymmetric
  BY DEF OverlapSymmetric, PathsOverlap
<1> QED
  BY <1>1, PTL

(* A contract that allows a literal path allows what a fence over it       *)
(* reaches, at any depth.                                                  *)
THEOREM GrantsWhatItsFenceCoversHolds == Spec => []GrantsWhatItsFenceCovers
<1>1. Typed => GrantsWhatItsFenceCovers
  <2>1. SUFFICES ASSUME Typed, right # Empty, ~HasGlob(right),
                        WithinAllowed(left, right),
                        NEW f \in FilesUpTo(MaxDepth + 1), FenceCovers(right, f)
                 PROVE  WithinAllowed(left, f)
    BY DEF GrantsWhatItsFenceCovers
  <2>2. f \in Seq(Literals)
    BY FileIsPath, DepthIsNat
  <2>3. left # Empty
    BY <2>1 DEF WithinAllowed
  <2> QED
    BY <2>1, <2>2, <2>3, GrantStaysInside DEF Typed
<1> QED
  BY <1>1, TypedHolds, PTL

-----------------------------------------------------------------------------
(* The store's file *)

\* One opener has gone on, the others are where they were.
GoesOn(p) ==
    /\ opener' \in [Openers -> Opener]
    /\ \A q \in Openers \ {p} : opener'[q] = opener[q]

\* It has gone on with all it had.
Turned(p, at) ==
    /\ GoesOn(p)
    /\ opener'[p].at = at
    /\ opener'[p].as = opener[p].as
    /\ opener'[p].file = opener[p].file
    /\ opener'[p].found = opener[p].found
    /\ opener'[p].listed = opener[p].listed
    /\ opener'[p].dir = opener[p].dir

\* Turn moves an opener on with all it has.
LEMMA TurnFrame ==
    ASSUME OTypeOK, NEW p \in Openers, NEW at \in Stages, Turn(p, at)
    PROVE  Turned(p, at)
<1> DEFINE e == [opener[p] EXCEPT !.at = at]
<1>1. opener' = [opener EXCEPT ![p] = e]
  BY DEF Turn
<1>2. opener[p] \in Opener
  BY DEF OTypeOK
<1>3. /\ e \in Opener /\ e.at = at /\ e.as = opener[p].as /\ e.file = opener[p].file
      /\ e.found = opener[p].found /\ e.listed = opener[p].listed /\ e.dir = opener[p].dir
  BY <1>2 DEF Opener
<1> HIDE DEF e
<1> QED
  BY <1>1, <1>3 DEF OTypeOK, Turned, GoesOn

\* Before and after, an opener has nothing.
LEMMA AwayType == Away \in Opener
BY KnowsBounded DEF Away, Opener, Stages, Versions

\* Leaving, an opener puts down all it has.
LEMMA LeaveFrame ==
    ASSUME OTypeOK, NEW p \in Openers, Leave(p)
    PROVE  GoesOn(p) /\ opener'[p] = Away
BY AwayType DEF Leave, OTypeOK, GoesOn

\* Starting, an opener takes a role of its own and lists what is set aside.
LEMMA StartFrame ==
    ASSUME OTypeOK, NEW p \in Openers, Start(p)
    PROVE  /\ GoesOn(p)
           /\ opener'[p].at = "look"
           /\ opener'[p].as \in Roles[p]
           /\ \A i \in opener'[p].listed : aside[i] # NoDir
<1>1. ASSUME NEW role \in {"init", "write", "read"}, NEW L \in SUBSET Incidents,
             opener' = [opener EXCEPT ![p] =
                          [Away EXCEPT !.at = "look", !.as = role, !.listed = L]]
      PROVE  /\ GoesOn(p)
             /\ opener'[p].at = "look" /\ opener'[p].as = role /\ opener'[p].listed = L
  <2> DEFINE e == [Away EXCEPT !.at = "look", !.as = role, !.listed = L]
  <2>1. e \in Opener /\ e.at = "look" /\ e.as = role /\ e.listed = L
    BY AwayType DEF Opener, Stages
  <2>2. opener' = [opener EXCEPT ![p] = e]
    BY <1>1
  <2> HIDE DEF e
  <2> QED
    BY <2>1, <2>2 DEF OTypeOK, GoesOn
<1>2. Roles[p] \subseteq {"init", "write", "read"}
  BY RolesKnown
<1>3. CASE \E acknowledge \in BOOLEAN : "init" \in Roles[p] /\
             opener' = [opener EXCEPT ![p] =
                     [Away EXCEPT !.at = "look", !.as = "init",
                                  !.listed = IF acknowledge THEN Unacknowledged ELSE {}]]
  <2>1. PICK acknowledge \in BOOLEAN : "init" \in Roles[p] /\
             opener' = [opener EXCEPT ![p] =
                     [Away EXCEPT !.at = "look", !.as = "init",
                                  !.listed = IF acknowledge THEN Unacknowledged ELSE {}]]
    BY <1>3
  <2> DEFINE L == IF acknowledge THEN Unacknowledged ELSE {}
  <2>2. L \in SUBSET Incidents /\ \A i \in L : aside[i] # NoDir
    BY DEF Unacknowledged
  <2> HIDE DEF L
  <2>3. opener' = [opener EXCEPT ![p] =
                          [Away EXCEPT !.at = "look", !.as = "init", !.listed = L]]
    BY <2>1 DEF L
  <2> QED
    BY <1>1, <2>1, <2>2, <2>3
<1>4. CASE \E role \in Roles[p] \ {"init"} :
             opener' = [opener EXCEPT ![p] = [Away EXCEPT !.at = "look", !.as = role]]
  <2>1. PICK role \in Roles[p] :
             opener' = [opener EXCEPT ![p] = [Away EXCEPT !.at = "look", !.as = role]]
    BY <1>4
  <2> DEFINE e == [Away EXCEPT !.at = "look", !.as = role]
  <2>2. e \in Opener /\ e.at = "look" /\ e.as = role /\ e.listed = {}
    BY <1>2, AwayType DEF Opener, Stages, Away
  <2> HIDE DEF e
  <2>3. opener' = [opener EXCEPT ![p] = e]
    BY <2>1 DEF e
  <2> QED
    BY <2>2, <2>3 DEF OTypeOK, GoesOn
<1> QED
  BY <1>3, <1>4 DEF Start

\* Connecting: to the file at the path, or to a new one, which is then there.
LEMMA ConnectFrame ==
    ASSUME OTypeOK, NEW p \in Openers, Connect(p)
    PROVE  /\ GoesOn(p)
           /\ opener'[p].at = IF In(p, "connect") THEN "tables" ELSE "build"
           /\ opener'[p].as = opener[p].as
           /\ opener'[p].file = atPath' /\ atPath' \in Files
           /\ opener'[p].listed = opener[p].listed
           /\ UNCHANGED disk
<1>1. ASSUME NEW at \in Stages, NEW f \in Files,
             opener' = [opener EXCEPT ![p].at = at, ![p].file = f]
      PROVE  /\ GoesOn(p)
             /\ opener'[p].at = at /\ opener'[p].as = opener[p].as
             /\ opener'[p].file = f /\ opener'[p].listed = opener[p].listed
  <2> DEFINE e == [opener[p] EXCEPT !.at = at, !.file = f]
  <2>1. opener' = [opener EXCEPT ![p] = e]
    BY <1>1 DEF OTypeOK
  <2>2. opener[p] \in Opener
    BY DEF OTypeOK
  <2>3. e \in Opener /\ e.at = at /\ e.as = opener[p].as /\ e.file = f
        /\ e.listed = opener[p].listed
    BY <2>2 DEF Opener
  <2> HIDE DEF e
  <2> QED
    BY <2>1, <2>3 DEF OTypeOK, GoesOn
<1> DEFINE at == IF In(p, "connect") THEN "tables" ELSE "build"
<1>2. at \in Stages
  BY DEF Stages
<1>3. PICK f \in Files :
        atPath' = f /\ UNCHANGED disk /\ opener' = [opener EXCEPT ![p].at = at, ![p].file = f]
  BY DEF Connect, OTypeOK, Unused
<1> HIDE DEF at
<1> QED
  BY <1>1, <1>2, <1>3 DEF at

\* Reading the tables: damage is condemned, and whole tables are noted.
LEMMA ReadTablesFrame ==
    ASSUME OTypeOK, NEW p \in Openers, opener[p].file \in Files, ReadTables(p)
    PROVE  \/ disk[opener[p].file].damaged /\ Condemn(p)
           \/ /\ GoesOn(p)
              /\ opener'[p].at = "version"
              /\ opener'[p].as = opener[p].as
              /\ opener'[p].file = opener[p].file
              /\ opener'[p].found = disk[opener[p].file].tables
              /\ opener'[p].listed = opener[p].listed
<1> DEFINE found == disk[opener[p].file].tables
           e == [opener[p] EXCEPT !.at = "version", !.found = found]
<1>1. CASE opener' = [opener EXCEPT ![p].at = "version", ![p].found = found]
  <2>1. opener' = [opener EXCEPT ![p] = e]
    BY <1>1 DEF OTypeOK
  <2>2. opener[p] \in Opener /\ found \in Versions
    BY DEF OTypeOK
  <2> HIDE DEF found
  <2>3. e \in Opener /\ e.at = "version" /\ e.as = opener[p].as /\ e.found = found
        /\ e.file = opener[p].file /\ e.listed = opener[p].listed
    BY <2>2 DEF Opener, Stages
  <2> HIDE DEF e
  <2> QED
    BY <2>1, <2>3 DEF OTypeOK, GoesOn, found
<1> QED
  BY <1>1 DEF ReadTables

\* Reading the version: the verdict says where the opener goes.
LEMMA ReadVersionFrame ==
    ASSUME OTypeOK, NEW p \in Openers, opener[p].file \in Files, ReadVersion(p)
    PROVE  LET d == disk[opener[p].file] IN
           \/ /\ Condemn(p)
              /\ d.damaged \/ Verdict(p, d.version, opener[p].found) = "condemn"
           \/ Turned(p, "open")
           \/ /\ Turned(p, "backup") /\ ~Reads(p)
              /\ Verdict(p, d.version, opener[p].found) = "behind"
           \/ Leave(p)
<1> DEFINE d == disk[opener[p].file]
           verdict == IF d.damaged THEN "condemn" ELSE Verdict(p, d.version, opener[p].found)
<1>0. /\ In(p, "version")
      /\ CASE verdict = "condemn" -> Condemn(p)
             [] verdict = "open"    -> Turn(p, "open")
             [] verdict = "behind" /\ ~Reads(p) /\ opener[p].from = 0 ->
                  opener' = [opener EXCEPT ![p].at = "backup", ![p].from = d.version]
             [] OTHER               -> Leave(p)
  BY DEF ReadVersion
<1>1. CASE verdict = "condemn"
  BY <1>0, <1>1
<1>2. CASE verdict = "open"
  BY <1>0, <1>2, TurnFrame DEF Stages
<1>3. CASE /\ verdict = "behind" /\ ~Reads(p)
           /\ opener' = [opener EXCEPT ![p].at = "backup", ![p].from = d.version]
  <2> DEFINE e == [opener[p] EXCEPT !.at = "backup", !.from = d.version]
  <2>1. opener' = [opener EXCEPT ![p] = e]
    BY <1>3 DEF OTypeOK
  <2>2. opener[p] \in Opener /\ d.version \in Versions
    BY DEF OTypeOK
  <2>3. /\ e \in Opener /\ e.at = "backup" /\ e.as = opener[p].as /\ e.file = opener[p].file
        /\ e.found = opener[p].found /\ e.listed = opener[p].listed /\ e.dir = opener[p].dir
    BY <2>2 DEF Opener, Stages
  <2> HIDE DEF e
  <2>4. Turned(p, "backup")
    BY <2>1, <2>3 DEF OTypeOK, GoesOn, Turned
  <2>5. Verdict(p, d.version, opener[p].found) = "behind"
    BY <1>3
  <2> QED
    BY <1>3, <2>4, <2>5
<1>4. CASE verdict # "condemn" /\ verdict # "open"
  BY <1>0, <1>3, <1>4
<1> QED
  BY <1>1, <1>2, <1>4

\* Making a directory: the opener has it, and nothing set aside is lost.
LEMMA MakeDirFrame ==
    ASSUME OTypeOK, NEW p \in Openers, MakeDir(p)
    PROVE  /\ GoesOn(p)
           /\ opener'[p].at = "move"
           /\ opener'[p].as = opener[p].as
           /\ opener'[p].listed = opener[p].listed
           /\ opener'[p].dir \in Incidents
           /\ aside' \in [Incidents -> Incident \cup {NoDir}]
           /\ aside'[opener'[p].dir] # NoDir
           /\ \A i \in Incidents : aside[i] # NoDir => aside'[i] # NoDir
<1>1. PICK i \in Incidents :
         /\ aside' = [aside EXCEPT ![i] = [holds |-> NoFile, acknowledged |-> FALSE]]
         /\ opener' = [opener EXCEPT ![p].at = "move", ![p].file = NoFile, ![p].dir = i]
  BY DEF MakeDir
<1> DEFINE e == [opener[p] EXCEPT !.at = "move", !.file = NoFile, !.dir = i]
<1>2. opener' = [opener EXCEPT ![p] = e]
  BY <1>1 DEF OTypeOK
<1>3. opener[p] \in Opener
  BY DEF OTypeOK
<1>4. /\ e \in Opener /\ e.at = "move" /\ e.as = opener[p].as /\ e.dir = i
      /\ e.listed = opener[p].listed
  BY <1>3 DEF Opener, Stages
<1> HIDE DEF e
<1>5. /\ GoesOn(p)
      /\ opener'[p].at = "move" /\ opener'[p].as = opener[p].as
      /\ opener'[p].listed = opener[p].listed
      /\ opener'[p].dir = i
  BY <1>2, <1>4 DEF OTypeOK, GoesOn
<1>6. [holds |-> NoFile, acknowledged |-> FALSE] \in Incident
  BY DEF Incident
<1>7. aside' \in [Incidents -> Incident \cup {NoDir}]
      /\ aside'[i] # NoDir
      /\ \A j \in Incidents : aside[j] # NoDir => aside'[j] # NoDir
  BY <1>1, <1>6, NothingIsThere DEF OTypeOK
<1> QED
  BY <1>5, <1>7

Writer(p) == Roles[p] \cap {"init", "write"} # {}
Connected == {"build", "tables", "version", "backup", "migrate", "open"}

\* An opener under way came in a role of its own, a connected one has a file,
\* and one that builds or migrates may write.
Placed(p) ==
    opener[p].at # "away" =>
      /\ opener[p].as \in Roles[p]
      /\ opener[p].at \in Connected => opener[p].file \in Files
      /\ opener[p].at \in {"create", "build", "backup", "migrate"} => ~Reads(p)

\* An opener nobody has written under is at the file at the path, has read
\* what is there, and has condemned only what is not whole.
Untroubled(p) ==
    opener[p].at # "away" /\ p \notin disturbed =>
      /\ opener[p].at \in Connected => opener[p].file = atPath
      /\ opener[p].at = "version" /\ ~disk[opener[p].file].damaged =>
           opener[p].found = disk[opener[p].file].tables
      /\ opener[p].at \in {"condemn", "move"} => ~Sound(atPath)

\* A store that some writer is ahead of.
Older(f) == \E q \in Openers : Writer(q) /\ 0 < disk[f].version /\ disk[f].version < Knows[q]

\* Among writers of one age there is one store to migrate at most, and whoever
\* is about to migrate it finds the copy of what it still is.
Copied ==
    OneAge =>
      /\ \A f, g \in Files : Older(f) /\ Older(g) => f = g
      /\ \A p \in Openers : opener[p].at \in {"backup", "migrate"} =>
           /\ disk[opener[p].file].version > 0
           /\ \A f \in Files : Older(f) => f = opener[p].file
           /\ opener[p].at = "migrate" /\ disk[opener[p].file].version < Knows[p] =>
                backup[Knows[p]] = disk[opener[p].file].version

StoreInv ==
    /\ OTypeOK
    /\ VersionHasItsTables
    /\ \A p \in Openers : Placed(p) /\ Untroubled(p)
    /\ Copied

\* Whatever an opener may do next.
StoreStep(p) ==
    \/ Start(p) \/ Look(p) \/ Connect(p) \/ Build(p)
    \/ ReadTables(p) \/ ReadVersion(p) \/ Backup(p) \/ Migrate(p)
    \/ MakeDir(p) \/ Move(p) \/ Report(p)
    \/ Trip(p) \/ Close(p) \/ Refuse(p)

\* A step leaves the other openers where they were, its own in a place it may
\* be in, and no directory gone.
LEMMA OpenerStep ==
    ASSUME StoreInv, NEW p \in Openers,
           StoreStep(p)
    PROVE  /\ GoesOn(p)
           /\ Placed(p)'
           /\ \A i \in opener'[p].listed : aside'[i] # NoDir
           /\ opener'[p].at = "move" => opener'[p].dir \in Incidents /\ aside'[opener'[p].dir] # NoDir
           /\ aside' \in [Incidents -> Incident \cup {NoDir}]
           /\ \A i \in Incidents : aside[i] # NoDir => aside'[i] # NoDir
           /\ atPath' \in Files \cup {NoFile}
           /\ disturbed' \subseteq Openers
           /\ backup' \in [1 .. Top -> Versions]
<1> USE DEF StoreInv
<1>0. opener[p] \in Opener /\ opener[p].at \in Stages /\ Placed(p)
  BY DEF OTypeOK, Opener
<1>a. \A i \in opener[p].listed : aside[i] # NoDir
  BY DEF OTypeOK
<1>b. Away.at = "away" /\ Away.listed = {}
  BY DEF Away
<1>1. ASSUME NEW at \in {"report", "condemn", "connect", "create", "open", "migrate", "tables"},
             Turned(p, at), UNCHANGED aside,
             opener[p].at # "away",
             at \in Connected => opener[p].file \in Files,
             at \in {"create", "build", "backup", "migrate"} => ~Reads(p)
      PROVE  /\ GoesOn(p) /\ Placed(p)'
             /\ \A i \in opener'[p].listed : aside'[i] # NoDir
             /\ opener'[p].at # "move"
  BY <1>0, <1>a, <1>1 DEF Turned, Placed, Reads
<1>2. ASSUME Leave(p), \A i \in Incidents : aside[i] # NoDir => aside'[i] # NoDir
      PROVE  /\ GoesOn(p) /\ Placed(p)'
             /\ \A i \in opener'[p].listed : aside'[i] # NoDir
             /\ opener'[p].at # "move"
  BY <1>2, <1>b, LeaveFrame DEF Placed
<1>3. ASSUME Condemn(p), UNCHANGED aside, opener[p].at # "away"
      PROVE  /\ GoesOn(p) /\ Placed(p)'
             /\ \A i \in opener'[p].listed : aside'[i] # NoDir
             /\ opener'[p].at # "move"
  BY <1>1, <1>3, TurnFrame DEF Condemn, Stages, Connected
<1>4. CASE Start(p)
  BY <1>4, StartFrame DEF Start, OTypeOK, Placed, Connected
<1>5. CASE Look(p)
  BY <1>1, <1>3, <1>5, TurnFrame DEF Look, In, Unmoved, OTypeOK, Stages, Connected, Reads
<1>6. CASE Connect(p)
  BY <1>0, <1>a, <1>6, ConnectFrame DEF Connect, In, OTypeOK, Placed, Connected, Reads, Disturb
<1>7. CASE Build(p)
  <2>1. CASE UNCHANGED opener
    BY <1>0, <1>7, <2>1 DEF Build, OTypeOK, Placed, Reads, GoesOn, Disturb, In
  <2>2. CASE Turn(p, "open")
    BY <1>0, <1>1, <1>7, <2>2, TurnFrame DEF Build, OTypeOK, Placed, Disturb, In, Stages, Connected
  <2> QED
    BY <1>7, <2>1, <2>2 DEF Build
<1>8. CASE ReadTables(p)
  <2>1. opener[p].at = "tables" /\ opener[p].file \in Files
    BY <1>0, <1>8 DEF ReadTables, In, Placed, Connected
  <2> QED
    BY <1>0, <1>a, <1>3, <1>8, <2>1, ReadTablesFrame DEF ReadTables, Unmoved, OTypeOK, Placed, Connected, Reads
<1>9. CASE ReadVersion(p)
  <2>1. opener[p].at = "version" /\ opener[p].file \in Files
    BY <1>0, <1>9 DEF ReadVersion, In, Placed, Connected
  <2>2. UNCHANGED <<atPath, aside, backup, disturbed>>
    BY <1>9 DEF ReadVersion, Unmoved
  <2>3. CASE Turned(p, "backup") /\ ~Reads(p)
    BY <1>0, <1>a, <2>1, <2>2, <2>3 DEF Turned, Placed, Connected, Reads, OTypeOK
  <2>4. CASE Turned(p, "open")
    BY <1>1, <2>1, <2>2, <2>4 DEF OTypeOK
  <2>5. CASE Condemn(p) \/ Leave(p)
    BY <1>2, <1>3, <2>1, <2>2, <2>5 DEF OTypeOK
  <2> QED
    BY <1>9, <2>1, <2>3, <2>4, <2>5, ReadVersionFrame
<1>10. CASE Backup(p)
  <2>1. opener[p].at = "backup" /\ opener[p].file \in Files /\ ~Reads(p)
    BY <1>0, <1>10 DEF Backup, In, Placed, Connected
  <2>2. backup' \in [1 .. Top -> Versions]
    BY <1>10, <2>1 DEF Backup, OTypeOK
  <2> QED
    BY <1>1, <1>10, <2>1, <2>2, TurnFrame DEF Backup, OTypeOK, Stages
<1>11. CASE Migrate(p)
  <2>1. opener[p].at = "migrate" /\ opener[p].file \in Files
    BY <1>0, <1>11 DEF Migrate, In, Placed, Connected
  <2> QED
    BY <1>1, <1>11, <2>1, TurnFrame DEF Migrate, OTypeOK, Stages, Disturb
<1>12. CASE MakeDir(p)
  <2>1. opener[p].at = "condemn" /\ UNCHANGED <<atPath, backup, disturbed>>
    BY <1>12 DEF MakeDir, In
  <2>2. \A i \in opener[p].listed : i \in Incidents
    BY <1>0 DEF Opener
  <2>3. Placed(p)'
    BY <1>0, <1>12, <2>1, MakeDirFrame DEF Placed, Connected
  <2> QED
    BY <1>a, <1>12, <2>1, <2>2, <2>3, MakeDirFrame DEF OTypeOK
<1>13. CASE Move(p)
  <2>1. opener[p].dir \in Incidents /\ aside[opener[p].dir] \in Incident
    BY <1>13 DEF Move, OTypeOK
  <2>2. [aside[opener[p].dir] EXCEPT !.holds = atPath] \in Incident
    BY <2>1 DEF Incident, OTypeOK
  <2>3. aside' = [aside EXCEPT ![opener[p].dir] = [aside[opener[p].dir] EXCEPT !.holds = atPath]]
    BY <1>13 DEF Move
  <2>4. aside' \in [Incidents -> Incident \cup {NoDir}]
        /\ \A i \in Incidents : aside[i] # NoDir => aside'[i] # NoDir
    BY <2>1, <2>2, <2>3, NothingIsThere DEF OTypeOK
  <2> QED
    BY <1>2, <1>13, <2>4 DEF Move, OTypeOK, Disturb
<1>14. CASE Report(p) \/ Refuse(p)
  BY <1>2, <1>14 DEF Report, Refuse, Unmoved, OTypeOK
<1>15. CASE Trip(p)
  BY <1>3, <1>15 DEF Trip, In, Unmoved, OTypeOK
<1>16. CASE Close(p)
  <2>1. \A i \in opener[p].listed : i \in Incidents => [aside[i] EXCEPT !.acknowledged = TRUE] \in Incident
    BY <1>a DEF OTypeOK, Incident
  <2>2. aside' \in [Incidents -> Incident \cup {NoDir}]
        /\ \A i \in Incidents : aside[i] # NoDir => aside'[i] # NoDir
    BY <1>16, <2>1, NothingIsThere DEF Close, OTypeOK
  <2> QED
    BY <1>2, <1>16, <2>2 DEF Close, OTypeOK
<1> QED
  BY <1>4, <1>5, <1>6, <1>7, <1>8, <1>9, <1>10, <1>11, <1>12, <1>13, <1>14, <1>15, <1>16 DEF StoreStep

\* What a step of p does to the disk, and the news it is to the others.
LEMMA DiskFrame ==
    ASSUME StoreInv, NEW p \in Openers,
           StoreStep(p)
    PROVE  /\ disk' \in [Files -> [tables : Versions, version : Versions, damaged : BOOLEAN]]
           /\ VersionHasItsTables'
           /\ \A f \in Files : disk'[f].damaged = disk[f].damaged
           /\ \A q \in Openers \ {p} :
                opener[q].at # "away" /\ q \notin disturbed' =>
                  q \notin disturbed /\ UNCHANGED <<disk, atPath>>
<1> USE DEF StoreInv
<1>1. CASE Build(p)
  <2> DEFINE f == opener[p].file
             d == disk[f]
  <2>1. opener[p].at = "build" /\ f \in Files /\ d \in [tables : Versions, version : Versions, damaged : BOOLEAN]
    BY <1>1 DEF Build, In, Placed, Connected, OTypeOK
  <2>2. Knows[p] \in 1 .. Top /\ Top \in Nat
    BY KnowsBounded
  <2>3. CASE d.tables < Knows[p] /\ disk' = [disk EXCEPT ![f].tables = @ + 1]
    <3> DEFINE e == [d EXCEPT !.tables = d.tables + 1]
    <3>1. disk' = [disk EXCEPT ![f] = e]
      BY <2>3
    <3>2. e \in [tables : Versions, version : Versions, damaged : BOOLEAN]
          /\ e.version = d.version /\ e.tables = d.tables + 1 /\ e.damaged = d.damaged
      BY <2>1, <2>2, <2>3 DEF Versions
    <3>3. d.tables + 1 >= d.version
      BY <2>1 DEF VersionHasItsTables, Versions
    <3> HIDE DEF e
    <3> QED
      BY <1>1, <2>1, <3>1, <3>2, <3>3 DEF Build, OTypeOK, VersionHasItsTables, Disturb, In
  <2>4. CASE d.tables >= Knows[p]
             /\ disk' = [disk EXCEPT ![f].version = IF @ = 0 THEN Knows[p] ELSE @]
    <3> DEFINE v == IF d.version = 0 THEN Knows[p] ELSE d.version
               e == [d EXCEPT !.version = v]
    <3>1. disk' = [disk EXCEPT ![f] = e]
      BY <2>4
    <3>2. v \in Versions /\ v <= d.tables
      BY <2>1, <2>2, <2>4 DEF VersionHasItsTables, Versions
    <3> HIDE DEF v
    <3>3. e \in [tables : Versions, version : Versions, damaged : BOOLEAN]
          /\ e.version = v /\ e.tables = d.tables /\ e.damaged = d.damaged
      BY <2>1, <3>2
    <3> HIDE DEF e
    <3> QED
      BY <1>1, <2>1, <3>1, <3>2, <3>3 DEF Build, OTypeOK, VersionHasItsTables, Disturb, In
  <2> QED
    BY <1>1, <2>3, <2>4 DEF Build
<1>2. CASE Migrate(p)
  <2> DEFINE f == opener[p].file
             d == disk[f]
             t == IF d.tables < Knows[p] THEN Knows[p] ELSE d.tables
             e == [d EXCEPT !.tables = t, !.version = Knows[p]]
  <2>1. opener[p].at = "migrate" /\ f \in Files /\ d \in [tables : Versions, version : Versions, damaged : BOOLEAN]
    BY <1>2 DEF Migrate, In, Placed, Connected, OTypeOK
  <2>2. Knows[p] \in 1 .. Top /\ Top \in Nat
    BY KnowsBounded
  <2>3. disk' = [disk EXCEPT ![f] = e]
    BY <1>2, <2>1 DEF Migrate, OTypeOK
  <2>4. t \in Versions /\ t >= Knows[p] /\ Knows[p] \in Versions
    BY <2>1, <2>2 DEF Versions
  <2> HIDE DEF t
  <2>5. e \in [tables : Versions, version : Versions, damaged : BOOLEAN]
        /\ e.version = Knows[p] /\ e.tables = t /\ e.damaged = d.damaged
    BY <2>1, <2>4
  <2> HIDE DEF e
  <2> QED
    BY <1>2, <2>1, <2>3, <2>4, <2>5 DEF Migrate, OTypeOK, VersionHasItsTables, Disturb, In
<1>3. CASE Connect(p) \/ Move(p)
  BY <1>3 DEF Connect, Move, OTypeOK, VersionHasItsTables, Disturb, In
<1>4. CASE \/ Start(p) \/ Look(p) \/ ReadTables(p) \/ ReadVersion(p) \/ Backup(p)
           \/ MakeDir(p) \/ Report(p) \/ Trip(p) \/ Close(p) \/ Refuse(p)
  BY <1>4 DEF Start, Look, ReadTables, ReadVersion, Backup, MakeDir, Report, Trip, Close,
     Refuse, Unmoved, OTypeOK, VersionHasItsTables
<1> QED
  BY <1>1, <1>2, <1>3, <1>4 DEF StoreStep

\* Damage from outside changes no version and no table, only that they can be
\* read.
LEMMA DamageFrame ==
    ASSUME StoreInv, NEW f \in Files, Damage(f)
    PROVE  /\ disk' \in [Files -> [tables : Versions, version : Versions, damaged : BOOLEAN]]
           /\ VersionHasItsTables'
           /\ \A g \in Files : /\ disk[g].damaged => disk'[g].damaged
                               /\ disk'[g].version = disk[g].version
                               /\ disk'[g].tables = disk[g].tables
           /\ UNCHANGED <<atPath, aside, backup, opener, disturbed>>
<1> DEFINE e == [disk[f] EXCEPT !.damaged = TRUE]
<1>1. disk' = [disk EXCEPT ![f] = e] /\ UNCHANGED <<atPath, aside, backup, opener, disturbed>>
  BY DEF Damage
<1>2. disk[f] \in [tables : Versions, version : Versions, damaged : BOOLEAN]
  BY DEF StoreInv, OTypeOK
<1>3. e \in [tables : Versions, version : Versions, damaged : BOOLEAN]
      /\ e.damaged = TRUE /\ e.version = disk[f].version /\ e.tables = disk[f].tables
  BY <1>2
<1> HIDE DEF e
<1> QED
  BY <1>1, <1>3 DEF StoreInv, OTypeOK, VersionHasItsTables

\* An opener that nobody has written under condemns what is not whole.
LEMMA UntroubledStep ==
    ASSUME StoreInv, NEW p \in Openers, p \notin disturbed', opener'[p].at # "away",
           StoreStep(p)
    PROVE  Untroubled(p)'
<1> USE DEF StoreInv
<1>0. Placed(p) /\ Untroubled(p) /\ opener[p] \in Opener
  BY DEF OTypeOK
<1>1. ASSUME Leave(p)
      PROVE  FALSE
  BY <1>1, LeaveFrame DEF Away
<1>2. CASE Start(p)
  BY <1>2, StartFrame DEF Untroubled, Connected
<1>3. ASSUME NEW at \in {"report", "connect", "create", "open", "migrate", "tables", "backup"},
             Turned(p, at), UNCHANGED atPath, opener[p].at # "away", p \notin disturbed,
             at \in Connected => opener[p].at \in Connected
      PROVE  Untroubled(p)'
  BY <1>0, <1>3 DEF Turned, Untroubled
<1>4. ASSUME Condemn(p), UNCHANGED <<disk, atPath>>, ~Sound(atPath)
      PROVE  Untroubled(p)'
  <2>1. Turned(p, "condemn") \/ Turned(p, "report")
    BY <1>4, TurnFrame DEF Condemn, Stages
  <2>2. ~Sound(atPath)'
    BY <1>4 DEF Sound
  <2> QED
    BY <2>1, <2>2 DEF Turned, Untroubled, Connected
<1>5. CASE Look(p)
  <2>1. p \notin disturbed /\ UNCHANGED <<atPath, disk>> /\ opener[p].at = "look"
    BY <1>5 DEF Look, Unmoved, In
  <2>2. CASE /\ atPath # NoFile
             /\ disk[atPath].tables = 0 \/ disk[atPath].damaged
             /\ Condemn(p)
    <3>1. atPath \in Files /\ disk[atPath].version \in Nat /\ disk[atPath].tables >= disk[atPath].version
      BY <2>2, KnowsBounded DEF OTypeOK, VersionHasItsTables, Versions
    <3>2. ~Sound(atPath)
      BY <2>2, <3>1 DEF Sound
    <3> QED
      BY <1>4, <2>1, <2>2, <3>2
  <2>3. CASE Turn(p, "connect") \/ Turn(p, "create")
    BY <1>3, <2>1, <2>3, TurnFrame DEF Stages, Connected
  <2> QED
    BY <1>5, <2>2, <2>3 DEF Look
<1>6. CASE Connect(p)
  BY <1>6, ConnectFrame DEF Untroubled
<1>7. CASE Build(p)
  <2>1. p \notin disturbed /\ UNCHANGED atPath /\ opener[p].at = "build"
    BY <1>7 DEF Build, Disturb, In
  <2>2. CASE UNCHANGED opener
    BY <1>0, <2>1, <2>2 DEF Untroubled
  <2>3. CASE Turn(p, "open")
    BY <1>3, <2>1, <2>3, TurnFrame DEF Stages, Connected
  <2> QED
    BY <1>7, <2>2, <2>3 DEF Build
<1>8. CASE ReadTables(p)
  <2>1. p \notin disturbed /\ UNCHANGED <<atPath, disk>> /\ opener[p].at = "tables"
        /\ opener[p].file = atPath /\ opener[p].file \in Files
    BY <1>0, <1>8 DEF ReadTables, Unmoved, In, Untroubled, Placed, Connected
  <2>2. CASE disk[opener[p].file].damaged /\ Condemn(p)
    BY <1>4, <2>1, <2>2 DEF Sound
  <2>3. CASE ~(disk[opener[p].file].damaged /\ Condemn(p))
    BY <1>8, <2>1, <2>3, ReadTablesFrame DEF Untroubled
  <2> QED
    BY <2>2, <2>3
<1>9. CASE ReadVersion(p)
  <2>1. /\ p \notin disturbed /\ UNCHANGED <<atPath, disk>> /\ opener[p].at = "version"
        /\ opener[p].file = atPath /\ opener[p].file \in Files
        /\ ~disk[atPath].damaged => opener[p].found = disk[atPath].tables
    BY <1>0, <1>9 DEF ReadVersion, Unmoved, In, Untroubled, Placed, Connected
  <2>2. CASE /\ Condemn(p)
             /\ \/ disk[atPath].damaged
                \/ Verdict(p, disk[atPath].version, opener[p].found) = "condemn"
    <3>1. disk[atPath].version \in Nat /\ disk[atPath].tables >= disk[atPath].version
          /\ disk[atPath].tables \in Nat
      BY <2>1, KnowsBounded DEF OTypeOK, VersionHasItsTables, Versions
    <3>2. ~Sound(atPath)
      BY <2>1, <2>2, <3>1 DEF Sound, Verdict
    <3> QED
      BY <1>4, <2>1, <2>2, <3>2
  <2>3. CASE Turned(p, "open") \/ Turned(p, "backup")
    BY <1>3, <2>1, <2>3 DEF Connected
  <2> QED
    BY <1>1, <1>9, <2>1, <2>2, <2>3, ReadVersionFrame
<1>10. CASE Backup(p)
  BY <1>3, <1>10, TurnFrame DEF Backup, In, Stages, Connected
<1>11. CASE Migrate(p)
  BY <1>3, <1>11, TurnFrame DEF Migrate, In, Stages, Connected, Disturb
<1>12. CASE MakeDir(p)
  <2>1. p \notin disturbed /\ UNCHANGED <<atPath, disk>> /\ ~Sound(atPath)
    BY <1>0, <1>12 DEF MakeDir, In, Untroubled
  <2>2. ~Sound(atPath)'
    BY <2>1 DEF Sound
  <2> QED
    BY <1>12, <2>2, MakeDirFrame DEF Untroubled, Connected
<1>13. CASE Trip(p)
  <2>1. p \notin disturbed /\ UNCHANGED <<atPath, disk>> /\ opener[p].at \in Connected
        /\ disk[opener[p].file].damaged /\ Condemn(p)
    BY <1>13 DEF Trip, Unmoved, In, Connected
  <2>2. opener[p].file = atPath
    BY <1>0, <2>1 DEF Untroubled, Connected
  <2> QED
    BY <1>4, <2>1, <2>2 DEF Sound
<1> QED
  BY <1>1, <1>2, <1>5, <1>6, <1>7, <1>8, <1>9, <1>10, <1>11, <1>12, <1>13
     DEF Move, Report, Close, Refuse, StoreStep

\* A version is given by a writer, of its own, to the file it is connected to,
\* which had none or is the one it migrates.
LEMMA VersionStep ==
    ASSUME StoreInv, NEW p \in Openers, NEW f \in Files,
           disk'[f].version # disk[f].version,
           StoreStep(p)
    PROVE  /\ disk'[f].version = Knows[p]
           /\ Writer(p)
           /\ f = opener[p].file
           /\ disk[f].version = 0 \/ opener[p].at = "migrate"
<1>0. Placed(p) /\ opener[p] \in Opener
  BY DEF StoreInv, OTypeOK
<1>w. ASSUME opener[p].at \in {"build", "migrate"}
      PROVE  Writer(p)
  BY <1>0, <1>w DEF Placed, Reads, Writer, Opener
<1>1. CASE Build(p)
  <2>1. opener[p].at = "build"
    BY <1>1 DEF Build, In
  <2>2. disk' = [disk EXCEPT ![opener[p].file].version = IF @ = 0 THEN Knows[p] ELSE @]
        \/ disk' = [disk EXCEPT ![opener[p].file].tables = @ + 1]
    BY <1>1 DEF Build
  <2> QED
    BY <1>w, <2>1, <2>2 DEF StoreInv, OTypeOK
<1>2. CASE Migrate(p)
  <2>1. opener[p].at = "migrate"
    BY <1>2 DEF Migrate, In
  <2> QED
    BY <1>2, <1>w, <2>1 DEF Migrate, StoreInv, OTypeOK
<1>3. CASE ~Build(p) /\ ~Migrate(p)
  BY <1>3 DEF Start, Look, Connect, ReadTables, ReadVersion, Backup, MakeDir, Move, Report,
     Trip, Close, Refuse, StoreStep
<1> QED
  BY <1>1, <1>2, <1>3

\* An opener comes to the copy, or from the copy to the migration, and no
\* other way.
LEMMA WaysToMigrate ==
    ASSUME StoreInv, NEW p \in Openers, opener'[p].at \in {"backup", "migrate"},
           StoreStep(p)
    PROVE  \/ /\ ReadVersion(p) /\ opener'[p].at = "backup"
              /\ opener[p].file \in Files /\ opener'[p].file = opener[p].file
              /\ Writer(p)
              /\ 0 < disk[opener[p].file].version /\ disk[opener[p].file].version < Knows[p]
           \/ /\ Backup(p) /\ opener[p].at = "backup" /\ opener'[p].file = opener[p].file
<1> USE DEF StoreInv
<1>0. Placed(p) /\ opener[p] \in Opener
  BY DEF OTypeOK
<1>1. ASSUME Leave(p)
      PROVE  FALSE
  BY <1>1, LeaveFrame DEF Away
<1>2. ASSUME NEW at \in Stages \ {"backup", "migrate"}, Turn(p, at)
      PROVE  FALSE
  BY <1>2, TurnFrame DEF Turned
<1>3. ASSUME Condemn(p)
      PROVE  FALSE
  BY <1>2, <1>3 DEF Condemn, Stages
<1>4. ~Start(p)
  BY StartFrame
<1>5. ~Look(p)
  BY <1>2, <1>3 DEF Look, Stages
<1>6. ~Connect(p)
  BY ConnectFrame
<1>7. ~Build(p)
  BY <1>2 DEF Build, In, Stages
<1>8. ~ReadTables(p)
  <2>1. ReadTables(p) => opener[p].file \in Files
    BY <1>0 DEF ReadTables, In, Placed, Connected
  <2> QED
    BY <1>3, <2>1, ReadTablesFrame
<1>9. ~Migrate(p)
  BY <1>2 DEF Migrate, Stages
<1>10. ~MakeDir(p)
  BY MakeDirFrame
<1>11. ~Move(p) /\ ~Report(p) /\ ~Close(p) /\ ~Refuse(p)
  BY <1>1 DEF Move, Report, Close, Refuse
<1>12. ~Trip(p)
  BY <1>3 DEF Trip
<1>13. CASE Backup(p)
  BY <1>13, TurnFrame DEF Backup, In, Stages, Turned
<1>14. CASE ReadVersion(p)
  <2> DEFINE d == disk[opener[p].file]
  <2>1. opener[p].at = "version" /\ opener[p].file \in Files
    BY <1>0, <1>14 DEF ReadVersion, In, Placed, Connected
  <2>2. ~Turned(p, "open")
    BY DEF Turned
  <2>3. /\ Turned(p, "backup") /\ ~Reads(p)
        /\ Verdict(p, d.version, opener[p].found) = "behind"
    BY <1>1, <1>3, <1>14, <2>1, <2>2, ReadVersionFrame
  <2>4. Writer(p)
    BY <1>0, <2>1, <2>3 DEF Placed, Reads, Writer, Opener
  <2>5. d.version \in 0 .. Top /\ Knows[p] \in 1 .. Top /\ Top \in Nat
    BY <2>1, KnowsBounded DEF OTypeOK, Versions
  <2>6. 0 < d.version /\ d.version < Knows[p]
    BY <2>3, <2>5 DEF Verdict
  <2> QED
    BY <1>14, <2>1, <2>3, <2>4, <2>6 DEF Turned
<1> QED
  BY <1>4, <1>5, <1>6, <1>7, <1>8, <1>9, <1>10, <1>11, <1>12, <1>13, <1>14 DEF StoreStep

\* Writers of one age leave no older store but the one, and the copy of it.
LEMMA CopiedStep ==
    ASSUME StoreInv, NEW p \in Openers,
           StoreStep(p)
    PROVE  Copied'
<1> SUFFICES ASSUME OneAge
             PROVE  Copied'
  BY DEF Copied, OneAge
<1>0. /\ Copied /\ OTypeOK /\ \A q \in Openers : Placed(q)
      /\ \A q \in Openers : Knows[q] \in Nat
  BY KnowsBounded DEF StoreInv
<1>a. \A q \in Openers : Writer(q) /\ Writer(p) => Knows[q] = Knows[p]
  BY DEF OneAge, Writer
<1>1. \A f \in Files : disk[f].version \in Nat /\ disk'[f].version \in Nat
  BY DiskFrame, KnowsBounded DEF StoreInv, OTypeOK, Versions
<1>2. ASSUME NEW f \in Files, Older(f)'
      PROVE  Older(f) /\ disk'[f].version = disk[f].version
  <2>1. PICK q \in Openers : Writer(q) /\ 0 < disk'[f].version /\ disk'[f].version < Knows[q]
    BY <1>2 DEF Older, Writer
  <2>2. disk'[f].version = disk[f].version
    BY <1>0, <1>1, <1>a, <2>1, VersionStep
  <2> QED
    BY <2>1, <2>2 DEF Older
<1>3. ASSUME NEW f \in Files, disk[f].version > 0
      PROVE  disk'[f].version > 0
  BY <1>3, <1>1, VersionStep, KnowsBounded
<1>4. \A f, g \in Files : Older(f)' /\ Older(g)' => f = g
  BY <1>0, <1>2 DEF Copied
<1>5. ASSUME NEW q \in Openers, opener'[q].at \in {"backup", "migrate"}
      PROVE  /\ disk'[opener'[q].file].version > 0
             /\ \A f \in Files : Older(f)' => f = opener'[q].file
             /\ opener'[q].at = "migrate" /\ disk'[opener'[q].file].version < Knows[q] =>
                  backup'[Knows[q]] = disk'[opener'[q].file].version
  <2>1. CASE q # p
    <3>1. opener'[q] = opener[q]
      BY <2>1, OpenerStep DEF GoesOn
    <3> DEFINE g == opener[q].file
    <3>2. g \in Files /\ Writer(q)
      BY <1>0, <1>5, <3>1 DEF Placed, Connected, Reads, Writer, OTypeOK, Opener
    <3>3. /\ disk[g].version > 0
          /\ \A f \in Files : Older(f) => f = g
          /\ opener[q].at = "migrate" /\ disk[g].version < Knows[q] =>
               backup[Knows[q]] = disk[g].version
      BY <1>0, <1>5, <3>1 DEF Copied
    <3> HIDE DEF g
    <3>4. disk'[g].version > 0 /\ \A f \in Files : Older(f)' => f = g
      BY <1>2, <1>3, <3>2, <3>3
    <3>5. ASSUME opener[q].at = "migrate", disk'[g].version < Knows[q]
          PROVE  backup'[Knows[q]] = disk'[g].version
      <4>1. disk'[g].version = disk[g].version
        BY <1>0, <1>1, <1>a, <3>2, <3>5, VersionStep
      <4>2. Older(g) /\ backup[Knows[q]] = disk[g].version
        BY <3>2, <3>3, <3>5, <4>1 DEF Older
      <4>3. CASE Backup(p)
        <5>1. opener[p].at = "backup" /\ backup' = [backup EXCEPT ![Knows[p]] = disk[opener[p].file].version]
          BY <4>3 DEF Backup, In
        <5>2. g = opener[p].file
          BY <1>0, <3>2, <4>2, <5>1 DEF Copied
        <5>3. Writer(p)
          BY <1>0, <5>1 DEF Placed, Reads, Writer, OTypeOK, Opener
        <5>4. Knows[q] = Knows[p] /\ Knows[p] \in 1 .. Top
          BY <1>a, <3>2, <5>3, KnowsBounded
        <5> QED
          BY <1>0, <4>1, <5>1, <5>2, <5>4 DEF OTypeOK
      <4>4. CASE ~Backup(p)
        <5>1. backup' = backup
          BY <4>4 DEF Start, Look, Connect, Build, ReadTables, ReadVersion, Migrate,
             MakeDir, Move, Report, Trip, Close, Refuse, Unmoved, StoreStep
        <5> QED
          BY <4>1, <4>2, <5>1
      <4> QED
        BY <4>3, <4>4
    <3> QED
      BY <3>1, <3>4, <3>5 DEF g
  <2>2. CASE q = p /\ ReadVersion(p)
    <3> DEFINE g == opener[p].file
    <3>1. /\ opener'[p].at = "backup" /\ g \in Files /\ opener'[p].file = g
          /\ Writer(p) /\ 0 < disk[g].version /\ disk[g].version < Knows[p]
      BY <1>5, <2>2, WaysToMigrate DEF Backup, In, ReadVersion
    <3>2. Older(g)
      BY <3>1 DEF Older
    <3>3. \A f \in Files : Older(f)' => f = g
      BY <1>0, <1>2, <3>1, <3>2 DEF Copied
    <3>4. disk'[g].version > 0
      BY <1>3, <3>1
    <3> QED
      BY <2>2, <3>1, <3>3, <3>4
  <2>3. CASE q = p /\ ~ReadVersion(p)
    <3> DEFINE g == opener[p].file
    <3>1. Backup(p) /\ opener[p].at = "backup" /\ opener'[p].file = g
      BY <1>5, <2>3, WaysToMigrate
    <3>2. g \in Files
      BY <1>0, <3>1 DEF Placed, Connected
    <3>3. disk[g].version > 0 /\ \A f \in Files : Older(f) => f = g
      BY <1>0, <3>1 DEF Copied
    <3>4. disk' = disk /\ backup' = [backup EXCEPT ![Knows[p]] = disk[g].version]
          /\ Knows[p] \in 1 .. Top
      BY <3>1, KnowsBounded DEF Backup
    <3>5. backup'[Knows[p]] = disk'[g].version
      BY <1>0, <3>4 DEF OTypeOK
    <3>6. \A f \in Files : Older(f)' => f = g
      BY <1>2, <3>3
    <3> QED
      BY <2>3, <3>1, <3>3, <3>4, <3>5, <3>6
  <2> QED
    BY <2>1, <2>2, <2>3
<1> QED
  BY <1>4, <1>5 DEF Copied

\* Damage from outside leaves the invariant: it is no writer's doing, and what
\* it hits is whole no longer.
LEMMA DamageStep ==
    ASSUME StoreInv, NEW f \in Files, Damage(f)
    PROVE  StoreInv'
<1>1. OTypeOK'
  BY DamageFrame DEF StoreInv, OTypeOK, In
<1>2. ASSUME NEW p \in Openers
      PROVE  Placed(p)' /\ Untroubled(p)'
  <2>1. Placed(p) /\ Untroubled(p)
    BY DEF StoreInv
  <2>2. Placed(p)'
    BY <2>1, DamageFrame DEF Placed, Reads
  <2>3. Untroubled(p)'
    <3> SUFFICES ASSUME opener[p].at # "away", p \notin disturbed
                 PROVE  Untroubled(p)'
      BY DamageFrame DEF Untroubled
    <3>1. opener[p].at \in Connected => opener[p].file = atPath /\ opener[p].file \in Files
      BY <2>1 DEF Untroubled, Placed
    <3>2. ~Sound(atPath) => ~Sound(atPath)'
      BY DamageFrame DEF Sound, StoreInv, OTypeOK
    <3> QED
      BY <2>1, <3>1, <3>2, DamageFrame DEF Untroubled, Connected
  <2> QED
    BY <2>2, <2>3
<1>3. Copied'
  <2>1. \A g \in Files : Older(g)' <=> Older(g)
    BY DamageFrame DEF Older, Writer
  <2>2. \A p \in Openers : opener[p].at \in {"backup", "migrate"} => opener[p].file \in Files
    BY DEF StoreInv, Placed, Connected
  <2> QED
    BY <2>1, <2>2, DamageFrame DEF StoreInv, Copied, OneAge
<1> QED
  BY <1>1, <1>2, <1>3, DamageFrame DEF StoreInv

\* Every step leaves the invariant.
LEMMA StoreInductive ==
    ASSUME StoreInv, [ONext]_ovars
    PROVE  StoreInv'
<1>1. CASE UNCHANGED ovars
  BY <1>1 DEF ovars, StoreInv, OTypeOK, In, VersionHasItsTables, Placed, Untroubled, Reads,
     Sound, Copied, OneAge, Older, Writer
<1>2. CASE \E f \in Files : Damage(f)
  BY <1>2, DamageStep
<1>3. ASSUME NEW p \in Openers,
           StoreStep(p)
      PROVE  StoreInv'
  <2>1. OTypeOK'
    <3>1. opener' \in [Openers -> Opener]
      BY <1>3, OpenerStep DEF GoesOn
    <3>2. ASSUME NEW q \in Openers
          PROVE  /\ \A i \in opener'[q].listed : aside'[i] # NoDir
                 /\ opener'[q].at = "move" => opener'[q].dir \in Incidents /\ aside'[opener'[q].dir] # NoDir
      <4>1. CASE q = p
        BY <1>3, <4>1, OpenerStep
      <4>2. CASE q # p
        <5>1. opener'[q] = opener[q]
          BY <1>3, <4>2, OpenerStep DEF GoesOn
        <5>2. \A i \in opener[q].listed : i \in Incidents /\ aside[i] # NoDir
          BY DEF StoreInv, OTypeOK, Opener
        <5>3. opener[q].at = "move" => opener[q].dir \in Incidents /\ aside[opener[q].dir] # NoDir
          BY DEF StoreInv, OTypeOK, In
        <5>4. \A i \in Incidents : aside[i] # NoDir => aside'[i] # NoDir
          BY <1>3, OpenerStep
        <5> QED
          BY <5>1, <5>2, <5>3, <5>4
      <4> QED
        BY <4>1, <4>2
    <3> QED
      BY <1>3, <3>1, <3>2, OpenerStep, DiskFrame DEF OTypeOK, In
  <2>2. ASSUME NEW q \in Openers
        PROVE  Placed(q)' /\ Untroubled(q)'
    <3>1. CASE q = p
      <4>1. Placed(q)'
        BY <1>3, <3>1, OpenerStep
      <4>2. Untroubled(q)'
        BY <1>3, <3>1, UntroubledStep DEF Untroubled
      <4> QED
        BY <4>1, <4>2
    <3>2. CASE q # p
      <4>1. opener'[q] = opener[q] /\ Placed(q) /\ Untroubled(q)
        BY <1>3, <3>2, OpenerStep DEF GoesOn, StoreInv
      <4>2. Placed(q)'
        BY <4>1 DEF Placed, Reads
      <4>3. opener[q].at # "away" /\ q \notin disturbed' =>
              q \notin disturbed /\ UNCHANGED <<disk, atPath>>
        BY <1>3, <3>2, DiskFrame
      <4>4. Untroubled(q)'
        BY <4>1, <4>3 DEF Untroubled, Sound
      <4> QED
        BY <4>2, <4>4
    <3> QED
      BY <3>1, <3>2
  <2>3. VersionHasItsTables' /\ Copied'
    BY <1>3, DiskFrame, CopiedStep
  <2> QED
    BY <2>1, <2>2, <2>3 DEF StoreInv
<1> QED
  BY <1>1, <1>2, <1>3 DEF ONext, StoreStep

\* The invariant holds throughout.
LEMMA StoreInvariant == OSpec => []StoreInv
<1>1. OInit => StoreInv
  <2> SUFFICES ASSUME OInit
               PROVE  StoreInv
    OBVIOUS
  <2>0. Top \in Nat /\ \A p \in Openers : Knows[p] \in 1 .. Top
    BY KnowsBounded
  <2>1. PICK v \in Versions, f \in Files :
          /\ disk = [g \in Files |-> IF g = f /\ v > 0 THEN Store(v) ELSE Blank]
          /\ atPath = IF v > 0 THEN f ELSE NoFile
    BY DEF OInit
  <2>2. \A g \in Files : /\ disk[g] \in [tables : Versions, version : Versions, damaged : BOOLEAN]
                         /\ disk[g].tables >= disk[g].version
                         /\ disk[g].version > 0 => g = f
    BY <2>0, <2>1 DEF Store, Blank, Versions
  <2>3. disk \in [Files -> [tables : Versions, version : Versions, damaged : BOOLEAN]]
    BY <2>1, <2>2
  <2>4. \A p \in Openers : opener[p] = Away /\ opener[p].at = "away" /\ opener[p].listed = {}
    BY DEF OInit, Away
  <2>5. OTypeOK
    BY <2>0, <2>1, <2>3, <2>4, AwayType DEF OInit, OTypeOK, In, Versions
  <2>6. \A g \in Files : Older(g) => g = f
    BY <2>2 DEF Older
  <2> QED
    BY <2>2, <2>4, <2>5, <2>6 DEF StoreInv, VersionHasItsTables, Placed, Untroubled, Copied
<1>2. StoreInv /\ [ONext]_ovars => StoreInv'
  BY StoreInductive
<1> QED
  BY <1>1, <1>2, PTL DEF OSpec

\* OTypeOK: every variable of the store's openers has its type, and every
\* directory an opener knows of is there.
THEOREM StoreTypeCorrect == OSpec => []OTypeOK
BY StoreInvariant, PTL DEF StoreInv

\* However many programs, of whichever versions, create and migrate a store at
\* once, and wherever one is killed, a store that says it is at a version has
\* the tables of that version.
THEOREM VersionHasItsTablesHolds == OSpec => []VersionHasItsTables
BY StoreInvariant, PTL DEF StoreInv

\* An opener that nobody has written under never moves aside a store that is
\* whole, whatever versions there are.
THEOREM FinishedStoresStayHolds == OSpec => FinishedStoresStay
<1>1. StoreInv /\ [ONext]_ovars =>
        [\A p \in Openers :
           Moving(p) /\ atPath' = NoFile /\ p \notin disturbed => ~Sound(atPath)]_ovars
  BY DEF StoreInv, Moving, In, Untroubled
<1> QED
  BY <1>1, StoreInvariant, PTL DEF OSpec, FinishedStoresStay

\* Among programs of one age a version rises only from a store whose copy has
\* been written.
THEOREM MigratedFromACopyHolds == OSpec => MigratedFromACopy
<1>1. ASSUME StoreInv, ONext, OneAge, NEW f \in Files,
             disk[f].version > 0, disk'[f].version > disk[f].version
      PROVE  backup[disk'[f].version] = disk[f].version
  <2>0. disk[f].version \in Nat
    <3>1. disk[f] \in [tables : Versions, version : Versions, damaged : BOOLEAN]
      BY <1>1 DEF StoreInv, OTypeOK
    <3> QED
      BY <3>1, KnowsBounded DEF Versions
  <2>1. CASE \E g \in Files : Damage(g)
    BY <1>1, <2>0, <2>1, DamageFrame
  <2>2. ASSUME NEW p \in Openers,
           StoreStep(p)
        PROVE  backup[disk'[f].version] = disk[f].version
    <3>1. disk'[f].version = Knows[p] /\ f = opener[p].file /\ opener[p].at = "migrate"
      BY <1>1, <2>0, <2>2, VersionStep
    <3> QED
      BY <1>1, <3>1 DEF StoreInv, Copied
  <2> QED
    BY <1>1, <2>1, <2>2 DEF ONext, StoreStep
<1>2. StoreInv /\ [ONext]_ovars =>
        [OneAge => \A f \in Files :
           disk[f].version > 0 /\ disk'[f].version > disk[f].version
             => backup[disk'[f].version] = disk[f].version]_ovars
  BY <1>1
<1> QED
  BY <1>2, StoreInvariant, PTL DEF OSpec, MigratedFromACopy

-----------------------------------------------------------------------------
(* Things with stamps *)

\* What is newer than x, of a set of things with stamps.
Newer(S, x) == {y \in S : y.stamp > x.stamp}

\* More things leave no fewer that are newer.
LEMMA GrowingKeepsNewer ==
    ASSUME NEW S, NEW T, IsFiniteSet(T), S \subseteq T, NEW n \in Nat, NEW x,
           Cardinality(Newer(S, x)) >= n
    PROVE  Cardinality(Newer(T, x)) >= n
<1>1. IsFiniteSet(Newer(T, x)) /\ Newer(S, x) \subseteq Newer(T, x)
  BY FS_Subset DEF Newer
<1>2. /\ Cardinality(Newer(S, x)) <= Cardinality(Newer(T, x))
      /\ Cardinality(Newer(S, x)) \in Nat /\ Cardinality(Newer(T, x)) \in Nat
  BY <1>1, FS_Subset, FS_CardinalityType
<1>3. QED
  BY <1>2

\* What is dropped has as much above it as anything it leaves behind has lost.
LEMMA DroppingKeepsNewer ==
    ASSUME NEW S, IsFiniteSet(S), \A y \in S : y.stamp \in Nat, NEW n \in Nat,
           NEW r, r.stamp \in Nat, Cardinality(Newer(S, r)) >= n,
           NEW x, x.stamp \in Nat, Cardinality(Newer(S, x)) >= n
    PROVE  Cardinality(Newer(S \ {r}, x)) >= n
<1>1. CASE r.stamp > x.stamp
  <2>1. Newer(S, r) \subseteq Newer(S \ {r}, x)
    BY <1>1 DEF Newer
  <2>2. IsFiniteSet(Newer(S \ {r}, x))
    BY FS_Subset DEF Newer
  <2>3. /\ Cardinality(Newer(S, r)) <= Cardinality(Newer(S \ {r}, x))
        /\ Cardinality(Newer(S, r)) \in Nat /\ Cardinality(Newer(S \ {r}, x)) \in Nat
    BY <2>1, <2>2, FS_Subset, FS_CardinalityType
  <2>4. QED
    BY <2>3
<1>2. CASE ~(r.stamp > x.stamp)
  <2>1. Newer(S \ {r}, x) = Newer(S, x)
    BY <1>2 DEF Newer
  <2>2. QED
    BY <2>1
<1>3. QED
  BY <1>1, <1>2

-----------------------------------------------------------------------------
(* Snapshots *)

\* A living attempt holds the lock, as long as none has lost it.
LockHeld == \A a \in Attempts : Holding(a) => lock = a

\* From the event it opens to the one it writes, an attempt is the last of
\* its session to have opened one, and only one that did so writes.
Begun == {"capturing", "making", "clearing", "marking", "deleting", "reading", "publishing",
          "pruning", "dropping", "finishing", "writing"}
LastToOpen ==
    /\ \A a \in Attempts : attempt[a].at \in Begun /\ attempt[a].ticket = a => opened[Talker(a)] = a
    /\ \A a \in Attempts : attempt[a].at = "writing" => attempt[a].ticket = a
    /\ \A s \in Talkers : event[s].state = "saved" => event[s].by = opened[s]

\* What is listed for pruning has Retain newer snapshots, whoever prunes.
ListedAreOld == \A a \in Attempts : \A x \in attempt[a].list :
    Cardinality(Newer(snaps, x)) >= Retain

\* Stamps are taken from one clock, and no two snapshots share one.
StampsInOrder ==
    /\ \A x, y \in snaps : x.stamp = y.stamp => x = y
    /\ \A x \in snaps : x.stamp <= clock
    /\ cleared <= clock /\ cleanAt <= clock

\* The newest snapshot of a, taken after the last clean check.
NewestIs(a) == \E x \in snaps :
    x.by = a /\ x.stamp > cleanAt /\ \A y \in snaps : y.stamp <= x.stamp

\* The pointer is right whenever nobody is between the reference and it and
\* nothing lapsed, and what an attempt read of it stays true until it moves it.
Right == IF latest = NoOne
         THEN \A y \in snaps : y.stamp <= cleared /\ y.stamp <= cleanAt
         ELSE NewestIs(latest)
PointsRight ==
    /\ ~lapsed /\ (\A a \in Attempts : attempt[a].at \notin {"reading", "publishing"}) => Right
    /\ \A a \in Attempts :
         /\ attempt[a].at \in {"reading", "publishing"} => NewestIs(a)
         /\ attempt[a].at \in {"publishing", "marking", "deleting"} => attempt[a].old = latest
         /\ ~lapsed /\ attempt[a].at = "deleting" => \A y \in snaps : y.stamp <= cleared

Torn == \E a \in Attempts : attempt[a].at = "torn"

AInv ==
    /\ ATypeOK /\ ListedAreOld /\ StampsInOrder
    /\ ~robbed => LockHeld /\ LastToOpen
    /\ ~robbed /\ ~Torn => PointsRight

\* One attempt moves, and the others do nothing.
Moves(a, e) == attempt' = [attempt EXCEPT ![a] = e]

\* What an attempt does to itself: where it goes, what it remembers.
LEMMA AttemptSteps ==
    ASSUME ATypeOK, NEW a \in Attempts
    PROVE  /\ attempt[a] \in Attempt
           /\ \A place \in {"waiting", "removing", "locked", "capturing", "making", "clearing",
                            "marking", "deleting", "reading", "publishing", "pruning",
                            "dropping", "finishing", "writing", "leaving"} :
                To(a, place) => \E e \in Attempt :
                    /\ Moves(a, e) /\ e.at = place /\ e.session = Talker(a)
                    /\ e.old = attempt[a].old /\ e.list = attempt[a].list
                    /\ e.ticket = attempt[a].ticket
           /\ \A how \in Gone : Leaves(a, how) => \E e \in Attempt :
                    Moves(a, e) /\ e.at = how /\ e.list = {} /\ e.ticket = NoOne
<1>1. attempt[a] \in Attempt
  BY DEF ATypeOK
<1>2. ASSUME NEW place \in {"waiting", "removing", "locked", "capturing", "making", "clearing",
                            "marking", "deleting", "reading", "publishing", "pruning",
                            "dropping", "finishing", "writing", "leaving"}, To(a, place)
      PROVE  \E e \in Attempt : /\ Moves(a, e) /\ e.at = place /\ e.session = Talker(a)
                               /\ e.old = attempt[a].old /\ e.list = attempt[a].list
                               /\ e.ticket = attempt[a].ticket
  <2> DEFINE e == [attempt[a] EXCEPT !.at = place]
  <2>1. e \in Attempt /\ e.at = place /\ e.session = attempt[a].session
        /\ e.old = attempt[a].old /\ e.list = attempt[a].list /\ e.ticket = attempt[a].ticket
    BY <1>1 DEF Attempt
  <2>2. Moves(a, e)
    BY <1>1, <1>2 DEF Moves, To, Attempt
  <2>3. QED
    BY <2>1, <2>2 DEF Talker
<1>3. ASSUME NEW how \in Gone, Leaves(a, how)
      PROVE  \E e \in Attempt : Moves(a, e) /\ e.at = how /\ e.list = {} /\ e.ticket = NoOne
  <2> DEFINE e == [NewAttempt EXCEPT !.at = how]
  <2>1. e \in Attempt /\ e.at = how /\ e.list = {} /\ e.ticket = NoOne
    BY <1>3 DEF NewAttempt, Attempt, Outcome
  <2>2. Moves(a, e)
    BY <1>3 DEF Moves, Leaves
  <2>3. QED
    BY <2>1, <2>2
<1>4. QED
  BY <1>1, <1>2, <1>3

LEMMA AttemptChanges ==
    ASSUME ATypeOK, NEW a \in Attempts
    PROVE  /\ Fire(a) => \E e \in Attempt :
                /\ Moves(a, e) /\ e.at = "waiting" /\ e.session \in Talkers
                /\ e.list = attempt[a].list /\ e.ticket = attempt[a].ticket
           /\ BeginAttempt(a) => \E e \in Attempt :
                /\ Moves(a, e) /\ e.at = "capturing" /\ e.session = Talker(a)
                /\ e.list = attempt[a].list
                /\ \/ /\ opened' = [opened EXCEPT ![Talker(a)] = a]
                      /\ event' = [event EXCEPT ![Talker(a)] = [by |-> a, state |-> "pending"]]
                   \/ e.ticket = NoOne /\ UNCHANGED <<event, opened>>
           /\ Abort(a) => \E e \in Attempt :
                /\ Moves(a, e) /\ e.at = "finishing" /\ e.session = Talker(a)
                /\ e.list = attempt[a].list /\ e.ticket = attempt[a].ticket
           /\ ClearRead(a) => \E e \in Attempt :
                /\ Moves(a, e) /\ e.session = Talker(a) /\ e.list = attempt[a].list
                /\ e.ticket = attempt[a].ticket
                /\ \/ e.at = "finishing" /\ cleanAt' = IF latest = NoOne THEN clock ELSE cleanAt
                   \/ e.at = "finishing" /\ cleanAt' = cleanAt
                   \/ e.at = "marking" /\ e.old = latest /\ latest # NoOne /\ cleanAt' = cleanAt
           /\ ReadLatest(a) => \E e \in Attempt :
                /\ Moves(a, e) /\ e.at = "publishing" /\ e.session = Talker(a)
                /\ e.list = attempt[a].list /\ e.old = latest /\ e.ticket = attempt[a].ticket
           /\ PruneList(a) => \E e \in Attempt :
                /\ Moves(a, e) /\ e.at = "dropping" /\ e.session = Talker(a)
                /\ e.list \subseteq Excess(Talker(a)) /\ e.ticket = attempt[a].ticket
           /\ PruneDrop(a) => \E e \in Attempt, x \in attempt[a].list :
                /\ Moves(a, e) /\ e.at = "dropping" /\ e.session = Talker(a)
                /\ e.list = attempt[a].list \ {x} /\ e.ticket = attempt[a].ticket
                /\ snaps' = snaps \ {x} \/ snaps' = snaps
           /\ ReadBack(a) => \E e \in Attempt :
                /\ Moves(a, e) /\ e.at = "finishing" /\ e.session = Talker(a)
                /\ e.list = attempt[a].list /\ e.ticket = attempt[a].ticket
<1>0. attempt[a] \in Attempt /\ attempt \in [Attempts -> Attempt]
  BY DEF ATypeOK
<1>1. ASSUME Fire(a)
      PROVE  \E e \in Attempt : Moves(a, e) /\ e.at = "waiting" /\ e.session \in Talkers
                               /\ e.list = attempt[a].list /\ e.ticket = attempt[a].ticket
  <2>1. PICK s \in Talkers : attempt' = [attempt EXCEPT ![a].at = "waiting", ![a].session = s]
    BY <1>1 DEF Fire
  <2> DEFINE e == [attempt[a] EXCEPT !.at = "waiting", !.session = s]
  <2>2. /\ e \in Attempt /\ e.at = "waiting" /\ e.session = s /\ e.list = attempt[a].list
        /\ e.ticket = attempt[a].ticket
    BY <1>0 DEF Attempt
  <2>3. Moves(a, e)
    BY <1>0, <2>1 DEF Moves, Attempt
  <2>4. QED
    BY <2>2, <2>3
<1>2. ASSUME Abort(a)
      PROVE  \E e \in Attempt : /\ Moves(a, e) /\ e.at = "finishing" /\ e.session = Talker(a)
                               /\ e.list = attempt[a].list /\ e.ticket = attempt[a].ticket
  <2> DEFINE e == [attempt[a] EXCEPT !.at = "finishing", !.outcome = "failed"]
  <2>1. /\ e \in Attempt /\ e.at = "finishing" /\ e.session = Talker(a)
        /\ e.list = attempt[a].list /\ e.ticket = attempt[a].ticket
    BY <1>0 DEF Attempt, Outcome, Talker
  <2>2. Moves(a, e)
    BY <1>0, <1>2 DEF Abort, Moves, Attempt
  <2>3. QED
    BY <2>1, <2>2
<1>3. ASSUME ClearRead(a)
      PROVE  \E e \in Attempt :
                /\ Moves(a, e) /\ e.session = Talker(a) /\ e.list = attempt[a].list
                /\ e.ticket = attempt[a].ticket
                /\ \/ e.at = "finishing" /\ cleanAt' = IF latest = NoOne THEN clock ELSE cleanAt
                   \/ e.at = "finishing" /\ cleanAt' = cleanAt
                   \/ e.at = "marking" /\ e.old = latest /\ latest # NoOne /\ cleanAt' = cleanAt
  <2> DEFINE e == [attempt[a] EXCEPT !.outcome = "clean", !.old = latest,
                     !.at = IF latest = NoOne THEN "finishing" ELSE "marking"]
             f == [attempt[a] EXCEPT !.outcome = "clean", !.at = "finishing"]
  <2>1. /\ e \in Attempt /\ e.session = Talker(a) /\ e.list = attempt[a].list
        /\ e.at = IF latest = NoOne THEN "finishing" ELSE "marking"
        /\ e.old = latest /\ e.ticket = attempt[a].ticket
    BY <1>0 DEF Attempt, Outcome, Talker, ATypeOK
  <2>2. /\ f \in Attempt /\ f.session = Talker(a) /\ f.list = attempt[a].list
        /\ f.at = "finishing" /\ f.ticket = attempt[a].ticket
    BY <1>0 DEF Attempt, Outcome, Talker
  <2>3. \/ Moves(a, e) /\ cleanAt' = IF latest = NoOne THEN clock ELSE cleanAt
        \/ Moves(a, f) /\ cleanAt' = cleanAt
    BY <1>0, <1>3 DEF ClearRead, Moves, Attempt
  <2> HIDE DEF e, f
  <2>4. QED
    BY <2>1, <2>2, <2>3
<1>4. ASSUME ReadLatest(a)
      PROVE  \E e \in Attempt :
                /\ Moves(a, e) /\ e.at = "publishing" /\ e.session = Talker(a)
                /\ e.list = attempt[a].list /\ e.old = latest /\ e.ticket = attempt[a].ticket
  <2> DEFINE e == [attempt[a] EXCEPT !.at = "publishing", !.old = latest]
  <2>1. /\ e \in Attempt /\ e.at = "publishing" /\ e.session = Talker(a)
        /\ e.list = attempt[a].list /\ e.old = latest /\ e.ticket = attempt[a].ticket
    BY <1>0 DEF Attempt, Talker, ATypeOK
  <2>2. Moves(a, e)
    BY <1>0, <1>4 DEF ReadLatest, Moves, Attempt
  <2>3. QED
    BY <2>1, <2>2
<1>5. ASSUME PruneList(a)
      PROVE  \E e \in Attempt :
                /\ Moves(a, e) /\ e.at = "dropping" /\ e.session = Talker(a)
                /\ e.list \subseteq Excess(Talker(a)) /\ e.ticket = attempt[a].ticket
  <2>1. PICK old \in SUBSET Excess(Talker(a)) :
          attempt' = [attempt EXCEPT ![a].at = "dropping", ![a].list = old]
    BY <1>5 DEF PruneList
  <2> DEFINE e == [attempt[a] EXCEPT !.at = "dropping", !.list = old]
  <2>2. Excess(Talker(a)) \in SUBSET Snap
    BY DEF Excess, ATypeOK
  <2>3. /\ e \in Attempt /\ e.at = "dropping" /\ e.session = Talker(a)
        /\ e.list = old /\ e.ticket = attempt[a].ticket
    BY <1>0, <2>2 DEF Attempt, Talker
  <2>4. Moves(a, e)
    BY <1>0, <2>1 DEF Moves, Attempt
  <2>5. QED
    BY <2>3, <2>4
<1>6. ASSUME PruneDrop(a)
      PROVE  \E e \in Attempt, x \in attempt[a].list :
                /\ Moves(a, e) /\ e.at = "dropping" /\ e.session = Talker(a)
                /\ e.list = attempt[a].list \ {x} /\ e.ticket = attempt[a].ticket
                /\ snaps' = snaps \ {x} \/ snaps' = snaps
  <2>1. PICK x \in attempt[a].list :
          /\ snaps' = snaps \ {x} \/ snaps' = snaps
          /\ attempt' = [attempt EXCEPT ![a].list = attempt[a].list \ {x}]
    BY <1>6 DEF PruneDrop
  <2> DEFINE e == [attempt[a] EXCEPT !.list = attempt[a].list \ {x}]
  <2>2. /\ e \in Attempt /\ e.at = "dropping" /\ e.session = Talker(a)
        /\ e.list = attempt[a].list \ {x} /\ e.ticket = attempt[a].ticket
    BY <1>0, <1>6 DEF Attempt, Talker, PruneDrop, Stage
  <2>3. Moves(a, e)
    BY <1>0, <2>1 DEF Moves, Attempt
  <2>4. QED
    BY <2>1, <2>2, <2>3
<1>7. ASSUME ReadBack(a)
      PROVE  \E e \in Attempt : /\ Moves(a, e) /\ e.at = "finishing" /\ e.session = Talker(a)
                               /\ e.list = attempt[a].list /\ e.ticket = attempt[a].ticket
  <2> DEFINE e == [attempt[a] EXCEPT !.at = "finishing",
                     !.outcome = IF SnapOf(a) # {} THEN "saved" ELSE "failed"]
  <2>1. /\ e \in Attempt /\ e.at = "finishing" /\ e.session = Talker(a)
        /\ e.list = attempt[a].list /\ e.ticket = attempt[a].ticket
    BY <1>0 DEF Attempt, Outcome, Talker
  <2>2. Moves(a, e)
    BY <1>0, <1>7 DEF ReadBack, Moves, Attempt
  <2>3. QED
    BY <2>1, <2>2
<1>8. ASSUME BeginAttempt(a)
      PROVE  \E e \in Attempt :
                /\ Moves(a, e) /\ e.at = "capturing" /\ e.session = Talker(a)
                /\ e.list = attempt[a].list
                /\ \/ /\ opened' = [opened EXCEPT ![Talker(a)] = a]
                      /\ event' = [event EXCEPT ![Talker(a)] = [by |-> a, state |-> "pending"]]
                   \/ e.ticket = NoOne /\ UNCHANGED <<event, opened>>
  <2> DEFINE e == [attempt[a] EXCEPT !.at = "capturing", !.ticket = a]
             f == [attempt[a] EXCEPT !.at = "capturing", !.ticket = NoOne]
  <2>1. /\ e \in Attempt /\ e.at = "capturing" /\ e.session = Talker(a)
        /\ e.list = attempt[a].list
    BY <1>0 DEF Attempt, Talker
  <2>2. /\ f \in Attempt /\ f.at = "capturing" /\ f.session = Talker(a)
        /\ f.list = attempt[a].list /\ f.ticket = NoOne
    BY <1>0 DEF Attempt, Talker
  <2>3. \/ /\ Moves(a, e) /\ opened' = [opened EXCEPT ![Talker(a)] = a]
           /\ event' = [event EXCEPT ![Talker(a)] = [by |-> a, state |-> "pending"]]
        \/ Moves(a, f) /\ UNCHANGED <<event, opened>>
    BY <1>0, <1>8 DEF BeginAttempt, Moves, Attempt
  <2> HIDE DEF e, f
  <2>4. QED
    BY <2>1, <2>2, <2>3
<1>9. QED
  BY <1>1, <1>2, <1>3, <1>4, <1>5, <1>6, <1>7, <1>8

LEMMA MoveKeepsOthers ==
    ASSUME ATypeOK, NEW a \in Attempts, NEW e \in Attempt, Moves(a, e)
    PROVE  /\ attempt' \in [Attempts -> Attempt] /\ attempt'[a] = e
           /\ \A b \in Attempts : b # a => attempt'[b] = attempt[b]
BY DEF ATypeOK, Moves

\* A process of a hook takes one of its steps.
Works(a) ==
    \/ Fire(a) \/ Acquire(a) \/ SeeStale(a) \/ RemoveStale(a) \/ StandDown(a) \/ Release(a)
    \/ BeginAttempt(a) \/ CaptureTree(a) \/ Abort(a)
    \/ ClearRead(a) \/ ClearMark(a) \/ ClearDelete(a)
    \/ MakeRef(a) \/ ReadLatest(a) \/ Publish(a) \/ PruneList(a) \/ PruneDrop(a)
    \/ ReadBack(a) \/ FinishRead(a) \/ FinishWrite(a) \/ KillAttempt(a)

\* From where to where a step of each kind leads, with the session kept.
Goes(a, from, to) ==
    /\ attempt[a].at \in from
    /\ \E e \in Attempt :
         Moves(a, e) /\ e.at \in to /\ (e.at \in Gone \/ e.session = Talker(a))

\* The steps that change of their attempt only where it is.
LEMMA StepsThatGo ==
    ASSUME NEW a \in Attempts
    PROVE  /\ Acquire(a) => attempt[a].at = "waiting" /\ To(a, "locked")
           /\ SeeStale(a) => attempt[a].at = "waiting" /\ To(a, "removing")
           /\ RemoveStale(a) => attempt[a].at = "removing" /\ To(a, "waiting")
           /\ CaptureTree(a) => /\ attempt[a].at = "capturing"
                                /\ To(a, "making") \/ To(a, "clearing")
           /\ ClearMark(a) => attempt[a].at = "marking" /\ To(a, "deleting")
           /\ ClearDelete(a) => attempt[a].at = "deleting" /\ To(a, "finishing")
           /\ MakeRef(a) => attempt[a].at = "making" /\ To(a, "reading")
           /\ Publish(a) => attempt[a].at = "publishing" /\ To(a, "pruning")
           /\ FinishRead(a) => /\ attempt[a].at = "finishing"
                               /\ To(a, "writing") \/ To(a, "leaving")
           /\ FinishWrite(a) => attempt[a].at = "writing" /\ To(a, "leaving")
BY DEF Acquire, SeeStale, RemoveStale, CaptureTree, ClearMark, ClearDelete, MakeRef, Publish,
   FinishRead, FinishWrite, Stage

LEMMA WhereStepsLead ==
    ASSUME ATypeOK, NEW a \in Attempts
    PROVE  /\ Acquire(a) => Goes(a, {"waiting"}, {"locked"})
           /\ SeeStale(a) => Goes(a, {"waiting"}, {"removing"})
           /\ RemoveStale(a) => Goes(a, {"removing"}, {"waiting"})
           /\ StandDown(a) => Goes(a, {"waiting"}, {"over"})
           /\ Release(a) => Goes(a, {"leaving"}, {"over"})
           /\ BeginAttempt(a) => Goes(a, {"locked"}, {"capturing"})
           /\ CaptureTree(a) => Goes(a, {"capturing"}, {"making", "clearing"})
           /\ Abort(a) => Goes(a, {"capturing", "making"}, {"finishing"})
           /\ ClearRead(a) => Goes(a, {"clearing"}, {"finishing", "marking"})
           /\ ClearMark(a) => Goes(a, {"marking"}, {"deleting"})
           /\ ClearDelete(a) => Goes(a, {"deleting"}, {"finishing"})
           /\ MakeRef(a) => Goes(a, {"making"}, {"reading"})
           /\ ReadLatest(a) => Goes(a, {"reading"}, {"publishing"})
           /\ Publish(a) => Goes(a, {"publishing"}, {"pruning"})
           /\ PruneList(a) => Goes(a, {"pruning"}, {"dropping"})
           /\ PruneDrop(a) => Goes(a, {"dropping"}, {"dropping"})
           /\ ReadBack(a) => Goes(a, {"dropping"}, {"finishing"})
           /\ FinishRead(a) => Goes(a, {"finishing"}, {"writing", "leaving"})
           /\ FinishWrite(a) => Goes(a, {"writing"}, {"leaving"})
           /\ KillAttempt(a) => /\ Goes(a, {attempt[a].at}, {"torn", "dead"})
                                /\ attempt[a].at \in {"reading", "publishing"} =>
                                     Goes(a, {attempt[a].at}, {"torn"})
<1>1. /\ Acquire(a) => Goes(a, {"waiting"}, {"locked"})
      /\ SeeStale(a) => Goes(a, {"waiting"}, {"removing"})
      /\ RemoveStale(a) => Goes(a, {"removing"}, {"waiting"})
  BY AttemptSteps, StepsThatGo DEF Goes
<1>2. /\ CaptureTree(a) => Goes(a, {"capturing"}, {"making", "clearing"})
      /\ ClearMark(a) => Goes(a, {"marking"}, {"deleting"})
      /\ ClearDelete(a) => Goes(a, {"deleting"}, {"finishing"})
      /\ MakeRef(a) => Goes(a, {"making"}, {"reading"})
      /\ Publish(a) => Goes(a, {"publishing"}, {"pruning"})
      /\ FinishWrite(a) => Goes(a, {"writing"}, {"leaving"})
  BY AttemptSteps, StepsThatGo DEF Goes
<1>3. FinishRead(a) => Goes(a, {"finishing"}, {"writing", "leaving"})
  BY AttemptSteps, StepsThatGo DEF Goes
<1>4. /\ BeginAttempt(a) => Goes(a, {"locked"}, {"capturing"})
      /\ Abort(a) => Goes(a, {"capturing", "making"}, {"finishing"})
      /\ ClearRead(a) => Goes(a, {"clearing"}, {"finishing", "marking"})
      /\ ReadLatest(a) => Goes(a, {"reading"}, {"publishing"})
      /\ PruneList(a) => Goes(a, {"pruning"}, {"dropping"})
      /\ PruneDrop(a) => Goes(a, {"dropping"}, {"dropping"})
      /\ ReadBack(a) => Goes(a, {"dropping"}, {"finishing"})
  <2>1. /\ BeginAttempt(a) => attempt[a].at = "locked"
        /\ Abort(a) => attempt[a].at \in {"capturing", "making"}
        /\ ClearRead(a) => attempt[a].at = "clearing"
        /\ ReadLatest(a) => attempt[a].at = "reading"
        /\ PruneList(a) => attempt[a].at = "pruning"
        /\ PruneDrop(a) => attempt[a].at = "dropping"
        /\ ReadBack(a) => attempt[a].at = "dropping"
    BY DEF BeginAttempt, Abort, ClearRead, ReadLatest, PruneList, PruneDrop, ReadBack, Stage
  <2>2. QED
    BY <2>1, AttemptChanges DEF Goes
<1>5. /\ StandDown(a) => Goes(a, {"waiting"}, {"over"})
      /\ Release(a) => Goes(a, {"leaving"}, {"over"})
  BY AttemptSteps DEF StandDown, Release, Stage, Goes, Gone
<1>6. KillAttempt(a) => /\ Goes(a, {attempt[a].at}, {"torn", "dead"})
                        /\ attempt[a].at \in {"reading", "publishing"} =>
                             Goes(a, {attempt[a].at}, {"torn"})
  BY AttemptSteps DEF KillAttempt, Goes, Gone
<1>7. QED
  BY <1>1, <1>2, <1>3, <1>4, <1>5, <1>6

\* Only its beginning gives an attempt an event to write.
LEMMA TicketStays ==
    ASSUME ATypeOK, NEW a \in Attempts, Works(a), ~BeginAttempt(a), attempt'[a].at \notin Gone
    PROVE  attempt'[a].ticket = attempt[a].ticket
<1>1. ASSUME NEW e \in Attempt, Moves(a, e), e.ticket = attempt[a].ticket
      PROVE  attempt'[a].ticket = attempt[a].ticket
  BY <1>1, MoveKeepsOthers
<1>2. CASE \/ Fire(a) \/ Abort(a) \/ ClearRead(a) \/ ReadLatest(a) \/ PruneList(a)
           \/ PruneDrop(a) \/ ReadBack(a)
  <2>1. \E e \in Attempt : Moves(a, e) /\ e.ticket = attempt[a].ticket
    BY <1>2, AttemptChanges
  <2>2. QED
    BY <1>1, <2>1
<1>3. CASE \/ Acquire(a) \/ SeeStale(a) \/ RemoveStale(a) \/ CaptureTree(a) \/ ClearMark(a)
           \/ ClearDelete(a) \/ MakeRef(a) \/ Publish(a) \/ FinishRead(a) \/ FinishWrite(a)
  <2>1. \E e \in Attempt : Moves(a, e) /\ e.ticket = attempt[a].ticket
    BY <1>3, AttemptSteps, StepsThatGo
  <2>2. QED
    BY <1>1, <2>1
<1>4. ~(StandDown(a) \/ Release(a) \/ KillAttempt(a))
  <2>1. StandDown(a) \/ Release(a) \/ KillAttempt(a) => \E e \in Attempt : Moves(a, e) /\ e.at \in Gone
    BY AttemptSteps DEF StandDown, Release, KillAttempt, Gone
  <2>2. QED
    BY <2>1, MoveKeepsOthers
<1>5. QED
  BY <1>2, <1>3, <1>4 DEF Works

LEMMA AttemptsTyped ==
    ASSUME ATypeOK, NEW a \in Attempts, Works(a)
    PROVE  /\ attempt' \in [Attempts -> Attempt]
           /\ \A b \in Attempts : attempt'[b].at \notin Gone => attempt'[b].session \in Talkers
           /\ \A b \in Attempts : b # a => attempt'[b] = attempt[b]
<1>1. CASE Fire(a)
  BY <1>1, AttemptChanges, MoveKeepsOthers DEF ATypeOK
<1>2. ASSUME NEW from, NEW to, Goes(a, from, to), Talker(a) \in Talkers
      PROVE  /\ attempt' \in [Attempts -> Attempt]
             /\ \A b \in Attempts : attempt'[b].at \notin Gone => attempt'[b].session \in Talkers
             /\ \A b \in Attempts : b # a => attempt'[b] = attempt[b]
  BY <1>2, MoveKeepsOthers DEF Goes, ATypeOK
<1>3. attempt[a].at \notin Gone => Talker(a) \in Talkers
  BY DEF ATypeOK, Talker
<1>4. CASE ~Fire(a)
  <2>1. attempt[a].at \notin Gone
    BY <1>4, WhereStepsLead DEF Works, Goes, Gone, KillAttempt
  <2>2. \E from, to : Goes(a, from, to)
    BY <1>4, WhereStepsLead DEF Works
  <2>3. QED
    BY <1>2, <1>3, <2>1, <2>2
<1>5. QED
  BY <1>1, <1>4

\* What the steps do to the rest.
LEMMA SnapsTyped ==
    ASSUME ATypeOK, NEW a \in Attempts, Works(a)
    PROVE  /\ snaps' \subseteq Snap /\ IsFiniteSet(snaps')
           /\ \/ UNCHANGED snaps
              \/ MakeRef(a) /\ snaps' = snaps \cup
                    {[by |-> a, session |-> Talker(a), stamp |-> clock + 1]}
              \/ PruneDrop(a) /\ \E x \in attempt[a].list : snaps' = snaps \ {x}
<1>0. snaps \subseteq Snap /\ IsFiniteSet(snaps)
  BY DEF ATypeOK
<1>1. CASE MakeRef(a)
  <2> DEFINE x == [by |-> a, session |-> Talker(a), stamp |-> clock + 1]
  <2>1. snaps' = snaps \cup {x}
    BY <1>1 DEF MakeRef, Tick
  <2>2. clock + 1 \in 1 .. MaxTicks
    BY <1>1, TicksBounded DEF MakeRef, Tick, ATypeOK
  <2>3. Talker(a) \in Talkers
    BY <1>1 DEF MakeRef, Stage, Gone, Talker, ATypeOK
  <2>4. x \in Snap
    BY <2>2, <2>3 DEF Snap
  <2>5. IsFiniteSet(snaps')
    BY <1>0, <2>1, FS_AddElement
  <2>6. QED
    BY <1>0, <1>1, <2>1, <2>4, <2>5
<1>2. CASE PruneDrop(a)
  <2>1. PICK x \in attempt[a].list : snaps' = snaps \ {x} \/ snaps' = snaps
    BY <1>2 DEF PruneDrop
  <2>2. IsFiniteSet(snaps')
    BY <1>0, <2>1, FS_RemoveElement
  <2>3. QED
    BY <1>0, <1>2, <2>1, <2>2
<1>3. CASE ~MakeRef(a) /\ ~PruneDrop(a)
  <2>1. UNCHANGED snaps
    BY <1>3 DEF Works, Fire, Acquire, SeeStale, RemoveStale, StandDown, Release, BeginAttempt,
       CaptureTree, Abort, ClearRead, ClearMark, ClearDelete, ReadLatest, Publish, PruneList,
       ReadBack, FinishRead, FinishWrite, KillAttempt, Unlocks, files
  <2>2. QED
    BY <1>0, <2>1
<1>4. QED
  BY <1>1, <1>2, <1>3

LEMMA TypeStep ==
    ASSUME ATypeOK, NEW a \in Attempts, Works(a)
    PROVE  ATypeOK'
<1>1. attempt[a].at \notin Gone => Talker(a) \in Talkers
  BY DEF ATypeOK, Talker
<1>2. robbed' \in BOOLEAN /\ lapsed' \in BOOLEAN /\ lock' \in Attempts \cup {NoOne}
      /\ latest' \in Attempts \cup {NoOne}
  BY DEF ATypeOK, Works, Fire, Acquire, SeeStale, RemoveStale, StandDown, Release, BeginAttempt,
     CaptureTree, Abort, ClearRead, ClearMark, ClearDelete, MakeRef, ReadLatest, Publish,
     PruneList, PruneDrop, ReadBack, FinishRead, FinishWrite, KillAttempt, Unlocks, files, notes
<1>3. clock' \in 0 .. MaxTicks
  <2>1. UNCHANGED clock \/ Tick
    BY DEF Works, Fire, Acquire, SeeStale, RemoveStale, StandDown, Release, BeginAttempt,
       CaptureTree, Abort, ClearRead, ClearMark, ClearDelete, MakeRef, ReadLatest, Publish,
       PruneList, PruneDrop, ReadBack, FinishRead, FinishWrite, KillAttempt, Unlocks
  <2>2. QED
    BY <2>1, TicksBounded DEF Tick, ATypeOK
<1>4. cleared' \in 0 .. MaxTicks /\ cleanAt' \in 0 .. MaxTicks
  BY <1>3 DEF ATypeOK, Works, Fire, Acquire, SeeStale, RemoveStale, StandDown, Release,
     BeginAttempt, CaptureTree, Abort, ClearRead, ClearMark, ClearDelete, MakeRef, ReadLatest,
     Publish, PruneList, PruneDrop, ReadBack, FinishRead, FinishWrite, KillAttempt, Unlocks,
     files, notes
<1>5. event' \in [Talkers -> [by : Attempts \cup {NoOne}, state : Outcome \cup {"pending"}]]
  <2>1. event \in [Talkers -> [by : Attempts \cup {NoOne}, state : Outcome \cup {"pending"}]]
    BY DEF ATypeOK
  <2>2. attempt[a].outcome \in Outcome
    BY DEF ATypeOK, Attempt
  <2>3. \/ UNCHANGED event
        \/ event' = [event EXCEPT ![Talker(a)] = [by |-> a, state |-> "pending"]]
        \/ event' = [event EXCEPT ![Talker(a)] = [by |-> a, state |-> attempt[a].outcome]]
    BY DEF Works, Fire, Acquire, SeeStale, RemoveStale, StandDown, Release, BeginAttempt,
       CaptureTree, Abort, ClearRead, ClearMark, ClearDelete, MakeRef, ReadLatest, Publish,
       PruneList, PruneDrop, ReadBack, FinishRead, FinishWrite, KillAttempt, Unlocks, files
  <2>4. QED
    BY <2>1, <2>2, <2>3
<1>6. opened' \in [Talkers -> Attempts \cup {NoOne}] /\ ended' \in [Talkers -> Attempts \cup {NoOne}]
  BY DEF ATypeOK, Works, Fire, Acquire, SeeStale, RemoveStale, StandDown, Release, BeginAttempt,
     CaptureTree, Abort, ClearRead, ClearMark, ClearDelete, MakeRef, ReadLatest, Publish,
     PruneList, PruneDrop, ReadBack, FinishRead, FinishWrite, KillAttempt, Unlocks, notes
<1>7. faults' \in 0 .. MaxFaults
  <2>1. \/ UNCHANGED faults
        \/ Fault
    BY DEF Works, Fire, Acquire, SeeStale, RemoveStale, StandDown, Release, BeginAttempt,
       CaptureTree, Abort, ClearRead, ClearMark, ClearDelete, MakeRef, ReadLatest, Publish,
       PruneList, PruneDrop, ReadBack, FinishRead, FinishWrite, KillAttempt, Unlocks, notes
  <2>2. QED
    BY <2>1, FaultsBounded DEF Fault, ATypeOK
<1>8. QED
  BY <1>2, <1>3, <1>4, <1>5, <1>6, <1>7, AttemptsTyped, SnapsTyped DEF ATypeOK

\* Dropping a listed snapshot leaves what is newer than any listed one, or
\* what is newer than the dropped one, which is as much.
LEMMA ListedStayOld ==
    ASSUME ATypeOK, ListedAreOld, NEW a \in Attempts, Works(a)
    PROVE  /\ ListedAreOld'
           /\ \A x \in snaps \ snaps' : Cardinality(Newer(snaps', x)) >= Retain
<1>0. /\ snaps \subseteq Snap /\ IsFiniteSet(snaps) /\ Retain \in Nat
      /\ attempt \in [Attempts -> Attempt] /\ attempt' \in [Attempts -> Attempt]
      /\ snaps' \subseteq Snap /\ IsFiniteSet(snaps')
      /\ \A b \in Attempts : b # a => attempt'[b] = attempt[b]
  BY RetainIsPositive, SnapsTyped, AttemptsTyped DEF ATypeOK
<1> DEFINE Kept(x) == Cardinality(Newer(snaps, x)) >= Retain =>
                        Cardinality(Newer(snaps', x)) >= Retain
<1>1. \A x \in Snap : x.stamp \in Nat
  BY TicksBounded DEF Snap
<1>2. ASSUME NEW r \in attempt[a].list, snaps' = snaps \ {r}
      PROVE  /\ \A x \in Snap : Kept(x)
             /\ Cardinality(Newer(snaps', r)) >= Retain
  <2>1. Cardinality(Newer(snaps, r)) >= Retain /\ r \in Snap
    BY <1>0 DEF ListedAreOld, Attempt
  <2>2. \A x \in Snap : Kept(x)
    BY <1>0, <1>1, <1>2, <2>1, DroppingKeepsNewer
  <2>3. QED
    BY <2>1, <2>2
<1>3. ASSUME snaps \subseteq snaps' PROVE \A x \in Snap : Kept(x)
  BY <1>0, <1>3, GrowingKeepsNewer
<1>4. /\ \A x \in Snap : Kept(x)
      /\ \A x \in snaps \ snaps' : Cardinality(Newer(snaps', x)) >= Retain
  BY <1>2, <1>3, SnapsTyped
<1> HIDE DEF Kept
<1>5. ASSUME NEW x \in attempt'[a].list PROVE Cardinality(Newer(snaps', x)) >= Retain
  <2>1. x \in Snap
    BY <1>0 DEF Attempt
  <2>2. CASE x \in attempt[a].list
    BY <1>4, <2>1, <2>2 DEF ListedAreOld, Kept
  <2>3. CASE PruneList(a)
    <3>1. snaps' = snaps
      BY <2>3 DEF PruneList, files
    <3>2. x \in Excess(Talker(a))
      BY <2>3, AttemptChanges, MoveKeepsOthers
    <3>3. QED
      BY <3>1, <3>2 DEF Excess, Newer
  <2>4. CASE ~PruneList(a)
    <3>1. attempt'[a].list \subseteq attempt[a].list
      <4>1. ASSUME NEW e \in Attempt, Moves(a, e), e.list \subseteq attempt[a].list
            PROVE  attempt'[a].list \subseteq attempt[a].list
        BY <4>1, MoveKeepsOthers
      <4>2. CASE \/ Fire(a) \/ BeginAttempt(a) \/ Abort(a) \/ ClearRead(a) \/ ReadLatest(a)
                 \/ PruneDrop(a) \/ ReadBack(a)
        <5>1. \E e \in Attempt : Moves(a, e) /\ e.list \subseteq attempt[a].list
          BY <4>2, AttemptChanges
        <5>2. QED
          BY <4>1, <5>1
      <4>3. CASE StandDown(a) \/ Release(a) \/ KillAttempt(a)
        <5>1. \E e \in Attempt : Moves(a, e) /\ e.list = {}
          BY <4>3, AttemptSteps DEF StandDown, Release, KillAttempt, Gone
        <5>2. QED
          BY <4>1, <5>1
      <4>4. CASE \/ Acquire(a) \/ SeeStale(a) \/ RemoveStale(a) \/ CaptureTree(a)
                 \/ ClearMark(a) \/ ClearDelete(a) \/ MakeRef(a)
                 \/ Publish(a) \/ FinishRead(a) \/ FinishWrite(a)
        <5>1. \E e \in Attempt : Moves(a, e) /\ e.list = attempt[a].list
          BY <4>4, AttemptSteps, StepsThatGo
        <5>2. QED
          BY <4>1, <5>1
      <4>5. QED
        BY <2>4, <4>2, <4>3, <4>4 DEF Works
    <3>2. QED
      BY <2>2, <3>1
  <2>5. QED
    BY <2>3, <2>4
<1>6. ASSUME NEW b \in Attempts, NEW x \in attempt'[b].list
      PROVE  Cardinality(Newer(snaps', x)) >= Retain
  <2>1. CASE b = a
    BY <1>5, <1>6, <2>1
  <2>2. CASE b # a
    BY <1>0, <1>4, <1>6, <2>2 DEF ListedAreOld, Kept, Attempt
  <2>3. QED
    BY <2>1, <2>2
<1>7. ListedAreOld'
  BY <1>6 DEF ListedAreOld, Newer
<1>8. QED
  BY <1>4, <1>7

LEMMA StampsStayInOrder ==
    ASSUME ATypeOK, StampsInOrder, NEW a \in Attempts, Works(a)
    PROVE  StampsInOrder' /\ clock <= clock'
<1>0. /\ clock \in Nat /\ cleared \in Nat /\ cleanAt \in Nat
      /\ \A x \in snaps : x.stamp \in Nat
  BY TicksBounded DEF ATypeOK, Snap
<1>1. /\ clock' = clock \/ clock' = clock + 1
      /\ MakeRef(a) => clock' = clock + 1
      /\ cleared' = cleared \/ cleared' = clock'
      /\ cleanAt' = cleanAt \/ (cleanAt' = clock /\ clock' = clock)
  BY DEF Works, Fire, Acquire, SeeStale, RemoveStale, StandDown, Release,
     BeginAttempt, CaptureTree, Abort, ClearRead, ClearMark, ClearDelete, MakeRef, ReadLatest,
     Publish, PruneList, PruneDrop, ReadBack, FinishRead, FinishWrite, KillAttempt, Unlocks, Tick,
     files, notes
<1>2. clock <= clock' /\ cleared' <= clock' /\ cleanAt' <= clock'
  BY <1>0, <1>1 DEF StampsInOrder
<1>3. \/ snaps' \subseteq snaps
      \/ MakeRef(a) /\ \E x : snaps' = snaps \cup {x} /\ x.stamp = clock + 1
  <2>1. [by |-> a, session |-> Talker(a), stamp |-> clock + 1].stamp = clock + 1
    OBVIOUS
  <2>2. QED
    BY <2>1, SnapsTyped
<1>4. CASE snaps' \subseteq snaps
  <2>1. \A x \in snaps' : x.stamp <= clock'
    BY <1>0, <1>1, <1>4 DEF StampsInOrder
  <2>2. QED
    BY <1>2, <1>4, <2>1 DEF StampsInOrder
<1>5. CASE MakeRef(a) /\ \E x : snaps' = snaps \cup {x} /\ x.stamp = clock + 1
  <2>1. PICK x : snaps' = snaps \cup {x} /\ x.stamp = clock + 1
    BY <1>5
  <2>2. \A y \in snaps' : y.stamp <= clock'
    BY <1>0, <1>1, <1>5, <2>1 DEF StampsInOrder
  <2>3. \A y \in snaps : y.stamp # x.stamp
    BY <1>0, <2>1 DEF StampsInOrder
  <2>4. \A y, z \in snaps' : y.stamp = z.stamp => y = z
    BY <2>1, <2>3 DEF StampsInOrder
  <2>5. QED
    BY <1>2, <2>2, <2>4 DEF StampsInOrder
<1>6. QED
  BY <1>2, <1>3, <1>4, <1>5

\* A lock is lost only to an attempt that took it for stale.
LEMMA LockStaysHeld ==
    ASSUME ATypeOK, ~robbed => LockHeld, NEW a \in Attempts, Works(a), ~robbed'
    PROVE  ~robbed /\ LockHeld /\ LockHeld'
<1>1. ~robbed /\ LockHeld
  <2>1. UNCHANGED robbed \/ Unlocks(a)
    BY DEF Works, Fire, Acquire, SeeStale, RemoveStale, StandDown, Release,
       BeginAttempt, CaptureTree, Abort, ClearRead, ClearMark, ClearDelete, MakeRef, ReadLatest,
       Publish, PruneList, PruneDrop, ReadBack, FinishRead, FinishWrite, KillAttempt, notes
  <2>2. Unlocks(a) => (robbed => robbed')
    BY Zenon DEF Unlocks
  <2>3. QED
    BY <2>1, <2>2
<1>2. \/ UNCHANGED lock
      \/ Acquire(a) /\ lock = NoOne /\ lock' = a
      \/ RemoveStale(a) /\ Unlocks(a)
      \/ Release(a) /\ Unlocks(a)
  BY DEF Works, Fire, Acquire, SeeStale, RemoveStale, StandDown, Release,
     BeginAttempt, CaptureTree, Abort, ClearRead, ClearMark, ClearDelete, MakeRef, ReadLatest,
     Publish, PruneList, PruneDrop, ReadBack, FinishRead, FinishWrite, KillAttempt, files
<1>3. \A b \in Attempts : b # a => attempt'[b] = attempt[b]
  BY AttemptsTyped
<1>4. ASSUME NEW b \in Attempts, b # a, Holding(b)' PROVE lock' = b
  <2>1. Holding(b) /\ lock = b
    BY <1>1, <1>3, <1>4 DEF Holding, LockHeld
  <2>2. QED
    BY <1>2, <1>4, <2>1, NoOneIsNobody DEF Unlocks
<1>5. ASSUME Holding(a)' PROVE lock' = a
  <2>1. ~RemoveStale(a) /\ ~Release(a)
    BY <1>5, WhereStepsLead, MoveKeepsOthers DEF Goes, Holding, Gone
  <2>2. CASE Acquire(a)
    BY <2>2 DEF Acquire
  <2>3. CASE ~Acquire(a)
    <3>1. Holding(a)
      BY <1>5, <2>3, WhereStepsLead, AttemptChanges, MoveKeepsOthers DEF Works, Goes, Holding, Gone
    <3>2. QED
      BY <1>1, <1>2, <2>1, <2>3, <3>1 DEF LockHeld
  <2>4. QED
    BY <2>2, <2>3
<1>6. QED
  BY <1>1, <1>4, <1>5 DEF LockHeld

\* One attempt at a time is at work.
LEMMA OneAtWork ==
    ASSUME LockHeld, NEW a \in Attempts, NEW b \in Attempts, Holding(a), Holding(b)
    PROVE  a = b
BY DEF LockHeld

LEMMA LastToOpenStays ==
    ASSUME ATypeOK, LockHeld, LastToOpen, NEW a \in Attempts, Works(a)
    PROVE  LastToOpen'
<1>0. /\ event \in [Talkers -> [by : Attempts \cup {NoOne}, state : Outcome \cup {"pending"}]]
      /\ opened \in [Talkers -> Attempts \cup {NoOne}]
      /\ attempt[a].at \notin Gone => Talker(a) \in Talkers
      /\ \A b \in Attempts : b # a => attempt'[b] = attempt[b] /\ Talker(b)' = Talker(b)
  BY AttemptsTyped DEF ATypeOK, Talker
<1>1. CASE BeginAttempt(a)
  <2>1. attempt[a].at = "locked" /\ Talker(a) \in Talkers
    BY <1>0, <1>1 DEF BeginAttempt, Stage, Gone
  <2>2. PICK e \in Attempt :
          /\ Moves(a, e) /\ e.at = "capturing" /\ e.session = Talker(a)
          /\ \/ /\ opened' = [opened EXCEPT ![Talker(a)] = a]
                /\ event' = [event EXCEPT ![Talker(a)] = [by |-> a, state |-> "pending"]]
             \/ e.ticket = NoOne /\ UNCHANGED <<event, opened>>
    BY <1>1, AttemptChanges
  <2>3. attempt'[a] = e /\ Talker(a)' = Talker(a)
    BY <2>2, MoveKeepsOthers DEF Talker
  <2>4. \A b \in Attempts : b # a => attempt[b].at \notin Begun
    BY <2>1, OneAtWork DEF Holding, Gone, Begun
  <2>5. \A b \in Attempts : b # a => attempt'[b].at \notin Begun
    BY <1>0, <2>4
  <2>6. attempt'[a].ticket = a => opened'[Talker(a)'] = a
    BY <1>0, <2>1, <2>2, <2>3, NoOneIsNobody
  <2>7. \A s \in Talkers : event'[s].state = "saved" => event'[s].by = opened'[s]
    BY <1>0, <2>2 DEF LastToOpen
  <2>8. \A b \in Attempts : attempt'[b].at # "writing"
    BY <2>2, <2>3, <2>5 DEF Begun
  <2>9. QED
    BY <2>5, <2>6, <2>7, <2>8 DEF LastToOpen, Talker
<1>2. CASE ~BeginAttempt(a)
  <2>1. opened' = opened
    BY <1>2 DEF Works, Fire, Acquire, SeeStale, RemoveStale, StandDown, Release,
       CaptureTree, Abort, ClearRead, ClearMark, ClearDelete, MakeRef, ReadLatest,
       Publish, PruneList, PruneDrop, ReadBack, FinishRead, FinishWrite, KillAttempt, Unlocks, notes
  <2>2. attempt'[a].at \in Begun => /\ attempt[a].at \in Begun /\ Talker(a)' = Talker(a)
                                   /\ attempt'[a].ticket = attempt[a].ticket
    <3>1. attempt'[a].at \in Begun => attempt[a].at \in Begun /\ Talker(a)' = Talker(a)
      <4>1. CASE Fire(a)
        <5>1. attempt'[a].at = "waiting"
          BY <4>1, AttemptChanges, MoveKeepsOthers
        <5>2. QED
          BY <5>1 DEF Begun
      <4>2. CASE ~Fire(a)
        BY <1>2, <4>2, WhereStepsLead, MoveKeepsOthers DEF Works, Goes, Begun, Gone, Talker
      <4>3. QED
        BY <4>1, <4>2
    <3>2. QED
      BY <1>2, <3>1, TicketStays DEF Begun, Gone
  <2>3. attempt'[a].at = "writing" => attempt[a].ticket = a
    <3>1. attempt'[a].at = "writing" => FinishRead(a)
      BY <1>2, WhereStepsLead, AttemptChanges, MoveKeepsOthers DEF Works, Goes, Gone
    <3>2. FinishRead(a) /\ attempt[a].ticket # a => To(a, "leaving")
      BY DEF FinishRead
    <3>3. To(a, "leaving") => attempt'[a].at = "leaving"
      BY AttemptSteps, MoveKeepsOthers
    <3>4. QED
      BY <3>1, <3>2, <3>3
  <2>4. ASSUME NEW b \in Attempts
        PROVE  /\ attempt'[b].at \in Begun /\ attempt'[b].ticket = b => opened'[Talker(b)'] = b
               /\ attempt'[b].at = "writing" => attempt'[b].ticket = b
    <3>1. CASE b # a
      BY <1>0, <2>1, <3>1 DEF LastToOpen
    <3>2. attempt'[a].at \in Begun /\ attempt'[a].ticket = a => opened'[Talker(a)'] = a
      BY <2>1, <2>2 DEF LastToOpen
    <3>3. attempt'[a].at = "writing" => attempt'[a].ticket = a
      BY <2>2, <2>3 DEF Begun
    <3>4. QED
      BY <3>1, <3>2, <3>3
  <2>5. \A s \in Talkers : event'[s].state = "saved" => event'[s].by = opened'[s]
    <3>1. CASE FinishWrite(a)
      <4>1. /\ attempt[a].at = "writing"
            /\ \/ event' = [event EXCEPT ![Talker(a)] = [by |-> a, state |-> attempt[a].outcome]]
               \/ event' = event
        BY <3>1 DEF FinishWrite, Stage
      <4>2. opened[Talker(a)] = a
        BY <4>1 DEF LastToOpen, Begun
      <4>3. QED
        BY <1>0, <2>1, <4>1, <4>2 DEF LastToOpen
    <3>2. CASE ~FinishWrite(a)
      <4>1. event' = event
        BY <1>2, <3>2 DEF Works, Fire, Acquire, SeeStale, RemoveStale, StandDown, Release,
           CaptureTree, Abort, ClearRead, ClearMark, ClearDelete, MakeRef, ReadLatest,
           Publish, PruneList, PruneDrop, ReadBack, FinishRead, KillAttempt, Unlocks, files
      <4>2. QED
        BY <2>1, <4>1 DEF LastToOpen
    <3>3. QED
      BY <3>1, <3>2
  <2>6. QED
    BY <2>4, <2>5 DEF LastToOpen, Talker
<1>3. QED
  BY <1>1, <1>2

\* What PointsRight says of the one attempt that is at work.
RightFor(a) ==
    /\ ~lapsed /\ attempt[a].at \notin {"reading", "publishing"} => Right
    /\ attempt[a].at \in {"reading", "publishing"} => NewestIs(a)
    /\ attempt[a].at \in {"publishing", "marking", "deleting"} => attempt[a].old = latest
    /\ ~lapsed /\ attempt[a].at = "deleting" => \A y \in snaps : y.stamp <= cleared

\* The attempt at work leaves the pointer right, or goes on to make it so.
LEMMA WorkerKeepsRight ==
    ASSUME ATypeOK, ListedAreOld, StampsInOrder, NEW a \in Attempts,
           RightFor(a), Works(a), Holding(a), attempt'[a].at # "torn"
    PROVE  RightFor(a)'
<1>0. /\ clock \in Nat /\ cleared \in Nat /\ cleanAt \in Nat
      /\ \A x \in snaps : x.stamp \in Nat /\ x.stamp <= clock
      /\ cleanAt <= clock /\ a # NoOne /\ latest \in Attempts \cup {NoOne}
  BY TicksBounded, NoOneIsNobody DEF ATypeOK, Snap, StampsInOrder
<1>1. CASE ClearRead(a)
  <2>1. PICK e \in Attempt :
          /\ Moves(a, e)
          /\ \/ e.at = "finishing" /\ cleanAt' = IF latest = NoOne THEN clock ELSE cleanAt
             \/ e.at = "finishing" /\ cleanAt' = cleanAt
             \/ e.at = "marking" /\ e.old = latest /\ latest # NoOne /\ cleanAt' = cleanAt
    BY <1>1, AttemptChanges
  <2>2. attempt'[a] = e
    BY <2>1, MoveKeepsOthers
  <2>3. attempt[a].at = "clearing" /\ UNCHANGED <<snaps, latest, cleared, lapsed>>
    BY <1>1 DEF ClearRead, Stage, files
  <2>4. ~lapsed' => Right'
    <3>1. ~lapsed => Right
      BY <2>3 DEF RightFor
    <3>2. cleanAt' = cleanAt \/ (latest = NoOne /\ cleanAt' = clock)
      BY <2>1
    <3>3. QED
      BY <1>0, <2>3, <3>1, <3>2 DEF Right, NewestIs
  <2>5. QED
    BY <2>1, <2>2, <2>3, <2>4 DEF RightFor
<1>2. CASE ClearMark(a)
  <2>1. PICK e \in Attempt : Moves(a, e) /\ e.at = "deleting" /\ e.old = attempt[a].old
    BY <1>2, AttemptSteps DEF ClearMark
  <2>2. attempt'[a] = e
    BY <2>1, MoveKeepsOthers
  <2>3. /\ attempt[a].at = "marking" /\ UNCHANGED <<snaps, latest, cleanAt>>
        /\ (cleared' = clock + 1 /\ lapsed' = lapsed) \/ lapsed' = TRUE
    BY <1>2 DEF ClearMark, Stage, Tick
  <2>4. ~lapsed' => \A y \in snaps' : y.stamp <= cleared'
    BY <1>0, <2>3
  <2>5. ~lapsed' => Right'
    <3>1. ~lapsed' => ~lapsed
      BY <2>3
    <3>2. ~lapsed => Right
      BY <2>3 DEF RightFor
    <3>3. QED
      BY <2>3, <2>4, <3>1, <3>2 DEF Right, NewestIs
  <2>6. QED
    BY <2>1, <2>2, <2>3, <2>4, <2>5 DEF RightFor
<1>3. CASE ClearDelete(a)
  <2>1. attempt'[a].at = "finishing" /\ attempt[a].at = "deleting"
    BY <1>3, WhereStepsLead, MoveKeepsOthers DEF Goes
  <2>2. UNCHANGED <<snaps, cleared>> /\ latest = attempt[a].old
    BY <1>3, <2>1 DEF ClearDelete, RightFor
  <2>3. CASE UNCHANGED <<latest, cleanAt, lapsed>>
    BY <2>1, <2>2, <2>3 DEF RightFor, Right, NewestIs
  <2>4. CASE /\ latest' = NoOne /\ cleanAt' = clock
             /\ lapsed' = IF cleared = clock THEN FALSE ELSE lapsed
    <3>1. ~lapsed' => cleared = clock \/ ~lapsed
      BY <2>4
    <3>2. ~lapsed' => \A y \in snaps : y.stamp <= cleared
      BY <1>0, <2>1, <3>1 DEF RightFor
    <3>3. ~lapsed' => Right'
      BY <1>0, <2>2, <2>4, <3>2 DEF Right
    <3>4. QED
      BY <2>1, <3>3 DEF RightFor
  <2>5. QED
    BY <1>3, <2>2, <2>3, <2>4 DEF ClearDelete
<1>4. CASE MakeRef(a)
  <2>1. attempt'[a].at = "reading"
    BY <1>4, WhereStepsLead, MoveKeepsOthers DEF Goes
  <2> DEFINE x == [by |-> a, session |-> Talker(a), stamp |-> clock + 1]
  <2>2. snaps' = snaps \cup {x} /\ cleanAt' = cleanAt
    BY <1>4 DEF MakeRef, Tick, notes
  <2>3. x.by = a /\ x.stamp = clock + 1
    OBVIOUS
  <2> HIDE DEF x
  <2>4. NewestIs(a)'
    BY <1>0, <2>2, <2>3 DEF NewestIs
  <2>5. QED
    BY <2>1, <2>4 DEF RightFor
<1>5. CASE ReadLatest(a)
  <2>1. PICK e \in Attempt : Moves(a, e) /\ e.at = "publishing" /\ e.old = latest
    BY <1>5, AttemptChanges
  <2>2. attempt'[a] = e
    BY <2>1, MoveKeepsOthers
  <2>3. attempt[a].at = "reading" /\ UNCHANGED <<snaps, latest, cleared, cleanAt, lapsed>>
    BY <1>5 DEF ReadLatest, Stage, files, notes
  <2>4. QED
    BY <2>1, <2>2, <2>3 DEF RightFor, NewestIs
<1>6. CASE Publish(a)
  <2>1. attempt'[a].at = "pruning" /\ attempt[a].at = "publishing"
    BY <1>6, WhereStepsLead, MoveKeepsOthers DEF Goes
  <2>2. UNCHANGED <<snaps, cleared, cleanAt>> /\ latest = attempt[a].old /\ NewestIs(a)
    BY <1>6, <2>1 DEF Publish, RightFor
  <2>3. latest' = a \/ lapsed' = TRUE
    BY <1>6, <2>2 DEF Publish
  <2>4. ~lapsed' => Right'
    BY <1>0, <2>2, <2>3 DEF Right, NewestIs
  <2>5. QED
    BY <2>1, <2>4 DEF RightFor
<1>7. CASE PruneDrop(a)
  <2>1. attempt'[a].at = "dropping" /\ attempt[a].at = "dropping"
    BY <1>7, WhereStepsLead, MoveKeepsOthers DEF Goes
  <2>2. PICK r \in attempt[a].list : snaps' = snaps \ {r} \/ snaps' = snaps
    BY <1>7 DEF PruneDrop
  <2>3. UNCHANGED <<latest, cleared, cleanAt, lapsed>>
    BY <1>7 DEF PruneDrop
  <2>4. \E y \in snaps : y.stamp > r.stamp
    <3>1. Cardinality(Newer(snaps, r)) >= Retain
      BY DEF ListedAreOld
    <3>2. Newer(snaps, r) # {}
      BY <3>1, RetainIsPositive, FS_EmptySet
    <3>3. QED
      BY <3>2 DEF Newer
  <2>5. r.stamp \in Nat
    BY TicksBounded DEF ATypeOK, Attempt, Snap
  <2>6. \A x \in snaps : (\A y \in snaps : y.stamp <= x.stamp) => x \in snaps'
    BY <1>0, <2>2, <2>4, <2>5
  <2>7. ~lapsed => Right
    BY <2>1 DEF RightFor
  <2>8. ~lapsed' => Right'
    BY <2>2, <2>3, <2>6, <2>7 DEF Right, NewestIs
  <2>9. QED
    BY <2>1, <2>8 DEF RightFor
<1>8. CASE \/ BeginAttempt(a) \/ CaptureTree(a) \/ Abort(a) \/ PruneList(a) \/ ReadBack(a)
           \/ FinishRead(a) \/ FinishWrite(a) \/ Release(a) \/ KillAttempt(a)
  <2>1. UNCHANGED <<snaps, latest, cleared, cleanAt, lapsed>>
    BY <1>8 DEF BeginAttempt, CaptureTree, Abort, PruneList, ReadBack, FinishRead, FinishWrite,
       Release, KillAttempt, Unlocks, files, notes
  <2>2. attempt[a].at \notin {"reading", "publishing"}
        /\ attempt'[a].at \notin {"reading", "publishing", "marking", "deleting"}
    BY <1>8, WhereStepsLead, MoveKeepsOthers DEF Goes
  <2>3. QED
    BY <2>1, <2>2 DEF RightFor, Right, NewestIs
<1>9. ~(Fire(a) \/ Acquire(a) \/ SeeStale(a) \/ RemoveStale(a) \/ StandDown(a))
  BY DEF Fire, Acquire, SeeStale, RemoveStale, StandDown, Stage, Holding, Gone
<1>10. QED
  BY <1>1, <1>2, <1>3, <1>4, <1>5, <1>6, <1>7, <1>8, <1>9 DEF Works

LEMMA StaysRight ==
    ASSUME ATypeOK, ListedAreOld, StampsInOrder, LockHeld, ~Torn => PointsRight,
           NEW a \in Attempts, Works(a), ~Torn'
    PROVE  PointsRight'
<1>1. \A b \in Attempts : b # a => attempt'[b] = attempt[b]
  BY AttemptsTyped
<1>2. ~Torn
  <2>1. attempt[a].at # "torn"
    BY WhereStepsLead DEF Works, Goes, Fire, KillAttempt, Stage, Gone
  <2>2. QED
    BY <1>1, <2>1 DEF Torn
<1>3. PointsRight /\ attempt'[a].at # "torn"
  BY <1>2 DEF Torn
<1> DEFINE Places == {"reading", "publishing", "marking", "deleting"}
<1>4. CASE Holding(a)
  <2>1. \A b \in Attempts : b # a => attempt[b].at \notin Places
    BY <1>4, OneAtWork DEF Holding, Gone
  <2>2. RightFor(a)
    BY <1>3, <2>1 DEF PointsRight, RightFor
  <2>3. RightFor(a)'
    BY <1>3, <1>4, <2>2, WorkerKeepsRight
  <2>4. \A b \in Attempts : b # a => attempt'[b].at \notin Places
    BY <1>1, <2>1
  <2>5. QED
    BY <2>3, <2>4 DEF PointsRight, RightFor
<1>5. CASE ~Holding(a)
  <2>1. Fire(a) \/ Acquire(a) \/ SeeStale(a) \/ RemoveStale(a) \/ StandDown(a) \/ KillAttempt(a)
    BY <1>5, WhereStepsLead DEF Works, Goes, Holding, Gone
  <2>2. UNCHANGED <<snaps, latest, cleared, cleanAt, lapsed>>
    BY <2>1 DEF Fire, Acquire, SeeStale, RemoveStale, StandDown, KillAttempt, Unlocks, files, notes
  <2>3. attempt[a].at \notin Places /\ attempt'[a].at \notin Places
    <3>1. attempt[a].at \notin Places
      BY <1>5 DEF Holding, Gone
    <3>2. CASE Fire(a)
      BY <3>1, <3>2, AttemptChanges, MoveKeepsOthers
    <3>3. CASE ~Fire(a)
      BY <2>1, <3>1, <3>3, WhereStepsLead, MoveKeepsOthers DEF Goes
    <3>4. QED
      BY <3>2, <3>3
  <2>4. QED
    BY <1>1, <1>3, <2>2, <2>3 DEF PointsRight, Right, NewestIs
<1>6. QED
  BY <1>4, <1>5

\* A resumed session reads its event and removes it.
LEMMA ConsumeStep ==
    ASSUME AInv, NEW s \in Talkers, ConsumeEvent(s)
    PROVE  AInv' /\ UNCHANGED snaps
<1>1. UNCHANGED <<lock, snaps, latest, cleared, clock, attempt, opened, ended, cleanAt, robbed,
                  lapsed, faults>>
  BY DEF ConsumeEvent, notes
<1>2. event' = [event EXCEPT ![s] = NoEvent]
  BY DEF ConsumeEvent
<1>3. NoEvent \in [by : Attempts \cup {NoOne}, state : Outcome \cup {"pending"}]
      /\ NoEvent.state = "none"
  BY DEF NoEvent, Outcome
<1>4. event \in [Talkers -> [by : Attempts \cup {NoOne}, state : Outcome \cup {"pending"}]]
  BY DEF AInv, ATypeOK
<1>5. ATypeOK'
  BY <1>1, <1>2, <1>3, <1>4 DEF AInv, ATypeOK
<1>6. ~robbed => LockHeld' /\ LastToOpen'
  <2>1. \A t \in Talkers : event'[t] = event[t] \/ event'[t].state = "none"
    BY <1>2, <1>3, <1>4
  <2>2. QED
    BY <1>1, <2>1 DEF AInv, LockHeld, LastToOpen, Holding, Talker
<1>7. ListedAreOld' /\ StampsInOrder' /\ (~robbed /\ ~Torn => PointsRight')
  BY <1>1 DEF AInv, ListedAreOld, Newer, StampsInOrder, Torn, PointsRight, Right, NewestIs
<1>8. QED
  BY <1>1, <1>5, <1>6, <1>7 DEF AInv, Torn

LEMMA SnapshotsInvariant == ASpec => []AInv
<1>1. AInit => AInv
  <2> SUFFICES ASSUME AInit PROVE AInv
    OBVIOUS
  <2>1. NewAttempt \in Attempt /\ NewAttempt.at = "new" /\ NewAttempt.list = {}
    BY DEF NewAttempt, Attempt, Gone, Outcome
  <2>2. attempt \in [Attempts -> Attempt] /\ \A a \in Attempts : attempt[a] = NewAttempt
    BY <2>1 DEF AInit
  <2>3. NoEvent \in [by : Attempts \cup {NoOne}, state : Outcome \cup {"pending"}]
        /\ NoEvent.state = "none"
    BY DEF NoEvent, Outcome
  <2>4. event \in [Talkers -> [by : Attempts \cup {NoOne}, state : Outcome \cup {"pending"}]]
        /\ \A s \in Talkers : event[s].state = "none"
    BY <2>3 DEF AInit
  <2>5. IsFiniteSet(snaps)
    BY FS_EmptySet DEF AInit
  <2>6. ATypeOK
    <3>1. opened \in [Talkers -> Attempts \cup {NoOne}] /\ ended \in [Talkers -> Attempts \cup {NoOne}]
      BY DEF AInit
    <3>2. /\ robbed \in BOOLEAN /\ lapsed \in BOOLEAN /\ lock \in Attempts \cup {NoOne}
          /\ latest \in Attempts \cup {NoOne} /\ snaps \subseteq Snap
          /\ clock = 0 /\ cleared = 0 /\ cleanAt = 0 /\ faults = 0
      BY DEF AInit
    <3>3. \A a \in Attempts : attempt[a].at \in Gone
      BY <2>1, <2>2 DEF Gone
    <3>4. QED
      BY <2>2, <2>4, <2>5, <3>1, <3>2, <3>3, TicksBounded, FaultsBounded DEF ATypeOK
  <2>7. ListedAreOld /\ StampsInOrder /\ PointsRight
    BY <2>1, <2>2, TicksBounded DEF AInit, ListedAreOld, StampsInOrder, PointsRight, Right
  <2>8. LockHeld /\ LastToOpen
    BY <2>1, <2>2, <2>4 DEF LockHeld, LastToOpen, Holding, Gone, Begun
  <2>9. QED
    BY <2>6, <2>7, <2>8 DEF AInv
<1>2. AInv /\ [ANext]_avars => AInv'
  <2> SUFFICES ASSUME AInv, [ANext]_avars PROVE AInv'
    OBVIOUS
  <2>1. ASSUME NEW a \in Attempts, Works(a) PROVE AInv'
    <3>1. ATypeOK' /\ ListedAreOld' /\ StampsInOrder'
      BY <2>1, TypeStep, ListedStayOld, StampsStayInOrder DEF AInv
    <3>2. ~robbed' => LockHeld' /\ LastToOpen'
      BY <2>1, LockStaysHeld, LastToOpenStays DEF AInv
    <3>3. ~robbed' /\ ~Torn' => PointsRight'
      BY <2>1, LockStaysHeld, StaysRight DEF AInv
    <3>4. QED
      BY <3>1, <3>2, <3>3 DEF AInv
  <2>2. CASE UNCHANGED avars
    BY <2>2 DEF avars, files, notes, AInv, ATypeOK, ListedAreOld, Newer, StampsInOrder, LockHeld,
       LastToOpen, Holding, Talker, Torn, PointsRight, Right, NewestIs
  <2>3. QED
    BY <2>1, <2>2, ConsumeStep DEF ANext, Works
<1>3. QED
  BY <1>1, <1>2, PTL DEF ASpec

\* Every snapshot, event and attempt is well formed, and what is called
\* finite is finite.
THEOREM AutosaveTypeCorrect == ASpec => []ATypeOK
<1>1. AInv => ATypeOK
  BY DEF AInv
<1>2. QED
  BY <1>1, SnapshotsInvariant, PTL

\* While no living attempt loses its lock, an event that says saved is that
\* of the last attempt whose event could be opened (begin_snapshot_event), for
\* any number of attempts, sessions, kills, failures and sleeps.
THEOREM FailureReplacesSuccessHolds == ASpec => []FailureReplacesSuccess
<1>1. AInv => FailureReplacesSuccess
  BY DEF AInv, LastToOpen, FailureReplacesSuccess, Verified
<1>2. QED
  BY <1>1, SnapshotsInvariant, PTL

\* Pruning leaves the newest Retain snapshots, whatever stale lists the
\* attempts that prune hold, and also when a lock was lost.
THEOREM NewestAreRetainedHolds == ASpec => NewestAreRetained
<1>1. AInv /\ [ANext]_avars =>
        [\A x \in snaps \ snaps' :
            Cardinality({y \in snaps' : y.stamp > x.stamp}) >= Retain]_avars
  <2> SUFFICES ASSUME AInv, ANext, NEW x \in snaps \ snaps'
               PROVE  Cardinality({y \in snaps' : y.stamp > x.stamp}) >= Retain
    OBVIOUS
  <2>1. PICK a \in Attempts : Works(a)
    BY ConsumeStep DEF ANext, Works
  <2>2. QED
    BY <2>1, ListedStayOld DEF AInv, Newer
<1>2. QED
  BY <1>1, SnapshotsInvariant, PTL DEF ASpec, NewestAreRetained

\* With nobody at work recover (cmd_recover) offers exactly the newest
\* snapshot after the last clearing, for any number of attempts, kills and
\* failures, but for a kill between the reference and the pointer, and while
\* the last pointer or mark to be written is one whose write failed.
THEOREM RecoverOffersTheNewestHolds == ASpec => []RecoverOffersTheNewest
<1>1. AInv => RecoverOffersTheNewest
  <2> SUFFICES ASSUME AInv, ~robbed, ~lapsed,
                      \A a \in Attempts : attempt[a].at \in {"new", "waiting", "over", "dead"}
               PROVE  Offered = {x.by : x \in NewestOf({y \in snaps : y.stamp > cleanAt})}
    BY DEF RecoverOffersTheNewest
  <2>1. Right
    BY DEF AInv, PointsRight, Torn
  <2>2. /\ \A x \in snaps : x.stamp \in Nat
        /\ \A x, y \in snaps : x.stamp = y.stamp => x = y
        /\ cleanAt \in Nat /\ cleared \in Nat
    BY TicksBounded DEF AInv, ATypeOK, Snap, StampsInOrder
  <2>3. CASE latest = NoOne
    <3>1. {y \in snaps : y.stamp > cleared} = {} /\ {y \in snaps : y.stamp > cleanAt} = {}
      BY <2>1, <2>2, <2>3 DEF Right
    <3>2. QED
      BY <2>3, <3>1 DEF Offered
  <2>4. CASE latest # NoOne
    <3>1. PICK x \in snaps :
            x.by = latest /\ x.stamp > cleanAt /\ \A y \in snaps : y.stamp <= x.stamp
      BY <2>1, <2>4 DEF Right, NewestIs
    <3>2. NewestOf({y \in snaps : y.stamp > cleanAt}) = {x}
      BY <2>2, <3>1 DEF NewestOf
    <3>3. QED
      BY <2>4, <3>1, <3>2 DEF Offered
  <2>5. QED
    BY <2>3, <2>4
<1>2. QED
  BY <1>1, SnapshotsInvariant, PTL

-----------------------------------------------------------------------------
(* The view *)

\* What is listed for pruning has Keep newer backups, whoever prunes.
DoomedAreOld == \A w \in Writers : writer[w].at = "prune" =>
    \A b \in writer[w].doomed : Cardinality(Newer(backups, b)) >= Keep

\* The prose that a redraw would leave of a text.
Masked(t) == IF t = NoView THEN {} ELSE {Protected[n] : n \in t.outside}

\* What a redraw holds would leave the prose that the file would.
SameProse == \A w \in Writers : Redrawing(w) => Masked(writer[w].text) = Masked(file)

\* While notes are between the markers of the file, no redraw has replaced
\* it since a person last saved it, and every redraw has read it as it is.
MarkedText == file # NoView /\ file.inside # {}
HeldIsFile == MarkedText => \A w \in Writers : Redrawing(w) => writer[w].text = file

\* Then the latest backups are of this text, from the first one that was
\* saved of it.
SavedLast ==
    MarkedText /\ (\E w \in Writers : writer[w].at \in {"list", "prune", "replace"}) =>
        \E b \in backups : \A c \in backups : c.stamp >= b.stamp => c.text = file

TypedKept == \A n \in typed : file # NoView /\ ReadsAs(n, file.outside)

ViewInv == VTypeOK /\ DoomedAreOld
Undisturbed == SameProse /\ HeldIsFile /\ SavedLast /\ TypedKept

\* A process that has read the file holds what it read, and what it chose.
LEMMA HeldRows ==
    ASSUME VTypeOK, NEW w \in Writers
    PROVE  /\ writer[w] \in Local
           /\ writer[w].at = "handovers" => writer[w].rows \in Nat
           /\ writer[w].at = "read" => writer[w].block \in Block
           /\ writer[w].at \in {"backup", "list"} =>
                writer[w] \in [at : {"backup", "list"}, block : Block, text : Text]
           /\ writer[w].at = "prune" =>
                writer[w] \in [at : {"prune"}, block : Block, text : Text, doomed : SUBSET Copies]
           /\ writer[w].at = "replace" =>
                writer[w] \in [at : {"replace"}, block : Block, text : Text \cup {NoView}]
<1>1. writer[w] \in Local
  BY DEF VTypeOK
<1>2. QED
  BY <1>1 DEF Local

\* A redraw goes on with the same text.
Continues(w, e) ==
    /\ Go(w, e) /\ e \in Local /\ e.at \in {"list", "prune", "replace"}
    /\ writer[w].at \in {"backup", "list", "prune"} /\ e.text = writer[w].text

\* A redraw ends, or has not read the file yet.
EndsOrBegins(w, e) == Go(w, e) /\ e \in Local /\ e.at \in {"idle", "rows", "handovers", "read"}

LEMMA BeginSteps ==
    ASSUME VTypeOK, NEW w \in Writers,
           Redraw(w) \/ ReadRows(w) \/ ReadHandovers(w) \/ Fail(w)
    PROVE  /\ \E e : EndsOrBegins(w, e)
           /\ store' \in Nat /\ UNCHANGED <<file, backups, stamp, typed>>
<1>0. store \in Nat
  BY DEF VTypeOK
<1>1. CASE Redraw(w)
  <2>1. EndsOrBegins(w, [at |-> "rows"])
    BY <1>1 DEF Redraw, EndsOrBegins, Local
  <2>2. QED
    BY <1>0, <1>1, <2>1 DEF Redraw
<1>2. CASE ReadRows(w)
  <2>1. EndsOrBegins(w, [at |-> "handovers", rows |-> store])
    BY <1>0, <1>2 DEF ReadRows, EndsOrBegins, Local
  <2>2. QED
    BY <1>0, <1>2, <2>1 DEF ReadRows
<1>3. CASE ReadHandovers(w)
  <2>1. writer[w].rows \in Nat
    BY <1>3, HeldRows DEF ReadHandovers, Stands
  <2>2. EndsOrBegins(w, [at |-> "read", block |-> [rows |-> writer[w].rows, handovers |-> store]])
    BY <1>0, <1>3, <2>1 DEF ReadHandovers, EndsOrBegins, Local, Block
  <2>3. QED
    BY <1>0, <1>3, <2>2 DEF ReadHandovers
<1>4. CASE Fail(w)
  <2>1. EndsOrBegins(w, Resting)
    BY <1>4 DEF Fail, EndsOrBegins, Local, Resting
  <2>2. QED
    BY <1>0, <1>4, <2>1 DEF Fail
<1>5. QED
  BY <1>1, <1>2, <1>3, <1>4

LEMMA RedrawSteps ==
    ASSUME VTypeOK, NEW w \in Writers
    PROVE  /\ ReadFile(w) =>
                /\ UNCHANGED <<store, file, backups, stamp, typed>>
                /\ \E e : \/ EndsOrBegins(w, e)
                         \/ /\ Go(w, e) /\ e \in Local /\ e.text = file
                            /\ e.at = IF file = NoView THEN "replace" ELSE "backup"
                         \/ /\ Go(w, e) /\ e \in Local /\ e.at = "replace"
                            /\ w \in unseen'
           /\ SaveOld(w) =>
                /\ UNCHANGED <<store, file, typed>> /\ writer[w].at = "backup"
                /\ stamp' = stamp + 1 /\ writer[w].text \in Text
                /\ backups' = backups \cup {[stamp |-> stamp, text |-> writer[w].text]}
                /\ \E e : Continues(w, e) /\ e.at = "list"
           /\ ListBackups(w) =>
                /\ UNCHANGED <<store, file, backups, stamp, typed>>
                /\ \E e : Continues(w, e) /\ e.at = "prune" /\ e.doomed = Surplus(backups)
           /\ Prune(w) =>
                /\ UNCHANGED <<store, file, stamp, typed>> /\ writer[w].at = "prune"
                /\ writer[w].doomed \subseteq Copies
                /\ \/ UNCHANGED backups /\ \E e : Continues(w, e) /\ e.at = "replace"
                   \/ \E b \in writer[w].doomed : \E e :
                        /\ backups' = backups \ {b}
                        /\ Continues(w, e) /\ e.at = "prune" /\ e.doomed = writer[w].doomed \ {b}
           /\ Replace(w) =>
                /\ UNCHANGED <<store, backups, stamp, typed>> /\ writer[w].at = "replace"
                /\ writer[w].text \in Text \cup {NoView} /\ writer[w].block \in Block
                /\ file' = Splice(writer[w].text, writer[w].block)
                /\ \E e : EndsOrBegins(w, e)
<1>1. ASSUME ReadFile(w)
      PROVE  /\ UNCHANGED <<store, file, backups, stamp, typed>>
             /\ \E e : \/ EndsOrBegins(w, e)
                      \/ /\ Go(w, e) /\ e \in Local /\ e.text = file
                         /\ e.at = IF file = NoView THEN "replace" ELSE "backup"
                      \/ /\ Go(w, e) /\ e \in Local /\ e.at = "replace"
                         /\ w \in unseen'
  <2>1. writer[w].block \in Block /\ file \in Text \cup {NoView}
    BY <1>1, HeldRows DEF ReadFile, Stands, VTypeOK
  <2>2. EndsOrBegins(w, Resting) <=> Go(w, Resting)
    BY DEF EndsOrBegins, Local, Resting
  <2> DEFINE e == [at |-> IF file = NoView THEN "replace" ELSE "backup",
                   block |-> writer[w].block, text |-> file]
             f == [at |-> "replace", block |-> writer[w].block, text |-> NoView]
  <2>3. e \in Local /\ e.text = file /\ e.at = IF file = NoView THEN "replace" ELSE "backup"
    BY <2>1 DEF Local
  <2>4. f \in Local /\ f.at = "replace"
    BY <2>1 DEF Local
  <2>5. Go(w, e) \/ Go(w, Resting) \/ (Go(w, f) /\ w \in unseen')
    BY <1>1 DEF ReadFile
  <2>6. UNCHANGED <<store, file, backups, stamp, typed>>
    BY <1>1 DEF ReadFile
  <2> HIDE DEF e, f
  <2>7. QED
    BY <2>2, <2>3, <2>4, <2>5, <2>6
<1>2. ASSUME SaveOld(w)
      PROVE  /\ UNCHANGED <<store, file, typed>> /\ writer[w].at = "backup"
             /\ stamp' = stamp + 1 /\ writer[w].text \in Text
             /\ backups' = backups \cup {[stamp |-> stamp, text |-> writer[w].text]}
             /\ \E e : Continues(w, e) /\ e.at = "list"
  <2> DEFINE e == [writer[w] EXCEPT !.at = "list"]
  <2>1. writer[w].at = "backup" /\ Go(w, e)
    BY <1>2 DEF SaveOld, Stands
  <2>2. writer[w] \in [at : {"backup", "list"}, block : Block, text : Text]
    BY <2>1, HeldRows
  <2>3. e \in [at : {"backup", "list"}, block : Block, text : Text] /\ e.at = "list"
        /\ e.text = writer[w].text
    BY <2>2
  <2>4. e \in Local
    BY <2>3 DEF Local
  <2> HIDE DEF e
  <2>5. Continues(w, e)
    BY <2>1, <2>3, <2>4 DEF Continues
  <2>6. QED
    BY <1>2, <2>1, <2>2, <2>3, <2>5 DEF SaveOld
<1>3. ASSUME ListBackups(w)
      PROVE  /\ UNCHANGED <<store, file, backups, stamp, typed>>
             /\ \E e : Continues(w, e) /\ e.at = "prune" /\ e.doomed = Surplus(backups)
  <2> DEFINE e == [at |-> "prune", block |-> writer[w].block,
                   text |-> writer[w].text, doomed |-> Surplus(backups)]
  <2>1. writer[w].at = "list" /\ Go(w, e)
    BY <1>3 DEF ListBackups, Stands
  <2>2. writer[w].block \in Block /\ writer[w].text \in Text /\ Surplus(backups) \in SUBSET Copies
    BY <2>1, HeldRows DEF Surplus, VTypeOK
  <2>3. e \in Local /\ e.at = "prune" /\ e.text = writer[w].text /\ e.doomed = Surplus(backups)
    BY <2>2 DEF Local
  <2> HIDE DEF e
  <2>4. QED
    BY <1>3, <2>1, <2>3 DEF Continues, ListBackups
<1>4. ASSUME Prune(w)
      PROVE  /\ UNCHANGED <<store, file, stamp, typed>> /\ writer[w].at = "prune"
             /\ writer[w].doomed \subseteq Copies
             /\ \/ UNCHANGED backups /\ \E e : Continues(w, e) /\ e.at = "replace"
                \/ \E b \in writer[w].doomed : \E e :
                     /\ backups' = backups \ {b}
                     /\ Continues(w, e) /\ e.at = "prune" /\ e.doomed = writer[w].doomed \ {b}
  <2>1. writer[w].at = "prune" /\ UNCHANGED <<store, file, stamp, typed>>
    BY <1>4 DEF Prune, Stands
  <2>2. writer[w] \in [at : {"prune"}, block : Block, text : Text, doomed : SUBSET Copies]
    BY <2>1, HeldRows
  <2>3. CASE writer[w].doomed = {}
    <3> DEFINE e == [at |-> "replace", block |-> writer[w].block, text |-> writer[w].text]
    <3>1. e \in Local /\ e.at = "replace" /\ e.text = writer[w].text
      BY <2>2 DEF Local
    <3>2. Go(w, e) /\ UNCHANGED backups
      BY <1>4, <2>3 DEF Prune
    <3> HIDE DEF e
    <3>3. Continues(w, e)
      BY <2>1, <3>1, <3>2 DEF Continues
    <3>4. QED
      BY <2>1, <2>2, <3>1, <3>2, <3>3
  <2>4. CASE writer[w].doomed # {}
    <3>1. PICK b \in writer[w].doomed :
            /\ backups' = backups \ {b}
            /\ Go(w, [writer[w] EXCEPT !.doomed = writer[w].doomed \ {b}])
      BY <1>4, <2>4 DEF Prune
    <3> DEFINE e == [writer[w] EXCEPT !.doomed = writer[w].doomed \ {b}]
    <3>2. e \in [at : {"prune"}, block : Block, text : Text, doomed : SUBSET Copies]
          /\ e.at = "prune" /\ e.text = writer[w].text /\ e.doomed = writer[w].doomed \ {b}
      BY <2>2
    <3>3. e \in Local
      BY <3>2 DEF Local
    <3>4. Go(w, e) /\ backups' = backups \ {b}
      BY <3>1
    <3> HIDE DEF e
    <3>5. Continues(w, e)
      BY <2>1, <3>2, <3>3, <3>4 DEF Continues
    <3>6. QED
      BY <2>1, <2>2, <3>2, <3>4, <3>5
  <2>5. QED
    BY <2>3, <2>4
<1>5. ASSUME Replace(w)
      PROVE  /\ UNCHANGED <<store, backups, stamp, typed>> /\ writer[w].at = "replace"
             /\ writer[w].text \in Text \cup {NoView} /\ writer[w].block \in Block
             /\ file' = Splice(writer[w].text, writer[w].block)
             /\ \E e : EndsOrBegins(w, e)
  <2>1. writer[w].at = "replace"
    BY <1>5 DEF Replace, Stands
  <2>2. writer[w].text \in Text \cup {NoView} /\ writer[w].block \in Block
    BY <2>1, HeldRows
  <2>3. EndsOrBegins(w, Resting)
    BY <1>5 DEF Replace, EndsOrBegins, Local, Resting
  <2>4. QED
    BY <1>5, <2>1, <2>2, <2>3 DEF Replace
<1>6. QED
  BY <1>1, <1>2, <1>3, <1>4, <1>5

\* A person who edits the file takes no prose away.
LEMMA HumanSteps ==
    ASSUME VTypeOK, HumanEdit
    PROVE  /\ UNCHANGED <<store, backups, stamp, writer>> /\ MaySave
           /\ file' \in Text /\ Here \in Text
           /\ Here.outside \subseteq file'.outside
           /\ HumanText(Here) \subseteq HumanText(file')
           /\ typed' \subseteq Notes /\ typed' \subseteq typed \cup file'.outside
<1>1. Here \in Text
  BY DEF Here, VTypeOK, Text, Block, NoBlock
<1>2. /\ UNCHANGED <<store, backups, stamp, writer>> /\ MaySave
  BY DEF HumanEdit, TypeOutside, TypeInside, BreakMarkers, MendMarkers
<1>3. ASSUME NEW n \in Notes, TypeOutside(n)
      PROVE  /\ file' \in Text /\ Here.outside \subseteq file'.outside
             /\ HumanText(Here) \subseteq HumanText(file')
             /\ typed' \subseteq Notes /\ typed' \subseteq typed \cup file'.outside
  <2>1. file' = [Here EXCEPT !.outside = Here.outside \cup {n}] /\ typed' = typed \cup {n}
    BY <1>3 DEF TypeOutside
  <2>2. /\ file' \in Text /\ file'.outside = Here.outside \cup {n} /\ file'.inside = Here.inside
    BY <1>1, <2>1 DEF Text
  <2>3. QED
    BY <2>1, <2>2 DEF HumanText, VTypeOK
<1>4. ASSUME NEW n \in Notes, TypeInside(n)
      PROVE  /\ file' \in Text /\ Here.outside \subseteq file'.outside
             /\ HumanText(Here) \subseteq HumanText(file') /\ typed' = typed
  <2>1. file' = [Here EXCEPT !.inside = Here.inside \cup {n}] /\ typed' = typed
    BY <1>4 DEF TypeInside
  <2>2. /\ file' \in Text /\ file'.outside = Here.outside /\ file'.inside = Here.inside \cup {n}
    BY <1>1, <2>1 DEF Text
  <2>3. QED
    BY <2>1, <2>2 DEF HumanText
<1>5. ASSUME BreakMarkers
      PROVE  /\ file' \in Text /\ Here.outside \subseteq file'.outside
             /\ HumanText(Here) \subseteq HumanText(file') /\ typed' = typed
  <2>1. file' = [Here EXCEPT !.markers = "damaged"] /\ typed' = typed
    BY <1>5 DEF BreakMarkers
  <2>2. /\ file' \in Text /\ file'.outside = Here.outside /\ file'.inside = Here.inside
    BY <1>1, <2>1 DEF Text
  <2>3. QED
    BY <2>1, <2>2 DEF HumanText
<1>6. ASSUME MendMarkers
      PROVE  /\ file' \in Text /\ Here.outside \subseteq file'.outside
             /\ HumanText(Here) \subseteq HumanText(file') /\ typed' = typed
  <2>1. /\ file' = [Here EXCEPT !.markers = "none", !.block = NoBlock,
                            !.inside = {}, !.outside = Here.outside \cup Here.inside]
        /\ typed' = typed
    BY <1>6 DEF MendMarkers
  <2>2. NoBlock \in Block
    BY DEF NoBlock, Block
  <2>3. /\ file' \in Text /\ file'.outside = Here.outside \cup Here.inside /\ file'.inside = {}
    BY <1>1, <2>1, <2>2 DEF Text
  <2>4. QED
    BY <2>1, <2>3 DEF HumanText
<1>7. typed \subseteq Notes
  BY DEF VTypeOK
<1>8. QED
  BY <1>1, <1>2, <1>3, <1>4, <1>5, <1>6, <1>7 DEF HumanEdit

\* A redraw writes a text whose prose is what it would leave of what it read.
LEMMA SpliceLeaves ==
    ASSUME NEW t \in Text \cup {NoView}, NEW b \in Block
    PROVE  /\ Splice(t, b) \in Text /\ Splice(t, b) # NoView
           /\ Splice(t, b).inside = {} /\ Splice(t, b).outside = Masked(t)
           /\ Masked(Splice(t, b)) = Masked(t)
<1>1. Masked(t) \subseteq Notes /\ Splice(t, b).outside = Masked(t) /\ Splice(t, b).inside = {}
  BY ProtectedIdempotent DEF Masked, Splice, Text
<1>2. Splice(t, b) \in Text
  BY <1>1 DEF Splice, Masked, Text
<1>3. Splice(t, b) # NoView
  BY <1>2, NoViewIsNoText
<1>4. \A n \in Masked(t) : Protected[n] = n
  BY ProtectedIdempotent DEF Masked, Text
<1>5. QED
  BY <1>1, <1>2, <1>3, <1>4 DEF Masked

LEMMA OneRedraws ==
    ASSUME VTypeOK, NEW w \in Writers, NEW e \in Local, Go(w, e)
    PROVE  /\ writer' \in [Writers -> Local] /\ writer'[w] = e
           /\ \A v \in Writers : v # w => writer'[v] = writer[v]
BY DEF VTypeOK, Go

\* What could not be read is not forgotten.
LEMMA UnseenStays ==
    ASSUME VTypeOK, VNext
    PROVE  unseen \subseteq unseen' /\ unseen' \subseteq Writers
<1>1. ASSUME NEW w \in Writers, Step(w)
      PROVE  unseen' = unseen \/ unseen' = unseen \cup {w}
  BY <1>1 DEF Step, Redraw, ReadRows, ReadHandovers, ReadFile, SaveOld, ListBackups, Prune,
     Replace, Fail
<1>2. HumanEdit => unseen' = unseen
  BY DEF HumanEdit, TypeOutside, TypeInside, BreakMarkers, MendMarkers
<1>3. QED
  BY <1>1, <1>2 DEF VNext, VTypeOK

LEMMA ViewStep ==
    ASSUME ViewInv, NEW w \in Writers, Step(w)
    PROVE  ViewInv' /\ \A b \in backups \ backups' : Cardinality(Newer(backups, b)) >= Keep
<1>0. /\ VTypeOK /\ stamp \in Nat /\ IsFiniteSet(backups) /\ backups \subseteq Copies /\ Keep \in Nat
      /\ \A b \in Copies : b.stamp \in Nat
      /\ unseen' \subseteq Writers
  BY KeepPositive, UnseenStays DEF ViewInv, VTypeOK, Copies, VNext
<1>1. ASSUME NEW e \in Local, Go(w, e), UNCHANGED <<backups, stamp>>, store' \in Nat,
             file' \in Text \cup {NoView}, typed' = typed,
             e.at = "prune" => \A b \in e.doomed : Cardinality(Newer(backups, b)) >= Keep
      PROVE  ViewInv'
  <2>1. /\ writer' \in [Writers -> Local] /\ writer'[w] = e
        /\ \A v \in Writers : v # w => writer'[v] = writer[v]
    BY <1>0, <1>1, OneRedraws
  <2>2. VTypeOK'
    BY <1>0, <1>1, <2>1 DEF VTypeOK
  <2>3. DoomedAreOld'
    BY <1>1, <2>1 DEF ViewInv, DoomedAreOld, Newer
  <2>4. QED
    BY <2>2, <2>3 DEF ViewInv
<1>2. CASE Redraw(w) \/ ReadRows(w) \/ ReadHandovers(w) \/ Fail(w)
  <2>1. PICK e : EndsOrBegins(w, e)
    BY <1>0, <1>2, BeginSteps
  <2>2. store' \in Nat /\ UNCHANGED <<file, backups, stamp, typed>> /\ file \in Text \cup {NoView}
    BY <1>0, <1>2, BeginSteps DEF VTypeOK
  <2>3. QED
    BY <1>1, <2>1, <2>2 DEF EndsOrBegins
<1>3. CASE ReadFile(w)
  <2>1. UNCHANGED <<store, file, backups, stamp, typed>> /\ store \in Nat /\ file \in Text \cup {NoView}
    BY <1>0, <1>3, RedrawSteps DEF VTypeOK
  <2>2. PICK e : Go(w, e) /\ e \in Local /\ e.at # "prune"
    BY <1>0, <1>3, RedrawSteps DEF EndsOrBegins
  <2>3. QED
    BY <1>1, <2>1, <2>2
<1>4. CASE SaveOld(w)
  <2> DEFINE b == [stamp |-> stamp, text |-> writer[w].text]
  <2>1. /\ UNCHANGED <<store, file, typed>> /\ stamp' = stamp + 1 /\ writer[w].text \in Text
        /\ backups' = backups \cup {b}
    BY <1>0, <1>4, RedrawSteps
  <2>2. PICK e : Continues(w, e) /\ e.at = "list"
    BY <1>0, <1>4, RedrawSteps
  <2>3. b \in Copies /\ b.stamp = stamp
    BY <1>0, <2>1 DEF Copies
  <2> HIDE DEF b
  <2>4. /\ writer' \in [Writers -> Local] /\ writer'[w] = e
        /\ \A v \in Writers : v # w => writer'[v] = writer[v]
    BY <1>0, <2>2, OneRedraws DEF Continues
  <2>5. IsFiniteSet(backups') /\ backups' \subseteq Copies
    BY <1>0, <2>1, <2>3, FS_AddElement
  <2>6. \A c \in backups : c.stamp < stamp
    BY <1>0 DEF VTypeOK
  <2>7. \A c \in backups' : c.stamp < stamp'
    BY <1>0, <2>1, <2>3, <2>6
  <2>8. \A c, d \in backups' : c.stamp = d.stamp => c = d
    BY <1>0, <2>1, <2>3, <2>6 DEF VTypeOK
  <2>9. VTypeOK'
    BY <1>0, <2>1, <2>4, <2>5, <2>7, <2>8 DEF VTypeOK
  <2>10. DoomedAreOld'
    <3> SUFFICES ASSUME NEW v \in Writers, writer'[v].at = "prune", NEW d \in writer'[v].doomed
                 PROVE  Cardinality(Newer(backups', d)) >= Keep
      BY DEF DoomedAreOld, Newer
    <3>1. Cardinality(Newer(backups, d)) >= Keep
      BY <2>2, <2>4 DEF ViewInv, DoomedAreOld
    <3>2. QED
      BY <1>0, <2>1, <2>5, <3>1, GrowingKeepsNewer
  <2>11. QED
    BY <2>1, <2>9, <2>10 DEF ViewInv
<1>5. CASE ListBackups(w)
  <2>1. UNCHANGED <<store, file, backups, stamp, typed>> /\ store \in Nat /\ file \in Text \cup {NoView}
    BY <1>0, <1>5, RedrawSteps DEF VTypeOK
  <2>2. PICK e : Continues(w, e) /\ e.at = "prune" /\ e.doomed = Surplus(backups)
    BY <1>0, <1>5, RedrawSteps
  <2>3. \A b \in e.doomed : Cardinality(Newer(backups, b)) >= Keep
    BY <2>2 DEF Surplus, Newer
  <2>4. QED
    BY <1>1, <2>1, <2>2, <2>3 DEF Continues
<1>6. CASE Prune(w)
  <2>1. /\ UNCHANGED <<store, file, stamp, typed>> /\ store \in Nat /\ file \in Text \cup {NoView}
        /\ writer[w].at = "prune" /\ writer[w].doomed \subseteq Copies
    BY <1>0, <1>6, RedrawSteps DEF VTypeOK
  <2>2. CASE UNCHANGED backups /\ \E e : Continues(w, e) /\ e.at = "replace"
    BY <1>1, <2>1, <2>2 DEF Continues
  <2>3. ASSUME NEW b \in writer[w].doomed, NEW e, backups' = backups \ {b}, Continues(w, e),
               e.at = "prune", e.doomed = writer[w].doomed \ {b}
        PROVE  ViewInv' /\ \A c \in backups \ backups' : Cardinality(Newer(backups, c)) >= Keep
    <3>1. /\ writer' \in [Writers -> Local] /\ writer'[w] = e
          /\ \A v \in Writers : v # w => writer'[v] = writer[v]
      BY <1>0, <2>3, OneRedraws DEF Continues
    <3>2. Cardinality(Newer(backups, b)) >= Keep
      BY <2>1 DEF ViewInv, DoomedAreOld
    <3>3. IsFiniteSet(backups')
      BY <1>0, <2>3, FS_RemoveElement
    <3>4. VTypeOK'
      BY <1>0, <2>1, <2>3, <3>1, <3>3 DEF VTypeOK
    <3>5. DoomedAreOld'
      <4> SUFFICES ASSUME NEW v \in Writers, writer'[v].at = "prune", NEW d \in writer'[v].doomed
                   PROVE  Cardinality(Newer(backups', d)) >= Keep
        BY DEF DoomedAreOld, Newer
      <4>1. writer[v].at = "prune" /\ d \in writer[v].doomed
        BY <2>1, <2>3, <3>1
      <4>2. d \in Copies
        BY <1>0, <4>1, HeldRows
      <4>3. Cardinality(Newer(backups, d)) >= Keep
        BY <4>1 DEF ViewInv, DoomedAreOld
      <4>4. b.stamp \in Nat /\ d.stamp \in Nat /\ \A c \in backups : c.stamp \in Nat
        BY <1>0, <2>1, <4>2
      <4>5. Cardinality(Newer(backups \ {b}, d)) >= Keep
        BY <1>0, <3>2, <4>3, <4>4, DroppingKeepsNewer
      <4>6. QED
        BY <2>3, <4>5
    <3>6. QED
      BY <2>3, <3>2, <3>4, <3>5 DEF ViewInv
  <2>4. QED
    BY <1>0, <1>6, <2>2, <2>3, RedrawSteps
<1>7. CASE Replace(w)
  <2>1. /\ UNCHANGED <<store, backups, stamp, typed>> /\ store \in Nat
        /\ file' = Splice(writer[w].text, writer[w].block)
        /\ writer[w].text \in Text \cup {NoView} /\ writer[w].block \in Block
    BY <1>0, <1>7, RedrawSteps DEF VTypeOK
  <2>2. PICK e : EndsOrBegins(w, e)
    BY <1>0, <1>7, RedrawSteps
  <2>3. file' \in Text
    BY <2>1, SpliceLeaves
  <2>4. QED
    BY <1>1, <2>1, <2>2, <2>3 DEF EndsOrBegins
<1>8. QED
  BY <1>2, <1>3, <1>4, <1>5, <1>6, <1>7 DEF Step

\* A person saves the file, and no process moves.
LEMMA EditStep ==
    ASSUME ViewInv, HumanEdit
    PROVE  ViewInv' /\ UNCHANGED backups
<1>1. /\ UNCHANGED <<store, backups, stamp, writer>>
      /\ file' \in Text /\ typed' \subseteq Notes
  BY HumanSteps DEF ViewInv
<1>2. unseen' \subseteq Writers
  BY UnseenStays DEF ViewInv, VNext
<1>3. QED
  BY <1>1, <1>2 DEF ViewInv, VTypeOK, DoomedAreOld, Newer

LEMMA ViewInvariant == VSpec => []ViewInv
<1>1. VInit => ViewInv
  <2> SUFFICES ASSUME VInit PROVE ViewInv
    OBVIOUS
  <2>1. Resting \in Local /\ Resting.at = "idle"
    BY DEF Resting, Local
  <2>2. writer \in [Writers -> Local] /\ \A w \in Writers : writer[w].at = "idle"
    BY <2>1 DEF VInit
  <2>3. IsFiniteSet(backups)
    BY FS_EmptySet DEF VInit
  <2>4. QED
    BY <2>2, <2>3 DEF VInit, ViewInv, VTypeOK, DoomedAreOld
<1>2. ViewInv /\ [VNext]_viewvars => ViewInv'
  <2> SUFFICES ASSUME ViewInv, [VNext]_viewvars PROVE ViewInv'
    OBVIOUS
  <2>1. CASE \E w \in Writers : Step(w)
    BY <2>1, ViewStep
  <2>2. CASE HumanEdit
    BY <2>2, EditStep
  <2>3. CASE UNCHANGED viewvars
    BY <2>3 DEF viewvars, ViewInv, VTypeOK, DoomedAreOld, Newer
  <2>4. QED
    BY <2>1, <2>2, <2>3 DEF VNext
<1>3. QED
  BY <1>1, <1>2, PTL DEF VSpec

(* Every process of a redraw holds the text, the block and the listing its *)
(* next step needs, and no two backups share a stamp (write_state_view,    *)
(* _prune_old_state_backups).                                              *)
THEOREM ViewTypeCorrect == VSpec => []VTypeOK
BY ViewInvariant, PTL DEF ViewInv

\* A step that leaves the file alone: what the process holds now is what it
\* held, or the file.
LEMMA StaysUndisturbed ==
    ASSUME VTypeOK, SameProse, HeldIsFile, TypedKept, NEW w \in Writers, NEW e \in Local,
           Go(w, e), UNCHANGED <<file, typed>>,
           e.at \in {"backup", "list", "prune", "replace"} =>
             e.text = file \/ (Redrawing(w) /\ e.text = writer[w].text)
    PROVE  SameProse' /\ HeldIsFile' /\ TypedKept'
<1>1. /\ writer'[w] = e
      /\ \A v \in Writers : v # w => writer'[v] = writer[v]
  BY OneRedraws
<1>2. SameProse'
  BY <1>1 DEF SameProse, Redrawing, Masked
<1>3. HeldIsFile'
  BY <1>1 DEF HeldIsFile, MarkedText, Redrawing
<1>4. TypedKept'
  BY DEF TypedKept, ReadsAs
<1>5. QED
  BY <1>2, <1>3, <1>4

\* A redraw that writes leaves the prose that every other redraw holds.
LEMMA ReplaceUndisturbed ==
    ASSUME VTypeOK, Undisturbed, NEW w \in Writers, Replace(w)
    PROVE  /\ Undisturbed'
           /\ file # NoView =>
                \A n \in HumanText(file) :
                   \/ ReadsAs(n, HumanText(file'))
                   \/ \E b \in backups' : n \in HumanText(b.text)
<1>1. /\ UNCHANGED <<store, backups, stamp, typed>> /\ writer[w].at = "replace"
      /\ writer[w].text \in Text \cup {NoView} /\ writer[w].block \in Block
      /\ file' = Splice(writer[w].text, writer[w].block)
  BY RedrawSteps
<1>2. PICK e : EndsOrBegins(w, e)
  BY RedrawSteps
<1>3. /\ writer'[w] = e /\ \A v \in Writers : v # w => writer'[v] = writer[v]
  BY <1>2, OneRedraws DEF EndsOrBegins
<1>4. Masked(writer[w].text) = Masked(file)
  BY <1>1 DEF Undisturbed, SameProse, Redrawing
<1>5. /\ file' # NoView /\ file'.inside = {} /\ file'.outside = Masked(file)
      /\ Masked(file') = Masked(file)
  BY <1>1, <1>4, SpliceLeaves
<1>6. \A v \in Writers : Redrawing(v)' => Redrawing(v) /\ writer'[v] = writer[v]
  BY <1>2, <1>3 DEF Redrawing, EndsOrBegins
<1>7. SameProse'
  <2> SUFFICES ASSUME NEW v \in Writers, Redrawing(v)'
               PROVE  Masked(writer'[v].text) = Masked(file')
    BY DEF SameProse, Masked
  <2>1. QED
    BY <1>5, <1>6 DEF Undisturbed, SameProse
<1>8. HeldIsFile' /\ SavedLast'
  BY <1>5 DEF HeldIsFile, SavedLast, MarkedText
<1>9. \A n \in Notes : file # NoView /\ ReadsAs(n, file.outside) => Protected[n] \in Masked(file)
  <2> SUFFICES ASSUME NEW n \in Notes, file # NoView, ReadsAs(n, file.outside)
               PROVE  Protected[n] \in Masked(file)
    OBVIOUS
  <2>1. CASE n \in file.outside
    BY <2>1 DEF Masked
  <2>2. CASE Protected[n] \in file.outside
    BY <2>2, ProtectedIdempotent DEF Masked
  <2>3. QED
    BY <2>1, <2>2 DEF ReadsAs
<1>10. TypedKept'
  BY <1>1, <1>5, <1>9 DEF VTypeOK, Undisturbed, TypedKept, ReadsAs
<1>11. ASSUME file # NoView, NEW n \in HumanText(file)
       PROVE  \/ ReadsAs(n, HumanText(file'))
              \/ \E b \in backups' : n \in HumanText(b.text)
  <2>1. CASE n \in file.outside
    BY <1>5, <1>11, <2>1 DEF Masked, ReadsAs, HumanText
  <2>2. CASE n \in file.inside
    <3>1. MarkedText
      BY <1>11, <2>2 DEF MarkedText
    <3>2. PICK b \in backups : \A c \in backups : c.stamp >= b.stamp => c.text = file
      BY <1>1, <3>1 DEF Undisturbed, SavedLast
    <3>3. b.stamp \in Nat
      BY DEF VTypeOK, Copies
    <3>4. b.text = file
      BY <3>2, <3>3
    <3>5. QED
      BY <1>1, <1>11, <3>4
  <2>3. QED
    BY <1>11, <2>1, <2>2 DEF HumanText
<1>12. QED
  BY <1>7, <1>8, <1>10, <1>11 DEF Undisturbed

\* The other steps of a redraw do not change the file.
LEMMA StepUndisturbed ==
    ASSUME ViewInv, Undisturbed, NEW w \in Writers, Step(w), ~Replace(w), unseen' = {}
    PROVE  Undisturbed' /\ file' = file
<1>0. VTypeOK /\ SameProse /\ HeldIsFile /\ SavedLast /\ TypedKept
  BY DEF ViewInv, Undisturbed
<1>1. ASSUME NEW e \in Local, Go(w, e), UNCHANGED <<file, backups>>,
             MarkedText /\ e.at \in {"list", "prune", "replace"} =>
               writer[w].at \in {"list", "prune", "replace"}
      PROVE  SavedLast'
  <2>1. /\ writer'[w] = e
        /\ \A v \in Writers : v # w => writer'[v] = writer[v]
    BY <1>0, <1>1, OneRedraws
  <2>2. QED
    BY <1>0, <1>1, <2>1 DEF SavedLast, MarkedText
<1>2. CASE Redraw(w) \/ ReadRows(w) \/ ReadHandovers(w) \/ Fail(w)
  <2>1. PICK e : EndsOrBegins(w, e)
    BY <1>0, <1>2, BeginSteps
  <2>2. UNCHANGED <<file, backups, typed>>
    BY <1>0, <1>2, BeginSteps
  <2>3. e \in Local /\ Go(w, e) /\ e.at \notin {"backup", "list", "prune", "replace"}
    BY <2>1 DEF EndsOrBegins
  <2>4. QED
    BY <1>0, <1>1, <2>2, <2>3, StaysUndisturbed DEF Undisturbed
<1>3. CASE ReadFile(w)
  <2>1. UNCHANGED <<file, backups, typed>>
    BY <1>0, <1>3, RedrawSteps
  <2>2. PICK e \in Local :
          /\ Go(w, e)
          /\ \/ e.at \notin {"backup", "list", "prune", "replace"}
             \/ /\ e.text = file
                /\ e.at = IF file = NoView THEN "replace" ELSE "backup"
    BY <1>0, <1>3, RedrawSteps DEF EndsOrBegins
  <2>3. MarkedText => e.at \notin {"list", "prune", "replace"}
    BY <2>2 DEF MarkedText
  <2>4. SavedLast'
    BY <1>1, <2>1, <2>2, <2>3
  <2>5. e.at \in {"backup", "list", "prune", "replace"} =>
          e.text = file \/ (Redrawing(w) /\ e.text = writer[w].text)
    BY <2>2
  <2>6. Go(w, e) /\ UNCHANGED <<file, typed>>
    BY <2>1, <2>2
  <2>7. SameProse' /\ HeldIsFile' /\ TypedKept'
    BY <1>0, <2>5, <2>6, StaysUndisturbed DEF Redrawing
  <2>8. QED
    BY <2>1, <2>4, <2>7 DEF Undisturbed
<1>4. CASE SaveOld(w)
  <2> DEFINE b == [stamp |-> stamp, text |-> writer[w].text]
  <2>1. /\ UNCHANGED <<file, typed>> /\ writer[w].at = "backup" /\ backups' = backups \cup {b}
    BY <1>0, <1>4, RedrawSteps
  <2>2. PICK e : Continues(w, e)
    BY <1>0, <1>4, RedrawSteps
  <2>3. SameProse' /\ HeldIsFile' /\ TypedKept'
    BY <1>0, <2>1, <2>2, StaysUndisturbed DEF Continues, Redrawing
  <2>4. b.stamp = stamp /\ b.text = writer[w].text
    OBVIOUS
  <2> HIDE DEF b
  <2>5. MarkedText => b.text = file
    BY <1>0, <2>1, <2>4 DEF HeldIsFile, Redrawing
  <2>6. \A c \in backups : ~(c.stamp >= stamp)
    BY <1>0 DEF VTypeOK, Copies
  <2>7. SavedLast'
    BY <2>1, <2>4, <2>5, <2>6 DEF SavedLast, MarkedText
  <2>8. QED
    BY <2>1, <2>3, <2>7 DEF Undisturbed
<1>5. CASE ListBackups(w)
  <2>1. UNCHANGED <<file, backups, typed>> /\ writer[w].at = "list"
    BY <1>0, <1>5, RedrawSteps DEF ListBackups, Stands
  <2>2. PICK e : Continues(w, e)
    BY <1>0, <1>5, RedrawSteps
  <2>3. SameProse' /\ HeldIsFile' /\ TypedKept'
    BY <1>0, <2>1, <2>2, StaysUndisturbed DEF Continues, Redrawing
  <2>4. SavedLast'
    BY <1>1, <2>1, <2>2 DEF Continues
  <2>5. QED
    BY <2>1, <2>3, <2>4 DEF Undisturbed
<1>6. CASE Prune(w)
  <2>1. UNCHANGED <<file, typed>> /\ writer[w].at = "prune"
    BY <1>0, <1>6, RedrawSteps
  <2>2. PICK e : Continues(w, e)
    BY <1>0, <1>6, RedrawSteps
  <2>3. SameProse' /\ HeldIsFile' /\ TypedKept'
    BY <1>0, <2>1, <2>2, StaysUndisturbed DEF Continues, Redrawing
  <2>4. CASE UNCHANGED backups
    BY <1>1, <2>1, <2>2, <2>3, <2>4 DEF Continues, Undisturbed
  <2>5. ASSUME NEW d \in writer[w].doomed, backups' = backups \ {d}
        PROVE  SavedLast'
    <3> SUFFICES ASSUME MarkedText
                 PROVE  \E b \in backups' : \A c \in backups' : c.stamp >= b.stamp => c.text = file
      BY <2>1 DEF SavedLast, MarkedText
    <3>1. PICK b \in backups : \A c \in backups : c.stamp >= b.stamp => c.text = file
      BY <1>0, <2>1 DEF SavedLast
    <3>2. \A c \in backups : c.stamp \in Nat
      BY <1>0 DEF VTypeOK, Copies
    <3>3. PICK c \in backups : c.stamp > d.stamp
      <4>1. Cardinality(Newer(backups, d)) >= Keep
        BY <2>1 DEF ViewInv, DoomedAreOld
      <4>2. Newer(backups, d) # {}
        BY <4>1, KeepPositive, FS_EmptySet
      <4>3. QED
        BY <4>2 DEF Newer
    <3>4. CASE b = d
      <4>1. c \in backups' /\ \A x \in backups' : x.stamp >= c.stamp => x.text = file
        BY <2>5, <3>1, <3>2, <3>3, <3>4
      <4>2. QED
        BY <4>1
    <3>5. CASE b # d
      BY <2>5, <3>1, <3>5
    <3>6. QED
      BY <3>4, <3>5
  <2>6. QED
    BY <1>0, <1>6, <2>1, <2>3, <2>4, <2>5, RedrawSteps DEF Undisturbed
<1>7. QED
  BY <1>2, <1>3, <1>4, <1>5, <1>6 DEF Step

\* A person who saves while no command redraws disturbs none.
LEMMA EditUndisturbed ==
    ASSUME EditsRace = FALSE, VTypeOK, Undisturbed, HumanEdit
    PROVE  /\ Undisturbed'
           /\ file # NoView => HumanText(file) \subseteq HumanText(file')
<1>1. /\ UNCHANGED writer /\ MaySave /\ file' \in Text
      /\ Here.outside \subseteq file'.outside
      /\ HumanText(Here) \subseteq HumanText(file')
      /\ typed' \subseteq typed \cup file'.outside
  BY HumanSteps
<1>2. \A w \in Writers : ~Redrawing(w) /\ ~Redrawing(w)'
  BY <1>1 DEF MaySave, Redrawing
<1>3. SameProse' /\ HeldIsFile' /\ SavedLast'
  BY <1>2 DEF SameProse, HeldIsFile, SavedLast, Redrawing
<1>4. file' # NoView
  BY <1>1, NoViewIsNoText
<1>5. TypedKept'
  BY <1>1, <1>4 DEF Undisturbed, TypedKept, ReadsAs, Here
<1>6. QED
  BY <1>1, <1>3, <1>5 DEF Undisturbed, Here

\* Whenever a redraw found a file it could read it, so far.
SeenUndisturbed == unseen = {} => Undisturbed

LEMMA NobodyDisturbs ==
    ASSUME EditsRace = FALSE
    PROVE  VSpec => []SeenUndisturbed
<1>1. VInit => SeenUndisturbed
  BY DEF VInit, SeenUndisturbed, Undisturbed, SameProse, HeldIsFile, SavedLast, TypedKept,
         MarkedText, Redrawing, Resting
<1>2. ViewInv /\ SeenUndisturbed /\ [VNext]_viewvars => SeenUndisturbed'
  <2> SUFFICES ASSUME ViewInv, SeenUndisturbed, [VNext]_viewvars, unseen' = {} PROVE Undisturbed'
    BY DEF SeenUndisturbed
  <2>0. Undisturbed
    BY UnseenStays DEF SeenUndisturbed, ViewInv, viewvars
  <2>1. ASSUME NEW w \in Writers, Step(w) PROVE Undisturbed'
    BY <2>0, <2>1, StepUndisturbed, ReplaceUndisturbed DEF ViewInv
  <2>2. CASE HumanEdit
    BY <2>0, <2>2, EditUndisturbed DEF ViewInv
  <2>3. CASE UNCHANGED viewvars
    BY <2>0, <2>3 DEF viewvars, Undisturbed, SameProse, HeldIsFile, SavedLast, TypedKept, MarkedText,
                Redrawing, Masked, ReadsAs
  <2>4. QED
    BY <2>1, <2>2, <2>3 DEF VNext
<1>3. QED
  BY <1>1, <1>2, ViewInvariant, PTL DEF VSpec

(* What a person typed outside the markers stays in the file, as it was or *)
(* masked, through any number of redraws that read and replace it at the   *)
(* same time (write_state_view), as long as nobody saves it during one and *)
(* each of them could read it.                                             *)
THEOREM OutsideProseKeptHolds ==
    ASSUME EditsRace = FALSE
    PROVE  VSpec => []OutsideProseKept
<1>1. SeenUndisturbed => OutsideProseKept
  BY DEF SeenUndisturbed, Undisturbed, TypedKept, OutsideProseKept, ReadsAs, HumanText
<1>2. QED
  BY <1>1, NobodyDisturbs, PTL

(* What a redraw takes out of the file, between its markers too, is in a   *)
(* backup at that moment, as long as each redraw could read the file; and  *)
(* a backup goes only when Keep newer ones are there, although the pruning *)
(* lists once and removes later.                                           *)
THEOREM ReplacedTextBackedUpHolds ==
    ASSUME EditsRace = FALSE
    PROVE  VSpec => ReplacedTextBackedUp
<1> DEFINE TextSafe == file # NoView /\ unseen' = {} =>
                 \A n \in HumanText(file) :
                    \/ ReadsAs(n, HumanText(file'))
                    \/ \E b \in backups' : n \in HumanText(b.text)
           CopiesSafe == \A b \in backups \ backups' :
                 Cardinality({c \in backups : c.stamp > b.stamp}) >= Keep
<1>1. ViewInv /\ SeenUndisturbed /\ [VNext]_viewvars => [TextSafe /\ CopiesSafe]_viewvars
  <2> SUFFICES ASSUME ViewInv, SeenUndisturbed, VNext PROVE TextSafe /\ CopiesSafe
    OBVIOUS
  <2>0. unseen' = {} => Undisturbed
    BY UnseenStays DEF SeenUndisturbed, ViewInv
  <2>1. ASSUME NEW w \in Writers, Step(w) PROVE TextSafe /\ CopiesSafe
    <3>1. CopiesSafe
      BY <2>1, ViewStep DEF Newer
    <3>2. CASE Replace(w)
      BY <2>0, <3>1, <3>2, ReplaceUndisturbed DEF ViewInv
    <3>3. CASE ~Replace(w)
      BY <2>0, <2>1, <3>1, <3>3, StepUndisturbed DEF ReadsAs
    <3>4. QED
      BY <3>2, <3>3
  <2>2. CASE HumanEdit
    BY <2>0, <2>2, EditStep, EditUndisturbed DEF ViewInv, ReadsAs
  <2>3. QED
    BY <2>1, <2>2 DEF VNext
<1>2. QED
  BY <1>1, ViewInvariant, NobodyDisturbs, PTL DEF VSpec, ReplacedTextBackedUp

-----------------------------------------------------------------------------
(* The hooks *)

Rows == [Targets -> Owners \cup {Nobody}]
Snapshots == {NoBaseline} \cup [Targets -> Nat]
CallStages == {"idle", "identify", "unfenced", "create", "fill", "allowed", "denied",
           "hash", "unseen", "run", "compare", "tell", "over"}
Use == [at : CallStages, tool : {"none", "edit", "shell", "label"},
        mode : [enforced : BOOLEAN, strict : BOOLEAN],
        target : SUBSET Targets, rows : Rows, loaded : Snapshots,
        found : SUBSET Targets, blind : BOOLEAN, moved : BOOLEAN]
Pairs == [by : Calls, on : Targets]

\* What is told, and what could not be read.
Settled == breaches \cup unread

GuardType ==
    /\ fence \in Rows
    /\ content \in [Targets -> Nat]
    /\ baseline \in [Calls -> Snapshots]
    /\ tooluse \in [Calls -> Use]
    /\ slips \subseteq Pairs /\ Settled \subseteq Pairs /\ reaped \subseteq Calls

\* A command's call u with snapshot b, over files k, slips S and alerts B; R are
\* the calls whose snapshot a later command has removed for its age.
ShellOK(c, u, b, k, S, B, R) ==
    /\ u.at \in {"hash", "unseen", "run", "compare"} => u.tool = "shell"
    /\ b # NoBaseline => \A f \in Targets : b[f] <= k[f]
    /\ \A s \in S : s.by = c =>
         /\ u.at \in {"run", "identify", "create", "fill", "compare", "tell", "over"}
         /\ u.at \notin {"over", "tell"} => u.tool = "shell" /\ Foreign(u.rows[s.on], c)
    /\ c \notin R =>
         /\ u.at = "run" => b # NoBaseline
         /\ u.at \in {"identify", "create", "fill", "compare"} /\ u.tool = "shell"
              => b # NoBaseline /\ u.loaded = b
         /\ \A s \in S : s.by = c =>
              /\ s \in B \/ (b # NoBaseline /\ b[s.on] < k[s.on])
              /\ u.at = "tell" => s \in B \/ s.on \in u.found

\* An edit's call u under the fences fc.
EditOK(c, u, fc) ==
    /\ u.at \in {"identify", "create", "fill"} => u.tool \in {"edit", "shell", "label"}
    /\ u.tool = "edit" => \A f \in u.target : u.rows[f] = fc[f] \/ u.moved
    /\ u.at = "allowed" =>
         /\ u.tool = "edit"
         /\ \/ \A f \in u.target : ~Foreign(u.rows[f], c)
            \/ u.blind /\ ~u.mode.enforced

GuardInv ==
    /\ GuardType
    /\ \A c \in Calls : /\ ShellOK(c, tooluse[c], baseline[c], content, slips, Settled, reaped)
                        /\ EditOK(c, tooluse[c], fence)

-----------------------------------------------------------------------------
(* A step of one call leaves the others as they are *)

Grows(k, l) == \A f \in Targets : k[f] <= l[f]

LEMMA OthersStay ==
    ASSUME NEW d, NEW u \in Use, NEW b \in Snapshots,
           NEW k \in [Targets -> Nat], NEW l \in [Targets -> Nat], Grows(k, l),
           NEW S \in SUBSET Pairs, NEW T \in SUBSET Pairs, \A s \in T : s.by = d => s \in S,
           NEW B, NEW C, B \subseteq C, NEW R,
           ShellOK(d, u, b, k, S, B, R)
    PROVE  ShellOK(d, u, b, l, T, C, R)
<1>1. b # NoBaseline => \A f \in Targets : b[f] \in Nat /\ k[f] \in Nat /\ l[f] \in Nat
  BY DEF Snapshots
<1>2. b # NoBaseline => \A f \in Targets : b[f] <= l[f]
  BY <1>1 DEF ShellOK, Grows
<1>3. ASSUME NEW s \in T, s.by = d, d \notin R
      PROVE  s \in C \/ (b # NoBaseline /\ b[s.on] < l[s.on])
  <2>1. s \in S /\ s.on \in Targets
    BY <1>3 DEF Pairs
  <2> QED
    BY <1>1, <1>3, <2>1 DEF ShellOK, Grows
<1>4. ASSUME NEW s \in T, s.by = d
      PROVE  /\ u.at \in {"run", "identify", "create", "fill", "compare", "tell", "over"}
             /\ u.at \notin {"over", "tell"} => u.tool = "shell" /\ Foreign(u.rows[s.on], d)
             /\ d \notin R /\ u.at = "tell" => s \in C \/ s.on \in u.found
  BY <1>4 DEF ShellOK
<1> QED
  BY <1>2, <1>3, <1>4 DEF ShellOK

LEMMA CallStep ==
    ASSUME GuardInv, NEW c \in Calls, NEW u \in Use,
           tooluse' = [tooluse EXCEPT ![c] = u], fence' = fence,
           content' \in [Targets -> Nat], Grows(content, content'),
           baseline' \in [Calls -> Snapshots],
           \A d \in Calls \ {c} : baseline'[d] = baseline[d],
           slips' \subseteq Pairs, \A s \in slips' : s \in slips \/ s.by = c,
           Settled' \subseteq Pairs, Settled \subseteq Settled', reaped' = reaped,
           ShellOK(c, u, baseline'[c], content', slips', Settled', reaped'),
           EditOK(c, u, fence)
    PROVE  GuardInv'
<1>1. GuardType'
  BY DEF GuardInv, GuardType
<1>2. tooluse'[c] = u /\ \A d \in Calls \ {c} : tooluse'[d] = tooluse[d]
  BY DEF GuardInv, GuardType
<1>3. ASSUME NEW d \in Calls, d # c
      PROVE  ShellOK(d, tooluse'[d], baseline'[d], content', slips', Settled', reaped')
  <2>1. /\ tooluse[d] \in Use /\ baseline[d] \in Snapshots /\ content \in [Targets -> Nat]
        /\ slips \in SUBSET Pairs
    BY DEF GuardInv, GuardType
  <2>2. ShellOK(d, tooluse[d], baseline[d], content, slips, Settled, reaped)
    BY DEF GuardInv
  <2>3. \A s \in slips' : s.by = d => s \in slips
    BY <1>3
  <2>4. slips' \in SUBSET Pairs
    OBVIOUS
  <2>5. ShellOK(d, tooluse[d], baseline[d], content', slips', Settled', reaped')
    BY <2>1, <2>2, <2>3, <2>4, OthersStay
  <2> QED
    BY <1>2, <1>3, <2>5
<1>4. ASSUME NEW d \in Calls
      PROVE  EditOK(d, tooluse'[d], fence')
  BY <1>2 DEF GuardInv
<1>5. \A d \in Calls : ShellOK(d, tooluse'[d], baseline'[d], content', slips', Settled', reaped')
  BY <1>2, <1>3
<1> QED
  BY <1>1, <1>4, <1>5 DEF GuardInv

\* The same when the step writes nothing but what its call has read.
LEMMA ReadStep ==
    ASSUME GuardInv, NEW c \in Calls, NEW u \in Use,
           tooluse' = [tooluse EXCEPT ![c] = u],
           UNCHANGED <<fence, content, baseline, slips, Settled, reaped>>,
           ShellOK(c, u, baseline[c], content, slips, Settled, reaped),
           EditOK(c, u, fence)
    PROVE  GuardInv'
<1>1. content' \in [Targets -> Nat] /\ Grows(content, content')
  BY DEF GuardInv, GuardType, Grows
<1>2. /\ baseline' \in [Calls -> Snapshots]
      /\ slips' \subseteq Pairs /\ Settled' \subseteq Pairs
  BY DEF GuardInv, GuardType
<1> QED
  BY <1>1, <1>2, CallStep

\* A call that goes on with what it has read.
LEMMA GotoUse ==
    ASSUME NEW u \in Use, NEW at \in CallStages, NEW v, v = [u EXCEPT !.at = at]
    PROVE  /\ v \in Use /\ v.at = at
           /\ v.tool = u.tool /\ v.mode = u.mode /\ v.target = u.target /\ v.rows = u.rows
           /\ v.loaded = u.loaded /\ v.found = u.found /\ v.blind = u.blind /\ v.moved = u.moved
BY DEF Use

\* A call that is over keeps nothing; its breaches are told, or its snapshot is there.
LEMMA OverKeeps ==
    ASSUME NEW c \in Calls, NEW b, NEW k, NEW S, NEW B, NEW fc, NEW R,
           b # NoBaseline => \A f \in Targets : b[f] <= k[f],
           \A s \in S : s.by = c /\ c \notin R => s \in B \/ (b # NoBaseline /\ b[s.on] < k[s.on])
    PROVE  LET u == [Idle EXCEPT !.at = "over"]
           IN  /\ u \in Use
               /\ ShellOK(c, u, b, k, S, B, R) /\ EditOK(c, u, fc)
BY DEF Idle, Use, CallStages, Rows, Snapshots, ShellOK, EditOK

LEMMA OverStep ==
    ASSUME GuardInv, NEW c \in Calls, Over(c),
           UNCHANGED <<fence, content, baseline, slips, Settled, reaped>>
    PROVE  GuardInv'
<1>1. ShellOK(c, tooluse[c], baseline[c], content, slips, Settled, reaped)
  BY DEF GuardInv
<1> DEFINE u == [Idle EXCEPT !.at = "over"]
<1>2. /\ u \in Use
      /\ ShellOK(c, u, baseline[c], content, slips, Settled, reaped) /\ EditOK(c, u, fence)
  <2>1. baseline[c] # NoBaseline => \A f \in Targets : baseline[c][f] <= content[f]
    BY <1>1 DEF ShellOK
  <2>2. \A s \in slips : s.by = c /\ c \notin reaped =>
          s \in Settled \/ (baseline[c] # NoBaseline /\ baseline[c][s.on] < content[s.on])
    BY <1>1 DEF ShellOK
  <2> QED
    BY <2>1, <2>2, OverKeeps
<1>3. tooluse' = [tooluse EXCEPT ![c] = u]
  BY DEF Over
<1> HIDE DEF u
<1> QED
  BY <1>2, <1>3, ReadStep

LEMMA CallFacts ==
    ASSUME GuardInv, NEW c \in Calls
    PROVE  /\ tooluse[c] \in Use
           /\ baseline[c] \in Snapshots
           /\ content \in [Targets -> Nat]
           /\ slips \subseteq Pairs /\ Settled \subseteq Pairs
           /\ fence \in Rows
           /\ ShellOK(c, tooluse[c], baseline[c], content, slips, Settled, reaped)
           /\ EditOK(c, tooluse[c], fence)
BY DEF GuardInv, GuardType

-----------------------------------------------------------------------------
(* The fences *)

LEMMA MoveFenceStep ==
    ASSUME GuardInv, NEW f \in Targets, NEW s \in Owners \cup {Nobody}, MoveFence(f, s)
    PROVE  GuardInv'
<1>1. fence' = [fence EXCEPT ![f] = s] /\ UNCHANGED <<content, baseline, Settled, slips, reaped>>
  BY DEF MoveFence, Settled
<1>2. ASSUME NEW c \in Calls
      PROVE  /\ tooluse'[c] \in Use
             /\ ShellOK(c, tooluse'[c], baseline[c], content, slips, Settled, reaped)
             /\ EditOK(c, tooluse'[c], fence')
  <2> DEFINE u == tooluse[c]
  <2>1. tooluse'[c] = IF f \in u.target THEN [u EXCEPT !.moved = TRUE] ELSE u
    BY DEF MoveFence
  <2>2. /\ u \in Use /\ fence \in Rows
        /\ ShellOK(c, u, baseline[c], content, slips, Settled, reaped) /\ EditOK(c, u, fence)
    BY CallFacts
  <2> HIDE DEF u
  <2>3. CASE f \in u.target
    <3> DEFINE v == [u EXCEPT !.moved = TRUE]
    <3>1. /\ v \in Use /\ v.moved
          /\ v.at = u.at /\ v.tool = u.tool /\ v.mode = u.mode /\ v.target = u.target
          /\ v.rows = u.rows /\ v.loaded = u.loaded /\ v.found = u.found /\ v.blind = u.blind
      BY <2>2 DEF Use
    <3>2. tooluse'[c] = v
      BY <2>1, <2>3
    <3> HIDE DEF v
    <3> QED
      BY <2>2, <3>1, <3>2 DEF ShellOK, EditOK
  <2>4. CASE f \notin u.target
    <3>1. \A g \in u.target : fence'[g] = fence[g]
      BY <1>1, <2>2, <2>4 DEF Rows
    <3>2. tooluse'[c] = u
      BY <2>1, <2>4
    <3> QED
      BY <2>2, <3>1, <3>2 DEF EditOK
  <2> QED
    BY <2>3, <2>4
<1>3. tooluse' \in [Calls -> Use]
  BY <1>2 DEF MoveFence
<1>4. GuardType'
  BY <1>1, <1>3 DEF GuardInv, GuardType, Rows
<1> QED
  BY <1>1, <1>2, <1>4 DEF GuardInv

-----------------------------------------------------------------------------
(* Before an edit *)

\* Whatever a hook does when it cannot make its check.
LEMMA UnsureStep ==
    ASSUME GuardInv, NEW c \in Calls, Unsure(c),
           tooluse[c].at \in {"unfenced", "identify", "create"},
           UNCHANGED <<fence, content, baseline, slips, Settled, reaped>>
    PROVE  GuardInv'
<1> DEFINE u == tooluse[c]
<1>1. CASE u.tool # "edit"
  BY <1>1, OverStep DEF Unsure
<1>2. CASE u.tool = "edit"
  <2> DEFINE v == [u EXCEPT !.at = IF u.mode.enforced THEN "denied" ELSE "allowed",
                            !.blind = TRUE]
  <2>1. u \in Use /\ ShellOK(c, u, baseline[c], content, slips, Settled, reaped)
        /\ EditOK(c, u, fence)
    BY CallFacts
  <2>2. tooluse' = [tooluse EXCEPT ![c] = v]
    BY <1>2 DEF Unsure
  <2> HIDE DEF u
  <2>3. /\ v \in Use /\ v.blind
        /\ v.at = IF u.mode.enforced THEN "denied" ELSE "allowed"
        /\ v.tool = u.tool /\ v.mode = u.mode /\ v.target = u.target
        /\ v.rows = u.rows /\ v.moved = u.moved
    BY <2>1 DEF Use, CallStages
  <2> HIDE DEF v
  <2>4. \A s \in slips : s.by # c
    BY <1>2, <2>1 DEF ShellOK, u
  <2>5. ShellOK(c, v, baseline[c], content, slips, Settled, reaped)
    BY <1>2, <2>1, <2>3, <2>4 DEF ShellOK
  <2>6. EditOK(c, v, fence)
    BY <1>2, <2>1, <2>3 DEF EditOK
  <2> QED
    BY <2>2, <2>3, <2>5, <2>6, ReadStep
<1> QED
  BY <1>1, <1>2

\* Whatever a hook does when it knows its session.
LEMMA KnownStep ==
    ASSUME GuardInv, NEW c \in Calls, Known(c),
           tooluse[c].at \in {"identify", "create", "fill"},
           UNCHANGED <<fence, content, baseline, slips, Settled, reaped>>
    PROVE  GuardInv'
<1> DEFINE u == tooluse[c]
<1>1. u \in Use /\ ShellOK(c, u, baseline[c], content, slips, Settled, reaped)
      /\ EditOK(c, u, fence)
  BY CallFacts
<1>2. CASE u.tool = "shell"
  <2> DEFINE v == [u EXCEPT !.at = "compare"]
  <2>1. tooluse' = [tooluse EXCEPT ![c] = v]
    BY <1>2 DEF Known, Goto
  <2>2. /\ v \in Use /\ v.at = "compare" /\ v.tool = "shell"
        /\ v.rows = u.rows /\ v.loaded = u.loaded
    BY <1>1, <1>2, GotoUse DEF CallStages
  <2> HIDE DEF v
  <2>3. ShellOK(c, v, baseline[c], content, slips, Settled, reaped)
    BY <1>1, <1>2, <2>2 DEF ShellOK
  <2>4. EditOK(c, v, fence)
    BY <2>2 DEF EditOK
  <2> QED
    BY <2>1, <2>2, <2>3, <2>4, ReadStep
<1>3. CASE u.tool = "label"
  BY <1>3, OverStep DEF Known
<1>4. CASE u.tool = "edit"
  <2>1. PICK at \in {"denied", "allowed"} :
          /\ tooluse' = [tooluse EXCEPT ![c] = [u EXCEPT !.at = at]]
          /\ at = "allowed" => \A f \in u.target : ~Foreign(u.rows[f], c)
    BY <1>4 DEF Known, Goto
  <2> DEFINE v == [u EXCEPT !.at = at]
  <2>2. /\ v \in Use /\ v.at = at /\ v.tool = "edit" /\ v.mode = u.mode
        /\ v.target = u.target /\ v.rows = u.rows /\ v.moved = u.moved
    BY <1>1, <1>4, GotoUse DEF CallStages
  <2> HIDE DEF v
  <2>3. \A s \in slips : s.by # c
    BY <1>1, <1>4 DEF ShellOK
  <2>4. ShellOK(c, v, baseline[c], content, slips, Settled, reaped)
    BY <1>1, <2>1, <2>2, <2>3 DEF ShellOK
  <2>5. EditOK(c, v, fence)
    BY <1>1, <1>4, <2>1, <2>2 DEF EditOK
  <2>6. tooluse' = [tooluse EXCEPT ![c] = v]
    BY <2>1 DEF v
  <2> QED
    BY <2>2, <2>4, <2>5, <2>6, ReadStep
<1>5. u.tool \in {"edit", "shell", "label"}
  BY <1>1 DEF EditOK
<1> QED
  BY <1>2, <1>3, <1>4, <1>5

LEMMA AskEditStep ==
    ASSUME GuardInv, NEW c \in Calls, AskEdit(c)
    PROVE  GuardInv'
<1>1. PICK f \in Targets, m \in Modes :
        tooluse' = [tooluse EXCEPT ![c] = [Idle EXCEPT
            !.at = IF \E g \in Targets : fence[g] # Nobody THEN "identify" ELSE "unfenced",
            !.tool = "edit", !.mode = m, !.target = {f}, !.rows = fence]]
  BY DEF AskEdit
<1> DEFINE v == [Idle EXCEPT
            !.at = IF \E g \in Targets : fence[g] # Nobody THEN "identify" ELSE "unfenced",
            !.tool = "edit", !.mode = m, !.target = {f}, !.rows = fence]
<1>2. /\ ShellOK(c, tooluse[c], baseline[c], content, slips, Settled, reaped)
      /\ fence \in Rows
  BY CallFacts
<1>3. v \in Use /\ v.at \in {"identify", "unfenced"} /\ v.tool = "edit" /\ v.rows = fence
  BY <1>2, ModesKnown DEF Idle, Use, CallStages, Rows, Snapshots
<1>4. \A s \in slips : s.by # c
  BY <1>2 DEF ShellOK, AskEdit, Called, Phase
<1>5. tooluse' = [tooluse EXCEPT ![c] = v]
  BY <1>1
<1> HIDE DEF v
<1>6. ShellOK(c, v, baseline[c], content, slips, Settled, reaped)
  BY <1>2, <1>3, <1>4 DEF ShellOK
<1>7. EditOK(c, v, fence)
  BY <1>3 DEF EditOK
<1> QED
  BY <1>3, <1>5, <1>6, <1>7, ReadStep DEF AskEdit, NoWrite, Settled

LEMMA AskLabelStep ==
    ASSUME GuardInv, NEW c \in Calls, AskLabel(c)
    PROVE  GuardInv'
<1> DEFINE u == tooluse[c]
           v == [u EXCEPT !.at = "identify", !.tool = "label"]
<1>1. u \in Use /\ ShellOK(c, u, baseline[c], content, slips, Settled, reaped)
  BY CallFacts
<1>2. u.at = "idle" /\ tooluse' = [tooluse EXCEPT ![c] = v]
  BY DEF AskLabel, Called, Phase
<1> HIDE DEF u
<1>3. v \in Use /\ v.at = "identify" /\ v.tool = "label"
  BY <1>1 DEF Use, CallStages
<1>4. \A s \in slips : s.by # c
  BY <1>1, <1>2 DEF ShellOK
<1> HIDE DEF v
<1>5. ShellOK(c, v, baseline[c], content, slips, Settled, reaped)
  BY <1>1, <1>3, <1>4 DEF ShellOK
<1>6. EditOK(c, v, fence)
  BY <1>3 DEF EditOK
<1> QED
  BY <1>2, <1>3, <1>5, <1>6, ReadStep DEF AskLabel, NoWrite, Settled

LEMMA GotoFillStep ==
    ASSUME GuardInv, NEW c \in Calls, NEW at \in {"create", "fill"}, Goto(c, at),
           tooluse[c].at \in {"identify", "create"},
           UNCHANGED <<fence, content, baseline, slips, Settled, reaped>>
    PROVE  GuardInv'
<1> DEFINE u == tooluse[c]
           v == [u EXCEPT !.at = at]
<1>1. /\ u \in Use
      /\ ShellOK(c, u, baseline[c], content, slips, Settled, reaped) /\ EditOK(c, u, fence)
  BY CallFacts
<1>2. tooluse' = [tooluse EXCEPT ![c] = v]
  BY DEF Goto
<1>3. /\ v \in Use /\ v.at = at /\ v.tool = u.tool /\ v.target = u.target
      /\ v.rows = u.rows /\ v.moved = u.moved /\ v.loaded = u.loaded
  BY <1>1, GotoUse DEF CallStages
<1>4. at \in {"create", "fill"} /\ u.at \in {"identify", "create"}
  OBVIOUS
<1> HIDE DEF u, v
<1>5. ShellOK(c, v, baseline[c], content, slips, Settled, reaped)
  BY <1>1, <1>3, <1>4 DEF ShellOK
<1>6. EditOK(c, v, fence)
  BY <1>1, <1>3, <1>4 DEF EditOK
<1> QED
  BY <1>2, <1>3, <1>5, <1>6, ReadStep

LEMMA IdentifyStep ==
    ASSUME GuardInv, NEW c \in Calls,
           Unfenced(c) \/ Identify(c) \/ CreateToken(c) \/ FillToken(c)
    PROVE  GuardInv'
<1>1. /\ tooluse[c].at \in {"unfenced", "identify", "create", "fill"}
      /\ UNCHANGED <<fence, content, baseline, slips, Settled, reaped>>
  BY DEF Unfenced, Identify, CreateToken, FillToken, Phase, NoWrite, Settled
<1>2. CASE Unfenced(c)
  BY <1>1, <1>2, UnsureStep DEF Unfenced, Phase
<1>3. CASE Identify(c)
  <2>1. tooluse[c].at = "identify" /\ (Goto(c, "create") \/ Unsure(c) \/ Known(c))
    BY <1>3 DEF Identify, Phase
  <2> QED
    BY <1>1, <2>1, GotoFillStep, UnsureStep, KnownStep
<1>4. CASE CreateToken(c)
  <2>1. tooluse[c].at = "create" /\ (Goto(c, "fill") \/ Unsure(c) \/ Known(c))
    BY <1>4 DEF CreateToken, Phase
  <2> QED
    BY <1>1, <2>1, GotoFillStep, UnsureStep, KnownStep
<1>5. CASE FillToken(c)
  BY <1>1, <1>5, KnownStep DEF FillToken, Phase
<1> QED
  BY <1>2, <1>3, <1>4, <1>5

\* The files only gain writes.
LEMMA WriteGrows ==
    ASSUME content \in [Targets -> Nat], NEW f \in Targets,
           content' = [content EXCEPT ![f] = @ + 1]
    PROVE  /\ content' \in [Targets -> Nat] /\ Grows(content, content')
           /\ content'[f] = content[f] + 1
BY DEF Grows

LEMMA LandStep ==
    ASSUME GuardInv, NEW c \in Calls, Land(c)
    PROVE  GuardInv'
<1> DEFINE v == [Idle EXCEPT !.at = "over"]
<1>1. PICK f \in Targets : content' = [content EXCEPT ![f] = @ + 1]
  <2>1. tooluse[c].target \subseteq Targets
    BY CallFacts DEF Use
  <2> QED
    BY <2>1 DEF Land
<1>2. content' \in [Targets -> Nat] /\ Grows(content, content')
  BY <1>1, CallFacts, WriteGrows
<1>3. /\ baseline[c] \in Snapshots /\ tooluse[c] \in Use /\ content \in [Targets -> Nat]
      /\ slips \in SUBSET Pairs
      /\ ShellOK(c, tooluse[c], baseline[c], content, slips, Settled, reaped)
  BY CallFacts
<1>4. ShellOK(c, tooluse[c], baseline[c], content', slips, Settled, reaped)
  BY <1>2, <1>3, OthersStay
<1>5. v \in Use /\ ShellOK(c, v, baseline[c], content', slips, Settled, reaped) /\ EditOK(c, v, fence)
  <2>1. baseline[c] # NoBaseline => \A g \in Targets : baseline[c][g] <= content'[g]
    BY <1>4 DEF ShellOK
  <2>2. \A s \in slips : s.by = c /\ c \notin reaped =>
          s \in Settled \/ (baseline[c] # NoBaseline /\ baseline[c][s.on] < content'[s.on])
    BY <1>4 DEF ShellOK
  <2> QED
    BY <2>1, <2>2, OverKeeps
<1>6. tooluse' = [tooluse EXCEPT ![c] = v]
      /\ UNCHANGED <<fence, baseline, Settled, slips, reaped>>
  BY DEF Land, Over, Settled
<1> HIDE DEF v
<1>7. baseline' \in [Calls -> Snapshots] /\ slips' \subseteq Pairs /\ Settled' \subseteq Pairs
  BY <1>6 DEF GuardInv, GuardType
<1> QED
  BY <1>2, <1>5, <1>6, <1>7, CallStep

-----------------------------------------------------------------------------
(* Around a shell command *)

\* Of a call whose snapshot is gone no more is asked than where it is.
LEMMA ReapStep ==
    ASSUME GuardInv, NEW c \in Calls, Reap(c)
    PROVE  GuardInv'
<1>1. PICK d \in Calls : /\ baseline' = [baseline EXCEPT ![d] = NoBaseline]
                         /\ reaped' = reaped \cup {d}
  BY DEF Reap, Settled
<1>2. UNCHANGED <<fence, content, tooluse, slips, Settled>>
  BY DEF Reap, Settled
<1>3. GuardType'
  BY <1>1, <1>2 DEF GuardInv, GuardType, Snapshots
<1>4. ASSUME NEW e \in Calls
      PROVE  /\ ShellOK(e, tooluse[e], baseline'[e], content, slips, Settled, reaped')
             /\ EditOK(e, tooluse[e], fence)
  <2>1. /\ ShellOK(e, tooluse[e], baseline[e], content, slips, Settled, reaped)
        /\ EditOK(e, tooluse[e], fence)
    BY CallFacts
  <2>2. CASE e = d
    <3>1. baseline'[e] = NoBaseline /\ e \in reaped'
      BY <1>1, <2>2 DEF GuardInv, GuardType
    <3> QED
      BY <2>1, <3>1 DEF ShellOK
  <2>3. CASE e # d
    <3>1. baseline'[e] = baseline[e] /\ (e \in reaped' <=> e \in reaped)
      BY <1>1, <2>3 DEF GuardInv, GuardType
    <3> QED
      BY <2>1, <3>1 DEF ShellOK
  <2> QED
    BY <2>2, <2>3
<1> QED
  BY <1>2, <1>3, <1>4 DEF GuardInv

LEMMA PreRowsStep ==
    ASSUME GuardInv, NEW c \in Calls, PreRows(c)
    PROVE  GuardInv'
<1>1. PICK at \in {"hash", "unseen"} :
        tooluse' = [tooluse EXCEPT ![c].tool = "shell", ![c].at = at, ![c].rows = fence]
  BY DEF PreRows
<1> DEFINE u == tooluse[c]
           v == [u EXCEPT !.tool = "shell", !.at = at, !.rows = fence]
<1>2. /\ u \in Use /\ fence \in Rows
      /\ ShellOK(c, u, baseline[c], content, slips, Settled, reaped)
  BY CallFacts
<1>3. u.at = "idle" /\ UNCHANGED <<fence, content, baseline, slips, Settled, reaped>>
  BY DEF PreRows, Called, Phase, NoWrite, Settled
<1>4. tooluse' = [tooluse EXCEPT ![c] = v]
  BY <1>1
<1> HIDE DEF u
<1>5. v \in Use /\ v.at = at /\ v.tool = "shell"
  BY <1>2 DEF Use, CallStages
<1>6. \A s \in slips : s.by # c
  BY <1>2, <1>3 DEF ShellOK
<1> HIDE DEF v
<1>7. ShellOK(c, v, baseline[c], content, slips, Settled, reaped)
  BY <1>2, <1>5, <1>6 DEF ShellOK
<1>8. EditOK(c, v, fence)
  BY <1>5 DEF EditOK
<1> QED
  BY <1>3, <1>4, <1>5, <1>7, <1>8, ReadStep

\* The snapshot is of the files as they are before the command runs.
LEMMA PreSnapshotStep ==
    ASSUME GuardInv, NEW c \in Calls, PreSnapshot(c)
    PROVE  GuardInv'
<1> DEFINE u == tooluse[c]
           v == [u EXCEPT !.at = "run"]
<1>1. /\ u \in Use /\ content \in [Targets -> Nat]
      /\ ShellOK(c, u, baseline[c], content, slips, Settled, reaped)
  BY CallFacts
<1>2. /\ u.at = "hash" /\ baseline' = [baseline EXCEPT ![c] = content]
      /\ UNCHANGED <<fence, content, Settled, slips, reaped>>
      /\ tooluse' = [tooluse EXCEPT ![c] = v]
  BY DEF PreSnapshot, Phase, Slot, Goto, Settled
<1> HIDE DEF u
<1>3. v \in Use /\ v.at = "run" /\ v.tool = u.tool
  BY <1>1, GotoUse DEF CallStages
<1>4. u.tool = "shell" /\ \A s \in slips : s.by # c
  BY <1>1, <1>2 DEF ShellOK
<1> HIDE DEF v
<1>5. /\ baseline' \in [Calls -> Snapshots] /\ baseline'[c] = content
      /\ \A d \in Calls \ {c} : baseline'[d] = baseline[d]
  BY <1>1, <1>2 DEF GuardInv, GuardType, Snapshots
<1>6. content # NoBaseline /\ \A f \in Targets : content[f] <= content[f]
  BY <1>1, BaselineKnown
<1>7. ShellOK(c, v, baseline'[c], content', slips', Settled', reaped')
  BY <1>2, <1>3, <1>4, <1>5, <1>6 DEF ShellOK
<1>8. EditOK(c, v, fence)
  BY <1>3, <1>4 DEF EditOK
<1>9. /\ content' \in [Targets -> Nat] /\ Grows(content, content')
      /\ slips' \subseteq Pairs /\ Settled' \subseteq Pairs
  BY <1>2, <1>6, CallFacts DEF Grows
<1> QED
  BY <1>2, <1>3, <1>5, <1>7, <1>8, <1>9, CallStep

\* What a command writes, its snapshot shows.
LEMMA ShellStep ==
    ASSUME GuardInv, NEW c \in Calls, Shell(c)
    PROVE  GuardInv'
<1> DEFINE u == tooluse[c]
<1>1. PICK f \in Targets :
        /\ content' = [content EXCEPT ![f] = @ + 1]
        /\ slips' = IF u.at = "run" /\ Foreign(u.rows[f], c)
                    THEN slips \cup {[by |-> c, on |-> f]} ELSE slips
  BY DEF Shell, Phase
<1>2. UNCHANGED <<fence, tooluse, baseline, Settled, reaped>>
  BY DEF Shell, Settled
<1>3. /\ u \in Use /\ content \in [Targets -> Nat] /\ baseline[c] \in Snapshots
      /\ slips \in SUBSET Pairs /\ Settled \subseteq Pairs
      /\ ShellOK(c, u, baseline[c], content, slips, Settled, reaped) /\ EditOK(c, u, fence)
  BY CallFacts
<1>4. content' \in [Targets -> Nat] /\ Grows(content, content') /\ content'[f] = content[f] + 1
  BY <1>1, <1>3, WriteGrows
<1>5. ShellOK(c, u, baseline[c], content', slips, Settled, reaped)
  BY <1>3, <1>4, OthersStay
<1>6. tooluse' = [tooluse EXCEPT ![c] = u]
  BY <1>2 DEF GuardInv, GuardType
<1> HIDE DEF u
<1>7. ShellOK(c, u, baseline[c], content', slips', Settled, reaped)
  <2>1. CASE u.at = "run" /\ Foreign(u.rows[f], c)
    <3>1. slips' = slips \cup {[by |-> c, on |-> f]}
      BY <1>1, <2>1
    <3>2. /\ u.tool = "shell"
          /\ c \notin reaped => /\ baseline[c] # NoBaseline /\ baseline[c] \in [Targets -> Nat]
                               /\ baseline[c][f] <= content[f]
      BY <1>3, <2>1 DEF ShellOK, Snapshots
    <3>3. c \notin reaped => baseline[c][f] < content'[f]
      BY <1>3, <1>4, <3>2
    <3> QED
      BY <1>5, <2>1, <3>1, <3>2, <3>3 DEF ShellOK
  <2>2. CASE ~(u.at = "run" /\ Foreign(u.rows[f], c))
    BY <1>1, <1>5, <2>2
  <2> QED
    BY <2>1, <2>2
<1>8. slips' \subseteq Pairs /\ \A s \in slips' : s \in slips \/ s.by = c
  BY <1>1, <1>3 DEF Pairs
<1>9. /\ baseline' \in [Calls -> Snapshots] /\ Settled' \subseteq Pairs
      /\ Settled \subseteq Settled' /\ baseline'[c] = baseline[c]
      /\ \A d \in Calls \ {c} : baseline'[d] = baseline[d]
  BY <1>2 DEF GuardInv, GuardType
<1>10. ShellOK(c, u, baseline'[c], content', slips', Settled', reaped')
  BY <1>2, <1>7
<1> QED
  BY <1>2, <1>3, <1>4, <1>6, <1>8, <1>9, <1>10, CallStep

LEMMA PostLoadStep ==
    ASSUME GuardInv, NEW c \in Calls, PostLoad(c)
    PROVE  GuardInv'
<1>1. UNCHANGED <<fence, content, baseline, slips, Settled, reaped>>
  BY DEF PostLoad, NoWrite, Settled
<1>2. CASE baseline[c] = NoBaseline
  BY <1>1, <1>2, OverStep DEF PostLoad, Slot
<1>3. CASE baseline[c] # NoBaseline
  <2> DEFINE u == tooluse[c]
             v == [u EXCEPT !.at = "identify", !.loaded = baseline[c]]
  <2>1. /\ u \in Use /\ baseline[c] \in Snapshots
        /\ ShellOK(c, u, baseline[c], content, slips, Settled, reaped)
    BY CallFacts
  <2>2. u.at \in {"run", "unseen"} /\ tooluse' = [tooluse EXCEPT ![c] = v]
    BY <1>3 DEF PostLoad, Phase, Slot
  <2> HIDE DEF u
  <2>3. u.tool = "shell"
    BY <2>1, <2>2 DEF ShellOK
  <2>4. /\ v \in Use /\ v.at = "identify" /\ v.tool = "shell" /\ v.loaded = baseline[c]
        /\ v.rows = u.rows
    BY <2>1, <2>3 DEF Use, CallStages
  <2> HIDE DEF v
  <2>5. ShellOK(c, v, baseline[c], content, slips, Settled, reaped)
    BY <1>3, <2>1, <2>2, <2>3, <2>4 DEF ShellOK
  <2>6. EditOK(c, v, fence)
    BY <2>4 DEF EditOK
  <2> QED
    BY <1>1, <2>2, <2>4, <2>5, <2>6, ReadStep
<1> QED
  BY <1>2, <1>3

\* Every file the command changed across a fence is found by the comparison.
LEMMA CompareStep ==
    ASSUME GuardInv, NEW c \in Calls, CompareFiles(c)
    PROVE  GuardInv'
<1> DEFINE u == tooluse[c]
<1>0. PICK lost \in SUBSET Changed(c) :
        /\ tooluse' = [tooluse EXCEPT ![c].at = "tell", ![c].found = Changed(c) \ lost]
        /\ unread' = unread \cup [by : {c}, on : lost]
  BY DEF CompareFiles
<1> DEFINE found == Changed(c) \ lost
           v == [u EXCEPT !.at = "tell", !.found = found]
<1>1. /\ u \in Use /\ baseline[c] \in Snapshots /\ content \in [Targets -> Nat]
      /\ slips \subseteq Pairs
      /\ ShellOK(c, u, baseline[c], content, slips, Settled, reaped)
  BY CallFacts
<1>2. /\ u.at = "compare" /\ tooluse' = [tooluse EXCEPT ![c] = v]
      /\ UNCHANGED <<fence, content, baseline, slips, breaches, reaped>>
  BY <1>0 DEF CompareFiles, Phase
<1> HIDE DEF u
<1>3. /\ u.tool = "shell"
      /\ c \notin reaped => /\ baseline[c] # NoBaseline /\ u.loaded = baseline[c]
                           /\ baseline[c] \in [Targets -> Nat]
  BY <1>1, <1>2 DEF ShellOK, Snapshots
<1>4. ASSUME NEW s \in slips, s.by = c, s \notin Settled, c \notin reaped
      PROVE  s.on \in found \/ s \in Settled'
  <2>1. /\ s.on \in Targets /\ Foreign(u.rows[s.on], c)
        /\ baseline[c][s.on] < content[s.on]
    BY <1>1, <1>2, <1>4 DEF ShellOK, Pairs
  <2>2. content[s.on] # u.loaded[s.on]
    BY <1>1, <1>3, <1>4, <2>1
  <2>3. s.on \in Changed(c)
    BY <2>1, <2>2 DEF Changed, u
  <2>4. s.on \in lost => s \in [by : {c}, on : lost]
    BY <1>1, <1>4 DEF Pairs
  <2> QED
    BY <1>0, <2>3, <2>4 DEF Settled
<1>5. /\ found \subseteq Targets
      /\ Settled' \subseteq Pairs /\ Settled \subseteq Settled'
  <2>1. lost \subseteq Targets
    BY DEF Changed
  <2>2. [by : {c}, on : lost] \subseteq Pairs
    BY <2>1 DEF Pairs
  <2>3. Settled' = Settled \cup [by : {c}, on : lost]
    BY <1>0, <1>2 DEF Settled
  <2> QED
    BY <2>2, <2>3, CallFacts DEF Changed
<1> HIDE DEF found
<1>6. /\ v \in Use /\ v.at = "tell" /\ v.found = found /\ v.tool = u.tool
      /\ v.rows = u.rows /\ v.loaded = u.loaded
  BY <1>1, <1>5 DEF Use, CallStages
<1> HIDE DEF v
<1>7. ShellOK(c, v, baseline'[c], content', slips', Settled', reaped')
  BY <1>1, <1>2, <1>3, <1>4, <1>5, <1>6 DEF ShellOK
<1>8. EditOK(c, v, fence)
  BY <1>3, <1>6 DEF EditOK
<1>9. /\ content' \in [Targets -> Nat] /\ Grows(content, content')
      /\ baseline' \in [Calls -> Snapshots] /\ slips' \subseteq Pairs /\ slips' = slips
  BY <1>1, <1>2 DEF GuardInv, GuardType, Grows
<1> QED
  BY <1>2, <1>5, <1>6, <1>7, <1>8, <1>9, CallStep

\* A file leaves the list when its alert is recorded.
LEMMA TellStep ==
    ASSUME GuardInv, NEW c \in Calls, Tell(c)
    PROVE  GuardInv'
<1> DEFINE u == tooluse[c]
<1>1. PICK f \in u.found :
        /\ Settled' = Settled \cup {[by |-> c, on |-> f]}
        /\ tooluse' = [tooluse EXCEPT ![c].found = @ \ {f}]
  BY DEF Tell, Settled
<1> DEFINE v == [u EXCEPT !.found = @ \ {f}]
<1>2. /\ u \in Use /\ content \in [Targets -> Nat] /\ slips \subseteq Pairs
      /\ Settled \subseteq Pairs
      /\ ShellOK(c, u, baseline[c], content, slips, Settled, reaped)
  BY CallFacts
<1>3. /\ u.at = "tell" /\ tooluse' = [tooluse EXCEPT ![c] = v]
      /\ UNCHANGED <<fence, content, baseline, slips, reaped>>
  BY <1>1 DEF Tell, Phase, Settled
<1> HIDE DEF u
<1>4. v \in Use /\ v.at = "tell" /\ v.found = u.found \ {f} /\ v.tool = u.tool
      /\ v.target = u.target /\ v.rows = u.rows /\ v.moved = u.moved
  BY <1>2, <1>3 DEF Use
<1> HIDE DEF v
<1>5. f \in Targets
  BY <1>1, <1>2 DEF Use
<1>6. Settled' \subseteq Pairs /\ Settled \subseteq Settled'
  BY <1>1, <1>2, <1>5 DEF Pairs
<1>7. ASSUME NEW s \in slips, s.by = c, c \notin reaped
      PROVE  s \in Settled' \/ s.on \in v.found
  <2>1. s \in Settled \/ s.on \in u.found
    BY <1>2, <1>3, <1>7 DEF ShellOK
  <2>2. s.on = f => s = [by |-> c, on |-> f]
    BY <1>2, <1>7 DEF Pairs
  <2> QED
    BY <1>1, <1>4, <2>1, <2>2
<1>8. ShellOK(c, v, baseline[c], content, slips, Settled', reaped)
  BY <1>2, <1>3, <1>4, <1>6, <1>7 DEF ShellOK
<1>9. EditOK(c, v, fence)
  <2>1. EditOK(c, u, fence)
    BY CallFacts DEF u
  <2> QED
    BY <1>4, <2>1 DEF EditOK
<1>10. /\ content' \in [Targets -> Nat] /\ Grows(content, content')
       /\ baseline' \in [Calls -> Snapshots] /\ slips' \subseteq Pairs
       /\ slips' = slips
  BY <1>2, <1>3 DEF GuardInv, GuardType, Grows
<1>11. ShellOK(c, v, baseline'[c], content', slips', Settled', reaped')
  BY <1>3, <1>8
<1> QED
  BY <1>3, <1>4, <1>6, <1>9, <1>10, <1>11, CallStep

\* The snapshot goes when nothing is left to tell.
LEMMA ForgetStep ==
    ASSUME GuardInv, NEW c \in Calls, Forget(c)
    PROVE  GuardInv'
<1> DEFINE v == [Idle EXCEPT !.at = "over"]
<1>1. /\ ShellOK(c, tooluse[c], baseline[c], content, slips, Settled, reaped)
      /\ content \in [Targets -> Nat]
  BY CallFacts
<1>2. /\ tooluse[c].at = "tell" /\ tooluse[c].found = {}
      /\ baseline' = [baseline EXCEPT ![c] = NoBaseline]
      /\ tooluse' = [tooluse EXCEPT ![c] = v]
      /\ UNCHANGED <<fence, content, Settled, slips, reaped>>
  BY DEF Forget, Phase, Slot, Over, Settled
<1>3. \A s \in slips : s.by = c /\ c \notin reaped => s \in Settled
  BY <1>1, <1>2 DEF ShellOK
<1>4. /\ v \in Use
      /\ ShellOK(c, v, NoBaseline, content, slips, Settled, reaped) /\ EditOK(c, v, fence)
  BY <1>3, OverKeeps
<1> HIDE DEF v
<1>5. /\ baseline' \in [Calls -> Snapshots] /\ baseline'[c] = NoBaseline
      /\ \A d \in Calls \ {c} : baseline'[d] = baseline[d]
  BY <1>2 DEF GuardInv, GuardType, Snapshots
<1>6. /\ content' \in [Targets -> Nat] /\ Grows(content, content')
      /\ slips' \subseteq Pairs /\ slips' = slips
      /\ Settled' \subseteq Pairs /\ Settled \subseteq Settled'
  BY <1>1, <1>2 DEF GuardInv, GuardType, Grows
<1>7. ShellOK(c, v, baseline'[c], content', slips', Settled', reaped')
  BY <1>2, <1>4, <1>5
<1> QED
  BY <1>2, <1>4, <1>5, <1>6, <1>7, CallStep

-----------------------------------------------------------------------------
(* The invariant, and what follows from it *)

LEMMA GuardInit == GInit => GuardInv
<1> SUFFICES ASSUME GInit PROVE GuardInv
  OBVIOUS
<1>1. Idle \in Use /\ Idle.at = "idle" /\ Idle.tool = "none"
  BY DEF Idle, Use, CallStages, Rows, Snapshots
<1>2. GuardType
  BY <1>1 DEF GInit, GuardType, Rows, Snapshots, Pairs, Settled
<1>3. ASSUME NEW c \in Calls
      PROVE  /\ ShellOK(c, tooluse[c], baseline[c], content, slips, Settled, reaped)
             /\ EditOK(c, tooluse[c], fence)
  <2>1. tooluse[c] = Idle /\ baseline[c] = NoBaseline /\ slips = {}
    BY DEF GInit
  <2> QED
    BY <1>1, <2>1 DEF ShellOK, EditOK
<1> QED
  BY <1>2, <1>3 DEF GuardInv

LEMMA GuardStep == GuardInv /\ [GNext]_gvars => GuardInv'
<1> SUFFICES ASSUME GuardInv, [GNext]_gvars
             PROVE  GuardInv'
  OBVIOUS
<1>1. ASSUME NEW f \in Targets, NEW s \in Owners \cup {Nobody}, MoveFence(f, s)
      PROVE  GuardInv'
  BY <1>1, MoveFenceStep
<1>2. ASSUME NEW c \in Calls,
             \/ AskEdit(c) \/ Unfenced(c) \/ AskLabel(c)
             \/ Identify(c) \/ CreateToken(c) \/ FillToken(c) \/ Land(c)
             \/ Reap(c) \/ PreRows(c) \/ PreSnapshot(c) \/ Shell(c) \/ PostLoad(c)
             \/ CompareFiles(c) \/ Tell(c) \/ Forget(c) \/ Die(c)
      PROVE  GuardInv'
  <2>1. CASE Die(c)
    BY <2>1, OverStep DEF Die, NoWrite, Settled
  <2>2. CASE Unfenced(c) \/ Identify(c) \/ CreateToken(c) \/ FillToken(c)
    BY <2>2, IdentifyStep
  <2>3. CASE AskEdit(c) \/ AskLabel(c) \/ Land(c)
    BY <2>3, AskEditStep, AskLabelStep, LandStep
  <2>4. CASE Reap(c) \/ PreRows(c) \/ PreSnapshot(c) \/ Shell(c) \/ PostLoad(c)
    BY <2>4, ReapStep, PreRowsStep, PreSnapshotStep, ShellStep, PostLoadStep
  <2>5. CASE CompareFiles(c) \/ Tell(c) \/ Forget(c)
    BY <2>5, CompareStep, TellStep, ForgetStep
  <2> QED
    BY <1>2, <2>1, <2>2, <2>3, <2>4, <2>5
<1>3. CASE UNCHANGED gvars
  BY <1>3 DEF gvars, GuardInv, GuardType, Settled
<1> QED
  BY <1>1, <1>2, <1>3 DEF GNext

\* What a command wrote across a fence is told or can still be told, until a
\* later command finds its snapshot a day old and removes it, for every number
\* of sessions, calls and files and every interleaving of their hooks with the
\* claims and the kills (_run_post, _reap_stale_snapshots).
THEOREM NoBreachForgottenHolds == GSpec => []NoBreachForgotten
<1>1. GuardInv => NoBreachForgotten
  <2> SUFFICES ASSUME GuardInv, NEW s \in slips, s \notin Settled, s.by \notin reaped
               PROVE  baseline[s.by] # NoBaseline /\ baseline[s.by][s.on] # content[s.on]
    BY DEF NoBreachForgotten, Settled
  <2>1. s.by \in Calls /\ s.on \in Targets
    BY DEF GuardInv, GuardType, Pairs
  <2>2. /\ ShellOK(s.by, tooluse[s.by], baseline[s.by], content, slips, Settled, reaped)
        /\ baseline[s.by] \in Snapshots /\ content \in [Targets -> Nat]
    BY <2>1, CallFacts
  <2>3. baseline[s.by] # NoBaseline /\ baseline[s.by][s.on] < content[s.on]
    BY <2>2 DEF ShellOK
  <2> QED
    BY <2>1, <2>2, <2>3 DEF Snapshots
<1> QED
  BY <1>1, GuardInit, GuardStep, PTL DEF GSpec

\* An edit lands under another session's fence only if that fence moved after
\* the hook read it, or the hook could not make its check and was not
\* enforced, for every number of sessions, calls and files (decide).
THEOREM EditsStayInsideHolds == GSpec => EditsStayInside
<1> DEFINE Stays == \A c \in Calls :
        Phase(c, "allowed") /\ content' # content /\ tooluse'[c].at = "over" =>
            \A f \in tooluse[c].target :
                \/ ~Foreign(fence[f], c)
                \/ tooluse[c].moved
                \/ tooluse[c].blind /\ ~tooluse[c].mode.enforced
<1>1. GuardInv => Stays
  <2> SUFFICES ASSUME GuardInv, NEW c \in Calls, tooluse[c].at = "allowed",
                      NEW f \in tooluse[c].target
               PROVE  \/ ~Foreign(fence[f], c)
                      \/ tooluse[c].moved
                      \/ tooluse[c].blind /\ ~tooluse[c].mode.enforced
    BY DEF Phase
  <2>1. EditOK(c, tooluse[c], fence)
    BY CallFacts
  <2> QED
    BY <2>1 DEF EditOK
<1>2. GuardInv /\ [GNext]_gvars => [Stays]_gvars
  BY <1>1
<1> HIDE DEF Stays
<1>3. GSpec => [][Stays]_gvars
  BY <1>2, GuardInit, GuardStep, PTL DEF GSpec
<1> QED
  BY <1>3 DEF EditsStayInside, Stays
=============================================================================
