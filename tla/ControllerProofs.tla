--------------------------- MODULE ControllerProofs ---------------------------
(***************************************************************************)
(* Proofs about the controller engine, for any number of units, lanes,     *)
(* plans, retries, kills and acts of the founder, and any number of        *)
(* processes that plan and stop beside the one that drives the run.        *)
(*                                                                         *)
(* The argument.  What a command has still to do is its agenda, and each   *)
(* entry was decided on what the tables said when it was put there.  The   *)
(* invariant says, entry by entry, what of that is still true (Sound):     *)
(* the units it may send have no attempt in flight, the attempt it speaks  *)
(* of exists, the definition it is judging by is the one of the row as     *)
(* long as the row still waits for a verdict.  A transaction of another    *)
(* process that drives nothing leaves all of it true (Grows, SameWork):    *)
(* it adds to the tables, or takes units back to READY and before, where   *)
(* no verdict is accepted.  So the verdict and the row marked done, two    *)
(* transactions, are about one definition (Backed).                        *)
(*                                                                         *)
(* OneDriver is the hypothesis of all of it, and is needed.  The engine    *)
(* ties a run to the session that began it and refuses the steps of        *)
(* others, but nothing stops two processes of that session: with two of    *)
(* them and a plan that redefines a unit, DoneAsDefined and OneAwaited     *)
(* fail.  DeliveredIsOver needs more, OneWorks: also the plans come from   *)
(* that process, and the others only stop.  ControllerFenceProofs goes on  *)
(* from here, with the fences.                                             *)
(***************************************************************************)
EXTENDS Controller, FiniteSetTheorems, TLAPS

\* The processes that drive the run: they send units to workers and take answers.
Drives(c) == MayRun[c] \cap {"step", "result"} # {}
OneDriver == \A c, d \in Commands : Drives(c) /\ Drives(d) => c = d

-----------------------------------------------------------------------------
(* The entries of an agenda *)

\* What a process has to do that drives nothing: plans and stops.
CalmKinds ==
    {"move", "park", "block", "unblock", "reconcile", "orient", "upsert", "stopping",
     "stop fences"}
Calm == {e \in Entry : e[1] \in CalmKinds}

\* The units an entry may yet dispatch.
Chooses == {"list", "results", "contract", "await", "select"}
Sending == {"gate", "claim fence", "claim", "dispatch"}
Targets(e) ==
    CASE e[1] \in Chooses -> Units
      [] e[1] = "wave" -> e[2]
      [] e[1] \in Sending -> {e[2]}
      [] OTHER -> {}

\* What speaks of an attempt, by its number.
Numbered == {"record", "reject", "accept", "judge", "check", "received", "ask again", "fetch"}
Verdicts == {"check", "accept", "done"}

\* What an entry needs of the tables.
AwaitedIn(ds, u) == {i \in DOMAIN ds[u] : ds[u][i].status = "DISPATCHED"}
StillDefined(us, u, def) == us[u].status = "RESULT_IN" => us[u].def = def
ProvenIn(us, ds, u) ==
    \E i \in DOMAIN ds[u] : ds[u][i].status = "VERIFIED" /\ ds[u][i].judged = us[u].def

Sound(e, us, ds, fs, rev) ==
    /\ e[1] \in {"select", "wave"} \cup Sending => \A u \in Targets(e) : AwaitedIn(ds, u) = {}
    /\ e[1] \in Numbered => e[3] \in DOMAIN ds[e[2]]
    /\ e[1] = "claim fence" => e[3] \in 1 .. rev
    /\ e[1] \in {"claim", "dispatch"} => e[4] \in 1 .. rev
    /\ e[1] = "claim" => e[3] <= fs[e[2]].id
    /\ e[1] = "check" => StillDefined(us, e[2], e[5])
    /\ e[1] = "accept" => StillDefined(us, e[2], e[4])

\* No unit is sent twice by one agenda, and a verdict is pronounced at once.
Ordered(a) ==
    /\ \A j, k \in 1 .. Len(a) : j < k => Targets(a[j]) \cap Targets(a[k]) = {}
    /\ \A k \in 2 .. Len(a) : a[k][1] \notin {"check", "accept"}
    /\ \A k \in 2 .. Len(a) :
         a[k][1] = "done" => k = 2 /\ a[1][1] = "accept" /\ a[1][2] = a[2][2]

\* A unit about to be marked done has passed.
Backed(a, us, ds) ==
    a # <<>> /\ a[1][1] = "done" /\ us[a[1][2]].status = "RESULT_IN" => ProvenIn(us, ds, a[1][2])

Fits(a, us, ds, fs, rev) ==
    /\ Ordered(a)
    /\ Backed(a, us, ds)
    /\ \A k \in 1 .. Len(a) : Sound(a[k], us, ds, fs, rev)

\* The types; every agenda fits the tables, and who drives nothing has nothing
\* to send or to judge; done units have passed; one attempt of a unit is awaited.
CInv ==
    /\ CTypeOK
    /\ \A c \in Commands : p[c] # Idle =>
         /\ Fits(p[c].agenda, units, dispatches, fences, contract.revision)
         /\ ~Drives(c) => p[c].agenda \in Seq(Calm)
    /\ DoneAsDefined
    /\ \A u \in Units : \A i, j \in AwaitedIn(dispatches, u) : i = j

\* Entries that choose nothing and judge nothing.
Plain == {e \in Entry : /\ e[1] \notin Chooses \cup {"wave"} \cup Sending \cup Verdicts
                        /\ e[1] \in Numbered => e[3] \in DOMAIN dispatches[e[2]]}

LEMMA EntryShape ==
    ASSUME NEW e \in Entry
    PROVE  /\ e[1] \in {"tell", "fail", "done", "release", "gate", "park", "record", "reject",
                        "fetch", "claim fence", "judge", "received", "ask again", "claim",
                        "dispatch", "accept", "rollback", "check"} => e[2] \in Units
           /\ e[1] \in {"park", "record", "reject", "fetch", "claim fence", "judge", "received",
                        "ask again", "claim", "dispatch", "accept", "rollback", "check"} => e[3] \in Nat
           /\ e[1] \in {"judge", "received", "ask again", "claim", "dispatch", "accept",
                        "check"} => e[4] \in Nat
           /\ e[1] = "check" => e[5] \in Nat
           /\ e[1] = "rollback" => e[4] \in {"stale", "judged"}
           /\ e[1] \in {"orphans", "results"} => e[2] \subseteq Listed
           /\ e[1] = "wave" => e[2] \subseteq Units
           /\ e[1] = "upsert" => e[2] \in Plans
           /\ e[1] \in {"block", "unblock"} => e[2] \in Lanes
           /\ e[1] \in {"move", "delivered"} => e[2] \in RunStates
<1>1. CASE e \in {<<what>> : what \in Bare}
  <2>1. PICK what \in Bare : e = <<what>>
    BY <1>1
  <2>2. e[1] \in Bare
    BY <2>1
  <2> QED
    BY <2>2 DEF Bare
<1>2. CASE \/ e \in {"move", "delivered"} \X RunStates
           \/ e \in {"block", "unblock"} \X Lanes
           \/ e \in {"tell", "fail", "done", "release", "gate"} \X Units
  BY <1>2
<1>3. CASE \/ e \in {"orphans", "results"} \X SUBSET Listed
           \/ e \in {"wave"} \X SUBSET Units
           \/ e \in {"upsert"} \X Plans
  BY <1>3
<1>4. CASE e \in {"park", "record", "reject", "fetch", "claim fence"} \X Units \X Nat
  BY <1>4
<1>5. CASE \/ e \in {"accept", "judge", "received", "ask again", "claim", "dispatch"}
                     \X Units \X Nat \X Nat
           \/ e \in {"rollback"} \X Units \X Nat \X {"stale", "judged"}
  BY <1>5
<1>6. CASE e \in {"check"} \X Units \X Nat \X Nat \X Nat
  BY <1>6
<1> QED
  BY <1>1, <1>2, <1>3, <1>4, <1>5, <1>6 DEF Entry

LEMMA EntryMade ==
    ASSUME NEW u \in Units, NEW i \in Nat, NEW n \in Nat, NEW d \in Nat
    PROVE  /\ <<"tell", u>> \in Entry /\ <<"fail", u>> \in Entry /\ <<"done", u>> \in Entry
           /\ <<"release", u>> \in Entry /\ <<"gate", u>> \in Entry
           /\ <<"park", u, n>> \in Entry /\ <<"record", u, i>> \in Entry
           /\ <<"reject", u, i>> \in Entry /\ <<"fetch", u, i>> \in Entry
           /\ <<"claim fence", u, n>> \in Entry
           /\ <<"accept", u, i, n>> \in Entry
           /\ <<"judge", u, i, n>> \in Entry /\ <<"received", u, i, n>> \in Entry
           /\ <<"ask again", u, i, n>> \in Entry /\ <<"claim", u, i, n>> \in Entry
           /\ <<"dispatch", u, i, n>> \in Entry
           /\ <<"rollback", u, n, "stale">> \in Entry /\ <<"rollback", u, n, "judged">> \in Entry
           /\ <<"check", u, i, n, d>> \in Entry
BY DEF Entry

LEMMA BareMade ==
    ASSUME NEW what \in Bare
    PROVE  <<what>> \in Entry /\ <<what>>[1] = what
<1>1. <<what>> \in {<<w>> : w \in Bare}
  OBVIOUS
<1>2. <<what>>[1] = what
  OBVIOUS
<1> QED
  BY <1>1, <1>2 DEF Entry

LEMMA MovesAre ==
    ASSUME NEW path \in Seq(RunStates)
    PROVE  Moves(path) \in Seq(Plain) /\ Moves(path) \in Seq(Calm)
<1>1. ASSUME NEW s \in RunStates
      PROVE  <<"move", s>> \in Entry /\ <<"move", s>>[1] = "move"
  BY DEF Entry
<1>2. ASSUME NEW i \in 1 .. Len(path)
      PROVE  <<"move", path[i]>> \in Plain /\ <<"move", path[i]>> \in Calm
  <2>1. path[i] \in RunStates
    OBVIOUS
  <2> QED
    BY <1>1, <2>1 DEF Plain, Calm, CalmKinds, Chooses, Sending, Verdicts, Numbered
<1>3. Moves(path) = [i \in 1 .. Len(path) |-> <<"move", path[i]>>] /\ Len(path) \in Nat
  BY DEF Moves
<1> QED
  BY <1>2, <1>3

LEMMA SetInSequence ==
    ASSUME NEW T, NEW S \in SUBSET T, IsFiniteSet(S)
    PROVE  SetToSeq(S) \in Seq(T)
<1>1. Cardinality(S) \in Nat /\ ExistsBijection(1 .. Cardinality(S), S)
  BY FS_CardinalityType
<1>2. PICK f \in Bijection(1 .. Cardinality(S), S) : TRUE
  BY <1>1 DEF ExistsBijection
<1>3. f \in [1 .. Cardinality(S) -> S] /\ IsInjective(f)
  BY <1>2 DEF Bijection, Injection, IsInjective
<1>4. SetToSeq(S) \in [1 .. Cardinality(S) -> S]
  BY <1>3 DEF SetToSeq
<1> HIDE DEF SetToSeq
<1> QED
  BY <1>1, <1>4

-----------------------------------------------------------------------------
(* Agendas *)

\* A process under way has an agenda, and its head is an entry.
LEMMA UnderwayHas ==
    ASSUME CTypeOK, NEW c \in Commands, p[c] # Idle
    PROVE  /\ p[c] \in Underway
           /\ p[c].agenda \in Seq(Entry) /\ p[c].agenda # <<>>
           /\ Head(p[c].agenda) = p[c].agenda[1]
           /\ Head(p[c].agenda) \in Entry
           /\ Rest(c) \in Seq(Entry)
BY DEF CTypeOK, Underway, Rest

\* Going on, a process has the new agenda, or none; the others are as before.
LEMMA ContinueFrame ==
    ASSUME CTypeOK, NEW c \in Commands, NEW q \in Underway, NEW a \in Seq(Entry),
           Continue(c, q, a)
    PROVE  /\ p' \in [Commands -> Underway \cup {Idle}]
           /\ p'[c] # Idle => p'[c].agenda = a
           /\ a = <<>> => p'[c] = Idle
           /\ \A d \in Commands \ {c} : p'[d] = p[d]
<1> DEFINE e == [q EXCEPT !.agenda = a]
           r == IF a = <<>> THEN Idle ELSE e
<1>1. p' = [p EXCEPT ![c] = r]
  BY DEF Continue
<1>2. e.agenda = a /\ (a # <<>> => e \in Underway)
  BY DEF Underway
<1> HIDE DEF e
<1>3. r \in Underway \cup {Idle} /\ (r # Idle => r.agenda = a) /\ (a = <<>> => r = Idle)
  BY <1>2
<1> HIDE DEF r
<1> QED
  BY <1>1, <1>3 DEF CTypeOK

\* The agenda once its head is done and has put more before the rest.
LEMMA Spliced ==
    ASSUME NEW a \in Seq(Entry), a # <<>>, NEW more \in Seq(Entry)
    PROVE  LET b == more \o Tail(a) IN
           /\ b \in Seq(Entry)
           /\ \A k \in 1 .. Len(b) :
                \/ k \in 1 .. Len(more) /\ b[k] = more[k]
                \/ /\ k > Len(more) /\ k - Len(more) + 1 \in 2 .. Len(a)
                   /\ b[k] = a[k - Len(more) + 1]
OBVIOUS

\* Only some entries have targets.
LEMMA NoTargets ==
    ASSUME NEW e, e[1] \notin Chooses \cup {"wave"} \cup Sending
    PROVE  Targets(e) = {}
BY DEF Targets

LEMMA TargetsAre ==
    ASSUME NEW e
    PROVE  /\ e[1] \in {"list", "results", "contract", "await", "select"} => Targets(e) = Units
           /\ e[1] = "wave" => Targets(e) = e[2]
           /\ e[1] \in Sending => Targets(e) = {e[2]}
<1>1. CASE e[1] \in Chooses
  <2>1. e[1] # "wave" /\ e[1] \notin Sending
    BY <1>1 DEF Chooses, Sending
  <2> QED
    BY <1>1, <2>1 DEF Targets
<1>2. CASE e[1] \notin Chooses
  <2>1. "wave" \notin Sending
    BY DEF Sending
  <2> QED
    BY <1>2, <2>1 DEF Targets, Chooses
<1> QED
  BY <1>1, <1>2

LEMMA SpliceOrdered ==
    ASSUME NEW a \in Seq(Entry), a # <<>>, Ordered(a), a[1][1] # "accept",
           NEW more \in Seq(Entry), Ordered(more),
           \A k \in 1 .. Len(more) : Targets(more[k]) \subseteq Targets(a[1])
    PROVE  Ordered(more \o Tail(a))
<1> DEFINE b == more \o Tail(a)
           n == Len(more)
<1>1. /\ b \in Seq(Entry) /\ n \in Nat /\ Len(a) \in Nat /\ Len(b) \in Nat /\ Len(a) >= 1
      /\ \A k \in 1 .. Len(b) :
                \/ k \in 1 .. n /\ b[k] = more[k]
                \/ k > n /\ k - n + 1 \in 2 .. Len(a) /\ b[k] = a[k - n + 1]
  BY Spliced
<1> HIDE DEF b, n
<1>2. ASSUME NEW j \in 1 .. Len(b), NEW k \in 1 .. Len(b), j < k
      PROVE  Targets(b[j]) \cap Targets(b[k]) = {}
  <2>1. CASE k \in 1 .. n /\ b[k] = more[k]
    <3>1. j \in 1 .. n
      BY <1>1, <1>2, <2>1
    <3>2. b[j] = more[j]
      BY <1>1, <3>1
    <3> QED
      BY <1>2, <2>1, <3>1, <3>2 DEF Ordered, n
  <2>2. CASE k > n /\ k - n + 1 \in 2 .. Len(a) /\ b[k] = a[k - n + 1]
    <3>1. CASE j \in 1 .. n /\ b[j] = more[j]
      <4>1. Targets(b[j]) \subseteq Targets(a[1])
        BY <3>1 DEF n
      <4>2. 1 \in 1 .. Len(a) /\ k - n + 1 \in 1 .. Len(a) /\ 1 < k - n + 1
        BY <1>1, <2>2
      <4>3. Targets(a[1]) \cap Targets(a[k - n + 1]) = {}
        BY <4>2 DEF Ordered
      <4> QED
        BY <2>2, <4>1, <4>3
    <3>2. CASE j > n /\ j - n + 1 \in 2 .. Len(a) /\ b[j] = a[j - n + 1]
      <4>1. /\ j - n + 1 \in 1 .. Len(a) /\ k - n + 1 \in 1 .. Len(a)
            /\ j - n + 1 < k - n + 1
        BY <1>1, <1>2, <2>2, <3>2
      <4> QED
        BY <2>2, <3>2, <4>1 DEF Ordered
    <3> QED
      BY <1>1, <3>1, <3>2
  <2> QED
    BY <1>1, <2>1, <2>2
<1>3. ASSUME NEW k \in 2 .. Len(b)
      PROVE  /\ b[k][1] \notin {"check", "accept"}
             /\ b[k][1] = "done" => k = 2 /\ b[1][1] = "accept" /\ b[1][2] = b[2][2]
  <2>1. CASE k \in 1 .. n /\ b[k] = more[k]
    <3>1. 1 \in 1 .. Len(b) /\ b[1] = more[1]
      BY <1>1, <2>1
    <3>2. k \in 2 .. Len(more)
      BY <2>1 DEF n
    <3> QED
      BY <2>1, <3>1, <3>2 DEF Ordered
  <2>2. CASE k > n /\ k - n + 1 \in 2 .. Len(a) /\ b[k] = a[k - n + 1]
    BY <2>2 DEF Ordered
  <2> QED
    BY <1>1, <2>1, <2>2
<1> QED
  BY <1>2, <1>3 DEF Ordered, b

LEMMA SpliceFits ==
    ASSUME NEW a \in Seq(Entry), a # <<>>, a[1][1] # "accept",
           NEW us, NEW ds, NEW fs, NEW rev, Fits(a, us, ds, fs, rev),
           NEW more \in Seq(Entry), Fits(more, us, ds, fs, rev),
           \A k \in 1 .. Len(more) : Targets(more[k]) \subseteq Targets(a[1])
    PROVE  Fits(more \o Tail(a), us, ds, fs, rev)
<1> DEFINE b == more \o Tail(a)
           n == Len(more)
<1>1. /\ b \in Seq(Entry) /\ n \in Nat /\ Len(a) \in Nat /\ Len(b) \in Nat /\ Len(a) >= 1
      /\ \A k \in 1 .. Len(b) :
                \/ k \in 1 .. n /\ b[k] = more[k]
                \/ k > n /\ k - n + 1 \in 2 .. Len(a) /\ b[k] = a[k - n + 1]
  BY Spliced
<1>2. Ordered(b)
  BY SpliceOrdered DEF Fits
<1> HIDE DEF b, n
<1>3. ASSUME NEW k \in 1 .. Len(b)
      PROVE  Sound(b[k], us, ds, fs, rev)
  <2>1. CASE k \in 1 .. n /\ b[k] = more[k]
    BY <2>1 DEF Fits, n
  <2>2. CASE k > n /\ k - n + 1 \in 2 .. Len(a) /\ b[k] = a[k - n + 1]
    <3>1. k - n + 1 \in 1 .. Len(a)
      BY <1>1, <2>2
    <3> QED
      BY <2>2, <3>1 DEF Fits
  <2> QED
    BY <1>1, <2>1, <2>2
<1>4. Backed(b, us, ds)
  <2> SUFFICES ASSUME b # <<>>, b[1][1] = "done", us[b[1][2]].status = "RESULT_IN"
               PROVE  ProvenIn(us, ds, b[1][2])
    BY DEF Backed
  <2>1. 1 \in 1 .. Len(b)
    BY <1>1
  <2>2. CASE 1 \in 1 .. n /\ b[1] = more[1]
    <3>1. more # <<>>
      BY <2>2 DEF n
    <3> QED
      BY <2>2, <3>1 DEF Fits, Backed
  <2>3. CASE 1 > n /\ 1 - n + 1 \in 2 .. Len(a) /\ b[1] = a[1 - n + 1]
    <3>1. n = 0 /\ 2 \in 2 .. Len(a) /\ b[1] = a[2]
      BY <1>1, <2>3
    <3>2. a[1][1] = "accept"
      BY <3>1 DEF Fits, Ordered
    <3> QED
      BY <3>2
  <2> QED
    BY <1>1, <2>1, <2>2, <2>3
<1> QED
  BY <1>2, <1>3, <1>4 DEF Fits, b

\* Entries that choose nothing and judge nothing fit before any others.
Fitting(a) == Fits(a, units, dispatches, fences, contract.revision)

LEMMA PlainFits ==
    ASSUME NEW more \in Seq(Plain)
    PROVE  /\ more \in Seq(Entry)
           /\ Fitting(more)
           /\ \A k \in 1 .. Len(more) : Targets(more[k]) = {}
<1>1. more \in Seq(Entry)
  BY DEF Plain
<1>2. ASSUME NEW k \in 1 .. Len(more)
      PROVE  /\ more[k] \in Plain
             /\ Targets(more[k]) = {}
             /\ more[k][1] \notin {"check", "accept", "done"}
             /\ Sound(more[k], units, dispatches, fences, contract.revision)
  <2>1. more[k] \in Plain
    OBVIOUS
  <2>2. Targets(more[k]) = {}
    BY <2>1, NoTargets DEF Plain
  <2> QED
    BY <2>1, <2>2 DEF Plain, Sound, Sending, Chooses, Verdicts
<1>3. Ordered(more)
  BY <1>2 DEF Ordered
<1>4. Backed(more, units, dispatches)
  BY <1>1, <1>2 DEF Backed
<1> QED
  BY <1>1, <1>2, <1>3, <1>4 DEF Fits, Fitting

\* So does the agenda of a process that drives nothing, whatever the tables.
LEMMA CalmFits ==
    ASSUME NEW a \in Seq(Calm), NEW us, NEW ds, NEW fs, NEW rev
    PROVE  Fits(a, us, ds, fs, rev)
<1>1. ASSUME NEW k \in 1 .. Len(a)
      PROVE  /\ a[k] \in Calm
             /\ Targets(a[k]) = {}
             /\ a[k][1] \notin {"check", "accept", "done"}
             /\ Sound(a[k], us, ds, fs, rev)
  <2>1. a[k] \in Calm
    OBVIOUS
  <2>2. Targets(a[k]) = {}
    BY <2>1, NoTargets DEF Calm, CalmKinds, Chooses, Sending
  <2> QED
    BY <2>1, <2>2 DEF Calm, CalmKinds, Sound, Sending, Numbered
<1>2. Ordered(a)
  BY <1>1 DEF Ordered
<1>3. Backed(a, us, ds)
  BY <1>1 DEF Backed
<1> QED
  BY <1>1, <1>2, <1>3 DEF Fits

-----------------------------------------------------------------------------
(* What a transaction keeps *)

\* Attempts are sent to T only, none is taken back, and a verdict stands.
Grows(T) ==
    /\ \A u \in Units \ T : AwaitedIn(dispatches', u) \subseteq AwaitedIn(dispatches, u)
    /\ \A u \in Units : \A i \in DOMAIN dispatches[u] :
         /\ i \in DOMAIN dispatches'[u]
         /\ dispatches[u][i].status = "VERIFIED" => dispatches'[u][i] = dispatches[u][i]
    /\ \A u \in Units : fences[u].id <= fences'[u].id
    /\ contract.revision <= contract'.revision

\* No unit gets a result, or gets done; one that has is defined as before.
SameWork ==
    \A u \in Units : units'[u].status \in {"RESULT_IN", "DONE"} =>
        units'[u].status = units[u].status /\ units'[u].def = units[u].def

LEMMA ProvenKept ==
    ASSUME NEW T, Grows(T), NEW u \in Units, units'[u].def = units[u].def,
           ProvenIn(units, dispatches, u)
    PROVE  ProvenIn(units', dispatches', u)
<1>1. PICK i \in DOMAIN dispatches[u] :
        dispatches[u][i].status = "VERIFIED" /\ dispatches[u][i].judged = units[u].def
  BY DEF ProvenIn
<1>2. i \in DOMAIN dispatches'[u] /\ dispatches'[u][i] = dispatches[u][i]
  BY <1>1 DEF Grows
<1> QED
  BY <1>1, <1>2 DEF ProvenIn

\* An entry that is no verdict keeps its ground while others are sent.
LEMMA SoundGrows ==
    ASSUME RTypeOK, RTypeOK', NEW T, Grows(T), NEW e \in Entry, e[1] \notin {"check", "accept"},
           Targets(e) \cap T = {},
           Sound(e, units, dispatches, fences, contract.revision)
    PROVE  Sound(e, units', dispatches', fences', contract'.revision)
<1>1. contract.revision \in Nat /\ contract'.revision \in Nat
  BY DEF RTypeOK
<1>2. \A u \in Units : fences[u].id \in Nat /\ fences'[u].id \in Nat
  BY DEF RTypeOK
<1>3. 1 .. contract.revision \subseteq 1 .. contract'.revision
  BY <1>1 DEF Grows
<1>4. ASSUME e[1] \in {"select", "wave"} \cup Sending, NEW u \in Targets(e)
      PROVE  AwaitedIn(dispatches', u) = {}
  <2>1. Targets(e) \subseteq Units
    BY EntryShape, <1>4 DEF Targets, Sending, Chooses
  <2>2. u \in Units \ T /\ AwaitedIn(dispatches, u) = {}
    BY <1>4, <2>1 DEF Sound
  <2>3. AwaitedIn(dispatches', u) \subseteq AwaitedIn(dispatches, u)
    BY <2>2 DEF Grows
  <2> QED
    BY <2>2, <2>3
<1>5. ASSUME e[1] \in Numbered
      PROVE  e[3] \in DOMAIN dispatches'[e[2]]
  <2>1. e[2] \in Units
    BY <1>5, EntryShape DEF Numbered
  <2>2. e[3] \in DOMAIN dispatches[e[2]]
    BY <1>5 DEF Sound
  <2> QED
    BY <2>1, <2>2 DEF Grows
<1>6. ASSUME e[1] = "claim"
      PROVE  e[3] <= fences'[e[2]].id
  <2>1. e[2] \in Units /\ e[3] \in Nat
    BY <1>6, EntryShape
  <2>2. e[3] <= fences[e[2]].id
    BY <1>6 DEF Sound
  <2>3. fences[e[2]].id <= fences'[e[2]].id
    BY <2>1 DEF Grows
  <2> QED
    BY <1>2, <2>1, <2>2, <2>3
<1> QED
  BY <1>3, <1>4, <1>5, <1>6 DEF Sound

LEMMA FitsKept ==
    ASSUME RTypeOK, RTypeOK', Grows({}), SameWork, NEW a \in Seq(Entry), Fitting(a)
    PROVE  Fits(a, units', dispatches', fences', contract'.revision)
<1>1. ASSUME NEW k \in 1 .. Len(a)
      PROVE  Sound(a[k], units', dispatches', fences', contract'.revision)
  <2>1. a[k] \in Entry /\ Sound(a[k], units, dispatches, fences, contract.revision)
    BY DEF Fitting, Fits
  <2>2. CASE a[k][1] \notin {"check", "accept"}
    BY <2>1, <2>2, SoundGrows
  <2>3. CASE a[k][1] \in {"check", "accept"}
    <3>1. a[k][2] \in Units
      BY <2>1, <2>3, EntryShape
    <3>2. a[k][1] \in Numbered => a[k][3] \in DOMAIN dispatches'[a[k][2]]
      BY <2>1, <3>1 DEF Grows, Sound
    <3>3. \A def : StillDefined(units, a[k][2], def) => StillDefined(units', a[k][2], def)
      BY <3>1 DEF SameWork, StillDefined
    <3> QED
      BY <2>1, <2>3, <3>2, <3>3 DEF Sound, Sending
  <2> QED
    BY <2>2, <2>3
<1>2. Backed(a, units', dispatches')
  <2> SUFFICES ASSUME a # <<>>, a[1][1] = "done", units'[a[1][2]].status = "RESULT_IN"
               PROVE  ProvenIn(units', dispatches', a[1][2])
    BY DEF Backed
  <2>1. a[1] \in Entry
    OBVIOUS
  <2>2. a[1][2] \in Units
    BY <2>1, EntryShape
  <2>3. units[a[1][2]].status = "RESULT_IN" /\ units'[a[1][2]].def = units[a[1][2]].def
    BY <2>2 DEF SameWork
  <2>4. ProvenIn(units, dispatches, a[1][2])
    BY <2>3 DEF Fitting, Fits, Backed
  <2> QED
    BY <2>2, <2>3, <2>4, ProvenKept
<1> QED
  BY <1>1, <1>2 DEF Fits, Fitting

-----------------------------------------------------------------------------
(* What a step has to show *)

AwaitedOnce == \A u \in Units : \A i, j \in AwaitedIn(dispatches, u) : i = j

\* Whoever does what no plan and no stop does drives the run.
LEMMA OnlyDriversDo ==
    ASSUME CInv, NEW c \in Commands, p[c] # Idle, Head(p[c].agenda)[1] \notin CalmKinds
    PROVE  Drives(c)
<1>1. p[c].agenda # <<>> /\ p[c].agenda \in Seq(Entry)
  BY UnderwayHas DEF CInv
<1>2. ASSUME p[c].agenda \in Seq(Calm)
      PROVE  FALSE
  <2>1. Head(p[c].agenda) \in Calm
    BY <1>1, <1>2
  <2> QED
    BY <2>1 DEF Calm
<1> QED
  BY <1>2 DEF CInv

\* A process that stands still keeps its ground when the tables keep theirs,
\* or when it has none to lose.
LEMMA OthersFit ==
    ASSUME CInv, RTypeOK', NEW d \in Commands, p[d] # Idle, p'[d] = p[d],
           (Grows({}) /\ SameWork) \/ ~Drives(d)
    PROVE  /\ Fits(p'[d].agenda, units', dispatches', fences', contract'.revision)
           /\ ~Drives(d) => p'[d].agenda \in Seq(Calm)
<1>1. p[d].agenda \in Seq(Entry) /\ Fitting(p[d].agenda)
  BY UnderwayHas DEF CInv, Fitting
<1>2. CASE Grows({}) /\ SameWork
  BY <1>1, <1>2, FitsKept DEF CInv, CTypeOK
<1>3. CASE ~Drives(d)
  BY <1>3, CalmFits DEF CInv
<1> QED
  BY <1>2, <1>3 DEF CInv

LEMMA WorkKept ==
    ASSUME CInv, Grows({}), SameWork
    PROVE  DoneAsDefined' /\ AwaitedOnce'
<1>1. ASSUME NEW u \in Units, units'[u].status = "DONE"
      PROVE  ProvenIn(units', dispatches', u)
  <2>1. units[u].status = "DONE" /\ units'[u].def = units[u].def
    BY <1>1 DEF SameWork
  <2>2. ProvenIn(units, dispatches, u)
    BY <2>1 DEF CInv, DoneAsDefined, DoneUnits, ProvenIn
  <2> QED
    BY <2>1, <2>2, ProvenKept
<1>2. DoneAsDefined'
  BY <1>1 DEF DoneAsDefined, DoneUnits, ProvenIn
<1>3. ASSUME NEW u \in Units
      PROVE  \A i, j \in AwaitedIn(dispatches', u) : i = j
  <2>1. AwaitedIn(dispatches', u) \subseteq AwaitedIn(dispatches, u)
    BY DEF Grows
  <2> QED
    BY <2>1 DEF CInv
<1> QED
  BY <1>2, <1>3 DEF AwaitedOnce

LEMMA StepOK ==
    ASSUME CInv, OneDriver, NEW c \in Commands, RTypeOK', spent' \in [Events -> Nat],
           p' \in [Commands -> Underway \cup {Idle}],
           \A d \in Commands \ {c} : p'[d] = p[d],
           p'[c] # Idle =>
             /\ Fits(p'[c].agenda, units', dispatches', fences', contract'.revision)
             /\ ~Drives(c) => p'[c].agenda \in Seq(Calm),
           (Grows({}) /\ SameWork) \/ Drives(c),
           DoneAsDefined', AwaitedOnce'
    PROVE  CInv'
<1>1. CTypeOK'
  BY DEF CTypeOK
<1>2. ASSUME NEW d \in Commands, p'[d] # Idle
      PROVE  /\ Fits(p'[d].agenda, units', dispatches', fences', contract'.revision)
             /\ ~Drives(d) => p'[d].agenda \in Seq(Calm)
  <2>1. CASE d = c
    BY <1>2, <2>1
  <2>2. CASE d # c
    <3>1. p'[d] = p[d] /\ p[d] # Idle
      BY <1>2, <2>2
    <3>2. (Grows({}) /\ SameWork) \/ ~Drives(d)
      BY <2>2 DEF OneDriver
    <3> QED
      BY <3>1, <3>2, OthersFit
  <2> QED
    BY <2>1, <2>2
<1> QED
  BY <1>1, <1>2 DEF CInv, AwaitedOnce, Drives

\* A step that keeps its ground and puts before the rest what fits there.
LEMMA KeepStep ==
    ASSUME CInv, OneDriver, NEW c \in Commands, p[c] # Idle, RTypeOK', UNCHANGED spent,
           Grows({}), SameWork,
           NEW q \in Underway, NEW more \in Seq(Entry), Continue(c, q, more \o Rest(c)),
           Head(p[c].agenda)[1] # "accept",
           Fits(more, units', dispatches', fences', contract'.revision),
           \A k \in 1 .. Len(more) : Targets(more[k]) \subseteq Targets(Head(p[c].agenda)),
           ~Drives(c) => more \in Seq(Calm)
    PROVE  CInv'
<1> DEFINE a == p[c].agenda
           b == more \o Rest(c)
<1>1. CTypeOK /\ RTypeOK /\ spent' \in [Events -> Nat]
  BY DEF CInv, CTypeOK
<1>2. /\ a \in Seq(Entry) /\ a # <<>> /\ Head(a) = a[1] /\ Rest(c) \in Seq(Entry)
      /\ Rest(c) = Tail(a)
  BY <1>1, UnderwayHas DEF Rest
<1>3. Fitting(a)
  BY DEF CInv, Fitting
<1>4. Fits(a, units', dispatches', fences', contract'.revision)
  BY <1>1, <1>2, <1>3, FitsKept
<1>5. b \in Seq(Entry) /\ Fits(b, units', dispatches', fences', contract'.revision)
  <2>1. more \o Tail(a) \in Seq(Entry)
    BY <1>2
  <2>2. a[1][1] # "accept"
    BY <1>2
  <2>3. \A k \in 1 .. Len(more) : Targets(more[k]) \subseteq Targets(a[1])
    BY <1>2
  <2> HIDE DEF a
  <2>4. Fits(more \o Tail(a), units', dispatches', fences', contract'.revision)
    BY <1>2, <1>4, <2>2, <2>3, SpliceFits
  <2> QED
    BY <1>2, <2>1, <2>4
<1>6. ~Drives(c) => b \in Seq(Calm)
  <2> SUFFICES ASSUME ~Drives(c) PROVE b \in Seq(Calm)
    OBVIOUS
  <2>1. a \in Seq(Calm)
    BY DEF CInv
  <2>2. Tail(a) \in Seq(Calm)
    BY <1>2, <2>1
  <2> QED
    BY <1>2, <2>2
<1>7. /\ p' \in [Commands -> Underway \cup {Idle}]
      /\ p'[c] # Idle => p'[c].agenda = b
      /\ \A d \in Commands \ {c} : p'[d] = p[d]
  BY <1>1, <1>5, ContinueFrame
<1>8. DoneAsDefined' /\ AwaitedOnce'
  BY WorkKept
<1> HIDE DEF a, b
<1> QED
  BY <1>1, <1>5, <1>6, <1>7, <1>8, StepOK

\* A step after which nothing is left to do.
LEMMA LastStep ==
    ASSUME CInv, OneDriver, NEW c \in Commands, RTypeOK', spent' \in [Events -> Nat],
           Grows({}), SameWork,
           NEW q \in Underway, Continue(c, q, <<>>)
    PROVE  CInv'
<1>1. CTypeOK /\ <<>> \in Seq(Entry)
  BY DEF CInv
<1>2. /\ p' \in [Commands -> Underway \cup {Idle}]
      /\ p'[c] = Idle
      /\ \A d \in Commands \ {c} : p'[d] = p[d]
  BY <1>1, ContinueFrame
<1>3. DoneAsDefined' /\ AwaitedOnce'
  BY WorkKept
<1> QED
  BY <1>2, <1>3, StepOK

LEMMA StandStill ==
    ASSUME CInv, UNCHANGED tables
    PROVE  RTypeOK' /\ Grows({}) /\ SameWork
<1>1. RTypeOK /\ contract.revision \in Nat /\ \A u \in Units : fences[u].id \in Nat
  BY DEF CInv, CTypeOK, RTypeOK
<1>2. RTypeOK'
  BY <1>1 DEF RTypeOK, tables, Planned
<1> QED
  BY <1>1, <1>2 DEF Grows, SameWork, tables

\* What an action puts on an agenda, to be carried out in the tables it leaves.
LEMMA AddStep ==
    ASSUME CInv, OneDriver, NEW c \in Commands, p[c] # Idle, RTypeOK', UNCHANGED spent,
           Grows({}), SameWork,
           NEW q \in Underway, NEW more \in Seq(Entry), Continue(c, q, more \o Rest(c)),
           Head(p[c].agenda)[1] # "accept", Fitting(more),
           \A k \in 1 .. Len(more) : Targets(more[k]) \subseteq Targets(Head(p[c].agenda)),
           ~Drives(c) => more \in Seq(Calm)
    PROVE  CInv'
<1>1. Fits(more, units', dispatches', fences', contract'.revision)
  BY FitsKept DEF CInv, CTypeOK
<1> QED
  BY <1>1, KeepStep

\* Most decisions: what is added chooses nothing and judges nothing.
LEMMA PlainStep ==
    ASSUME CInv, OneDriver, NEW c \in Commands, p[c] # Idle, RTypeOK', UNCHANGED spent,
           Grows({}), SameWork,
           NEW q \in Underway, NEW more \in Seq(Plain), Continue(c, q, more \o Rest(c)),
           Head(p[c].agenda)[1] # "accept", ~Drives(c) => more \in Seq(Calm)
    PROVE  CInv'
<1>1. /\ more \in Seq(Entry) /\ Fitting(more)
      /\ \A k \in 1 .. Len(more) : Targets(more[k]) \subseteq Targets(Head(p[c].agenda))
  BY PlainFits
<1> QED
  BY <1>1, AddStep

LEMMA PlainDecide ==
    ASSUME CInv, OneDriver, NEW c \in Commands, p[c] # Idle, UNCHANGED spent,
           Head(p[c].agenda)[1] # "accept",
           NEW more \in Seq(Plain), ~Drives(c) => more \in Seq(Calm),
           Decide(c, more)
    PROVE  CInv'
<1>1. p[c] \in Underway
  BY UnderwayHas DEF CInv
<1>2. RTypeOK' /\ Grows({}) /\ SameWork
  BY StandStill DEF Decide
<1>3. Continue(c, p[c], more \o Rest(c))
  BY DEF Decide
<1> QED
  BY <1>1, <1>2, <1>3, PlainStep

LEMMA AddDecide ==
    ASSUME CInv, OneDriver, NEW c \in Commands, p[c] # Idle, UNCHANGED spent, Drives(c),
           Head(p[c].agenda)[1] # "accept",
           NEW more \in Seq(Entry), Fitting(more),
           \A k \in 1 .. Len(more) : Targets(more[k]) \subseteq Targets(Head(p[c].agenda)),
           Decide(c, more)
    PROVE  CInv'
<1>1. p[c] \in Underway
  BY UnderwayHas DEF CInv
<1>2. RTypeOK' /\ Grows({}) /\ SameWork
  BY StandStill DEF Decide
<1>3. Continue(c, p[c], more \o Rest(c))
  BY DEF Decide
<1> QED
  BY <1>1, <1>2, <1>3, AddStep

LEMMA EndDecide ==
    ASSUME CInv, OneDriver, NEW c \in Commands, p[c] # Idle, spent' \in [Events -> Nat],
           UNCHANGED tables, Continue(c, p[c], <<>>)
    PROVE  CInv'
<1>1. p[c] \in Underway
  BY UnderwayHas DEF CInv
<1>2. RTypeOK' /\ Grows({}) /\ SameWork
  BY StandStill
<1> QED
  BY <1>1, <1>2, LastStep

-----------------------------------------------------------------------------
(* The transactions: they keep the types, and most keep the ground *)

\* The type of the tables, in the parts that transactions change.
RowsOK(us, fs) ==
    /\ us \in [Units -> UnitRow]
    /\ \A u \in Units :
         /\ us[u].status = "UNPLANNED" => us[u] = Unplanned
         /\ us[u].deps \subseteq {v \in Units : us[v].status # "UNPLANNED"}
         /\ us[u].fence <= fs[u].id
         /\ us[u].status = "FAILED" => us[u].retries > RetryCeiling
AttemptsOK(ds, rev) ==
    /\ ds \in [Units -> Seq(Attempt)]
    /\ \A u \in Units : \A i \in DOMAIN ds[u] : ds[u][i].revision \in 1 .. rev
OthersOK ==
    /\ run \in RunStates
    /\ driver \in Sessions
    /\ fences \in [Units -> [id : Nat, live : BOOLEAN, by : Sessions]]
    /\ gated \subseteq Lanes
    /\ contract \in [state : {"live", "paused", "dead"}, revision : Nat \ {0},
                     forbids : SUBSET Units]

LEMMA TypeParts ==
    /\ RTypeOK <=> /\ OthersOK /\ RowsOK(units, fences)
                   /\ AttemptsOK(dispatches, contract.revision)
    /\ RTypeOK' <=> /\ OthersOK' /\ RowsOK(units', fences')
                    /\ AttemptsOK(dispatches', contract'.revision)
BY DEF RTypeOK, OthersOK, RowsOK, AttemptsOK, Planned

LEMMA NumbersOK ==
    ASSUME RTypeOK
    PROVE  /\ contract.revision \in Nat /\ contract.revision >= 1
           /\ \A u \in Units : /\ fences[u].id \in Nat /\ units[u].fence \in Nat
                               /\ units[u].retries \in Nat /\ units[u].def \in Nat
                               /\ units[u].deps \subseteq Units /\ units[u] \in UnitRow
                               /\ units[u].status \in UnitStatus
                               /\ Len(dispatches[u]) \in Nat
                               /\ DOMAIN dispatches[u] = 1 .. Len(dispatches[u])
BY DEF RTypeOK, UnitRow

\* A row that may take the place of the row of a unit.
NewRow(u, row) ==
    /\ row \in UnitRow
    /\ row.status # "UNPLANNED"
    /\ row.deps = units[u].deps
    /\ row.fence <= fences[u].id
    /\ row.status = "FAILED" => row.retries > RetryCeiling

LEMMA RowsChange ==
    ASSUME RTypeOK, NEW us \in [Units -> UnitRow],
           \A u \in Units : us[u] = units[u] \/ NewRow(u, us[u])
    PROVE  RowsOK(us, fences)
<1>1. ASSUME NEW u \in Units
      PROVE  /\ us[u].status = "UNPLANNED" => us[u] = Unplanned
             /\ us[u].deps = units[u].deps
             /\ us[u].fence <= fences[u].id
             /\ us[u].status = "FAILED" => us[u].retries > RetryCeiling
             /\ units[u].status # "UNPLANNED" => us[u].status # "UNPLANNED"
  BY DEF RTypeOK, NewRow
<1>2. ASSUME NEW u \in Units
      PROVE  us[u].deps \subseteq {v \in Units : us[v].status # "UNPLANNED"}
  BY <1>1 DEF RTypeOK, Planned
<1> QED
  BY <1>1, <1>2 DEF RowsOK

\* Tables that keep all but the rows of units.
LEMMA UnitsChange ==
    ASSUME RTypeOK, NEW us \in [Units -> UnitRow], units' = us,
           \A u \in Units : us[u] = units[u] \/ NewRow(u, us[u]),
           UNCHANGED <<run, driver, dispatches, fences, gated, contract>>
    PROVE  RTypeOK' /\ Grows({})
<1>1. RowsOK(us, fences)
  BY RowsChange
<1>2. RTypeOK'
  BY <1>1, TypeParts DEF OthersOK, AttemptsOK
<1>3. Grows({})
  BY NumbersOK DEF Grows
<1> QED
  BY <1>2, <1>3

LEMMA UnitChange ==
    ASSUME RTypeOK, NEW u \in Units, NEW row, NewRow(u, row), SetUnit(u, row),
           UNCHANGED <<dispatches, fences>>, KeepAllBut
    PROVE  /\ RTypeOK' /\ Grows({})
           /\ units'[u] = row
           /\ \A v \in Units \ {u} : units'[v] = units[v]
           /\ row.status \notin {"RESULT_IN", "DONE"} => SameWork
<1>1. /\ units' \in [Units -> UnitRow]
      /\ units'[u] = row
      /\ \A v \in Units \ {u} : units'[v] = units[v]
  BY DEF SetUnit, NewRow, RTypeOK
<1>2. \A v \in Units : units'[v] = units[v] \/ NewRow(v, units'[v])
  BY <1>1
<1>3. RTypeOK' /\ Grows({})
  BY <1>1, <1>2, UnitsChange DEF KeepAllBut
<1>4. row.status \notin {"RESULT_IN", "DONE"} => SameWork
  BY <1>1 DEF SameWork
<1> QED
  BY <1>1, <1>3, <1>4

\* Transactions that leave units and dispatches alone.
LEMMA SideChange ==
    ASSUME RTypeOK, UNCHANGED <<units, dispatches>>, OthersOK',
           contract.revision <= contract'.revision,
           \A u \in Units : fences[u].id <= fences'[u].id
    PROVE  RTypeOK' /\ Grows({}) /\ SameWork
<1>1. RowsOK(units', fences')
  <2>1. \A u \in Units : fences[u].id \in Nat /\ fences'[u].id \in Nat /\ units[u].fence \in Nat
    BY NumbersOK DEF OthersOK
  <2> QED
    BY <2>1, TypeParts DEF RowsOK
<1>2. AttemptsOK(dispatches', contract'.revision)
  <2>1. contract.revision \in Nat /\ contract'.revision \in Nat
    BY DEF RTypeOK, OthersOK
  <2>2. 1 .. contract.revision \subseteq 1 .. contract'.revision
    BY <2>1
  <2> QED
    BY <2>2, TypeParts DEF AttemptsOK
<1> QED
  BY <1>1, <1>2, TypeParts DEF Grows, SameWork

LEMMA MoveKeeps ==
    ASSUME RTypeOK, NEW s \in RunStates, SetRunState(s)
    PROVE  RTypeOK' /\ Grows({}) /\ SameWork
BY SideChange, NumbersOK, TypeParts DEF SetRunState, OthersOK

LEMMA ReleaseKeeps ==
    ASSUME RTypeOK, NEW u \in Units, NEW n, ReleaseFence(u, n)
    PROVE  RTypeOK' /\ Grows({}) /\ SameWork
<1> DEFINE f == [fences[u] EXCEPT !.live = FALSE]
<1>1. fences \in [Units -> [id : Nat, live : BOOLEAN, by : Sessions]]
  BY DEF RTypeOK
<1>2. f \in [id : Nat, live : BOOLEAN, by : Sessions] /\ f.id = fences[u].id
  BY <1>1
<1>3. fences' = [fences EXCEPT ![u] = f] \/ fences' = fences
  BY DEF ReleaseFence
<1> HIDE DEF f
<1>4. /\ fences' \in [Units -> [id : Nat, live : BOOLEAN, by : Sessions]]
      /\ \A v \in Units : fences'[v].id = fences[v].id
  BY <1>1, <1>2, <1>3
<1>5. \A v \in Units : fences[v].id <= fences'[v].id
  BY <1>4, NumbersOK
<1>6. UNCHANGED <<run, driver, units, dispatches, gated, contract>>
  BY DEF ReleaseFence
<1>7. OthersOK'
  BY <1>4, <1>6, TypeParts DEF OthersOK
<1> QED
  BY <1>5, <1>6, <1>7, SideChange, NumbersOK

LEMMA ClaimFenceKeeps ==
    ASSUME RTypeOK, NEW u \in Units, NEW s \in Sessions, ClaimFence(u, s)
    PROVE  /\ RTypeOK' /\ Grows({}) /\ SameWork
           /\ FenceFor(u) \in Nat /\ fences'[u].id = FenceFor(u)
<1> DEFINE f == [id |-> FenceFor(u), live |-> TRUE, by |-> s]
<1>1. fences \in [Units -> [id : Nat, live : BOOLEAN, by : Sessions]]
  BY DEF RTypeOK
<1>2. /\ f \in [id : Nat, live : BOOLEAN, by : Sessions] /\ f.id = FenceFor(u)
      /\ fences[u].id \in Nat /\ fences[u].id <= FenceFor(u) /\ FenceFor(u) \in Nat
  BY <1>1 DEF FenceFor
<1>3. fences' = [fences EXCEPT ![u] = f]
  BY DEF ClaimFence
<1> HIDE DEF f
<1>4. /\ fences' \in [Units -> [id : Nat, live : BOOLEAN, by : Sessions]]
      /\ \A v \in Units \ {u} : fences'[v] = fences[v]
      /\ fences'[u].id = FenceFor(u)
  BY <1>1, <1>2, <1>3
<1>5. \A v \in Units : fences[v].id <= fences'[v].id
  <2> TAKE v \in Units
  <2>1. CASE v = u
    BY <1>2, <1>4, <2>1
  <2>2. CASE v # u
    BY <1>4, <2>2, NumbersOK
  <2> QED
    BY <2>1, <2>2
<1>6. UNCHANGED <<run, driver, units, dispatches, gated, contract>>
  BY DEF ClaimFence
<1>7. OthersOK'
  BY <1>4, <1>6, TypeParts DEF OthersOK
<1> QED
  BY <1>2, <1>4, <1>5, <1>6, <1>7, SideChange, NumbersOK

LEMMA QueueKeeps ==
    ASSUME RTypeOK, NEW u \in Units, QueueHumanStep(u)
    PROVE  RTypeOK' /\ Grows({}) /\ SameWork
<1>1. Lane[u] \in Lanes
  BY UnitAssumptions
<1> QED
  BY <1>1, SideChange, NumbersOK, TypeParts DEF QueueHumanStep, OthersOK

LEMMA BlockKeeps ==
    ASSUME RTypeOK, NEW l, BlockLaneUnits(l) \/ UnblockLaneUnits(l)
    PROVE  RTypeOK' /\ Grows({}) /\ SameWork
<1>1. /\ DOMAIN units' = Units /\ units' = [u \in Units |-> units'[u]]
      /\ UNCHANGED <<run, driver, dispatches, fences, gated, contract>>
  BY DEF BlockLaneUnits, UnblockLaneUnits, KeepAllBut
<1>2. ASSUME NEW u \in Units
      PROVE  \/ units'[u] = units[u]
             \/ /\ NewRow(u, units'[u])
                /\ units'[u].status \notin {"RESULT_IN", "DONE"}
  <2>1. \/ units'[u] = units[u]
        \/ \E s \in {"BLOCKED", "READY", "PENDING"} : units'[u] = [units[u] EXCEPT !.status = s]
    BY DEF BlockLaneUnits, UnblockLaneUnits, StatusFor
  <2>2. ASSUME NEW s \in {"BLOCKED", "READY", "PENDING"}, units'[u] = [units[u] EXCEPT !.status = s]
        PROVE  NewRow(u, units'[u]) /\ units'[u].status = s
    <3>1. units[u] \in UnitRow
      BY NumbersOK
    <3>2. /\ units'[u] \in UnitRow /\ units'[u].status = s /\ units'[u].deps = units[u].deps
          /\ units'[u].fence = units[u].fence
      BY <2>2, <3>1 DEF UnitRow, UnitStatus
    <3> QED
      BY <3>2 DEF RTypeOK, NewRow
  <2> QED
    BY <2>1, <2>2
<1>3. units' \in [Units -> UnitRow]
  BY <1>1, <1>2, NumbersOK DEF NewRow
<1>4. RTypeOK' /\ Grows({})
  BY <1>1, <1>2, <1>3, UnitsChange
<1>5. SameWork
  BY <1>2 DEF SameWork
<1> QED
  BY <1>4, <1>5

LEMMA FailKeeps ==
    ASSUME RTypeOK, NEW u \in Units, MarkUnitFailed(u)
    PROVE  RTypeOK' /\ Grows({}) /\ SameWork
<1> DEFINE row == [units[u] EXCEPT
                    !.retries = units[u].retries + 1,
                    !.status = IF units[u].retries < RetryCeiling THEN "READY" ELSE "FAILED"]
<1>1. SetUnit(u, row)
  BY DEF MarkUnitFailed, SetUnit
<1>2. RetryCeiling \in Nat
  BY UnitAssumptions
<1>3. /\ units[u] \in UnitRow /\ units[u].retries \in Nat /\ units[u].fence <= fences[u].id
  BY DEF RTypeOK, UnitRow
<1>4. /\ row \in UnitRow /\ row.deps = units[u].deps /\ row.fence = units[u].fence
      /\ row.status \in {"READY", "FAILED"}
      /\ row.status = "FAILED" => row.retries > RetryCeiling
  <2> DEFINE s == IF units[u].retries < RetryCeiling THEN "READY" ELSE "FAILED"
  <2>1. s \in {"READY", "FAILED"} /\ (s = "FAILED" => units[u].retries + 1 > RetryCeiling)
    BY <1>2, <1>3
  <2>2. row = [units[u] EXCEPT !.retries = units[u].retries + 1, !.status = s]
    OBVIOUS
  <2>3. units[u].retries + 1 \in Nat
    BY <1>3
  <2> HIDE DEF s, row
  <2> QED
    BY <1>3, <2>1, <2>2, <2>3 DEF UnitRow, UnitStatus
<1>5. NewRow(u, row)
  BY <1>3, <1>4 DEF NewRow
<1> HIDE DEF row
<1> QED
  BY <1>1, <1>4, <1>5, UnitChange DEF MarkUnitFailed

LEMMA FreeKeeps ==
    ASSUME RTypeOK, NEW u \in Units, ReleaseClaimedUnit(u)
    PROVE  RTypeOK' /\ Grows({}) /\ SameWork
<1> DEFINE row == [units[u] EXCEPT !.status = StatusFor(units[u].deps), !.fence = 0]
<1>1. SetUnit(u, row)
  BY DEF ReleaseClaimedUnit
<1>2. units[u] \in UnitRow /\ fences[u].id \in Nat
  BY NumbersOK
<1>3. /\ row \in UnitRow /\ row.deps = units[u].deps /\ row.fence = 0
      /\ row.status \in {"READY", "PENDING"}
  BY <1>2 DEF UnitRow, UnitStatus, StatusFor
<1>4. NewRow(u, row)
  BY <1>2, <1>3 DEF NewRow
<1> HIDE DEF row
<1> QED
  BY <1>1, <1>3, <1>4, UnitChange DEF ReleaseClaimedUnit

LEMMA ClaimKeeps ==
    ASSUME RTypeOK, NEW u \in Units, NEW n \in Nat, n <= fences[u].id, ClaimUnit(u, n)
    PROVE  RTypeOK' /\ Grows({}) /\ SameWork
<1> DEFINE row == [units[u] EXCEPT !.status = "CLAIMED", !.fence = n]
<1>1. SetUnit(u, row)
  BY DEF ClaimUnit
<1>2. units[u] \in UnitRow
  BY NumbersOK
<1>3. /\ row \in UnitRow /\ row.deps = units[u].deps /\ row.fence = n
      /\ row.status = "CLAIMED"
  BY <1>2 DEF UnitRow, UnitStatus
<1>4. NewRow(u, row)
  BY <1>3 DEF NewRow
<1> HIDE DEF row
<1> QED
  BY <1>1, <1>3, <1>4, UnitChange DEF ClaimUnit

LEMMA DoneKeeps ==
    ASSUME RTypeOK, NEW u \in Units, MarkUnitDone(u)
    PROVE  /\ RTypeOK' /\ Grows({})
           /\ units'[u].status = "DONE" /\ units'[u].def = units[u].def
           /\ \A v \in Units \ {u} : units'[v] = units[v]
           /\ UNCHANGED <<run, driver, dispatches, fences, gated, contract>>
<1> DEFINE row == [units[u] EXCEPT !.status = "DONE"]
<1>1. SetUnit(u, row)
  BY DEF MarkUnitDone
<1>2. units[u] \in UnitRow /\ units[u].fence <= fences[u].id
  BY NumbersOK DEF RTypeOK
<1>3. /\ row \in UnitRow /\ row.deps = units[u].deps /\ row.fence = units[u].fence
      /\ row.status = "DONE" /\ row.def = units[u].def
  BY <1>2 DEF UnitRow, UnitStatus
<1>4. NewRow(u, row)
  BY <1>2, <1>3 DEF NewRow
<1> HIDE DEF row
<1> QED
  BY <1>1, <1>3, <1>4, UnitChange DEF MarkUnitDone, KeepAllBut

\* One attempt changes: attempt i of u is now att.
Altered(u, i, att) == dispatches' = [dispatches EXCEPT ![u] = [dispatches[u] EXCEPT ![i] = att]]

LEMMA AttemptAltered ==
    ASSUME RTypeOK, NEW u \in Units, NEW i \in DOMAIN dispatches[u], NEW att \in Attempt,
           att.revision = dispatches[u][i].revision, Altered(u, i, att)
    PROVE  /\ AttemptsOK(dispatches', contract.revision)
           /\ dispatches'[u][i] = att
           /\ \A v \in Units : DOMAIN dispatches'[v] = DOMAIN dispatches[v]
           /\ \A v \in Units : \A k \in DOMAIN dispatches[v] :
                v # u \/ k # i => dispatches'[v][k] = dispatches[v][k]
<1> DEFINE s == [dispatches[u] EXCEPT ![i] = att]
<1>1. dispatches[u] \in Seq(Attempt) /\ dispatches \in [Units -> Seq(Attempt)]
  BY DEF RTypeOK
<1>2. /\ s \in Seq(Attempt) /\ DOMAIN s = DOMAIN dispatches[u] /\ s[i] = att
      /\ \A j \in DOMAIN dispatches[u] : j # i => s[j] = dispatches[u][j]
  BY <1>1
<1>3. dispatches' = [dispatches EXCEPT ![u] = s]
  BY DEF Altered
<1> HIDE DEF s
<1>4. /\ dispatches' \in [Units -> Seq(Attempt)]
      /\ dispatches'[u] = s
      /\ \A v \in Units \ {u} : dispatches'[v] = dispatches[v]
  BY <1>1, <1>2, <1>3
<1>5. \A v \in Units : DOMAIN dispatches'[v] = DOMAIN dispatches[v]
  BY <1>2, <1>4
<1>6. \A v \in Units : \A j \in DOMAIN dispatches[v] :
        v # u \/ j # i => dispatches'[v][j] = dispatches[v][j]
  BY <1>2, <1>4
<1>7. \A v \in Units : \A j \in DOMAIN dispatches[v] :
        dispatches'[v][j].revision = dispatches[v][j].revision
  BY <1>2, <1>4, <1>6
<1>8. \A v \in Units : \A j \in DOMAIN dispatches'[v] :
        dispatches'[v][j].revision \in 1 .. contract.revision
  BY <1>5, <1>7 DEF RTypeOK
<1> QED
  BY <1>2, <1>4, <1>5, <1>6, <1>8 DEF AttemptsOK

LEMMA AttemptChange ==
    ASSUME RTypeOK, NEW u \in Units, NEW i \in DOMAIN dispatches[u], NEW att \in Attempt,
           att.revision = dispatches[u][i].revision,
           dispatches' = [dispatches EXCEPT ![u] = [dispatches[u] EXCEPT ![i] = att]]
    PROVE  /\ AttemptsOK(dispatches', contract.revision)
           /\ dispatches'[u][i] = att
           /\ \A v \in Units : DOMAIN dispatches'[v] = DOMAIN dispatches[v]
           /\ \A v \in Units : \A j \in DOMAIN dispatches[v] :
                v # u \/ j # i => dispatches'[v][j] = dispatches[v][j]
<1>1. Altered(u, i, att)
  BY DEF Altered
<1> QED
  BY <1>1, AttemptAltered

LEMMA AttemptJudged ==
    ASSUME RTypeOK, NEW u \in Units, NEW i \in DOMAIN dispatches[u], CanVerify(u, i),
           NEW att \in Attempt, att.revision = dispatches[u][i].revision,
           att.status \in {"VERIFIED", "REJECTED"},
           dispatches' = [dispatches EXCEPT ![u] = [dispatches[u] EXCEPT ![i] = att]],
           UNCHANGED <<units, fences>>, KeepAllBut
    PROVE  /\ RTypeOK' /\ Grows({}) /\ SameWork
           /\ att.status = "VERIFIED" /\ units[u].def = att.judged =>
                ProvenIn(units', dispatches', u)
<1>4. dispatches[u][i].status \in {"DISPATCHED", "RESULT_IN"}
  BY DEF CanVerify, Open
<1>6. /\ AttemptsOK(dispatches', contract.revision)
      /\ dispatches'[u][i] = att
      /\ \A v \in Units : DOMAIN dispatches'[v] = DOMAIN dispatches[v]
      /\ \A v \in Units : \A j \in DOMAIN dispatches[v] :
           v # u \/ j # i => dispatches'[v][j] = dispatches[v][j]
  BY AttemptChange
<1>7. UNCHANGED <<run, driver, units, fences, gated, contract>>
  BY DEF KeepAllBut
<1>8. RTypeOK'
  BY <1>6, <1>7, TypeParts DEF OthersOK
<1>9. \A v \in Units : AwaitedIn(dispatches', v) \subseteq AwaitedIn(dispatches, v)
  BY <1>6 DEF AwaitedIn
<1>10. \A v \in Units : \A j \in DOMAIN dispatches[v] :
         /\ j \in DOMAIN dispatches'[v]
         /\ dispatches[v][j].status = "VERIFIED" => dispatches'[v][j] = dispatches[v][j]
  BY <1>4, <1>6
<1>11. Grows({})
  <2>1. /\ \A v \in Units : fences[v].id <= fences'[v].id
        /\ contract.revision <= contract'.revision
    BY <1>7, NumbersOK
  <2> QED
    BY <1>9, <1>10, <2>1 DEF Grows
<1>12. SameWork
  BY <1>7 DEF SameWork
<1>13. ASSUME att.status = "VERIFIED", units[u].def = att.judged
       PROVE  ProvenIn(units', dispatches', u)
  BY <1>6, <1>7, <1>13 DEF ProvenIn
<1> QED
  BY <1>8, <1>11, <1>12, <1>13

LEMMA AcceptKeeps ==
    ASSUME RTypeOK, NEW u \in Units, NEW i \in DOMAIN dispatches[u], CanVerify(u, i),
           NEW def \in Nat, RecordVerification(u, i, TRUE, def)
    PROVE  /\ RTypeOK' /\ Grows({}) /\ SameWork
           /\ units[u].def = def => ProvenIn(units', dispatches', u)
<1> DEFINE att == [dispatches[u][i] EXCEPT !.status = "VERIFIED", !.judged = def]
<1>1. dispatches[u][i] \in Attempt
  BY DEF RTypeOK
<1>2. /\ att \in Attempt /\ att.revision = dispatches[u][i].revision
      /\ att.status = "VERIFIED" /\ att.judged = def
  BY <1>1 DEF Attempt
<1>3. /\ dispatches' = [dispatches EXCEPT ![u] = [dispatches[u] EXCEPT ![i] = att]]
      /\ UNCHANGED <<units, fences>> /\ KeepAllBut
  BY DEF RecordVerification
<1> HIDE DEF att
<1> QED
  BY <1>2, <1>3, AttemptJudged

LEMMA RejectKeeps ==
    ASSUME RTypeOK, NEW u \in Units, NEW i \in DOMAIN dispatches[u], CanVerify(u, i),
           RecordVerification(u, i, FALSE, 0)
    PROVE  RTypeOK' /\ Grows({}) /\ SameWork
<1> DEFINE att == [dispatches[u][i] EXCEPT !.status = "REJECTED", !.judged = 0]
<1>1. dispatches[u][i] \in Attempt
  BY DEF RTypeOK
<1>2. att \in Attempt /\ att.revision = dispatches[u][i].revision /\ att.status = "REJECTED"
  BY <1>1 DEF Attempt
<1>3. /\ dispatches' = [dispatches EXCEPT ![u] = [dispatches[u] EXCEPT ![i] = att]]
      /\ UNCHANGED <<units, fences>> /\ KeepAllBut
  BY DEF RecordVerification
<1> HIDE DEF att
<1> QED
  BY <1>2, <1>3, AttemptJudged

LEMMA ResultKeeps ==
    ASSUME RTypeOK, NEW u \in Units, NEW i \in DOMAIN dispatches[u],
           CanResult(u, i), RecordResult(u, i)
    PROVE  /\ RTypeOK' /\ Grows({})
           /\ units'[u].status = "RESULT_IN"
           /\ \A v \in Units \ {u} : units'[v] = units[v]
<1> DEFINE att == [dispatches[u][i] EXCEPT !.status = "RESULT_IN"]
           row == [units[u] EXCEPT !.status = "RESULT_IN"]
<1>1. /\ dispatches[u][i] \in Attempt /\ units[u] \in UnitRow
      /\ units[u].fence <= fences[u].id
  BY DEF RTypeOK
<1>2. att \in Attempt /\ att.revision = dispatches[u][i].revision /\ att.status = "RESULT_IN"
  BY <1>1 DEF Attempt, Open
<1>3. /\ row \in UnitRow /\ row.deps = units[u].deps /\ row.fence = units[u].fence
      /\ row.status = "RESULT_IN"
  BY <1>1 DEF UnitRow, UnitStatus
<1>4. /\ dispatches' = [dispatches EXCEPT ![u] = [dispatches[u] EXCEPT ![i] = att]]
      /\ units' = [units EXCEPT ![u] = row]
      /\ UNCHANGED <<run, driver, fences, gated, contract>>
  BY DEF RecordResult, SetUnit, KeepAllBut
<1>5. dispatches[u][i].status = "DISPATCHED"
  BY DEF CanResult
<1> HIDE DEF att, row
<1>6. /\ AttemptsOK(dispatches', contract.revision)
      /\ dispatches'[u][i] = att
      /\ \A v \in Units : DOMAIN dispatches'[v] = DOMAIN dispatches[v]
      /\ \A v \in Units : \A j \in DOMAIN dispatches[v] :
           v # u \/ j # i => dispatches'[v][j] = dispatches[v][j]
  BY <1>2, <1>4, AttemptChange
<1>7. /\ units' \in [Units -> UnitRow] /\ units'[u] = row
      /\ \A v \in Units \ {u} : units'[v] = units[v]
  BY <1>3, <1>4 DEF RTypeOK
<1>8. NewRow(u, row)
  BY <1>1, <1>3 DEF NewRow
<1>9. RowsOK(units', fences)
  BY <1>7, <1>8, RowsChange
<1>10. RTypeOK'
  BY <1>4, <1>6, <1>9, TypeParts DEF OthersOK
<1>11. \A v \in Units : AwaitedIn(dispatches', v) \subseteq AwaitedIn(dispatches, v)
  BY <1>2, <1>6 DEF AwaitedIn
<1>12. Grows({})
  <2>1. \A v \in Units : \A j \in DOMAIN dispatches[v] :
          /\ j \in DOMAIN dispatches'[v]
          /\ dispatches[v][j].status = "VERIFIED" => dispatches'[v][j] = dispatches[v][j]
    BY <1>5, <1>6
  <2>2. /\ \A v \in Units : fences[v].id <= fences'[v].id
        /\ contract.revision <= contract'.revision
    BY <1>4, NumbersOK
  <2> QED
    BY <1>11, <2>1, <2>2 DEF Grows
<1> QED
  BY <1>3, <1>7, <1>10, <1>12

LEMMA DispatchKeeps ==
    ASSUME RTypeOK, NEW u \in Units, NEW i \in Nat, NEW r \in 1 .. contract.revision,
           AwaitedIn(dispatches, u) = {}, CanDispatch(u, i), RecordDispatch(u, i, r)
    PROVE  /\ RTypeOK' /\ Grows({u})
           /\ units'[u].status = "DISPATCHED"
           /\ \A v \in Units \ {u} : units'[v] = units[v] /\ dispatches'[v] = dispatches[v]
           /\ \A j \in AwaitedIn(dispatches', u) : j = i
<1> DEFINE att == [status |-> "DISPATCHED", revision |-> r, judged |-> 0]
           row == [units[u] EXCEPT !.status = "DISPATCHED"]
           s == Append(dispatches[u], att)
<1>1. /\ units[u] \in UnitRow /\ units[u].fence <= fences[u].id
      /\ dispatches[u] \in Seq(Attempt) /\ r \in Nat /\ contract.revision \in Nat
  BY DEF RTypeOK
<1>2. att \in Attempt /\ att.revision = r
  BY <1>1 DEF Attempt, Open
<1>3. /\ row \in UnitRow /\ row.deps = units[u].deps /\ row.fence = units[u].fence
      /\ row.status = "DISPATCHED"
  BY <1>1 DEF UnitRow, UnitStatus
<1>4. /\ dispatches' = [dispatches EXCEPT ![u] = s]
      /\ units' = [units EXCEPT ![u] = row]
      /\ UNCHANGED <<run, driver, fences, gated, contract>>
  BY DEF RecordDispatch, SetUnit, KeepAllBut
<1>5. /\ s \in Seq(Attempt) /\ Len(s) = Len(dispatches[u]) + 1 /\ i = Len(s)
      /\ DOMAIN s = DOMAIN dispatches[u] \cup {i}
      /\ s[i] = att
      /\ \A j \in DOMAIN dispatches[u] : s[j] = dispatches[u][j]
  BY <1>1, <1>2 DEF CanDispatch
<1> HIDE DEF att, row, s
<1>6. /\ dispatches' \in [Units -> Seq(Attempt)] /\ dispatches'[u] = s
      /\ \A v \in Units \ {u} : dispatches'[v] = dispatches[v]
  BY <1>4, <1>5 DEF RTypeOK
<1>7. AttemptsOK(dispatches', contract.revision)
  <2>1. ASSUME NEW v \in Units, NEW j \in DOMAIN dispatches'[v]
        PROVE  dispatches'[v][j].revision \in 1 .. contract.revision
    <3>1. CASE v = u
      BY <1>2, <1>5, <1>6, <2>1, <3>1 DEF RTypeOK
    <3>2. CASE v # u
      BY <1>6, <2>1, <3>2 DEF RTypeOK
    <3> QED
      BY <3>1, <3>2
  <2> QED
    BY <1>6, <2>1 DEF AttemptsOK
<1>8. /\ units' \in [Units -> UnitRow] /\ units'[u] = row
      /\ \A v \in Units \ {u} : units'[v] = units[v]
  BY <1>3, <1>4 DEF RTypeOK
<1>9. NewRow(u, row)
  BY <1>1, <1>3 DEF NewRow
<1>10. RowsOK(units', fences)
  BY <1>8, <1>9, RowsChange
<1>11. RTypeOK'
  BY <1>4, <1>7, <1>10, TypeParts DEF OthersOK
<1>12. \A j \in AwaitedIn(dispatches', u) : j = i
  BY <1>5, <1>6 DEF AwaitedIn
<1>13. Grows({u})
  BY <1>4, <1>5, <1>6, NumbersOK DEF Grows, AwaitedIn
<1> QED
  BY <1>3, <1>6, <1>8, <1>11, <1>12, <1>13

\* What is left of an agenda keeps its ground while its head is carried out.
LEMMA TailFits ==
    ASSUME RTypeOK, RTypeOK', NEW a \in Seq(Entry), a # <<>>, Fitting(a),
           NEW T, Grows(T), T \subseteq Targets(a[1]),
           a[1][1] = "accept" /\ units'[a[1][2]].status = "RESULT_IN" =>
             ProvenIn(units', dispatches', a[1][2])
    PROVE  /\ Tail(a) \in Seq(Entry)
           /\ Fits(Tail(a), units', dispatches', fences', contract'.revision)
<1> DEFINE b == Tail(a)
<1>1. /\ b \in Seq(Entry) /\ Len(b) = Len(a) - 1 /\ Len(a) \in Nat /\ Len(a) >= 1
      /\ \A k \in 1 .. Len(b) : b[k] = a[k + 1] /\ k + 1 \in 2 .. Len(a) /\ k + 1 \in 1 .. Len(a)
  OBVIOUS
<1> HIDE DEF b
<1>2. Ordered(a) /\ \A k \in 1 .. Len(a) : Sound(a[k], units, dispatches, fences, contract.revision)
  BY DEF Fitting, Fits
<1>3. ASSUME NEW j \in 1 .. Len(b), NEW k \in 1 .. Len(b), j < k
      PROVE  Targets(b[j]) \cap Targets(b[k]) = {}
  <2>1. j + 1 \in 1 .. Len(a) /\ k + 1 \in 1 .. Len(a) /\ j + 1 < k + 1
    BY <1>1, <1>3
  <2>2. Targets(a[j + 1]) \cap Targets(a[k + 1]) = {}
    BY <1>2, <2>1 DEF Ordered
  <2> QED
    BY <1>1, <2>2
<1>4. ASSUME NEW k \in 1 .. Len(b)
      PROVE  b[k][1] \notin {"check", "accept"}
  BY <1>1, <1>2 DEF Ordered
<1>5. ASSUME NEW k \in 1 .. Len(b), b[k][1] = "done"
      PROVE  k = 1 /\ a[1][1] = "accept" /\ a[1][2] = b[k][2]
  <2>1. k + 1 = 2 /\ a[1][1] = "accept" /\ a[1][2] = a[2][2]
    BY <1>1, <1>2, <1>5 DEF Ordered
  <2> QED
    BY <1>1, <2>1
<1>6. Ordered(b)
  <2>1. ASSUME NEW k \in 2 .. Len(b)
        PROVE  b[k][1] \notin {"check", "accept", "done"}
    <3>1. k \in 1 .. Len(b) /\ k # 1
      BY <1>1
    <3> QED
      BY <3>1, <1>4, <1>5
  <2> QED
    BY <1>3, <2>1 DEF Ordered
<1>7. Backed(b, units', dispatches')
  <2> SUFFICES ASSUME b # <<>>, b[1][1] = "done", units'[b[1][2]].status = "RESULT_IN"
               PROVE  ProvenIn(units', dispatches', b[1][2])
    BY DEF Backed
  <2>1. 1 \in 1 .. Len(b)
    BY <1>1
  <2> QED
    BY <1>5, <2>1
<1>8. ASSUME NEW k \in 1 .. Len(b)
      PROVE  Sound(b[k], units', dispatches', fences', contract'.revision)
  <2>1. /\ b[k] \in Entry /\ b[k] = a[k + 1] /\ k + 1 \in 1 .. Len(a)
        /\ 1 \in 1 .. Len(a) /\ 1 < k + 1
    BY <1>1
  <2>2. Targets(a[1]) \cap Targets(b[k]) = {}
    BY <1>2, <2>1 DEF Ordered
  <2>3. Targets(b[k]) \cap T = {}
    BY <2>2
  <2>4. Sound(b[k], units, dispatches, fences, contract.revision)
    BY <1>2, <2>1
  <2> QED
    BY <1>4, <2>1, <2>3, <2>4, SoundGrows
<1> QED
  BY <1>1, <1>6, <1>7, <1>8 DEF Fits, b

\* The row a plan gives a unit.
LEMMA PlannedRowIs ==
    ASSUME RTypeOK, NEW g \in Plans, NEW u \in Units
    PROVE  LET r == PlannedRow(g, u) IN
           /\ r \in UnitRow
           /\ r.status = "UNPLANNED" => r = Unplanned /\ u \notin DOMAIN g
           /\ units[u].status # "UNPLANNED" => r.status # "UNPLANNED"
           /\ r.deps = units[u].deps \/ (u \in DOMAIN g /\ r.deps = g[u].deps)
           /\ r.fence <= fences[u].id
           /\ r.status = "FAILED" => r.retries > RetryCeiling
           /\ r.status \in {"RESULT_IN", "DONE"} => r = units[u]
<1> DEFINE r == PlannedRow(g, u)
<1>1. /\ units[u] \in UnitRow /\ units[u].fence <= fences[u].id /\ fences[u].id \in Nat
      /\ units[u].status = "UNPLANNED" => units[u] = Unplanned
      /\ units[u].status = "FAILED" => units[u].retries > RetryCeiling
  BY DEF RTypeOK
<1>2. u \in DOMAIN g => g[u].deps \subseteq Units /\ g[u].def \in Nat /\ g[u].def # 0
  BY UnitAssumptions
<1>3. \A d : StatusFor(d) \in {"READY", "PENDING"}
  BY DEF StatusFor
<1>4. CASE r = units[u] /\ (u \in DOMAIN g => units[u].def = g[u].def)
  <2>1. u \in DOMAIN g => units[u].status # "UNPLANNED"
    BY <1>1, <1>2, <1>4 DEF Unplanned
  <2> QED
    BY <1>1, <1>4, <2>1
<1>5. CASE \E s \in {"READY", "PENDING", "SKIPPED"} : r = [units[u] EXCEPT !.status = s]
  <2>1. PICK s \in {"READY", "PENDING", "SKIPPED"} : r = [units[u] EXCEPT !.status = s]
    BY <1>5
  <2>2. /\ r \in UnitRow /\ r.status = s /\ r.deps = units[u].deps
        /\ r.fence = units[u].fence
    BY <1>1, <2>1 DEF UnitRow, UnitStatus
  <2> QED
    BY <1>1, <2>2
<1>6. CASE /\ u \in DOMAIN g
           /\ r = [status |-> StatusFor(g[u].deps), deps |-> g[u].deps, def |-> g[u].def,
                   retries |-> 0, fence |-> 0]
  <2>1. /\ r \in UnitRow /\ r.status \in {"READY", "PENDING"} /\ r.deps = g[u].deps
        /\ r.fence = 0
    BY <1>2, <1>3, <1>6 DEF UnitRow, UnitStatus
  <2> QED
    BY <1>1, <1>6, <2>1
<1>7. \/ r = units[u] /\ (u \in DOMAIN g => units[u].def = g[u].def)
      \/ \E s \in {"READY", "PENDING", "SKIPPED"} : r = [units[u] EXCEPT !.status = s]
      \/ /\ u \in DOMAIN g
         /\ r = [status |-> StatusFor(g[u].deps), deps |-> g[u].deps, def |-> g[u].def,
                 retries |-> 0, fence |-> 0]
  <2>1. CASE u \in DOMAIN g /\ units[u].deps = g[u].deps /\ units[u].def = g[u].def
    <3>1. CASE units[u].status = "SKIPPED"
      <4>1. r = [units[u] EXCEPT !.status = StatusFor(units[u].deps)]
        BY <2>1, <3>1 DEF PlannedRow
      <4> QED
        BY <1>3, <4>1
    <3>2. CASE units[u].status # "SKIPPED"
      BY <2>1, <3>2 DEF PlannedRow
    <3> QED
      BY <3>1, <3>2
  <2>2. CASE u \in DOMAIN g /\ ~(units[u].deps = g[u].deps /\ units[u].def = g[u].def)
    BY <2>2 DEF PlannedRow
  <2>3. CASE u \notin DOMAIN g
    <3>1. CASE units[u].status \in {"UNPLANNED", "DONE"}
      BY <2>3, <3>1 DEF PlannedRow
    <3>2. CASE units[u].status \notin {"UNPLANNED", "DONE"}
      <4>1. r = [units[u] EXCEPT !.status = "SKIPPED"]
        BY <2>3, <3>2 DEF PlannedRow
      <4> QED
        BY <4>1
    <3> QED
      BY <3>1, <3>2
  <2> QED
    BY <2>1, <2>2, <2>3
<1> QED
  BY <1>4, <1>5, <1>6, <1>7

\* The cascade leaves a row, or takes a unit out of DONE.
LEMMA CascadeIs ==
    ASSUME NEW rows \in [Units -> UnitRow], NEW u \in Units
    PROVE  LET r == Cascade(rows)[u] IN
           \/ r = rows[u]
           \/ /\ rows[u].status = "DONE"
              /\ r \in UnitRow /\ r.status = "PENDING" /\ r.deps = rows[u].deps /\ r.fence = 0
<1>1. rows[u] \in UnitRow
  OBVIOUS
<1>2. \/ Cascade(rows)[u] = rows[u]
      \/ /\ rows[u].status = "DONE"
         /\ Cascade(rows)[u] = [rows[u] EXCEPT !.status = "PENDING", !.fence = 0, !.retries = 0]
  BY DEF Cascade
<1>3. ASSUME NEW r, r = [rows[u] EXCEPT !.status = "PENDING", !.fence = 0, !.retries = 0]
      PROVE  r \in UnitRow /\ r.status = "PENDING" /\ r.deps = rows[u].deps /\ r.fence = 0
  BY <1>1, <1>3 DEF UnitRow, UnitStatus
<1> QED
  BY <1>2, <1>3

LEMMA UpsertKeeps ==
    ASSUME RTypeOK, NEW g \in Plans, UpsertUnits(g)
    PROVE  RTypeOK' /\ Grows({}) /\ SameWork
<1> DEFINE rows == [u \in Units |-> PlannedRow(g, u)]
<1>1. Graph(g) /\ units' = Cascade(rows)
  BY DEF UpsertUnits, CanUpsert
<1>2. /\ run' = "READY"
      /\ UNCHANGED <<driver, fences, gated, contract>>
  BY DEF UpsertUnits
<1>3. rows \in [Units -> UnitRow] /\ \A u \in Units : rows[u] = PlannedRow(g, u)
  BY PlannedRowIs
<1> HIDE DEF rows
<1>4. ASSUME NEW u \in Units
      PROVE  /\ units'[u] \in UnitRow
             /\ units'[u].status = "UNPLANNED" => units'[u] = Unplanned /\ u \notin DOMAIN g
             /\ units[u].status # "UNPLANNED" => units'[u].status # "UNPLANNED"
             /\ \/ units'[u].deps = units[u].deps
                \/ u \in DOMAIN g /\ units'[u].deps = g[u].deps
             /\ units'[u].fence <= fences[u].id
             /\ units'[u].status = "FAILED" => units'[u].retries > RetryCeiling
             /\ units'[u].status \in {"RESULT_IN", "DONE"} => units'[u] = units[u]
  <2>1. \/ units'[u] = rows[u]
        \/ /\ rows[u].status = "DONE"
           /\ units'[u] \in UnitRow /\ units'[u].status = "PENDING"
           /\ units'[u].deps = rows[u].deps /\ units'[u].fence = 0
    BY <1>1, <1>3, CascadeIs
  <2>2. /\ rows[u] \in UnitRow
        /\ rows[u].status = "UNPLANNED" => rows[u] = Unplanned /\ u \notin DOMAIN g
        /\ units[u].status # "UNPLANNED" => rows[u].status # "UNPLANNED"
        /\ rows[u].deps = units[u].deps \/ (u \in DOMAIN g /\ rows[u].deps = g[u].deps)
        /\ rows[u].fence <= fences[u].id
        /\ rows[u].status = "FAILED" => rows[u].retries > RetryCeiling
        /\ rows[u].status \in {"RESULT_IN", "DONE"} => rows[u] = units[u]
    BY <1>3, PlannedRowIs
  <2>3. fences[u].id \in Nat
    BY NumbersOK
  <2>4. CASE units'[u] = rows[u]
    BY <2>2, <2>4
  <2>5. CASE /\ rows[u].status = "DONE"
             /\ units'[u] \in UnitRow /\ units'[u].status = "PENDING"
             /\ units'[u].deps = rows[u].deps /\ units'[u].fence = 0
    BY <2>2, <2>3, <2>5
  <2> QED
    BY <2>1, <2>4, <2>5
<1>5. units' \in [Units -> UnitRow]
  <2>1. units' = [u \in Units |-> units'[u]]
    BY <1>1 DEF Cascade
  <2> QED
    BY <1>4, <2>1
<1>6. ASSUME NEW u \in Units
      PROVE  units'[u].deps \subseteq {v \in Units : units'[v].status # "UNPLANNED"}
  <2>1. units[u].deps \subseteq {v \in Units : units[v].status # "UNPLANNED"}
    BY DEF RTypeOK, Planned
  <2>2. u \in DOMAIN g =>
          g[u].deps \subseteq DOMAIN g \cup {v \in Units : units[v].status # "UNPLANNED"}
    BY <1>1 DEF Graph, Planned
  <2>3. DOMAIN g \subseteq Units
    BY UnitAssumptions
  <2>4. DOMAIN g \cup {v \in Units : units[v].status # "UNPLANNED"}
          \subseteq {v \in Units : units'[v].status # "UNPLANNED"}
    BY <1>4, <2>3
  <2>5. units'[u].deps = units[u].deps \/ (u \in DOMAIN g /\ units'[u].deps = g[u].deps)
    BY <1>4
  <2> QED
    BY <2>1, <2>2, <2>4, <2>5
<1>7. RowsOK(units', fences')
  BY <1>2, <1>4, <1>5, <1>6 DEF RowsOK
<1>8. /\ dispatches' \in [Units -> Seq(Attempt)]
      /\ \A u \in Units : /\ DOMAIN dispatches'[u] = DOMAIN dispatches[u]
                          /\ \A i \in DOMAIN dispatches[u] :
                               \/ dispatches'[u][i] = dispatches[u][i]
                               \/ /\ dispatches[u][i].status \in Open
                                  /\ dispatches'[u][i].status = "CANCELLED"
                                  /\ dispatches'[u][i].revision = dispatches[u][i].revision
  <2>1. ASSUME NEW u \in Units
        PROVE  /\ dispatches'[u] \in Seq(Attempt)
               /\ DOMAIN dispatches'[u] = DOMAIN dispatches[u]
               /\ \A i \in DOMAIN dispatches[u] :
                    \/ dispatches'[u][i] = dispatches[u][i]
                    \/ /\ dispatches[u][i].status \in Open
                       /\ dispatches'[u][i].status = "CANCELLED"
                       /\ dispatches'[u][i].revision = dispatches[u][i].revision
    <3> DEFINE closed(i) == [dispatches[u][i] EXCEPT !.status = "CANCELLED"]
               cut == [i \in DOMAIN dispatches[u] |->
                         IF dispatches[u][i].status \in Open THEN closed(i) ELSE dispatches[u][i]]
    <3>1. dispatches[u] \in Seq(Attempt) /\ DOMAIN dispatches[u] = 1 .. Len(dispatches[u])
          /\ Len(dispatches[u]) \in Nat
      BY DEF RTypeOK
    <3>2. dispatches'[u] = IF u \in Dropped(g) THEN cut ELSE dispatches[u]
      BY DEF UpsertUnits
    <3>3. ASSUME NEW i \in DOMAIN dispatches[u]
          PROVE  /\ dispatches[u][i] \in Attempt
                 /\ closed(i) \in Attempt /\ closed(i).status = "CANCELLED"
                 /\ closed(i).revision = dispatches[u][i].revision
      <4>1. dispatches[u][i] \in Attempt
        BY <3>1
      <4> QED
        BY <4>1 DEF Attempt
    <3> HIDE DEF closed
    <3>4. cut \in Seq(Attempt) /\ DOMAIN cut = DOMAIN dispatches[u]
      BY <3>1, <3>3
    <3>5. ASSUME NEW i \in DOMAIN dispatches[u]
          PROVE  \/ cut[i] = dispatches[u][i]
                 \/ /\ dispatches[u][i].status \in Open
                    /\ cut[i].status = "CANCELLED"
                    /\ cut[i].revision = dispatches[u][i].revision
      BY <3>3
    <3> HIDE DEF cut
    <3> QED
      BY <3>1, <3>2, <3>4, <3>5
  <2>2. dispatches' = [u \in Units |-> dispatches'[u]]
    BY DEF UpsertUnits
  <2> QED
    BY <2>1, <2>2
<1>9. AttemptsOK(dispatches', contract'.revision)
  <2>1. \A u \in Units : \A i \in DOMAIN dispatches[u] :
          dispatches'[u][i].revision = dispatches[u][i].revision
    BY <1>8
  <2>2. \A u \in Units : \A i \in DOMAIN dispatches[u] :
          dispatches[u][i].revision \in 1 .. contract.revision
    BY DEF RTypeOK
  <2>3. /\ dispatches' \in [Units -> Seq(Attempt)]
        /\ \A u \in Units : DOMAIN dispatches'[u] = DOMAIN dispatches[u]
    BY <1>8
  <2>4. contract' = contract
    BY <1>2
  <2> QED
    BY <2>1, <2>2, <2>3, <2>4 DEF AttemptsOK
<1>10. OthersOK'
  BY <1>2, TypeParts DEF OthersOK, RunStates
<1>11. RTypeOK'
  BY <1>7, <1>9, <1>10, TypeParts
<1>12. Grows({})
  <2>1. \A u \in Units : AwaitedIn(dispatches', u) \subseteq AwaitedIn(dispatches, u)
    BY <1>8 DEF AwaitedIn
  <2>2. \A u \in Units : \A i \in DOMAIN dispatches[u] :
          /\ i \in DOMAIN dispatches'[u]
          /\ dispatches[u][i].status = "VERIFIED" => dispatches'[u][i] = dispatches[u][i]
    BY <1>8 DEF Open
  <2>3. /\ \A u \in Units : fences[u].id <= fences'[u].id
        /\ contract.revision <= contract'.revision
    BY <1>2, NumbersOK
  <2> QED
    BY <2>1, <2>2, <2>3 DEF Grows
<1>13. SameWork
  BY <1>4 DEF SameWork
<1> QED
  BY <1>11, <1>12, <1>13

-----------------------------------------------------------------------------
(* Entries made *)

LEMMA HeadIs ==
    ASSUME CInv, NEW c \in Commands, p[c] # Idle
    PROVE  /\ p[c] \in Underway /\ p[c].session \in Sessions
           /\ p[c].agenda \in Seq(Entry) /\ p[c].agenda # <<>> /\ Fitting(p[c].agenda)
           /\ Head(p[c].agenda) = p[c].agenda[1]
           /\ Head(p[c].agenda) \in Entry
           /\ Sound(Head(p[c].agenda), units, dispatches, fences, contract.revision)
<1>1. /\ p[c] \in Underway /\ p[c].agenda \in Seq(Entry) /\ p[c].agenda # <<>>
      /\ Head(p[c].agenda) = p[c].agenda[1] /\ Head(p[c].agenda) \in Entry
  BY UnderwayHas DEF CInv
<1>2. Fits(p[c].agenda, units, dispatches, fences, contract.revision)
  BY DEF CInv
<1>3. 1 \in 1 .. Len(p[c].agenda)
  BY <1>1
<1>4. p[c].session \in Sessions
  BY <1>1 DEF Underway
<1> QED
  BY <1>1, <1>2, <1>3, <1>4 DEF Fits, Fitting

LEMMA PlainMade ==
    ASSUME NEW u \in Units, NEW n \in Nat
    PROVE  /\ <<"tell", u>> \in Plain /\ <<"fail", u>> \in Plain /\ <<"release", u>> \in Plain
           /\ Park(u, n) \in Plain /\ Park(u, n) \in Calm
           /\ <<"rollback", u, n, "stale">> \in Plain /\ <<"rollback", u, n, "judged">> \in Plain
BY EntryMade DEF Plain, Calm, CalmKinds, Chooses, Sending, Verdicts, Numbered, Park

LEMMA AttemptMade ==
    ASSUME NEW u \in Units, NEW n \in Nat, NEW i \in DOMAIN dispatches[u], i \in Nat
    PROVE  /\ <<"record", u, i>> \in Plain /\ <<"reject", u, i>> \in Plain
           /\ <<"fetch", u, i>> \in Plain /\ <<"judge", u, i, n>> \in Plain
           /\ <<"received", u, i, n>> \in Plain /\ <<"ask again", u, i, n>> \in Plain
BY EntryMade DEF Plain, Chooses, Sending, Verdicts, Numbered

LEMMA BarePlain ==
    ASSUME NEW what \in Bare
    PROVE  /\ what \notin Chooses => <<what>> \in Plain
           /\ what \in CalmKinds => <<what>> \in Calm
<1>1. <<what>> \in Entry /\ <<what>>[1] = what
  BY BareMade
<1>2. what \notin {"wave"} \cup Sending \cup Verdicts \cup Numbered
  BY DEF Bare, Sending, Verdicts, Numbered
<1> QED
  BY <1>1, <1>2 DEF Plain, Calm

LEMMA ImageFinite ==
    ASSUME NEW S, IsFiniteSet(S), NEW f, DOMAIN f = S, f = [x \in S |-> f[x]]
    PROVE  IsFiniteSet({f[x] : x \in S})
<1> DEFINE T == {f[x] : x \in S}
<1>1. f \in Surjection(S, T)
  <2>1. f \in [S -> T]
    OBVIOUS
  <2>2. \A t \in T : \E x \in S : f[x] = t
    OBVIOUS
  <2> HIDE DEF T
  <2> QED
    BY <2>1, <2>2 DEF Surjection
<1> HIDE DEF T
<1>2. IsFiniteSet(T)
  BY <1>1, FS_Surjection
<1> QED
  BY <1>2 DEF T

LEMMA TellAll ==
    ASSUME NEW S \in SUBSET Units
    PROVE  SetToSeq({<<"tell", u>> : u \in S}) \in Seq(Plain)
<1> DEFINE f == [u \in S |-> <<"tell", u>>]
<1>1. IsFiniteSet(S)
  BY FS_Subset, UnitAssumptions
<1>2. IsFiniteSet({f[u] : u \in S})
  BY <1>1, ImageFinite
<1>3. {<<"tell", u>> : u \in S} = {f[u] : u \in S}
  OBVIOUS
<1>4. {<<"tell", u>> : u \in S} \in SUBSET Plain
  BY PlainMade
<1> QED
  BY <1>2, <1>3, <1>4, SetInSequence

LEMMA ParkAll ==
    ASSUME CTypeOK, NEW S \in SUBSET Units
    PROVE  LET a == SetToSeq({Park(u, units[u].fence) : u \in S}) IN
           a \in Seq(Plain) /\ a \in Seq(Calm)
<1> DEFINE f == [u \in S |-> Park(u, units[u].fence)]
           A == {Park(u, units[u].fence) : u \in S}
<1>1. IsFiniteSet(S)
  BY FS_Subset, UnitAssumptions
<1>2. IsFiniteSet({f[u] : u \in S})
  BY <1>1, ImageFinite
<1>3. A = {f[u] : u \in S}
  OBVIOUS
<1>4. \A u \in S : units[u].fence \in Nat
  BY NumbersOK DEF CTypeOK
<1>5. A \in SUBSET Plain /\ A \in SUBSET Calm
  BY <1>4, PlainMade
<1>6. IsFiniteSet(A)
  BY <1>2, <1>3
<1> HIDE DEF A
<1>7. SetToSeq(A) \in Seq(Plain) /\ SetToSeq(A) \in Seq(Calm)
  BY <1>5, <1>6, SetInSequence
<1> QED
  BY <1>7 DEF A

LEMMA ReconcileIs ==
    Reconcile \in Seq(Plain) /\ Reconcile \in Seq(Calm)
<1> DEFINE N == {k \in gated : WaitingIn(k, {"PENDING", "READY"})}
           U == {k \in Lanes \ gated : WaitingIn(k, {"BLOCKED"})}
           f == [l \in N |-> <<"block", l>>]
           h == [l \in U |-> <<"unblock", l>>]
           A == {<<"block", l>> : l \in N} \cup {<<"unblock", l>> : l \in U}
<1>1. N \subseteq Lanes /\ U \subseteq Lanes
  BY UnitAssumptions DEF WaitingIn
<1>2. IsFiniteSet(N) /\ IsFiniteSet(U)
  BY <1>1, FS_Subset, UnitAssumptions
<1>3. IsFiniteSet({f[l] : l \in N}) /\ IsFiniteSet({h[l] : l \in U})
  <2> HIDE DEF N, U
  <2> QED
    BY <1>2, ImageFinite
<1>4. A = {f[l] : l \in N} \cup {h[l] : l \in U}
  OBVIOUS
<1>5. IsFiniteSet(A)
  BY <1>3, <1>4, FS_Union
<1>6. ASSUME NEW l \in Lanes
      PROVE  /\ <<"block", l>> \in Plain /\ <<"unblock", l>> \in Plain
             /\ <<"block", l>> \in Calm /\ <<"unblock", l>> \in Calm
  <2>1. /\ <<"block", l>> \in Entry /\ <<"unblock", l>> \in Entry
        /\ <<"block", l>>[1] = "block" /\ <<"unblock", l>>[1] = "unblock"
    BY DEF Entry
  <2> QED
    BY <2>1 DEF Plain, Calm, CalmKinds, Chooses, Sending, Verdicts, Numbered
<1>7. A \in SUBSET Plain /\ A \in SUBSET Calm
  BY <1>1, <1>6
<1>8. Reconcile = SetToSeq(A)
  BY DEF Reconcile
<1> HIDE DEF A
<1> QED
  BY <1>5, <1>7, <1>8, SetInSequence

LEMMA DispatchesAre ==
    ASSUME NEW S, NEW d \in Dispatches(S)
    PROVE  /\ d[1] \in Units /\ d[2] \in DOMAIN dispatches[d[1]]
           /\ dispatches[d[1]][d[2]].status \in S
BY DEF Dispatches

\* One entry, or two, that fit where nothing is being done.
LEMMA OneFits ==
    ASSUME NEW e \in Entry, e[1] # "done", NEW us, NEW ds, NEW fs, NEW rev,
           Sound(e, us, ds, fs, rev)
    PROVE  /\ <<e>> \in Seq(Entry) /\ Fits(<<e>>, us, ds, fs, rev)
           /\ Len(<<e>>) = 1 /\ <<e>>[1] = e
<1> DEFINE a == <<e>>
<1>1. a \in Seq(Entry) /\ Len(a) = 1 /\ a[1] = e
  OBVIOUS
<1> HIDE DEF a
<1>2. Ordered(a)
  BY <1>1 DEF Ordered
<1>3. Backed(a, us, ds)
  BY <1>1 DEF Backed
<1>4. Fits(a, us, ds, fs, rev)
  BY <1>1, <1>2, <1>3 DEF Fits
<1> QED
  BY <1>1, <1>4 DEF a

LEMMA TwoFit ==
    ASSUME NEW e \in Entry, NEW f \in Entry, e[1] # "done",
           f[1] \notin {"check", "accept", "done"}, Targets(e) \cap Targets(f) = {},
           NEW us, NEW ds, NEW fs, NEW rev,
           Sound(e, us, ds, fs, rev), Sound(f, us, ds, fs, rev)
    PROVE  /\ <<e, f>> \in Seq(Entry) /\ Fits(<<e, f>>, us, ds, fs, rev)
           /\ Len(<<e, f>>) = 2 /\ <<e, f>>[1] = e /\ <<e, f>>[2] = f
<1> DEFINE a == <<e, f>>
<1>1. a \in Seq(Entry) /\ Len(a) = 2 /\ a[1] = e /\ a[2] = f
  OBVIOUS
<1> HIDE DEF a
<1>2. 1 .. Len(a) = {1, 2} /\ 2 .. Len(a) = {2}
  BY <1>1
<1>3. Ordered(a)
  BY <1>1, <1>2 DEF Ordered
<1>4. Backed(a, us, ds)
  BY <1>1 DEF Backed
<1>5. Fits(a, us, ds, fs, rev)
  BY <1>1, <1>2, <1>3, <1>4 DEF Fits
<1> QED
  BY <1>1, <1>5 DEF a

-----------------------------------------------------------------------------
(* The transactions a command carries out *)

\* A transaction that keeps the ground, or a refusal.
LEMMA Carried ==
    ASSUME CInv, OneDriver, NEW c \in Commands, p[c] # Idle, UNCHANGED spent,
           Head(p[c].agenda)[1] # "accept",
           \/ Continue(c, p[c], <<>> \o Rest(c)) /\ RTypeOK' /\ Grows({}) /\ SameWork
           \/ Continue(c, p[c], <<>>) /\ UNCHANGED tables
    PROVE  CInv'
<1>1. p[c] \in Underway /\ spent' \in [Events -> Nat]
  BY HeadIs DEF CInv, CTypeOK
<1>2. <<>> \in Seq(Plain) /\ <<>> \in Seq(Calm)
  OBVIOUS
<1>3. CASE Continue(c, p[c], <<>> \o Rest(c)) /\ RTypeOK' /\ Grows({}) /\ SameWork
  BY <1>1, <1>2, <1>3, PlainStep
<1>4. CASE Continue(c, p[c], <<>>) /\ UNCHANGED tables
  BY <1>1, <1>4, EndDecide
<1> QED
  BY <1>3, <1>4

\* A transaction that gives a unit its result, its verdict or its end.
LEMMA DriverCarries ==
    ASSUME CInv, OneDriver, NEW c \in Commands, p[c] # Idle, UNCHANGED spent, Drives(c),
           RTypeOK', NEW T, Grows(T), T \subseteq Targets(Head(p[c].agenda)),
           Head(p[c].agenda)[1] = "accept" =>
             (units'[Head(p[c].agenda)[2]].status = "RESULT_IN" =>
                ProvenIn(units', dispatches', Head(p[c].agenda)[2])),
           \A u \in Units : units'[u].status = "DONE" => ProvenIn(units', dispatches', u),
           AwaitedOnce',
           NEW q \in Underway, Continue(c, q, Rest(c))
    PROVE  CInv'
<1> DEFINE a == p[c].agenda
<1>1. CTypeOK /\ RTypeOK /\ spent' \in [Events -> Nat]
  BY DEF CInv, CTypeOK
<1>2. /\ a \in Seq(Entry) /\ a # <<>> /\ Head(a) = a[1] /\ Rest(c) = Tail(a) /\ Fitting(a)
  BY HeadIs DEF Rest
<1>3. /\ Tail(a) \in Seq(Entry)
      /\ Fits(Tail(a), units', dispatches', fences', contract'.revision)
  <2>1. /\ T \subseteq Targets(a[1])
        /\ a[1][1] = "accept" /\ units'[a[1][2]].status = "RESULT_IN" =>
             ProvenIn(units', dispatches', a[1][2])
    BY <1>2
  <2> HIDE DEF a
  <2> QED
    BY <1>1, <1>2, <2>1, TailFits
<1>4. /\ p' \in [Commands -> Underway \cup {Idle}]
      /\ p'[c] # Idle => p'[c].agenda = Tail(a)
      /\ \A d \in Commands \ {c} : p'[d] = p[d]
  BY <1>1, <1>2, <1>3, ContinueFrame
<1>5. DoneAsDefined'
  BY DEF DoneAsDefined, DoneUnits, ProvenIn
<1> HIDE DEF a
<1> QED
  BY <1>1, <1>3, <1>4, <1>5, StepOK

LEMMA OnceKept ==
    ASSUME CInv, Grows({})
    PROVE  AwaitedOnce'
<1>1. \A u \in Units : AwaitedIn(dispatches', u) \subseteq AwaitedIn(dispatches, u)
  BY DEF Grows
<1> QED
  BY <1>1 DEF AwaitedOnce, CInv

LEMMA TransactionStep ==
    ASSUME CInv, OneDriver, NEW c \in Commands, Transaction(c), UNCHANGED spent
    PROVE  CInv'
<1> DEFINE e == Head(p[c].agenda)
<1>1. p[c] # Idle
  BY DEF Transaction, At
<1>2. /\ RTypeOK /\ e \in Entry /\ Sound(e, units, dispatches, fences, contract.revision)
      /\ p[c] \in Underway /\ p[c].agenda \in Seq(Entry) /\ p[c].agenda # <<>>
      /\ Rest(c) \in Seq(Entry) /\ <<>> \o Rest(c) = Rest(c)
  BY <1>1, HeadIs, UnderwayHas DEF CInv, CTypeOK
<1> HIDE DEF e
<1>3. CASE e[1] = "move" /\ Do(c, CanMove(e[2]), SetRunState(e[2]), <<>>)
  <2>1. e[2] \in RunStates /\ e[1] # "accept"
    BY <1>2, <1>3, EntryShape
  <2> QED
    BY <1>1, <1>2, <1>3, <2>1, MoveKeeps, Carried DEF Do, e
<1>4. CASE e[1] = "park" /\ Do(c, TRUE, ReleaseFence(e[2], e[3]), <<>>)
  <2>1. e[2] \in Units /\ e[1] # "accept"
    BY <1>2, <1>4, EntryShape
  <2> QED
    BY <1>1, <1>2, <1>4, <2>1, ReleaseKeeps, Carried DEF Do, e
<1>5. CASE e[1] = "tell" /\ Do(c, TRUE, QueueHumanStep(e[2]), <<>>)
  <2>1. e[2] \in Units /\ e[1] # "accept"
    BY <1>2, <1>5, EntryShape
  <2> QED
    BY <1>1, <1>2, <1>5, <2>1, QueueKeeps, Carried DEF Do, e
<1>6. CASE e[1] = "block" /\ Do(c, TRUE, BlockLaneUnits(e[2]), <<>>)
  <2>1. e[1] # "accept"
    BY <1>6
  <2> QED
    BY <1>1, <1>2, <1>6, <2>1, BlockKeeps, Carried DEF Do, e
<1>7. CASE e[1] = "unblock" /\ Do(c, TRUE, UnblockLaneUnits(e[2]), <<>>)
  <2>1. e[1] # "accept"
    BY <1>7
  <2> QED
    BY <1>1, <1>2, <1>7, <2>1, BlockKeeps, Carried DEF Do, e
<1>8. CASE e[1] = "fail" /\ Do(c, TRUE, MarkUnitFailed(e[2]), <<>>)
  <2>1. e[2] \in Units /\ e[1] # "accept"
    BY <1>2, <1>8, EntryShape
  <2> QED
    BY <1>1, <1>2, <1>8, <2>1, FailKeeps, Carried DEF Do, e
<1>9. CASE e[1] = "release" /\ Do(c, CanRelease(e[2]), ReleaseClaimedUnit(e[2]), <<>>)
  <2>1. e[2] \in Units /\ e[1] # "accept"
    BY <1>2, <1>9, EntryShape
  <2> QED
    BY <1>1, <1>2, <1>9, <2>1, FreeKeeps, Carried DEF Do, e
<1>10. CASE e[1] = "reject" /\ Do(c, CanVerify(e[2], e[3]),
                                     RecordVerification(e[2], e[3], FALSE, 0), <<>>)
  <2>1. e[2] \in Units /\ e[3] \in DOMAIN dispatches[e[2]] /\ e[1] # "accept"
    BY <1>2, <1>10, EntryShape DEF Sound, Numbered
  <2> QED
    BY <1>1, <1>2, <1>10, <2>1, RejectKeeps, Carried DEF Do, e
<1>11. CASE e[1] = "done" /\ Do(c, CanFinish(e[2]), MarkUnitDone(e[2]), <<>>)
  <2>1. e[2] \in Units /\ e[1] # "accept"
    BY <1>2, <1>11, EntryShape
  <2>2. CASE CanFinish(e[2]) /\ MarkUnitDone(e[2]) /\ Continue(c, p[c], Rest(c))
    <3>1. /\ RTypeOK' /\ Grows({}) /\ units'[e[2]].def = units[e[2]].def
          /\ \A v \in Units \ {e[2]} : units'[v] = units[v]
      BY <1>2, <2>1, <2>2, DoneKeeps
    <3>2. units[e[2]].status = "RESULT_IN"
      <4>1. units[e[2]].status \in UnitStatus
        BY <1>2, <2>1, NumbersOK
      <4> QED
        BY <2>2, <4>1 DEF CanFinish, UnitStatus
    <3>3. ProvenIn(units, dispatches, e[2])
      <4>1. Backed(p[c].agenda, units, dispatches) /\ e = p[c].agenda[1]
        BY <1>1, HeadIs DEF Fitting, Fits, e
      <4> QED
        BY <1>2, <1>11, <3>2, <4>1 DEF Backed
    <3>4. ASSUME NEW v \in Units, units'[v].status = "DONE"
          PROVE  ProvenIn(units', dispatches', v)
      <4>1. CASE v = e[2]
        BY <2>1, <3>1, <3>3, <4>1, ProvenKept
      <4>2. CASE v # e[2]
        <5>1. units'[v] = units[v]
          BY <3>1, <4>2
        <5>2. ProvenIn(units, dispatches, v)
          BY <3>4, <5>1 DEF CInv, DoneAsDefined, DoneUnits, ProvenIn
        <5> QED
          BY <3>1, <5>1, <5>2, ProvenKept
      <4> QED
        BY <4>1, <4>2
    <3>5. Drives(c)
      <4>1. e[1] \notin CalmKinds
        BY <1>11 DEF CalmKinds
      <4> QED
        BY <1>1, <4>1, OnlyDriversDo DEF e
    <3>6. AwaitedOnce'
      BY <3>1, OnceKept
    <3> QED
      BY <1>1, <1>2, <2>1, <2>2, <3>1, <3>4, <3>5, <3>6, DriverCarries DEF e
  <2>3. CASE Continue(c, p[c], <<>>) /\ UNCHANGED tables
    BY <1>1, <2>1, <2>3, Carried DEF e
  <2> QED
    BY <1>2, <1>11, <2>2, <2>3 DEF Do
<1>12. CASE e[1] = "record" /\ Do(c, CanResult(e[2], e[3]), RecordResult(e[2], e[3]), <<>>)
  <2>1. e[2] \in Units /\ e[3] \in DOMAIN dispatches[e[2]] /\ e[1] # "accept"
    BY <1>2, <1>12, EntryShape DEF Sound, Numbered
  <2>2. CASE CanResult(e[2], e[3]) /\ RecordResult(e[2], e[3]) /\ Continue(c, p[c], Rest(c))
    <3>1. /\ RTypeOK' /\ Grows({}) /\ units'[e[2]].status = "RESULT_IN"
          /\ \A v \in Units \ {e[2]} : units'[v] = units[v]
      BY <1>2, <2>1, <2>2, ResultKeeps
    <3>2. ASSUME NEW v \in Units, units'[v].status = "DONE"
          PROVE  ProvenIn(units', dispatches', v)
      <4>1. units'[v] = units[v]
        BY <3>1, <3>2
      <4>2. ProvenIn(units, dispatches, v)
        BY <3>2, <4>1 DEF CInv, DoneAsDefined, DoneUnits, ProvenIn
      <4> QED
        BY <3>1, <4>1, <4>2, ProvenKept
    <3>3. Drives(c)
      <4>1. e[1] \notin CalmKinds
        BY <1>12 DEF CalmKinds
      <4> QED
        BY <1>1, <4>1, OnlyDriversDo DEF e
    <3>4. AwaitedOnce'
      BY <3>1, OnceKept
    <3> QED
      BY <1>1, <1>2, <2>1, <2>2, <3>1, <3>2, <3>3, <3>4, DriverCarries DEF e
  <2>3. CASE Continue(c, p[c], <<>>) /\ UNCHANGED tables
    BY <1>1, <2>1, <2>3, Carried DEF e
  <2> QED
    BY <1>2, <1>12, <2>2, <2>3 DEF Do
<1>13. CASE e[1] = "accept" /\ Do(c, CanVerify(e[2], e[3]),
                                     RecordVerification(e[2], e[3], TRUE, e[4]), <<>>)
  <2>1. /\ e[2] \in Units /\ e[3] \in DOMAIN dispatches[e[2]] /\ e[4] \in Nat
        /\ StillDefined(units, e[2], e[4])
    BY <1>2, <1>13, EntryShape DEF Sound, Numbered
  <2>2. Drives(c)
    <3>1. e[1] \notin CalmKinds
      BY <1>13 DEF CalmKinds
    <3> QED
      BY <1>1, <3>1, OnlyDriversDo DEF e
  <2>3. CASE /\ CanVerify(e[2], e[3]) /\ RecordVerification(e[2], e[3], TRUE, e[4])
             /\ Continue(c, p[c], Rest(c))
    <3>1. /\ RTypeOK' /\ Grows({}) /\ SameWork
          /\ units[e[2]].def = e[4] => ProvenIn(units', dispatches', e[2])
      BY <1>2, <2>1, <2>3, AcceptKeeps
    <3>2. ASSUME units'[e[2]].status = "RESULT_IN"
          PROVE  ProvenIn(units', dispatches', e[2])
      <4>1. units[e[2]].status = "RESULT_IN"
        BY <2>1, <3>1, <3>2 DEF SameWork
      <4> QED
        BY <2>1, <3>1, <4>1 DEF StillDefined
    <3>3. ASSUME NEW v \in Units, units'[v].status = "DONE"
          PROVE  ProvenIn(units', dispatches', v)
      <4>1. units[v].status = "DONE" /\ units'[v].def = units[v].def
        BY <3>1, <3>3 DEF SameWork
      <4>2. ProvenIn(units, dispatches, v)
        BY <4>1 DEF CInv, DoneAsDefined, DoneUnits, ProvenIn
      <4> QED
        BY <3>1, <4>1, <4>2, ProvenKept
    <3>4. AwaitedOnce'
      BY <3>1, OnceKept
    <3> QED
      BY <1>1, <1>2, <2>2, <2>3, <3>1, <3>2, <3>3, <3>4, DriverCarries DEF e
  <2>4. CASE Continue(c, p[c], <<>>) /\ UNCHANGED tables
    BY <1>1, <1>2, <2>4, EndDecide DEF CInv, CTypeOK
  <2> QED
    BY <1>2, <1>13, <2>3, <2>4 DEF Do
<1> QED
  BY <1>3, <1>4, <1>5, <1>6, <1>7, <1>8, <1>9, <1>10, <1>11, <1>12, <1>13
  DEF Transaction, At, Arg, e

-----------------------------------------------------------------------------
(* The decisions *)

LEMMA DriverDecides ==
    ASSUME CInv, OneDriver, NEW c \in Commands, p[c] # Idle, UNCHANGED spent,
           Head(p[c].agenda)[1] \notin CalmKinds \cup {"accept"},
           NEW more \in Seq(Plain), Decide(c, more)
    PROVE  CInv'
<1>1. Drives(c)
  BY OnlyDriversDo
<1> QED
  BY <1>1, PlainDecide

LEMMA DriverAdds ==
    ASSUME CInv, OneDriver, NEW c \in Commands, p[c] # Idle, UNCHANGED spent,
           Head(p[c].agenda)[1] \notin CalmKinds \cup {"accept"},
           NEW more \in Seq(Entry), Fitting(more),
           \A k \in 1 .. Len(more) : Targets(more[k]) \subseteq Targets(Head(p[c].agenda)),
           Decide(c, more)
    PROVE  CInv'
<1>1. Drives(c)
  BY OnlyDriversDo
<1> QED
  BY <1>1, AddDecide

LEMMA EndStep ==
    ASSUME CInv, OneDriver, NEW c \in Commands, p[c] # Idle, UNCHANGED spent, End(c)
    PROVE  CInv'
BY EndDecide DEF End, CInv, CTypeOK

LEMMA WalksAre ==
    /\ Walk \in Seq(Plain) /\ Ensure \in Seq(Plain) /\ Unwind \in Seq(Plain)
<1>1. /\ <<>> \in Seq(RunStates) /\ <<>> \in Seq(Plain)
      /\ <<"READY", "EXECUTING">> \in Seq(RunStates) /\ <<"EXECUTING">> \in Seq(RunStates)
      /\ <<"VERIFYING">> \in Seq(RunStates) /\ <<"VERIFYING", "CHECKPOINTED">> \in Seq(RunStates)
  BY DEF RunStates
<1>2. Walk \in Seq(Plain)
  <2>1. (CASE run \in {"CHECKPOINTED", "WAITING_HUMAN"} -> <<"READY", "EXECUTING">>
            [] run = "READY" -> <<"EXECUTING">>
            [] OTHER -> <<>>) \in Seq(RunStates)
    BY <1>1
  <2> QED
    BY <2>1, MovesAre DEF Walk
<1>3. Ensure \in Seq(Plain)
  BY <1>1, MovesAre DEF Ensure
<1>4. Unwind \in Seq(Plain)
  BY <1>1, MovesAre DEF Unwind
<1> QED
  BY <1>2, <1>3, <1>4

LEMMA LookStep ==
    ASSUME CInv, OneDriver, NEW c \in Commands, Look(c), UNCHANGED spent
    PROVE  CInv'
<1>1. p[c] # Idle
  BY DEF Look, At
<1>2. CASE At(c, "reconcile") /\ Decide(c, Reconcile)
  <2>1. Head(p[c].agenda)[1] # "accept"
    BY <1>2 DEF At
  <2> QED
    BY <1>1, <1>2, <2>1, ReconcileIs, PlainDecide
<1>3. CASE \/ At(c, "walk") /\ Decide(c, Walk)
           \/ At(c, "ensure") /\ Decide(c, Ensure)
           \/ At(c, "unwind") /\ Decide(c, Unwind)
  <2>1. Head(p[c].agenda)[1] \notin CalmKinds \cup {"accept"}
    BY <1>3 DEF At, CalmKinds
  <2> QED
    BY <1>1, <1>3, <2>1, WalksAre, DriverDecides
<1> QED
  BY <1>2, <1>3 DEF Look

LEMMA CloseIs ==
    ASSUME NEW u \in Units, NEW i \in DOMAIN dispatches[u], i \in Nat, NEW n \in Nat
    PROVE  Close(u, i, n) \in Seq(Plain)
<1>1. /\ <<"reject", u, i>> \in Plain /\ <<"fail", u>> \in Plain
      /\ Park(u, n) \in Plain /\ <<"tell", u>> \in Plain
  BY AttemptMade, PlainMade
<1> QED
  BY <1>1 DEF Close

LEMMA JudgeStep ==
    ASSUME CInv, OneDriver, NEW c \in Commands, Judge(c), UNCHANGED spent
    PROVE  CInv'
<1> DEFINE e == Head(p[c].agenda)
<1>1. p[c] # Idle /\ e[1] = "judge"
  BY DEF Judge, At
<1>2. e[1] \notin CalmKinds \cup {"accept"}
  BY <1>1 DEF CalmKinds
<1>3. e \in Entry /\ Sound(e, units, dispatches, fences, contract.revision)
  BY <1>1, HeadIs
<1> HIDE DEF e
<1>4. e[2] \in Units /\ e[3] \in Nat /\ e[4] \in Nat /\ e[3] \in DOMAIN dispatches[e[2]]
  BY <1>1, <1>3, EntryShape DEF Sound, Numbered
<1> DEFINE k == <<"check", e[2], e[3], e[4], units[e[2]].def>>
<1>5. \/ Decide(c, <<>>)
      \/ Decide(c, Close(e[2], e[3], e[4]))
      \/ Decide(c, <<k>>)
  BY DEF Judge, Arg, e
<1>6. CASE Decide(c, <<>>)
  <2>1. <<>> \in Seq(Plain)
    OBVIOUS
  <2> QED
    BY <1>1, <1>2, <1>6, <2>1, DriverDecides DEF e
<1>7. CASE Decide(c, Close(e[2], e[3], e[4]))
  BY <1>1, <1>2, <1>4, <1>7, CloseIs, DriverDecides DEF e
<1>8. CASE Decide(c, <<k>>)
  <2>1. k \in Entry /\ k[1] = "check" /\ k[2] = e[2] /\ k[3] = e[3] /\ k[5] = units[e[2]].def
    BY <1>4, EntryMade, NumbersOK DEF CInv, CTypeOK
  <2>2. Sound(k, units, dispatches, fences, contract.revision)
    BY <1>4, <2>1 DEF Sound, StillDefined, Sending
  <2>3. Targets(k) = {}
    BY <2>1, NoTargets DEF Chooses, Sending
  <2> HIDE DEF k
  <2>4. /\ <<k>> \in Seq(Entry) /\ Fitting(<<k>>) /\ Len(<<k>>) = 1 /\ <<k>>[1] = k
    BY <2>1, <2>2, OneFits DEF Fitting
  <2>5. \A j \in 1 .. Len(<<k>>) : Targets(<<k>>[j]) \subseteq Targets(Head(p[c].agenda))
    BY <2>3, <2>4
  <2> QED
    BY <1>1, <1>2, <1>8, <2>4, <2>5, DriverAdds DEF e
<1> QED
  BY <1>5, <1>6, <1>7, <1>8

\* The verdict, what it ends, and the fence that goes.
LEMMA VerdictFits ==
    ASSUME NEW u \in Units, NEW i \in DOMAIN dispatches[u], i \in Nat, NEW n \in Nat, NEW d \in Nat,
           StillDefined(units, u, d)
    PROVE  LET a == <<<<"accept", u, i, d>>, <<"done", u>>, Park(u, n)>> IN
           /\ a \in Seq(Entry) /\ Fitting(a)
           /\ \A k \in 1 .. Len(a) : Targets(a[k]) = {}
<1> DEFINE e1 == <<"accept", u, i, d>>
           e2 == <<"done", u>>
           e3 == Park(u, n)
           a == <<e1, e2, e3>>
<1>1. /\ e1 \in Entry /\ e1[1] = "accept" /\ e1[2] = u /\ e1[3] = i /\ e1[4] = d
      /\ e2 \in Entry /\ e2[1] = "done" /\ e2[2] = u
      /\ e3 \in Entry /\ e3[1] = "park"
  BY EntryMade DEF Park
<1>2. Targets(e1) = {} /\ Targets(e2) = {} /\ Targets(e3) = {}
  BY <1>1, NoTargets DEF Chooses, Sending
<1>3. Sound(e1, units, dispatches, fences, contract.revision)
  BY <1>1 DEF Sound, Sending
<1>4. Sound(e2, units, dispatches, fences, contract.revision)
  BY <1>1 DEF Sound, Sending, Numbered
<1>5. Sound(e3, units, dispatches, fences, contract.revision)
  BY <1>1 DEF Sound, Sending, Numbered
<1> HIDE DEF e1, e2, e3
<1>6. a \in Seq(Entry) /\ Len(a) = 3 /\ a[1] = e1 /\ a[2] = e2 /\ a[3] = e3
  BY <1>1
<1> HIDE DEF a
<1>7. 1 .. Len(a) = {1, 2, 3} /\ 2 .. Len(a) = {2, 3}
  BY <1>6
<1>8. \A k \in 1 .. Len(a) : Targets(a[k]) = {}
  BY <1>2, <1>6, <1>7
<1>9. Ordered(a)
  BY <1>1, <1>6, <1>7, <1>8 DEF Ordered
<1>10. Backed(a, units, dispatches)
  BY <1>1, <1>6 DEF Backed
<1>11. Fitting(a)
  BY <1>3, <1>4, <1>5, <1>6, <1>7, <1>9, <1>10 DEF Fits, Fitting
<1> QED
  BY <1>6, <1>8, <1>11 DEF a, e1, e2, e3

LEMMA CheckedStep ==
    ASSUME CInv, OneDriver, NEW c \in Commands, Checked(c), UNCHANGED spent
    PROVE  CInv'
<1> DEFINE e == Head(p[c].agenda)
<1>1. p[c] # Idle /\ e[1] = "check"
  BY DEF Checked, At
<1>2. e[1] \notin CalmKinds \cup {"accept"}
  BY <1>1 DEF CalmKinds
<1>3. e \in Entry /\ Sound(e, units, dispatches, fences, contract.revision)
  BY <1>1, HeadIs
<1> HIDE DEF e
<1>4. /\ e[2] \in Units /\ e[3] \in Nat /\ e[4] \in Nat /\ e[5] \in Nat
      /\ e[3] \in DOMAIN dispatches[e[2]] /\ StillDefined(units, e[2], e[5])
  BY <1>1, <1>3, EntryShape DEF Sound, Numbered
<1> DEFINE u == e[2]
           i == e[3]
           n == e[4]
           stale == <<<<"reject", u, i>>, <<"fail", u>>, <<"rollback", u, n, "stale">>>>
           judged == <<<<"reject", u, i>>, <<"fail", u>>, <<"rollback", u, n, "judged">>>>
           passed == <<<<"accept", u, i, e[5]>>, <<"done", u>>, Park(u, n)>>
<1>5. \/ Decide(c, Append(stale, <<"tell", u>>))
      \/ Decide(c, stale)
      \/ Decide(c, passed)
      \/ Decide(c, judged)
  BY DEF Checked, Arg, e
<1>6. /\ <<"reject", u, i>> \in Plain /\ <<"fail", u>> \in Plain /\ <<"tell", u>> \in Plain
      /\ <<"rollback", u, n, "stale">> \in Plain /\ <<"rollback", u, n, "judged">> \in Plain
  BY <1>4, AttemptMade, PlainMade
<1>7. stale \in Seq(Plain) /\ judged \in Seq(Plain)
  BY <1>6
<1>8. Append(stale, <<"tell", u>>) \in Seq(Plain)
  <2> HIDE DEF stale
  <2> QED
    BY <1>6, <1>7
<1>9. /\ passed \in Seq(Entry) /\ Fitting(passed)
      /\ \A k \in 1 .. Len(passed) : Targets(passed[k]) \subseteq Targets(Head(p[c].agenda))
  BY <1>4, VerdictFits
<1> HIDE DEF stale, judged, passed
<1>10. CASE Decide(c, Append(stale, <<"tell", u>>))
  BY <1>1, <1>2, <1>8, <1>10, DriverDecides DEF e
<1>11. CASE Decide(c, stale)
  BY <1>1, <1>2, <1>7, <1>11, DriverDecides DEF e
<1>12. CASE Decide(c, judged)
  BY <1>1, <1>2, <1>7, <1>12, DriverDecides DEF e
<1>13. CASE Decide(c, passed)
  BY <1>1, <1>2, <1>9, <1>13, DriverAdds DEF e
<1> QED
  BY <1>5, <1>10, <1>11, <1>12, <1>13

LEMMA RollbackStep ==
    ASSUME CInv, OneDriver, NEW c \in Commands, Rollback(c), UNCHANGED spent
    PROVE  CInv'
<1> DEFINE e == Head(p[c].agenda)
<1>1. p[c] # Idle /\ e[1] = "rollback"
  BY DEF Rollback, At
<1>2. e[1] \notin CalmKinds \cup {"accept"}
  BY <1>1 DEF CalmKinds
<1>3. e \in Entry
  BY <1>1, HeadIs
<1> HIDE DEF e
<1>4. e[2] \in Units /\ e[3] \in Nat
  BY <1>1, <1>3, EntryShape
<1> DEFINE undone == <<<<"tell", e[2]>>, Park(e[2], e[3])>>
<1>5. \/ Decide(c, <<Park(e[2], e[3])>>)
      \/ Decide(c, undone \o <<<<"terminal">>>>)
      \/ Decide(c, undone \o <<>>)
  BY DEF Rollback, Arg, e
<1>6. Park(e[2], e[3]) \in Plain /\ <<"tell", e[2]>> \in Plain
  BY <1>4, PlainMade
<1>7. <<"terminal">> \in Plain
  BY BarePlain DEF Bare, Chooses
<1>8. undone \in Seq(Plain) /\ <<<<"terminal">>>> \in Seq(Plain) /\ <<>> \in Seq(Plain)
  BY <1>6, <1>7
<1> HIDE DEF undone
<1>9. undone \o <<<<"terminal">>>> \in Seq(Plain) /\ undone \o <<>> \in Seq(Plain)
  BY <1>8
<1>10. <<Park(e[2], e[3])>> \in Seq(Plain)
  BY <1>6
<1>11. CASE Decide(c, <<Park(e[2], e[3])>>)
  BY <1>1, <1>2, <1>10, <1>11, DriverDecides DEF e
<1>12. CASE Decide(c, undone \o <<<<"terminal">>>>)
  BY <1>1, <1>2, <1>9, <1>12, DriverDecides DEF e
<1>13. CASE Decide(c, undone \o <<>>)
  BY <1>1, <1>2, <1>9, <1>13, DriverDecides DEF e
<1> QED
  BY <1>5, <1>11, <1>12, <1>13

\* A look at the run, and the moves it calls for.
LEMMA MovesMade ==
    /\ \A s \in RunStates : Moves(<<s>>) \in Seq(Plain) /\ Moves(<<s>>) \in Seq(Calm)
    /\ \A path \in Seq(RunStates) : \A s \in RunStates : Moves(path \o <<s>>) \in Seq(Plain)
    /\ <<>> \in Seq(Plain) /\ <<>> \in Seq(Calm)
<1>1. ASSUME NEW s \in RunStates
      PROVE  Moves(<<s>>) \in Seq(Plain) /\ Moves(<<s>>) \in Seq(Calm)
  <2>1. <<s>> \in Seq(RunStates)
    OBVIOUS
  <2> QED
    BY <2>1, MovesAre
<1>2. ASSUME NEW path \in Seq(RunStates), NEW s \in RunStates
      PROVE  Moves(path \o <<s>>) \in Seq(Plain)
  <2>1. path \o <<s>> \in Seq(RunStates)
    OBVIOUS
  <2> QED
    BY <2>1, MovesAre
<1> QED
  BY <1>1, <1>2

LEMMA PlainSequences ==
    /\ \A x \in Plain : <<x>> \in Seq(Plain)
    /\ \A x, y \in Plain : <<x, y>> \in Seq(Plain)
    /\ \A s, t \in Seq(Plain) : s \o t \in Seq(Plain)
OBVIOUS

\* A decision of a driver that puts plain entries on the agenda, or ends it.
LEMMA DriverGoesOn ==
    ASSUME CInv, OneDriver, NEW c \in Commands, p[c] # Idle, UNCHANGED spent,
           Head(p[c].agenda)[1] \notin CalmKinds \cup {"accept"},
           End(c) \/ \E more \in Seq(Plain) : Decide(c, more)
    PROVE  CInv'
BY EndStep, DriverDecides

LEMMA SettleStep ==
    ASSUME CInv, OneDriver, NEW c \in Commands, UNCHANGED spent,
           FailTerminally(c) \/ Settle(c) \/ WaitForFounder(c) \/ Deliver(c) \/ Delivered(c)
    PROVE  CInv'
<1>1. /\ p[c] # Idle
      /\ Head(p[c].agenda)[1] \in {"terminal", "settle", "wait", "deliver", "delivered"}
  BY DEF FailTerminally, Settle, WaitForFounder, Deliver, Delivered, At
<1>2. Head(p[c].agenda)[1] \notin CalmKinds \cup {"accept"}
  BY <1>1 DEF CalmKinds
<1>3. /\ <<"settle">> \in Plain /\ <<"unwind">> \in Plain /\ <<"nothing ready">> \in Plain
      /\ run \in RunStates
  BY BarePlain DEF Bare, Chooses, CInv, CTypeOK, RTypeOK
<1>4. ASSUME FailTerminally(c)
      PROVE  \E more \in Seq(Plain) : Decide(c, more)
  <2>1. "FAILED_TERMINAL" \in RunStates
    BY DEF RunStates, Terminal
  <2> QED
    BY <1>4, <2>1, MovesMade DEF FailTerminally
<1>5. ASSUME Settle(c)
      PROVE  End(c) \/ \E more \in Seq(Plain) : Decide(c, more)
  <2>1. "VERIFYING" \in RunStates /\ "CHECKPOINTED" \in RunStates /\ "READY" \in RunStates
    BY DEF RunStates
  <2>2. /\ Moves(<<"VERIFYING">>) \in Seq(Plain) /\ Moves(<<"CHECKPOINTED">>) \in Seq(Plain)
        /\ Moves(<<"READY">>) \in Seq(Plain)
    BY <2>1, MovesMade
  <2>3. <<<<"settle">>>> \in Seq(Plain) /\ <<<<"unwind">>, <<"nothing ready">>>> \in Seq(Plain)
    BY <1>3, PlainSequences
  <2>4. /\ Moves(<<"VERIFYING">>) \o <<<<"settle">>>> \in Seq(Plain)
        /\ Moves(<<"CHECKPOINTED">>) \o <<<<"settle">>>> \in Seq(Plain)
    BY <2>2, <2>3, PlainSequences
  <2>5. \/ Decide(c, Moves(<<"VERIFYING">>) \o <<<<"settle">>>>)
        \/ Decide(c, Moves(<<"CHECKPOINTED">>) \o <<<<"settle">>>>)
        \/ Decide(c, Moves(<<"READY">>))
        \/ Decide(c, <<<<"unwind">>, <<"nothing ready">>>>)
        \/ End(c)
    BY <1>5 DEF Settle
  <2> QED
    BY <2>2, <2>3, <2>4, <2>5
<1>6. ASSUME WaitForFounder(c)
      PROVE  End(c) \/ \E more \in Seq(Plain) : Decide(c, more)
  <2>1. "WAITING_HUMAN" \in RunStates
    BY DEF RunStates
  <2>2. Decide(c, Moves(<<"WAITING_HUMAN">>)) \/ End(c)
    BY <1>6 DEF WaitForFounder
  <2> QED
    BY <2>1, <2>2, MovesMade
<1>7. ASSUME Deliver(c)
      PROVE  End(c) \/ \E more \in Seq(Plain) : Decide(c, more)
  <2>1. <<"delivered", run>> \in Entry /\ <<"delivered", run>>[1] = "delivered"
    BY <1>3 DEF Entry
  <2>2. <<"delivered", run>> \in Plain
    BY <2>1 DEF Plain, Chooses, Sending, Verdicts, Numbered
  <2>3. <<<<"delivered", run>>>> \in Seq(Plain)
    BY <2>2
  <2>4. Decide(c, <<<<"delivered", run>>>>) \/ End(c)
    BY <1>7 DEF Deliver
  <2> QED
    BY <2>3, <2>4
<1>8. ASSUME Delivered(c)
      PROVE  End(c) \/ \E more \in Seq(Plain) : Decide(c, more)
  <2> DEFINE path == CASE Arg(c, 2) = "EXECUTING" -> <<"VERIFYING", "CHECKPOINTED">>
                       [] Arg(c, 2) = "VERIFYING" -> <<"CHECKPOINTED">>
                       [] Arg(c, 2) = "WAITING_HUMAN" -> <<"READY">>
                       [] OTHER -> <<>>
  <2>1. path \in Seq(RunStates) /\ "DELIVERABLE_READY" \in RunStates
    <3>1. /\ <<"VERIFYING", "CHECKPOINTED">> \in Seq(RunStates)
          /\ <<"CHECKPOINTED">> \in Seq(RunStates) /\ <<"READY">> \in Seq(RunStates)
          /\ <<>> \in Seq(RunStates) /\ "DELIVERABLE_READY" \in RunStates
      BY DEF RunStates
    <3> QED
      BY <3>1
  <2>2. Decide(c, Moves(path \o <<"DELIVERABLE_READY">>)) \/ End(c)
    BY <1>8 DEF Delivered
  <2> HIDE DEF path
  <2>3. Moves(path \o <<"DELIVERABLE_READY">>) \in Seq(Plain)
    BY <2>1, MovesMade
  <2> QED
    BY <2>2, <2>3
<1> QED
  BY <1>1, <1>2, <1>4, <1>5, <1>6, <1>7, <1>8, DriverGoesOn

LEMMA NothingReadyStep ==
    ASSUME CInv, OneDriver, NEW c \in Commands, UNCHANGED spent, NothingReady(c)
    PROVE  CInv'
<1> DEFINE stuck == {u \in Unreachable : Lane[u] \notin gated}
           told == SetToSeq({<<"tell", u>> : u \in stuck})
           again == IF stuck = {} THEN <<>> ELSE <<<<"reconcile">>>>
           more == told \o again \o <<<<"wait">>>>
<1>1. p[c] # Idle /\ Head(p[c].agenda)[1] = "nothing ready"
  BY DEF NothingReady, At
<1>2. Head(p[c].agenda)[1] \notin CalmKinds \cup {"accept"}
  BY <1>1 DEF CalmKinds
<1>3. <<"deliver">> \in Plain /\ <<"reconcile">> \in Plain /\ <<"wait">> \in Plain
  BY BarePlain DEF Bare, Chooses
<1>4. stuck \in SUBSET Units
  BY DEF Unreachable, Behind
<1>5. End(c) \/ Decide(c, <<<<"deliver">>>>) \/ Decide(c, more)
  BY DEF NothingReady
<1> HIDE DEF stuck
<1>6. told \in Seq(Plain) /\ again \in Seq(Plain) /\ <<<<"wait">>>> \in Seq(Plain)
      /\ <<<<"deliver">>>> \in Seq(Plain)
  <2>1. told \in Seq(Plain)
    BY <1>4, TellAll
  <2>2. /\ <<<<"wait">>>> \in Seq(Plain) /\ <<<<"deliver">>>> \in Seq(Plain)
        /\ <<<<"reconcile">>>> \in Seq(Plain) /\ <<>> \in Seq(Plain)
    BY <1>3, PlainSequences, MovesMade
  <2>3. again \in Seq(Plain)
    BY <2>2
  <2> QED
    BY <2>1, <2>2, <2>3
<1> HIDE DEF told, again
<1>7. more \in Seq(Plain)
  BY <1>6
<1> HIDE DEF more
<1> QED
  BY <1>1, <1>2, <1>5, <1>6, <1>7, DriverGoesOn

LEMMA JudgingStep ==
    ASSUME CInv, OneDriver, NEW c \in Commands, Judging(c), UNCHANGED spent
    PROVE  CInv'
BY JudgeStep, RollbackStep, CheckedStep, SettleStep, NothingReadyStep DEF Judging

-----------------------------------------------------------------------------
(* step *)

LEMMA ListStep ==
    ASSUME CInv, OneDriver, NEW c \in Commands, ListUnits(c), UNCHANGED spent
    PROVE  CInv'
<1> DEFINE o == <<"orphans", Rows>>
           r == <<"results", Rows>>
<1>1. p[c] # Idle /\ Head(p[c].agenda)[1] = "list" /\ Decide(c, <<o, r>>)
  BY DEF ListUnits, At
<1>2. Head(p[c].agenda)[1] \notin CalmKinds \cup {"accept"}
  BY <1>1 DEF CalmKinds
<1>3. Rows \subseteq Listed
  BY NumbersOK DEF Rows, Row, Listed, Planned, CInv, CTypeOK
<1>4. o \in Entry /\ r \in Entry /\ o[1] = "orphans" /\ r[1] = "results"
  BY <1>3 DEF Entry
<1>5. Targets(o) = {}
  BY <1>4, NoTargets DEF Chooses, Sending
<1>6. /\ Sound(o, units, dispatches, fences, contract.revision)
      /\ Sound(r, units, dispatches, fences, contract.revision)
  BY <1>4 DEF Sound, Sending, Numbered
<1>7. Targets(r) = Units /\ Targets(Head(p[c].agenda)) = Units
  BY <1>1, <1>4, TargetsAre
<1> HIDE DEF o, r
<1>8. /\ <<o, r>> \in Seq(Entry) /\ Fitting(<<o, r>>)
      /\ Len(<<o, r>>) = 2 /\ <<o, r>>[1] = o /\ <<o, r>>[2] = r
  BY <1>4, <1>5, <1>6, TwoFit DEF Fitting
<1>9. \A k \in 1 .. Len(<<o, r>>) : Targets(<<o, r>>[k]) \subseteq Targets(Head(p[c].agenda))
  BY <1>5, <1>7, <1>8
<1> QED
  BY <1>1, <1>2, <1>8, <1>9, DriverAdds

LEMMA RepairIs ==
    ASSUME NEW r \in Listed
    PROVE  Repair(r) \in Seq(Plain)
<1>1. r.unit \in Units /\ r.fence \in Nat
  BY DEF Listed
<1>2. /\ Park(r.unit, r.fence) \in Plain /\ <<"release", r.unit>> \in Plain
      /\ <<"fail", r.unit>> \in Plain
  BY <1>1, PlainMade
<1>3. /\ <<Park(r.unit, r.fence)>> \in Seq(Plain)
      /\ <<Park(r.unit, r.fence), <<"release", r.unit>>>> \in Seq(Plain)
      /\ <<Park(r.unit, r.fence), <<"fail", r.unit>>>> \in Seq(Plain)
      /\ <<>> \in Seq(Plain)
  BY <1>2, PlainSequences, MovesMade
<1> QED
  BY <1>3 DEF Repair

LEMMA NotedMade ==
    ASSUME NEW q \in Underway, NEW b \in BOOLEAN
    PROVE  [q EXCEPT !.noted = b] \in Underway /\ [q EXCEPT !.sent = b] \in Underway
BY DEF Underway

LEMMA OrphansStep ==
    ASSUME CInv, OneDriver, NEW c \in Commands, Orphans(c), UNCHANGED spent
    PROVE  CInv'
<1> DEFINE e == Head(p[c].agenda)
<1>1. p[c] # Idle /\ e[1] = "orphans"
  BY DEF Orphans, At
<1>2. e[1] \notin CalmKinds \cup {"accept"}
  BY <1>1 DEF CalmKinds
<1>3. e \in Entry /\ p[c] \in Underway
  BY <1>1, HeadIs
<1>4. Drives(c)
  BY <1>1, <1>2, OnlyDriversDo
<1> HIDE DEF e
<1>5. e[2] \subseteq Listed
  BY <1>1, <1>3, EntryShape
<1>6. CASE Decide(c, <<>>)
  BY <1>1, <1>2, <1>6, MovesMade, DriverDecides DEF e
<1>7. ASSUME NEW r \in e[2],
             Continue(c, [p[c] EXCEPT !.noted = @ \/ Repair(r) # <<>>],
                      Repair(r) \o <<<<"orphans", e[2] \ {r}>>>> \o Rest(c)),
             UNCHANGED tables
      PROVE  CInv'
  <2> DEFINE q == [p[c] EXCEPT !.noted = @ \/ Repair(r) # <<>>]
             o == <<"orphans", e[2] \ {r}>>
             more == Repair(r) \o <<o>>
  <2>1. q \in Underway
    <3>1. (p[c].noted \/ Repair(r) # <<>>) \in BOOLEAN
      BY Zenon
    <3>2. \A b \in BOOLEAN : [p[c] EXCEPT !.noted = b] \in Underway
      BY <1>3, NotedMade
    <3> QED
      BY <3>1, <3>2, Zenon
  <2>2. o \in Plain
    <3>1. o \in Entry /\ o[1] = "orphans"
      BY <1>5 DEF Entry
    <3> QED
      BY <3>1 DEF Plain, Chooses, Sending, Verdicts, Numbered
  <2>3. Repair(r) \in Seq(Plain)
    BY <1>5, <1>7, RepairIs
  <2> HIDE DEF q, o
  <2>4. <<o>> \in Seq(Plain) /\ more \in Seq(Plain)
    BY <2>2, <2>3, PlainSequences
  <2>5. more \in Seq(Entry) /\ Rest(c) \in Seq(Entry)
    BY <1>1, <2>4, PlainFits, UnderwayHas DEF CInv
  <2>6. Continue(c, q, more \o Rest(c))
    BY <1>7 DEF q, o
  <2> HIDE DEF more
  <2>7. RTypeOK' /\ Grows({}) /\ SameWork
    BY <1>7, StandStill
  <2> QED
    BY <1>1, <1>2, <1>4, <2>1, <2>4, <2>6, <2>7, PlainStep DEF e
<1> QED
  BY <1>6, <1>7 DEF Orphans, Arg, e

LEMMA ResultsStep ==
    ASSUME CInv, OneDriver, NEW c \in Commands, Results(c), UNCHANGED spent
    PROVE  CInv'
<1> DEFINE e == Head(p[c].agenda)
           k == <<"contract">>
<1>1. p[c] # Idle /\ e[1] = "results"
  BY DEF Results, At
<1>2. e[1] \notin CalmKinds \cup {"accept"}
  BY <1>1 DEF CalmKinds
<1>3. e \in Entry
  BY <1>1, HeadIs
<1>4. Targets(e) = Units
  BY <1>1, TargetsAre
<1> HIDE DEF e
<1>5. e[2] \subseteq Listed
  BY <1>1, <1>3, EntryShape
<1>6. CASE End(c)
  BY <1>1, <1>2, <1>6, EndStep DEF e
<1>7. CASE Decide(c, <<k>>)
  <2>1. k \in Entry /\ k[1] = "contract"
    BY BareMade DEF Bare
  <2>2. Sound(k, units, dispatches, fences, contract.revision)
    BY <2>1 DEF Sound, Sending, Numbered
  <2>3. Targets(k) = Units
    BY <2>1, TargetsAre
  <2> HIDE DEF k
  <2>4. <<k>> \in Seq(Entry) /\ Fitting(<<k>>) /\ Len(<<k>>) = 1 /\ <<k>>[1] = k
    BY <2>1, <2>2, OneFits DEF Fitting
  <2>5. \A j \in 1 .. Len(<<k>>) : Targets(<<k>>[j]) \subseteq Targets(Head(p[c].agenda))
    BY <1>4, <2>3, <2>4 DEF e
  <2> QED
    BY <1>1, <1>2, <1>7, <2>4, <2>5, DriverAdds DEF e
<1>8. ASSUME NEW x \in Unjudged(e[2]),
             \/ Decide(c, <<<<"walk">>, <<"ensure">>, <<"judge", x[1].unit, x[2], x[1].fence>>,
                            <<"settle">>>>)
             \/ Decide(c, Close(x[1].unit, x[2], x[1].fence))
      PROVE  CInv'
  <2>1. /\ x[1] \in Listed /\ <<x[1].unit, x[2]>> \in Dispatches({"RESULT_IN"})
    BY <1>5 DEF Unjudged
  <2>2. /\ x[1].unit \in Units /\ x[1].fence \in Nat
        /\ x[2] \in DOMAIN dispatches[x[1].unit]
    BY <2>1, DispatchesAre DEF Listed
  <2>3. x[2] \in Nat
    <3>1. dispatches[x[1].unit] \in Seq(Attempt)
      BY <2>2 DEF CInv, CTypeOK, RTypeOK
    <3> QED
      BY <2>2, <3>1
  <2> DEFINE j == <<"judge", x[1].unit, x[2], x[1].fence>>
  <2>4. /\ j \in Plain /\ <<"walk">> \in Plain /\ <<"ensure">> \in Plain
        /\ <<"settle">> \in Plain
    BY <2>2, <2>3, AttemptMade, BarePlain DEF Bare, Chooses
  <2>5. Close(x[1].unit, x[2], x[1].fence) \in Seq(Plain)
    BY <2>2, <2>3, CloseIs
  <2> HIDE DEF j
  <2>6. <<<<"walk">>, <<"ensure">>, j, <<"settle">>>> \in Seq(Plain)
    BY <2>4
  <2> QED
    BY <1>1, <1>2, <1>8, <2>5, <2>6, DriverDecides DEF e, j
<1>9. \/ End(c)
      \/ Decide(c, <<k>>)
      \/ \E x \in Unjudged(e[2]) :
           \/ Decide(c, <<<<"walk">>, <<"ensure">>, <<"judge", x[1].unit, x[2], x[1].fence>>,
                          <<"settle">>>>)
           \/ Decide(c, Close(x[1].unit, x[2], x[1].fence))
  BY DEF Results, Arg, e
<1> QED
  BY <1>6, <1>7, <1>8, <1>9

LEMMA ContractStep ==
    ASSUME CInv, OneDriver, NEW c \in Commands, ReadContract(c), UNCHANGED spent
    PROVE  CInv'
<1> DEFINE k == <<"await">>
<1>1. p[c] # Idle /\ Head(p[c].agenda)[1] = "contract"
  BY DEF ReadContract, At
<1>2. Head(p[c].agenda)[1] \notin CalmKinds \cup {"accept"}
  BY <1>1 DEF CalmKinds
<1>3. \/ Decide(c, <<k>>) \/ Decide(c, Moves(<<"PAUSED">>)) \/ Decide(c, <<<<"stopping">>>>)
  BY DEF ReadContract
<1>4. CASE Decide(c, <<k>>)
  <2>1. k \in Entry /\ k[1] = "await"
    BY BareMade DEF Bare
  <2>2. Sound(k, units, dispatches, fences, contract.revision)
    BY <2>1 DEF Sound, Sending, Numbered
  <2>3. Targets(k) = Units /\ Targets(Head(p[c].agenda)) = Units
    BY <1>1, <2>1, TargetsAre
  <2> HIDE DEF k
  <2>4. <<k>> \in Seq(Entry) /\ Fitting(<<k>>) /\ Len(<<k>>) = 1 /\ <<k>>[1] = k
    BY <2>1, <2>2, OneFits DEF Fitting
  <2>5. \A j \in 1 .. Len(<<k>>) : Targets(<<k>>[j]) \subseteq Targets(Head(p[c].agenda))
    BY <2>3, <2>4
  <2> QED
    BY <1>1, <1>2, <1>4, <2>4, <2>5, DriverAdds
<1>5. CASE Decide(c, Moves(<<"PAUSED">>))
  <2>1. "PAUSED" \in RunStates
    BY DEF RunStates
  <2> QED
    BY <1>1, <1>2, <1>5, <2>1, MovesMade, DriverDecides
<1>6. CASE Decide(c, <<<<"stopping">>>>)
  <2>1. <<"stopping">> \in Plain
    BY BarePlain DEF Bare, Chooses
  <2> QED
    BY <1>1, <1>2, <1>6, <2>1, PlainSequences, DriverDecides
<1> QED
  BY <1>3, <1>4, <1>5, <1>6

LEMMA AwaitStep ==
    ASSUME CInv, OneDriver, NEW c \in Commands, Await(c), UNCHANGED spent
    PROVE  CInv'
<1> DEFINE D == Dispatches({"DISPATCHED"})
           r == <<"reconcile">>
           k == <<"select">>
<1>1. p[c] # Idle /\ Head(p[c].agenda)[1] = "await"
  BY DEF Await, At
<1>2. Head(p[c].agenda)[1] \notin CalmKinds \cup {"accept"}
  BY <1>1 DEF CalmKinds
<1>3. CASE D = {} /\ Decide(c, <<r, k>>)
  <2>1. r \in Entry /\ k \in Entry /\ r[1] = "reconcile" /\ k[1] = "select"
    BY BareMade DEF Bare
  <2>2. \A u \in Units : AwaitedIn(dispatches, u) = {}
    <3>1. ASSUME NEW u \in Units, NEW i \in AwaitedIn(dispatches, u)
          PROVE  FALSE
      <4>1. <<u, i>> \in Dispatches({"DISPATCHED"})
        BY <3>1 DEF Dispatches, AwaitedIn
      <4> QED
        BY <1>3, <4>1
    <3> QED
      BY <3>1
  <2>3. Targets(k) = Units /\ Targets(Head(p[c].agenda)) = Units /\ Targets(r) = {}
    BY <1>1, <2>1, TargetsAre, NoTargets DEF Chooses, Sending
  <2>4. /\ Sound(r, units, dispatches, fences, contract.revision)
        /\ Sound(k, units, dispatches, fences, contract.revision)
    BY <2>1, <2>2, <2>3 DEF Sound, Sending, Numbered
  <2> HIDE DEF r, k
  <2>5. /\ <<r, k>> \in Seq(Entry) /\ Fitting(<<r, k>>)
        /\ Len(<<r, k>>) = 2 /\ <<r, k>>[1] = r /\ <<r, k>>[2] = k
    BY <2>1, <2>3, <2>4, TwoFit DEF Fitting
  <2>6. \A j \in 1 .. Len(<<r, k>>) : Targets(<<r, k>>[j]) \subseteq Targets(Head(p[c].agenda))
    BY <2>3, <2>5
  <2> QED
    BY <1>1, <1>2, <1>3, <2>5, <2>6, DriverAdds
<1>4. ASSUME NEW d \in D, Decide(c, <<<<"ask again", d[1], d[2], units[d[1]].fence>>>>)
      PROVE  CInv'
  <2>1. d[1] \in Units /\ d[2] \in DOMAIN dispatches[d[1]]
    BY DispatchesAre
  <2>2. d[2] \in Nat /\ units[d[1]].fence \in Nat
    BY <2>1, NumbersOK DEF CInv, CTypeOK
  <2>3. <<"ask again", d[1], d[2], units[d[1]].fence>> \in Plain
    BY <2>1, <2>2, AttemptMade
  <2> QED
    BY <1>1, <1>2, <1>4, <2>3, PlainSequences, DriverDecides
<1>5. CASE End(c)
  BY <1>1, <1>5, EndStep
<1> QED
  BY <1>3, <1>4, <1>5 DEF Await

LEMMA AskAgainStep ==
    ASSUME CInv, OneDriver, NEW c \in Commands, AskAgain(c), UNCHANGED spent
    PROVE  CInv'
<1> DEFINE e == Head(p[c].agenda)
<1>1. p[c] # Idle /\ e[1] = "ask again"
  BY DEF AskAgain, At
<1>2. e[1] \notin CalmKinds \cup {"accept"}
  BY <1>1 DEF CalmKinds
<1>3. e \in Entry /\ Sound(e, units, dispatches, fences, contract.revision)
  BY <1>1, HeadIs
<1> HIDE DEF e
<1>4. e[2] \in Units /\ e[3] \in Nat /\ e[4] \in Nat /\ e[3] \in DOMAIN dispatches[e[2]]
  BY <1>1, <1>3, EntryShape DEF Sound, Numbered
<1> DEFINE r == <<"reject", e[2], e[3]>>
           k == Park(e[2], e[4])
           f == <<"fail", e[2]>>
<1>5. \/ Decide(c, <<<<"stopping">>>>) \/ Decide(c, <<r, k, f>>)
      \/ Decide(c, <<r, f, k>>) \/ Decide(c, <<<<"walk">>>>)
  BY DEF AskAgain, Arg, e
<1>6. /\ r \in Plain /\ k \in Plain /\ f \in Plain
      /\ <<"stopping">> \in Plain /\ <<"walk">> \in Plain
  BY <1>4, AttemptMade, PlainMade, BarePlain DEF Bare, Chooses
<1> HIDE DEF r, k, f
<1>7. <<r, k, f>> \in Seq(Plain) /\ <<r, f, k>> \in Seq(Plain)
  BY <1>6
<1>8. <<<<"stopping">>>> \in Seq(Plain) /\ <<<<"walk">>>> \in Seq(Plain)
  BY <1>6, PlainSequences
<1> QED
  BY <1>1, <1>2, <1>5, <1>7, <1>8, DriverDecides DEF e

LEMMA SelectStep ==
    ASSUME CInv, OneDriver, NEW c \in Commands, Select(c), UNCHANGED spent
    PROVE  CInv'
<1> DEFINE e == Head(p[c].agenda)
           w == <<"walk">>
           k == <<"wave", Ready>>
<1>1. p[c] # Idle /\ e[1] = "select"
  BY DEF Select, At
<1>2. e[1] \notin CalmKinds \cup {"accept"}
  BY <1>1 DEF CalmKinds
<1>3. e \in Entry /\ Sound(e, units, dispatches, fences, contract.revision) /\ Targets(e) = Units
  BY <1>1, HeadIs, TargetsAre
<1>4. \A u \in Units : AwaitedIn(dispatches, u) = {}
  BY <1>1, <1>3 DEF Sound
<1>5. \/ Decide(c, <<<<"unwind">>, <<"nothing ready">>>>)
      \/ End(c)
      \/ Decide(c, <<w, k>>)
  BY DEF Select
<1> HIDE DEF e
<1>6. CASE Decide(c, <<<<"unwind">>, <<"nothing ready">>>>)
  <2>1. <<"unwind">> \in Plain /\ <<"nothing ready">> \in Plain
    BY BarePlain DEF Bare, Chooses
  <2>2. <<<<"unwind">>, <<"nothing ready">>>> \in Seq(Plain)
    BY <2>1, PlainSequences
  <2> QED
    BY <1>1, <1>2, <1>6, <2>2, DriverDecides DEF e
<1>7. CASE End(c)
  BY <1>1, <1>7, EndStep
<1>8. CASE Decide(c, <<w, k>>)
  <2>1. w \in Entry /\ w[1] = "walk"
    BY BareMade DEF Bare
  <2>2. k \in Entry /\ k[1] = "wave" /\ k[2] \subseteq Units
    BY DEF Entry, Ready
  <2>3. Targets(w) = {} /\ Targets(k) \subseteq Units
    BY <2>1, <2>2, TargetsAre, NoTargets DEF Chooses, Sending
  <2>4. /\ Sound(w, units, dispatches, fences, contract.revision)
        /\ Sound(k, units, dispatches, fences, contract.revision)
    BY <1>4, <2>1, <2>2, <2>3 DEF Sound, Sending, Numbered
  <2> HIDE DEF w, k
  <2>5. /\ <<w, k>> \in Seq(Entry) /\ Fitting(<<w, k>>)
        /\ Len(<<w, k>>) = 2 /\ <<w, k>>[1] = w /\ <<w, k>>[2] = k
    BY <2>1, <2>2, <2>3, <2>4, TwoFit DEF Fitting
  <2>6. \A j \in 1 .. Len(<<w, k>>) : Targets(<<w, k>>[j]) \subseteq Targets(Head(p[c].agenda))
    BY <1>3, <2>3, <2>5 DEF e
  <2> QED
    BY <1>1, <1>2, <1>8, <2>5, <2>6, DriverAdds DEF e
<1> QED
  BY <1>5, <1>6, <1>7, <1>8

LEMMA WaveStep ==
    ASSUME CInv, OneDriver, NEW c \in Commands, Wave(c), UNCHANGED spent
    PROVE  CInv'
<1> DEFINE e == Head(p[c].agenda)
<1>1. p[c] # Idle /\ e[1] = "wave"
  BY DEF Wave, At
<1>2. e[1] \notin CalmKinds \cup {"accept"}
  BY <1>1 DEF CalmKinds
<1>3. /\ e \in Entry /\ Sound(e, units, dispatches, fences, contract.revision)
      /\ Targets(e) = e[2] /\ e[2] \subseteq Units
  BY <1>1, HeadIs, TargetsAre, EntryShape
<1>4. \A u \in e[2] : AwaitedIn(dispatches, u) = {}
  BY <1>1, <1>3 DEF Sound
<1>5. \/ End(c)
      \/ Decide(c, <<<<"unwind">>>>)
      \/ \E u \in e[2] : Decide(c, <<<<"gate", u>>, <<"wave", e[2] \ {u}>>>>)
  BY DEF Wave, Arg
<1> HIDE DEF e
<1>6. CASE End(c)
  BY <1>1, <1>6, EndStep
<1>7. CASE Decide(c, <<<<"unwind">>>>)
  <2>1. <<"unwind">> \in Plain
    BY BarePlain DEF Bare, Chooses
  <2>2. <<<<"unwind">>>> \in Seq(Plain)
    BY <2>1, PlainSequences
  <2> QED
    BY <1>1, <1>2, <1>7, <2>2, DriverDecides DEF e
<1>8. ASSUME NEW u \in e[2], Decide(c, <<<<"gate", u>>, <<"wave", e[2] \ {u}>>>>)
      PROVE  CInv'
  <2> DEFINE g == <<"gate", u>>
             k == <<"wave", e[2] \ {u}>>
  <2>1. g \in Entry /\ g[1] = "gate" /\ g[2] = u
    BY <1>3, EntryMade
  <2>2. k \in Entry /\ k[1] = "wave" /\ k[2] = e[2] \ {u}
    BY <1>3 DEF Entry
  <2>3. Targets(g) = {u} /\ Targets(k) = e[2] \ {u}
    BY <2>1, <2>2, TargetsAre DEF Sending
  <2>4. Sound(g, units, dispatches, fences, contract.revision)
    BY <1>4, <2>1, <2>3 DEF Sound, Numbered
  <2>5. Sound(k, units, dispatches, fences, contract.revision)
    BY <1>4, <2>2, <2>3 DEF Sound, Sending, Numbered
  <2>6. Decide(c, <<g, k>>)
    BY <1>8
  <2> HIDE DEF g, k
  <2>7. /\ <<g, k>> \in Seq(Entry) /\ Fitting(<<g, k>>)
        /\ Len(<<g, k>>) = 2 /\ <<g, k>>[1] = g /\ <<g, k>>[2] = k
    <3>1. Targets(g) \cap Targets(k) = {}
      BY <2>3
    <3> QED
      BY <2>1, <2>2, <2>4, <2>5, <3>1, TwoFit DEF Fitting
  <2>8. \A j \in 1 .. Len(<<g, k>>) : Targets(<<g, k>>[j]) \subseteq Targets(Head(p[c].agenda))
    BY <1>3, <2>3, <2>7 DEF e
  <2> QED
    BY <1>1, <1>2, <2>6, <2>7, <2>8, DriverAdds DEF e
<1> QED
  BY <1>5, <1>6, <1>7, <1>8

LEMMA GateStep ==
    ASSUME CInv, OneDriver, NEW c \in Commands, Gate(c), UNCHANGED spent
    PROVE  CInv'
<1> DEFINE e == Head(p[c].agenda)
           k == <<"claim fence", e[2], contract.revision>>
<1>1. p[c] # Idle /\ e[1] = "gate"
  BY DEF Gate, At
<1>2. e[1] \notin CalmKinds \cup {"accept"}
  BY <1>1 DEF CalmKinds
<1>3. /\ e \in Entry /\ Sound(e, units, dispatches, fences, contract.revision)
      /\ Targets(e) = {e[2]} /\ e[2] \in Units
  BY <1>1, HeadIs, TargetsAre, EntryShape DEF Sending
<1>4. AwaitedIn(dispatches, e[2]) = {}
  BY <1>1, <1>3 DEF Sound, Sending
<1>5. \/ Decide(c, <<<<"stopping">>>>)
      \/ Decide(c, <<<<"fail", e[2]>>>>)
      \/ Decide(c, <<k>>)
  BY DEF Gate, Arg
<1> HIDE DEF e
<1>6. CASE Decide(c, <<<<"stopping">>>>) \/ Decide(c, <<<<"fail", e[2]>>>>)
  <2>1. <<"stopping">> \in Plain /\ <<"fail", e[2]>> \in Plain
    BY <1>3, PlainMade, BarePlain DEF Bare, Chooses
  <2>2. <<<<"stopping">>>> \in Seq(Plain) /\ <<<<"fail", e[2]>>>> \in Seq(Plain)
    BY <2>1, PlainSequences
  <2> QED
    BY <1>1, <1>2, <1>6, <2>2, DriverDecides DEF e
<1>7. CASE Decide(c, <<k>>)
  <2>1. contract.revision \in Nat /\ contract.revision >= 1
    BY NumbersOK DEF CInv, CTypeOK
  <2>2. k \in Entry /\ k[1] = "claim fence" /\ k[2] = e[2] /\ k[3] = contract.revision
    BY <1>3, <2>1, EntryMade
  <2>3. Targets(k) = {e[2]}
    BY <2>2, TargetsAre DEF Sending
  <2>4. Sound(k, units, dispatches, fences, contract.revision)
    <3> HIDE DEF k
    <3>0. contract.revision \in 1 .. contract.revision
      BY <2>1
    <3>1. k[3] \in 1 .. contract.revision
      BY <2>2, <3>0, Zenon
    <3> QED
      BY <1>4, <2>2, <2>3, <3>1 DEF Sound, Numbered
  <2> HIDE DEF k
  <2>5. <<k>> \in Seq(Entry) /\ Fitting(<<k>>) /\ Len(<<k>>) = 1 /\ <<k>>[1] = k
    BY <2>2, <2>4, OneFits DEF Fitting
  <2>6. \A j \in 1 .. Len(<<k>>) : Targets(<<k>>[j]) \subseteq Targets(Head(p[c].agenda))
    BY <1>3, <2>3, <2>5 DEF e
  <2> QED
    BY <1>1, <1>2, <1>7, <2>5, <2>6, DriverAdds DEF e
<1> QED
  BY <1>5, <1>6, <1>7

LEMMA ClaimFenceStep ==
    ASSUME CInv, OneDriver, NEW c \in Commands, ClaimUnitFence(c), UNCHANGED spent
    PROVE  CInv'
<1> DEFINE e == Head(p[c].agenda)
           k == <<"claim", e[2], FenceFor(e[2]), e[3]>>
<1>1. p[c] # Idle /\ e[1] = "claim fence"
  BY DEF ClaimUnitFence, At
<1>2. e[1] \notin CalmKinds \cup {"accept"}
  BY <1>1 DEF CalmKinds
<1>3. /\ e \in Entry /\ Sound(e, units, dispatches, fences, contract.revision)
      /\ Targets(e) = {e[2]} /\ e[2] \in Units /\ e[3] \in Nat
      /\ p[c] \in Underway /\ p[c].session \in Sessions
  BY <1>1, HeadIs, TargetsAre, EntryShape DEF Sending
<1>4. AwaitedIn(dispatches, e[2]) = {} /\ e[3] \in 1 .. contract.revision
  BY <1>1, <1>3 DEF Sound, Sending
<1>5. \/ ClaimFence(e[2], p[c].session) /\ Continue(c, p[c], <<k>> \o Rest(c))
      \/ Decide(c, <<>>)
  BY DEF ClaimUnitFence, Arg
<1>6. Drives(c) /\ RTypeOK
  BY <1>1, <1>2, OnlyDriversDo DEF CInv, CTypeOK
<1> HIDE DEF e
<1>7. CASE Decide(c, <<>>)
  BY <1>1, <1>2, <1>7, MovesMade, DriverDecides DEF e
<1>8. CASE ClaimFence(e[2], p[c].session) /\ Continue(c, p[c], <<k>> \o Rest(c))
  <2>1. /\ RTypeOK' /\ Grows({}) /\ SameWork
        /\ FenceFor(e[2]) \in Nat /\ fences'[e[2]].id = FenceFor(e[2])
    BY <1>3, <1>6, <1>8, ClaimFenceKeeps
  <2>2. k \in Entry /\ k[1] = "claim" /\ k[2] = e[2] /\ k[3] = FenceFor(e[2]) /\ k[4] = e[3]
    BY <1>3, <2>1, EntryMade
  <2>3. Targets(k) = {e[2]}
    BY <2>2, TargetsAre DEF Sending
  <2>4. AwaitedIn(dispatches', e[2]) = {} /\ contract'.revision = contract.revision
    BY <1>3, <1>4, <1>8, <2>1 DEF Grows, ClaimFence
  <2>5. Sound(k, units', dispatches', fences', contract'.revision)
    BY <1>4, <2>1, <2>2, <2>3, <2>4 DEF Sound, Numbered
  <2>6. Continue(c, p[c], <<k>> \o Rest(c))
    BY <1>8
  <2> HIDE DEF k
  <2>7. /\ <<k>> \in Seq(Entry) /\ Fits(<<k>>, units', dispatches', fences', contract'.revision)
        /\ Len(<<k>>) = 1 /\ <<k>>[1] = k
    BY <2>2, <2>5, OneFits
  <2>8. \A j \in 1 .. Len(<<k>>) : Targets(<<k>>[j]) \subseteq Targets(Head(p[c].agenda))
    BY <1>3, <2>3, <2>7 DEF e
  <2> QED
    BY <1>1, <1>2, <1>3, <1>6, <2>1, <2>6, <2>7, <2>8, KeepStep DEF e
<1> QED
  BY <1>5, <1>7, <1>8

LEMMA ClaimStep ==
    ASSUME CInv, OneDriver, NEW c \in Commands, Claim(c), UNCHANGED spent
    PROVE  CInv'
<1> DEFINE e == Head(p[c].agenda)
           k == <<"dispatch", e[2], Len(dispatches[e[2]]) + 1, e[4]>>
<1>1. p[c] # Idle /\ e[1] = "claim"
  BY DEF Claim, At
<1>2. e[1] \notin CalmKinds \cup {"accept"}
  BY <1>1 DEF CalmKinds
<1>3. /\ e \in Entry /\ Sound(e, units, dispatches, fences, contract.revision)
      /\ Targets(e) = {e[2]} /\ e[2] \in Units /\ e[3] \in Nat /\ e[4] \in Nat
      /\ p[c] \in Underway
  BY <1>1, HeadIs, TargetsAre, EntryShape DEF Sending
<1>4. /\ AwaitedIn(dispatches, e[2]) = {} /\ e[4] \in 1 .. contract.revision
      /\ e[3] <= fences[e[2]].id
  BY <1>1, <1>3 DEF Sound, Sending
<1>5. \/ ClaimUnit(e[2], e[3]) /\ Continue(c, p[c], <<k>> \o Rest(c))
      \/ Decide(c, <<Park(e[2], e[3])>>)
  BY DEF Claim, Arg
<1>6. Drives(c) /\ RTypeOK
  BY <1>1, <1>2, OnlyDriversDo DEF CInv, CTypeOK
<1> HIDE DEF e
<1>7. CASE Decide(c, <<Park(e[2], e[3])>>)
  BY <1>1, <1>2, <1>3, <1>7, PlainMade, PlainSequences, DriverDecides DEF e
<1>8. CASE ClaimUnit(e[2], e[3]) /\ Continue(c, p[c], <<k>> \o Rest(c))
  <2>1. RTypeOK' /\ Grows({}) /\ SameWork
    BY <1>3, <1>4, <1>6, <1>8, ClaimKeeps
  <2>2. k \in Entry /\ k[1] = "dispatch" /\ k[2] = e[2] /\ k[4] = e[4]
    <3>1. Len(dispatches[e[2]]) + 1 \in Nat
      BY <1>3, <1>6, NumbersOK
    <3> QED
      BY <1>3, <3>1, EntryMade
  <2>3. Targets(k) = {e[2]}
    BY <2>2, TargetsAre DEF Sending
  <2>4. Sound(k, units, dispatches, fences, contract.revision)
    BY <1>4, <2>2, <2>3 DEF Sound, Numbered
  <2>5. Continue(c, p[c], <<k>> \o Rest(c))
    BY <1>8
  <2> HIDE DEF k
  <2>6. <<k>> \in Seq(Entry) /\ Fitting(<<k>>) /\ Len(<<k>>) = 1 /\ <<k>>[1] = k
    BY <2>2, <2>4, OneFits DEF Fitting
  <2>7. \A j \in 1 .. Len(<<k>>) : Targets(<<k>>[j]) \subseteq Targets(Head(p[c].agenda))
    BY <1>3, <2>3, <2>6 DEF e
  <2> QED
    BY <1>1, <1>2, <1>3, <1>6, <2>1, <2>5, <2>6, <2>7, AddStep DEF e
<1> QED
  BY <1>5, <1>7, <1>8

LEMMA DispatchStep ==
    ASSUME CInv, OneDriver, NEW c \in Commands, Dispatch(c), UNCHANGED spent
    PROVE  CInv'
<1> DEFINE e == Head(p[c].agenda)
           q == [p[c] EXCEPT !.sent = TRUE]
<1>1. p[c] # Idle /\ e[1] = "dispatch"
  BY DEF Dispatch, At
<1>2. e[1] \notin CalmKinds \cup {"accept"}
  BY <1>1 DEF CalmKinds
<1>3. /\ e \in Entry /\ Sound(e, units, dispatches, fences, contract.revision)
      /\ Targets(e) = {e[2]} /\ e[2] \in Units /\ e[3] \in Nat /\ e[4] \in Nat
      /\ p[c] \in Underway
  BY <1>1, HeadIs, TargetsAre, EntryShape DEF Sending
<1>4. AwaitedIn(dispatches, e[2]) = {} /\ e[4] \in 1 .. contract.revision
  BY <1>1, <1>3 DEF Sound, Sending
<1>5. \/ /\ CanDispatch(e[2], e[3]) /\ RecordDispatch(e[2], e[3], e[4])
         /\ Continue(c, q, Rest(c))
      \/ End(c)
  BY DEF Dispatch, Arg
<1>6. Drives(c) /\ RTypeOK
  BY <1>1, <1>2, OnlyDriversDo DEF CInv, CTypeOK
<1>7. q \in Underway
  BY <1>3, NotedMade
<1> HIDE DEF e, q
<1>8. CASE End(c)
  BY <1>1, <1>8, EndStep
<1>9. CASE /\ CanDispatch(e[2], e[3]) /\ RecordDispatch(e[2], e[3], e[4])
           /\ Continue(c, q, Rest(c))
  <2>1. /\ RTypeOK' /\ Grows({e[2]})
        /\ units'[e[2]].status = "DISPATCHED"
        /\ \A v \in Units \ {e[2]} : units'[v] = units[v] /\ dispatches'[v] = dispatches[v]
        /\ \A j \in AwaitedIn(dispatches', e[2]) : j = e[3]
    BY <1>3, <1>4, <1>6, <1>9, DispatchKeeps
  <2>2. ASSUME NEW v \in Units, units'[v].status = "DONE"
        PROVE  ProvenIn(units', dispatches', v)
    <3>1. units'[v] = units[v]
      BY <2>1, <2>2
    <3>2. ProvenIn(units, dispatches, v)
      BY <2>2, <3>1 DEF CInv, DoneAsDefined, DoneUnits, ProvenIn
    <3> QED
      BY <2>1, <3>1, <3>2, ProvenKept
  <2>3. AwaitedOnce'
    <3>1. ASSUME NEW v \in Units, NEW i \in AwaitedIn(dispatches', v),
                 NEW j \in AwaitedIn(dispatches', v)
          PROVE  i = j
      <4>1. CASE v = e[2]
        BY <2>1, <3>1, <4>1
      <4>2. CASE v # e[2]
        <5>1. AwaitedIn(dispatches', v) = AwaitedIn(dispatches, v)
          BY <2>1, <4>2 DEF AwaitedIn
        <5> QED
          BY <3>1, <5>1 DEF CInv
      <4> QED
        BY <4>1, <4>2
    <3> QED
      BY <3>1 DEF AwaitedOnce
  <2>4. e[1] # "accept" /\ {e[2]} \subseteq Targets(e)
    BY <1>1, <1>3
  <2> QED
    BY <1>1, <1>6, <1>7, <1>9, <2>1, <2>2, <2>3, <2>4, DriverCarries DEF e
<1> QED
  BY <1>5, <1>8, <1>9

LEMMA SteppingStep ==
    ASSUME CInv, OneDriver, NEW c \in Commands, Stepping(c), UNCHANGED spent
    PROVE  CInv'
BY ListStep, OrphansStep, ResultsStep, ContractStep, AwaitStep, AskAgainStep, SelectStep,
   WaveStep, GateStep, ClaimFenceStep, ClaimStep, DispatchStep DEF Stepping

-----------------------------------------------------------------------------
(* record-result, plan, stop *)

LEMMA ReceivedStep ==
    ASSUME CInv, OneDriver, NEW c \in Commands, Received(c) \/ Fetch(c), UNCHANGED spent
    PROVE  CInv'
<1> DEFINE e == Head(p[c].agenda)
<1>1. p[c] # Idle /\ e[1] \in {"received", "fetch"}
  BY DEF Received, Fetch, At
<1>2. e[1] \notin CalmKinds \cup {"accept"}
  BY <1>1 DEF CalmKinds
<1>3. e \in Entry /\ Sound(e, units, dispatches, fences, contract.revision)
  BY <1>1, HeadIs
<1>4. /\ e[2] \in Units /\ e[3] \in Nat /\ e[3] \in DOMAIN dispatches[e[2]]
      /\ e[1] = "received" => e[4] \in Nat
      /\ units[e[2]].fence \in Nat
  <2>1. e[2] \in Units /\ e[3] \in Nat /\ (e[1] = "received" => e[4] \in Nat)
    BY <1>1, <1>3, EntryShape
  <2> HIDE DEF e
  <2> QED
    BY <1>1, <1>3, <2>1, NumbersOK DEF Sound, Numbered, CInv, CTypeOK
<1>5. CASE Received(c)
  <2> DEFINE f == <<"fetch", e[2], e[3]>>
             r == <<"reject", e[2], e[3]>>
             l == <<"fail", e[2]>>
             t == <<"tell", e[2]>>
             k == Park(e[2], e[4])
  <2>1. e[4] \in Nat
    BY <1>4, <1>5 DEF Received, At
  <2>2. \/ Decide(c, <<<<"walk">>, <<"ensure">>, f, <<"settle">>>>)
        \/ Decide(c, <<r, l, t, k, <<"reconcile">>>>)
    BY <1>5 DEF Received, Arg
  <2>3. /\ f \in Plain /\ r \in Plain /\ l \in Plain /\ t \in Plain /\ k \in Plain
        /\ <<"walk">> \in Plain /\ <<"ensure">> \in Plain /\ <<"settle">> \in Plain
        /\ <<"reconcile">> \in Plain
    BY <1>4, <2>1, AttemptMade, PlainMade, BarePlain DEF Bare, Chooses
  <2> HIDE DEF e, f, r, l, t, k
  <2>4. /\ <<<<"walk">>, <<"ensure">>, f, <<"settle">>>> \in Seq(Plain)
        /\ <<r, l, t, k, <<"reconcile">>>> \in Seq(Plain)
    BY <2>3
  <2> QED
    BY <1>1, <1>2, <2>2, <2>4, DriverDecides DEF e
<1>6. CASE Fetch(c)
  <2>1. Decide(c, <<<<"judge", e[2], e[3], units[e[2]].fence>>>>)
    BY <1>6 DEF Fetch, Arg
  <2>2. <<"judge", e[2], e[3], units[e[2]].fence>> \in Plain
    BY <1>4, AttemptMade
  <2> QED
    BY <1>1, <1>2, <2>1, <2>2, PlainSequences, DriverDecides
<1> QED
  BY <1>5, <1>6

LEMMA OrientStep ==
    ASSUME CInv, OneDriver, NEW c \in Commands, Orient(c), UNCHANGED spent
    PROVE  CInv'
<1>1. p[c] # Idle /\ Head(p[c].agenda)[1] # "accept"
  BY DEF Orient, At
<1>2. "PLANNING" \in RunStates
  BY DEF RunStates
<1>3. Decide(c, Moves(<<"PLANNING">>)) \/ Decide(c, <<>>)
  BY DEF Orient
<1> QED
  BY <1>1, <1>2, <1>3, MovesMade, PlainDecide

LEMMA CalmSequences ==
    /\ \A x \in Calm : <<x>> \in Seq(Calm)
    /\ \A s, t \in Seq(Calm) : s \o t \in Seq(Calm)
OBVIOUS

LEMMA UpsertStep ==
    ASSUME CInv, OneDriver, NEW c \in Commands, Upsert(c), UNCHANGED spent
    PROVE  CInv'
<1> DEFINE e == Head(p[c].agenda)
           S == {v \in Dropped(e[2]) : units[v].fence # 0}
           parks == SetToSeq({Park(f[1], f[2]) : f \in OrphanedFences(e[2])})
           more == parks \o <<<<"reconcile">>>>
<1>1. p[c] # Idle /\ e[1] = "upsert"
  BY DEF Upsert, At
<1>2. e[1] # "accept"
  BY <1>1
<1>3. e \in Entry /\ e[2] \in Plans /\ p[c] \in Underway /\ CTypeOK /\ RTypeOK
  BY <1>1, HeadIs, EntryShape DEF CInv, CTypeOK
<1>4. \/ UpsertUnits(e[2]) /\ Continue(c, p[c], more \o Rest(c))
      \/ End(c)
  BY DEF Upsert, Do, Arg, End
<1>5. parks \in Seq(Plain) /\ parks \in Seq(Calm)
  <2>1. S \in SUBSET Units
    BY DEF Dropped, Planned
  <2>2. {Park(f[1], f[2]) : f \in OrphanedFences(e[2])} = {Park(u, units[u].fence) : u \in S}
    <3>1. OrphanedFences(e[2]) = {<<u, units[u].fence>> : u \in S}
      BY DEF OrphanedFences
    <3> HIDE DEF S
    <3>2. ASSUME NEW f \in OrphanedFences(e[2])
          PROVE  \E u \in S : f[1] = u /\ f[2] = units[u].fence
      BY <3>1
    <3>3. ASSUME NEW u \in S
          PROVE  \E f \in OrphanedFences(e[2]) : f[1] = u /\ f[2] = units[u].fence
      <4>1. <<u, units[u].fence>> \in OrphanedFences(e[2])
        BY <3>1
      <4> QED
        BY <4>1
    <3> QED
      BY <3>2, <3>3
  <2> HIDE DEF S
  <2> QED
    BY <1>3, <2>1, <2>2, ParkAll
<1> HIDE DEF parks
<1>6. <<"reconcile">> \in Plain /\ <<"reconcile">> \in Calm
  BY BarePlain DEF Bare, Chooses, CalmKinds
<1>7. <<<<"reconcile">>>> \in Seq(Plain) /\ <<<<"reconcile">>>> \in Seq(Calm)
  BY <1>6, PlainSequences, CalmSequences
<1>8. more \in Seq(Plain) /\ more \in Seq(Calm)
  BY <1>5, <1>7, PlainSequences, CalmSequences
<1> HIDE DEF more, e
<1>9. CASE UpsertUnits(e[2]) /\ Continue(c, p[c], more \o Rest(c))
  <2>1. RTypeOK' /\ Grows({}) /\ SameWork
    BY <1>3, <1>9, UpsertKeeps
  <2> QED
    BY <1>1, <1>2, <1>3, <1>8, <1>9, <2>1, PlainStep DEF e
<1>10. CASE End(c)
  BY <1>1, <1>10, EndStep
<1> QED
  BY <1>4, <1>9, <1>10

LEMMA StoppingStep ==
    ASSUME CInv, OneDriver, NEW c \in Commands, Stopping(c) \/ StopFences(c), UNCHANGED spent
    PROVE  CInv'
<1>1. p[c] # Idle /\ Head(p[c].agenda)[1] # "accept"
  BY DEF Stopping, StopFences, At
<1>2. CASE Stopping(c)
  <2> DEFINE m == IF run \notin Terminal \cup {"STOPPING"} THEN Moves(<<"STOPPING">>) ELSE <<>>
             more == m \o <<<<"stop fences">>>> \o Moves(<<"STOPPED">>)
  <2>1. "STOPPING" \in RunStates /\ "STOPPED" \in RunStates
    BY DEF RunStates, Terminal
  <2>2. <<"stop fences">> \in Plain /\ <<"stop fences">> \in Calm
    BY BarePlain DEF Bare, Chooses, CalmKinds
  <2>3. /\ <<<<"stop fences">>>> \in Seq(Plain) /\ <<<<"stop fences">>>> \in Seq(Calm)
        /\ Moves(<<"STOPPED">>) \in Seq(Plain) /\ Moves(<<"STOPPED">>) \in Seq(Calm)
        /\ m \in Seq(Plain) /\ m \in Seq(Calm)
    BY <2>1, <2>2, PlainSequences, CalmSequences, MovesMade
  <2>4. Decide(c, more)
    BY <1>2 DEF Stopping
  <2> HIDE DEF m
  <2>5. more \in Seq(Plain) /\ more \in Seq(Calm)
    BY <2>3, PlainSequences, CalmSequences
  <2> HIDE DEF more
  <2> QED
    BY <1>1, <2>4, <2>5, PlainDecide
<1>3. CASE StopFences(c)
  <2> DEFINE S == {v \in Units : /\ units[v].status \in {"CLAIMED", "DISPATCHED", "RESULT_IN"}
                                 /\ units[v].fence # 0}
             more == SetToSeq({Park(u, units[u].fence) : u \in S})
  <2>1. Decide(c, more)
    BY <1>3 DEF StopFences
  <2>2. S \in SUBSET Units
    OBVIOUS
  <2> HIDE DEF S
  <2>3. more \in Seq(Plain) /\ more \in Seq(Calm)
    BY <2>2, ParkAll DEF CInv
  <2> HIDE DEF more
  <2> QED
    BY <1>1, <2>1, <2>3, PlainDecide
<1> QED
  BY <1>2, <1>3

LEMMA ProgressStep ==
    ASSUME CInv, OneDriver, NEW c \in Commands, Progress(c)
    PROVE  CInv'
BY TransactionStep, LookStep, JudgingStep, SteppingStep, ReceivedStep, OrientStep, UpsertStep,
   StoppingStep DEF Progress

-----------------------------------------------------------------------------
(* Commands begin and are killed; the founder *)

LEMMA StartStep ==
    ASSUME CInv, OneDriver, NEW c \in Commands, NEW a \in Seq(Entry), a # <<>>, Fitting(a),
           ~Drives(c) => a \in Seq(Calm),
           Start(c, driver, a), UNCHANGED tables, spent' \in [Events -> Nat]
    PROVE  CInv'
<1> DEFINE q == [session |-> driver, agenda |-> a, noted |-> FALSE, sent |-> FALSE]
<1>1. driver \in Sessions /\ p \in [Commands -> Underway \cup {Idle}]
  BY DEF CInv, CTypeOK, RTypeOK
<1>2. q \in Underway /\ q.agenda = a
  BY <1>1 DEF Underway
<1>3. p' = [p EXCEPT ![c] = q]
  BY DEF Start
<1> HIDE DEF q
<1>4. /\ p' \in [Commands -> Underway \cup {Idle}]
      /\ p'[c].agenda = a
      /\ \A d \in Commands \ {c} : p'[d] = p[d]
  BY <1>1, <1>2, <1>3
<1>5. RTypeOK' /\ Grows({}) /\ SameWork
  BY StandStill
<1>6. Fits(a, units', dispatches', fences', contract'.revision)
  BY <1>5, FitsKept DEF CInv, CTypeOK
<1>7. DoneAsDefined' /\ AwaitedOnce'
  BY <1>5, WorkKept
<1> QED
  BY <1>4, <1>5, <1>6, <1>7, StepOK

LEMMA SpendKeeps ==
    ASSUME CInv, NEW x \in Events, Spend(x)
    PROVE  spent' \in [Events -> Nat]
BY DEF Spend, CInv, CTypeOK

LEMMA BeginStepStep ==
    ASSUME CInv, OneDriver, NEW c \in Commands, BeginStep(c)
    PROVE  CInv'
<1> DEFINE k == <<"list">>
<1>1. Drives(c) /\ Start(c, driver, <<k>>) /\ UNCHANGED tables /\ spent' \in [Events -> Nat]
  BY DEF BeginStep, Drives, CInv, CTypeOK
<1>2. k \in Entry /\ k[1] = "list"
  BY BareMade DEF Bare
<1>3. Sound(k, units, dispatches, fences, contract.revision)
  BY <1>2 DEF Sound, Sending, Numbered
<1> HIDE DEF k
<1>4. <<k>> \in Seq(Entry) /\ Fitting(<<k>>) /\ Len(<<k>>) = 1
  BY <1>2, <1>3, OneFits DEF Fitting
<1>5. <<k>> # <<>>
  BY <1>4
<1> QED
  BY <1>1, <1>4, <1>5, StartStep

LEMMA BeginResultStep ==
    ASSUME CInv, OneDriver, NEW c \in Commands, BeginResult(c)
    PROVE  CInv'
<1>1. PICK d \in Dispatches({"DISPATCHED"}) :
        Start(c, driver,
               IF run = "PAUSED" \/ contract.state = "paused"
               THEN <<<<"record", d[1], d[2]>>>>
               ELSE <<<<"record", d[1], d[2]>>,
                      <<"received", d[1], d[2], units[d[1]].fence>>>>)
  BY DEF BeginResult
<1> DEFINE r == <<"record", d[1], d[2]>>
           k == <<"received", d[1], d[2], units[d[1]].fence>>
<1>2. Drives(c) /\ UNCHANGED tables /\ spent' \in [Events -> Nat]
  BY DEF BeginResult, Drives, CInv, CTypeOK
<1>3. d[1] \in Units /\ d[2] \in DOMAIN dispatches[d[1]]
  BY DispatchesAre
<1>4. d[2] \in Nat /\ units[d[1]].fence \in Nat
  BY <1>3, NumbersOK DEF CInv, CTypeOK
<1>5. r \in Plain /\ k \in Plain
  BY <1>3, <1>4, AttemptMade
<1>6. Start(c, driver, <<r>>) \/ Start(c, driver, <<r, k>>)
  BY <1>1
<1> HIDE DEF r, k
<1>7. <<r>> \in Seq(Plain) /\ <<r, k>> \in Seq(Plain) /\ <<r>> # <<>> /\ <<r, k>> # <<>>
  BY <1>5
<1>8. /\ <<r>> \in Seq(Entry) /\ Fitting(<<r>>)
      /\ <<r, k>> \in Seq(Entry) /\ Fitting(<<r, k>>)
  BY <1>7, PlainFits
<1> QED
  BY <1>2, <1>6, <1>7, <1>8, StartStep

LEMMA BeginPlanStep ==
    ASSUME CInv, OneDriver, NEW c \in Commands, BeginPlan(c)
    PROVE  CInv'
<1> DEFINE m == IF run = "NEW" THEN Moves(<<"ORIENTING">>) ELSE <<>>
           o == <<"orient">>
<1>1. PICK g \in Plans : Start(c, driver, m \o <<o, <<"upsert", g>>>>)
  BY DEF BeginPlan
<1> DEFINE k == <<"upsert", g>>
           a == m \o <<o, k>>
<1>2. UNCHANGED tables /\ spent' \in [Events -> Nat]
  BY SpendKeeps DEF BeginPlan, Events
<1>3. m \in Seq(Plain) /\ m \in Seq(Calm)
  <2>1. "ORIENTING" \in RunStates
    BY DEF RunStates
  <2> QED
    BY <2>1, MovesMade
<1>4. o \in Plain /\ o \in Calm
  BY BarePlain DEF Bare, Chooses, CalmKinds
<1>5. k \in Plain /\ k \in Calm
  <2>1. k \in Entry /\ k[1] = "upsert"
    BY DEF Entry
  <2> QED
    BY <2>1 DEF Plain, Calm, CalmKinds, Chooses, Sending, Verdicts, Numbered
<1>6. Start(c, driver, a)
  BY <1>1
<1> HIDE DEF m, o, k
<1>7. <<o, k>> \in Seq(Plain) /\ <<o, k>> \in Seq(Calm) /\ Len(<<o, k>>) = 2
  BY <1>4, <1>5
<1>8. a \in Seq(Plain) /\ a \in Seq(Calm) /\ a # <<>>
  BY <1>3, <1>7
<1> HIDE DEF a
<1>9. a \in Seq(Entry) /\ Fitting(a)
  BY <1>8, PlainFits
<1> QED
  BY <1>2, <1>6, <1>8, <1>9, StartStep

LEMMA BeginStopStep ==
    ASSUME CInv, OneDriver, NEW c \in Commands, BeginStop(c)
    PROVE  CInv'
<1> DEFINE k == <<"stopping">>
<1>1. Start(c, driver, <<k>>) /\ UNCHANGED tables /\ spent' \in [Events -> Nat]
  BY DEF BeginStop, CInv, CTypeOK
<1>2. k \in Plain /\ k \in Calm
  BY BarePlain DEF Bare, Chooses, CalmKinds
<1> HIDE DEF k
<1>3. <<k>> \in Seq(Plain) /\ <<k>> \in Seq(Calm) /\ <<k>> # <<>>
  BY <1>2
<1>4. <<k>> \in Seq(Entry) /\ Fitting(<<k>>)
  BY <1>3, PlainFits
<1> QED
  BY <1>1, <1>3, <1>4, StartStep

LEMMA KillStep ==
    ASSUME CInv, OneDriver, NEW c \in Commands, Kill(c)
    PROVE  CInv'
<1>1. /\ p[c] # Idle /\ UNCHANGED tables /\ Continue(c, p[c], <<>>)
      /\ spent' \in [Events -> Nat]
  BY SpendKeeps DEF Kill, Events
<1> QED
  BY <1>1, EndDecide

LEMMA FounderStep ==
    ASSUME CInv, OneDriver, Founder
    PROVE  CInv'
<1>1. RTypeOK /\ CTypeOK /\ p' = p /\ spent' \in [Events -> Nat]
  BY SpendKeeps DEF Founder, Events, CInv, CTypeOK
<1>2. RTypeOK' /\ Grows({}) /\ SameWork
  <2>1. ASSUME NEW st \in {"live", "paused", "dead"}, Contract(st)
        PROVE  RTypeOK' /\ Grows({}) /\ SameWork
    <3>1. contract'.revision = contract.revision
      BY <1>1, <2>1 DEF Contract, RTypeOK
    <3>2. contract' \in [state : {"live", "paused", "dead"}, revision : Nat \ {0},
                         forbids : SUBSET Units]
      BY <1>1, <2>1 DEF Contract, RTypeOK
    <3>3. OthersOK'
      BY <1>1, <2>1, <3>2, TypeParts DEF Contract, OthersOK
    <3> QED
      BY <1>1, <2>1, <3>1, <3>3, SideChange, NumbersOK DEF Contract
  <2>2. ASSUME NEW S \in SUBSET Units, Amend(S)
        PROVE  RTypeOK' /\ Grows({}) /\ SameWork
    <3>1. contract'.revision = contract.revision + 1
      BY <1>1, <2>2 DEF Amend, RTypeOK
    <3>2. contract' \in [state : {"live", "paused", "dead"}, revision : Nat \ {0},
                         forbids : SUBSET Units]
      <4>1. contract.revision + 1 \in Nat \ {0}
        BY <1>1, NumbersOK
      <4>2. contract' = [contract EXCEPT !.revision = contract.revision + 1, !.forbids = S]
        BY <2>2 DEF Amend
      <4> QED
        BY <1>1, <4>1, <4>2 DEF RTypeOK
    <3>3. OthersOK'
      BY <1>1, <2>2, <3>2, TypeParts DEF Amend, OthersOK
    <3>4. contract.revision <= contract'.revision
      BY <1>1, <3>1, NumbersOK
    <3> QED
      BY <1>1, <2>2, <3>3, <3>4, SideChange, NumbersOK DEF Amend
  <2>3. ASSUME NEW l \in Lanes, Resolve(l)
        PROVE  RTypeOK' /\ Grows({}) /\ SameWork
    BY <1>1, <2>3, SideChange, NumbersOK, TypeParts DEF Resolve, OthersOK
  <2>4. ASSUME NEW s \in Sessions, AdoptRun(s)
        PROVE  RTypeOK' /\ Grows({}) /\ SameWork
    BY <1>1, <2>4, SideChange, NumbersOK, TypeParts DEF AdoptRun, OthersOK
  <2>5. ASSUME SetRunState("READY") \/ SetRunState("COMPLETE")
        PROVE  RTypeOK' /\ Grows({}) /\ SameWork
    <3>1. "READY" \in RunStates /\ "COMPLETE" \in RunStates
      BY DEF RunStates, Terminal
    <3> QED
      BY <1>1, <2>5, <3>1, MoveKeeps
  <2> QED
    BY <2>1, <2>2, <2>3, <2>4, <2>5 DEF Founder, Interferes, Releases
<1>3. DoneAsDefined' /\ AwaitedOnce'
  BY <1>2, WorkKept
<1>4. ASSUME NEW d \in Commands, p'[d] # Idle
      PROVE  /\ Fits(p'[d].agenda, units', dispatches', fences', contract'.revision)
             /\ ~Drives(d) => p'[d].agenda \in Seq(Calm)
  BY <1>1, <1>2, <1>4, OthersFit
<1>5. CTypeOK'
  BY <1>1, <1>2 DEF CTypeOK
<1> QED
  BY <1>3, <1>4, <1>5 DEF CInv, AwaitedOnce, Drives

-----------------------------------------------------------------------------
(* The theorems *)

LEMMA InitFits ==
    ASSUME ControllerInit
    PROVE  CInv
<1>1. driver \in Sessions
  BY UnitAssumptions DEF ControllerInit, RunInit
<1>2. /\ run = "NEW" /\ gated = {} /\ contract = [state |-> "live", revision |-> 1, forbids |-> {}]
      /\ units = [u \in Units |-> Unplanned]
      /\ dispatches = [u \in Units |-> <<>>]
      /\ fences = [u \in Units |-> [id |-> 0, live |-> FALSE, by |-> driver]]
      /\ p = [c \in Commands |-> Idle] /\ spent = [x \in Events |-> 0]
  BY DEF ControllerInit, RunInit
<1>3. Unplanned \in UnitRow
  BY DEF Unplanned, UnitRow, UnitStatus
<1>4. /\ \A u \in Units : /\ units[u] = Unplanned /\ dispatches[u] = <<>>
                          /\ fences[u].id = 0
      /\ units \in [Units -> UnitRow] /\ dispatches \in [Units -> Seq(Attempt)]
  BY <1>2, <1>3
<1>5. /\ Unplanned.status = "UNPLANNED" /\ Unplanned.deps = {} /\ Unplanned.fence = 0
  BY DEF Unplanned
<1>6. fences \in [Units -> [id : Nat, live : BOOLEAN, by : Sessions]]
  BY <1>1, <1>2
<1>7. RTypeOK
  <2>1. OthersOK
    BY <1>1, <1>2, <1>6 DEF OthersOK, RunStates
  <2>2. RowsOK(units, fences)
    BY <1>4, <1>5 DEF RowsOK
  <2>3. AttemptsOK(dispatches, contract.revision)
    BY <1>4 DEF AttemptsOK
  <2> QED
    BY <2>1, <2>2, <2>3, TypeParts
<1>8. CTypeOK
  BY <1>2, <1>7 DEF CTypeOK
<1>9. DoneAsDefined
  BY <1>4, <1>5 DEF DoneAsDefined, DoneUnits
<1>10. \A u \in Units : \A i, j \in AwaitedIn(dispatches, u) : i = j
  BY <1>4 DEF AwaitedIn
<1> QED
  BY <1>2, <1>8, <1>9, <1>10 DEF CInv

LEMMA StutterFits ==
    ASSUME CInv, UNCHANGED vars
    PROVE  CInv'
<1>1. RTypeOK' /\ Grows({}) /\ SameWork /\ p' = p /\ spent' = spent
  BY StandStill DEF vars, pvars
<1>2. DoneAsDefined' /\ AwaitedOnce'
  BY <1>1, WorkKept
<1>3. ASSUME NEW d \in Commands, p'[d] # Idle
      PROVE  /\ Fits(p'[d].agenda, units', dispatches', fences', contract'.revision)
             /\ ~Drives(d) => p'[d].agenda \in Seq(Calm)
  BY <1>1, <1>3, OthersFit
<1>4. CTypeOK'
  BY <1>1 DEF CTypeOK, CInv
<1> QED
  BY <1>2, <1>3, <1>4 DEF CInv, AwaitedOnce, Drives

LEMMA StepFits ==
    ASSUME CInv, OneDriver, [Next]_vars
    PROVE  CInv'
BY StutterFits, BeginStepStep, BeginResultStep, BeginPlanStep, BeginStopStep, ProgressStep,
   KillStep, FounderStep DEF Next

-----------------------------------------------------------------------------
(* The theorems *)

\* Whatever a command of the engine still has to do fits the store as it is by
\* then: a plan, a stop, the founder or a kill between any two transactions of a
\* step leaves none of its decisions without what it was decided on.
THEOREM AgendasFit == ASSUME OneDriver PROVE Spec => []CInv
<1>1. ControllerInit => CInv
  BY InitFits
<1>2. CInv /\ [Next]_vars => CInv'
  BY StepFits
<1> QED
  BY <1>1, <1>2, PTL DEF Spec

\* Every row of the run, its units, attempts and fences, and everything a command
\* has still to do, is well formed: a fence a unit links was claimed, a unit fails
\* for good only past its retries.
THEOREM ControllerTypeCorrect == ASSUME OneDriver PROVE Spec => []CTypeOK
<1>1. CInv => CTypeOK
  BY DEF CInv
<1> QED
  BY <1>1, AgendasFit, PTL

\* No unit is done on work for another definition: the verdict that passed it
\* (record_verification) and the row marked done (mark_unit_done) are of the
\* definition the row has, although plans redefine and drop units in between.
THEOREM DoneAsDefinedHolds == ASSUME OneDriver PROVE Spec => []DoneAsDefined
<1>1. CInv => DoneAsDefined
  BY DEF CInv
<1> QED
  BY <1>1, AgendasFit, PTL

\* No unit is sent to a second worker while a first one has not answered, also
\* when a plan takes the row back to READY behind the step (_resume_dispatched).
THEOREM OneAwaitedHolds == ASSUME OneDriver PROVE Spec => []OneAwaited
<1>1. ASSUME CInv
      PROVE  OneAwaited
  <2> SUFFICES ASSUME NEW u \in Units
               PROVE  Cardinality({d \in Dispatches({"DISPATCHED"}) : d[1] = u}) <= 1
    BY DEF OneAwaited
  <2> DEFINE S == {d \in Dispatches({"DISPATCHED"}) : d[1] = u}
  <2>1. ASSUME NEW d \in S
        PROVE  /\ d = <<u, d[2]>> /\ d[2] \in AwaitedIn(dispatches, u)
    BY DEF Dispatches, AwaitedIn
  <2>2. \A d, f \in S : d = f
    BY <1>1, <2>1 DEF CInv
  <2> HIDE DEF S
  <2>3. CASE S = {}
    BY <2>3, FS_EmptySet DEF S
  <2>4. CASE S # {}
    <3>1. PICK d \in S : TRUE
      BY <2>4
    <3>2. S = {d}
      BY <2>2, <3>1
    <3>3. Cardinality({d}) = 1
      BY FS_Singleton
    <3>4. Cardinality(S) <= 1
      BY <3>2, <3>3
    <3> QED
      BY <3>4 DEF S
  <2> QED
    BY <2>3, <2>4
<1> QED
  BY <1>1, AgendasFit, PTL

-----------------------------------------------------------------------------
(* A delivered run is over.  Once an entry that delivers the run is on the *)
(* agenda of the one process that works, or the run is delivered, that     *)
(* agenda holds nothing that takes a unit on, judges it or gives it back,  *)
(* and every unit is over; a stop beside it leaves the units alone.        *)

\* The processes that do more than stop the run.
Works(c) == MayRun[c] \ {"stop"} # {}
OneWorks == \A c, d \in Commands : Works(c) /\ Works(d) => c = d

Finished == {"DELIVERABLE_READY", "COMPLETE"}
NothingLeft(us, ds) == \A u \in Units :
    /\ us[u].status \in UnitOver \cup {"UNPLANNED"}
    /\ \A i \in DOMAIN ds[u] : ds[u][i].status \notin Open

\* What ends an agenda, what delivers the run, what a stop consists of, and what
\* changes nothing of a run with nothing left.
EndKinds == {"list", "results", "contract", "await", "select", "settle", "received",
             "nothing ready", "wait", "deliver", "delivered", "upsert"}
Speaks(e) == e[1] \in {"deliver", "delivered"} \/ (e[1] = "move" /\ e[2] = "DELIVERABLE_READY")
Stops(e) ==
    \/ e[1] \in {"stopping", "stop fences", "park"}
    \/ e[1] = "move" /\ e[2] \in {"STOPPING", "STOPPED"}
HarmlessKinds == {"list", "contract", "await", "select", "unwind", "reconcile", "nothing ready",
                  "deliver", "delivered", "stopping", "stop fences", "orient", "upsert",
                  "move", "park"}
Harmless(e) ==
    \/ e[1] \in HarmlessKinds
    \/ e[1] \in {"orphans", "results"} /\ \A r \in e[2] : r.status \in UnitOver

Speaking(a) == \E k \in 1 .. Len(a) : Speaks(a[k])
AllHarmless(a) == \A k \in 1 .. Len(a) : Harmless(a[k])
AllStops(a) == \A k \in 1 .. Len(a) : Stops(a[k])
Trails(a) == \A k \in 1 .. Len(a) - 1 : a[k][1] \notin EndKinds

\* A run that is delivered, or about to be, has nothing left.
Delivers(a, r) == r \in Finished \/ Speaking(a)
Good(c, a, r, us, ds) ==
    /\ Trails(a)
    /\ Delivers(a, r) => NothingLeft(us, ds) /\ AllHarmless(a)
    /\ ~Works(c) => AllStops(a)

DeliveryInv ==
    /\ run \in Finished => NothingLeft(units, dispatches)
    /\ \A c \in Commands : p[c] # Idle => Good(c, p[c].agenda, run, units, dispatches)

LEMMA DeliveryFrame ==
    ASSUME DeliveryInv, OneWorks, NEW c \in Commands, \A d \in Commands \ {c} : p'[d] = p[d],
           run' \in Finished => NothingLeft(units', dispatches'),
           p'[c] # Idle => Good(c, p'[c].agenda, run', units', dispatches'),
           ~Works(c) => UNCHANGED <<units, dispatches>> /\ (run' \in Finished => run \in Finished)
    PROVE  DeliveryInv'
<1>1. ASSUME NEW d \in Commands, d # c, p'[d] # Idle
      PROVE  Good(d, p'[d].agenda, run', units', dispatches')
  <2> DEFINE a == p[d].agenda
  <2>1. p'[d] = p[d] /\ p[d] # Idle
    BY <1>1
  <2>2. Good(d, a, run, units, dispatches)
    BY <1>1, <2>1 DEF DeliveryInv
  <2> HIDE DEF a
  <2>3. ASSUME ~Works(c)
        PROVE  Good(d, a, run', units', dispatches')
    <3>1. UNCHANGED <<units, dispatches>> /\ (run' \in Finished => run \in Finished)
      BY <2>3
    <3>2. Delivers(a, run') => Delivers(a, run)
      BY <3>1 DEF Delivers
    <3> QED
      BY <2>2, <3>1, <3>2 DEF Good
  <2>4. ASSUME ~Works(d)
        PROVE  Good(d, a, run', units', dispatches')
    <3>1. \A k \in 1 .. Len(a) : Stops(a[k])
      BY <2>2, <2>4 DEF Good, AllStops
    <3>2. ~Speaking(a) /\ AllHarmless(a)
      BY <3>1 DEF Speaking, AllHarmless, Stops, Speaks, Harmless, HarmlessKinds
    <3> QED
      BY <2>2, <3>2 DEF Good, Delivers
  <2>5. ~Works(c) \/ ~Works(d)
    BY <1>1 DEF OneWorks
  <2>6. Good(d, a, run', units', dispatches')
    BY <2>3, <2>4, <2>5
  <2> QED
    BY <2>1, <2>6 DEF a
<1>2. ASSUME NEW d \in Commands, p'[d] # Idle
      PROVE  Good(d, p'[d].agenda, run', units', dispatches')
  BY <1>1, <1>2
<1> QED
  BY <1>2 DEF DeliveryInv

LEMMA SplicedWith ==
    ASSUME NEW S, NEW a \in Seq(S), a # <<>>, NEW T, NEW more \in Seq(T)
    PROVE  LET b == more \o Tail(a) IN
           /\ Len(a) \in Nat \ {0} /\ Len(more) \in Nat /\ Len(b) = Len(more) + Len(a) - 1
           /\ \A k \in 1 .. Len(b) :
                \/ k \in 1 .. Len(more) /\ b[k] = more[k]
                \/ /\ k > Len(more) /\ k - Len(more) + 1 \in 2 .. Len(a)
                   /\ b[k] = a[k - Len(more) + 1]
<1> DEFINE U == S \cup T
<1>1. a \in Seq(U) /\ more \in Seq(U)
  OBVIOUS
<1> HIDE DEF U
<1> QED
  BY <1>1

\* A command goes on with more of its agenda.
LEMMA Push ==
    ASSUME CTypeOK, DeliveryInv, OneWorks, NEW c \in Commands, p[c] # Idle,
           NEW q \in Underway, NEW T, NEW more \in Seq(T), Continue(c, q, more \o Rest(c)),
           \A k \in 1 .. Len(more) :
             more[k][1] \in EndKinds => k = Len(more) /\ Head(p[c].agenda)[1] \in EndKinds,
           run' \in Finished => Delivers(p[c].agenda, run),
           Speaking(more) => Delivers(p[c].agenda, run) \/ Head(p[c].agenda)[1] \in EndKinds,
           Delivers(p[c].agenda, run) \/ Speaking(more) =>
             NothingLeft(units', dispatches') /\ AllHarmless(more),
           ~Works(c) => /\ AllStops(more) /\ UNCHANGED <<units, dispatches>>
                        /\ run' \in Finished => run \in Finished
    PROVE  DeliveryInv'
<1> DEFINE a == p[c].agenda
           b == more \o Tail(a)
<1>1. /\ a \in Seq(Entry) /\ a # <<>> /\ Head(a) = a[1]
      /\ Good(c, a, run, units, dispatches)
  BY UnderwayHas DEF DeliveryInv
<1>2. /\ \A d \in Commands \ {c} : p'[d] = p[d]
      /\ p'[c] # Idle => p'[c].agenda = b
  <2> DEFINE e == [q EXCEPT !.agenda = b]
             r == IF b = <<>> THEN Idle ELSE e
  <2>1. p' = [p EXCEPT ![c] = r]
    BY DEF Continue, Rest
  <2>2. e.agenda = b
    BY DEF Underway
  <2> HIDE DEF e
  <2>3. r # Idle => r.agenda = b
    BY <2>2
  <2> HIDE DEF r
  <2> QED
    BY <2>1, <2>3 DEF CTypeOK
<1>3. /\ Len(a) \in Nat \ {0} /\ Len(more) \in Nat /\ Len(b) = Len(more) + Len(a) - 1
      /\ \A k \in 1 .. Len(b) :
                \/ k \in 1 .. Len(more) /\ b[k] = more[k]
                \/ /\ k > Len(more) /\ k - Len(more) + 1 \in 2 .. Len(a)
                   /\ b[k] = a[k - Len(more) + 1]
  <2> HIDE DEF a
  <2> QED
    BY <1>1, SplicedWith
<1> HIDE DEF b
<1>4. /\ \A k \in 1 .. Len(more) :
             more[k][1] \in EndKinds => k = Len(more) /\ a[1][1] \in EndKinds
      /\ run' \in Finished => Delivers(a, run)
      /\ Speaking(more) => Delivers(a, run) \/ a[1][1] \in EndKinds
      /\ Delivers(a, run) \/ Speaking(more) =>
             NothingLeft(units', dispatches') /\ AllHarmless(more)
  BY <1>1
<1> HIDE DEF a
<1>5. a[1][1] \in EndKinds => Len(a) = 1
  <2>1. Len(a) # 1 => 1 \in 1 .. Len(a) - 1
    <3>1. Len(a) \in Nat \ {0}
      BY <1>3
    <3> DEFINE n == Len(a)
    <3> HIDE DEF n
    <3>2. n \in Nat \ {0}
      BY <3>1 DEF n
    <3>3. n # 1 => 1 \in 1 .. n - 1
      BY <3>2
    <3> QED
      BY <3>3 DEF n
  <2> QED
    BY <1>1, <2>1 DEF Good, Trails
<1>6. Trails(b)
  <2> SUFFICES ASSUME NEW k \in 1 .. Len(b) - 1, b[k][1] \in EndKinds
               PROVE  FALSE
    BY DEF Trails
  <2>1. k \in 1 .. Len(b)
    BY <1>3
  <2>2. CASE k \in 1 .. Len(more) /\ b[k] = more[k]
    <3>1. k = Len(more) /\ Len(a) = 1
      BY <1>4, <1>5, <2>2
    <3> QED
      BY <1>3, <3>1
  <2>3. CASE /\ k > Len(more) /\ k - Len(more) + 1 \in 2 .. Len(a)
             /\ b[k] = a[k - Len(more) + 1]
    <3>1. k - Len(more) + 1 \in 1 .. Len(a) - 1
      BY <1>3, <2>1, <2>3
    <3> QED
      BY <1>1, <2>3, <3>1 DEF Good, Trails
  <2> QED
    BY <1>3, <2>1, <2>2, <2>3
<1>7. Speaking(b) => Speaking(a) \/ Speaking(more)
  BY <1>3 DEF Speaking
<1>8. ASSUME Delivers(b, run')
      PROVE  NothingLeft(units', dispatches') /\ AllHarmless(b)
  <2>1. Delivers(a, run) \/ Speaking(more)
    BY <1>4, <1>7, <1>8 DEF Delivers
  <2>2. NothingLeft(units', dispatches') /\ AllHarmless(more)
    BY <1>4, <2>1
  <2>3. CASE Delivers(a, run)
    <3>1. AllHarmless(a)
      BY <1>1, <2>3 DEF Good
    <3>2. AllHarmless(b)
      BY <1>3, <2>2, <3>1 DEF AllHarmless
    <3> QED
      BY <2>2, <3>2
  <2>4. CASE Speaking(more) /\ a[1][1] \in EndKinds
    <3>1. Len(a) = 1
      BY <1>5, <2>4
    <3>2. AllHarmless(b)
      BY <1>3, <2>2, <3>1 DEF AllHarmless
    <3> QED
      BY <2>2, <3>2
  <2> QED
    BY <1>4, <2>1, <2>3, <2>4
<1>9. ~Works(c) => AllStops(b)
  BY <1>1, <1>3 DEF Good, AllStops
<1>10. Good(c, b, run', units', dispatches')
  BY <1>6, <1>8, <1>9 DEF Good
<1>11. run' \in Finished => NothingLeft(units', dispatches')
  BY <1>4
<1> QED
  BY <1>2, <1>10, <1>11, DeliveryFrame

LEMMA HeadSays ==
    ASSUME CTypeOK, DeliveryInv, NEW c \in Commands, p[c] # Idle
    PROVE  LET a == p[c].agenda h == Head(p[c].agenda) IN
           /\ Delivers(a, run) => NothingLeft(units, dispatches) /\ AllHarmless(a) /\ Harmless(h)
           /\ ~Works(c) => Stops(h)
           /\ run \in Finished \/ Speaks(h) => Delivers(a, run)
           /\ p[c] \in Underway
<1> DEFINE a == p[c].agenda
<1>1. /\ a \in Seq(Entry) /\ a # <<>> /\ Head(a) = a[1] /\ p[c] \in Underway
      /\ Good(c, a, run, units, dispatches)
  BY UnderwayHas DEF DeliveryInv
<1> HIDE DEF a
<1>2. 1 \in 1 .. Len(a)
  BY <1>1
<1>3. /\ Delivers(a, run) => NothingLeft(units, dispatches) /\ AllHarmless(a) /\ Harmless(a[1])
      /\ ~Works(c) => Stops(a[1])
      /\ run \in Finished \/ Speaks(a[1]) => Delivers(a, run)
  BY <1>1, <1>2 DEF Good, Delivers, Speaking, AllHarmless, AllStops
<1> QED
  BY <1>1, <1>3 DEF a

\* The entries of a list, and lists of entries that neither end an agenda nor
\* deliver the run, but for the last one.
Dull(e) == e[1] \notin EndKinds /\ ~Speaks(e)
Lists(m) == m \in Seq({m[k] : k \in 1 .. Len(m)})
AllDull(m) == Lists(m) /\ \A k \in 1 .. Len(m) : Dull(m[k])
Closes(m) ==
    /\ Lists(m)
    /\ \A k \in 1 .. Len(m) : m[k][1] \in EndKinds => k = Len(m)

LEMMA SeqLists ==
    ASSUME NEW S, NEW m \in Seq(S)
    PROVE  Lists(m)
<1>1. m = [k \in 1 .. Len(m) |-> m[k]] /\ Len(m) \in Nat
  OBVIOUS
<1> DEFINE T == {m[k] : k \in 1 .. Len(m)}
<1>2. \A k \in 1 .. Len(m) : m[k] \in T
  OBVIOUS
<1> HIDE DEF T
<1>3. m \in Seq(T)
  BY <1>1, <1>2
<1> QED
  BY <1>3 DEF T, Lists

LEMMA ListsMade ==
    ASSUME NEW w, NEW x, NEW y, NEW z
    PROVE  /\ Lists(<<>>) /\ Lists(<<z>>) /\ Lists(<<y, z>>)
           /\ Lists(<<x, y, z>>) /\ Lists(<<w, x, y, z>>)
<1>1. /\ <<>> \in Seq({w}) /\ <<z>> \in Seq({z}) /\ <<y, z>> \in Seq({y, z})
      /\ <<x, y, z>> \in Seq({x, y, z}) /\ <<w, x, y, z>> \in Seq({w, x, y, z})
  OBVIOUS
<1> QED
  BY <1>1, SeqLists

LEMMA Joined ==
    ASSUME NEW m, NEW n, Lists(m), Lists(n)
    PROVE  LET b == m \o n IN
           /\ Lists(b) /\ Len(m) \in Nat /\ Len(n) \in Nat /\ Len(b) = Len(m) + Len(n)
           /\ \A k \in 1 .. Len(b) :
                \/ k \in 1 .. Len(m) /\ b[k] = m[k]
                \/ k - Len(m) \in 1 .. Len(n) /\ b[k] = n[k - Len(m)]
<1> DEFINE S == {m[k] : k \in 1 .. Len(m)} \cup {n[k] : k \in 1 .. Len(n)}
<1>1. m \in Seq(S) /\ n \in Seq(S)
  BY DEF Lists
<1> HIDE DEF S
<1>2. m \o n \in Seq(S)
  BY <1>1
<1>3. Lists(m \o n)
  BY <1>2, SeqLists
<1> QED
  BY <1>1, <1>3

LEMMA DullJoined ==
    ASSUME NEW m, NEW n, AllDull(m)
    PROVE  /\ AllDull(n) => AllDull(m \o n)
           /\ Closes(n) => Closes(m \o n)
           /\ AllHarmless(m) /\ Lists(n) /\ AllHarmless(n) => AllHarmless(m \o n)
           /\ Lists(n) => (Speaking(m \o n) => Speaking(n))
<1>1. Lists(m)
  BY DEF AllDull
<1> DEFINE b == m \o n
<1>2. Lists(n) =>
           /\ Lists(b) /\ Len(m) \in Nat /\ Len(n) \in Nat /\ Len(b) = Len(m) + Len(n)
           /\ \A k \in 1 .. Len(b) :
                \/ k \in 1 .. Len(m) /\ b[k] = m[k]
                \/ k - Len(m) \in 1 .. Len(n) /\ b[k] = n[k - Len(m)]
  BY <1>1, Joined
<1> HIDE DEF b
<1>3. AllDull(n) => AllDull(b)
  BY <1>2 DEF AllDull
<1>4. Closes(n) => Closes(b)
  BY <1>2 DEF AllDull, Closes, Dull
<1>5. AllHarmless(m) /\ Lists(n) /\ AllHarmless(n) => AllHarmless(b)
  BY <1>2 DEF AllHarmless
<1>6. Lists(n) => (Speaking(b) => Speaking(n))
  BY <1>2 DEF AllDull, Dull, Speaking
<1> QED
  BY <1>3, <1>4, <1>5, <1>6 DEF b

LEMMA DullAppended ==
    ASSUME NEW m, AllDull(m), NEW x, Dull(x)
    PROVE  AllDull(Append(m, x))
<1> DEFINE S == {m[k] : k \in 1 .. Len(m)} \cup {x}
           b == Append(m, x)
<1>1. m \in Seq(S) /\ x \in S
  BY DEF AllDull, Lists
<1> HIDE DEF S
<1>2. /\ b \in Seq(S) /\ Len(m) \in Nat /\ Len(b) = Len(m) + 1
      /\ \A k \in 1 .. Len(b) : (k \in 1 .. Len(m) /\ b[k] = m[k]) \/ b[k] = x
  BY <1>1
<1> HIDE DEF b
<1>3. Lists(b)
  BY <1>2, SeqLists
<1>4. AllDull(b)
  BY <1>2, <1>3 DEF AllDull
<1> QED
  BY <1>4 DEF b

LEMMA DullMade ==
    ASSUME NEW u, NEW i, NEW n, NEW d
    PROVE  /\ Dull(<<"tell", u>>) /\ Dull(<<"fail", u>>) /\ Dull(<<"done", u>>)
           /\ Dull(<<"release", u>>) /\ Dull(<<"gate", u>>) /\ Dull(<<"wave", u>>)
           /\ Dull(<<"block", u>>) /\ Dull(<<"unblock", u>>)
           /\ Dull(<<"orphans", u>>) /\ Dull(Park(u, n)) /\ Dull(<<"reject", u, i>>)
           /\ Dull(<<"record", u, i>>) /\ Dull(<<"fetch", u, i>>) /\ Dull(<<"claim fence", u, n>>)
           /\ Dull(<<"accept", u, i, n>>) /\ Dull(<<"judge", u, i, n>>)
           /\ Dull(<<"ask again", u, i, n>>) /\ Dull(<<"claim", u, i, n>>)
           /\ Dull(<<"dispatch", u, i, n>>) /\ Dull(<<"rollback", u, n, d>>)
           /\ Dull(<<"check", u, i, n, d>>)
           /\ u # "DELIVERABLE_READY" => Dull(<<"move", u>>)
           /\ Dull(<<"walk">>) /\ Dull(<<"ensure">>) /\ Dull(<<"unwind">>)
           /\ Dull(<<"reconcile">>) /\ Dull(<<"orient">>) /\ Dull(<<"stopping">>)
           /\ Dull(<<"stop fences">>) /\ Dull(<<"terminal">>)
BY DEF Dull, EndKinds, Speaks, Park

LEMMA HarmlessMade ==
    ASSUME NEW u, NEW i, NEW n
    PROVE  /\ Harmless(<<"list">>) /\ Harmless(<<"contract">>) /\ Harmless(<<"await">>)
           /\ Harmless(<<"select">>) /\ Harmless(<<"unwind">>) /\ Harmless(<<"reconcile">>)
           /\ Harmless(<<"nothing ready">>) /\ Harmless(<<"deliver">>)
           /\ Harmless(<<"delivered", u>>) /\ Harmless(<<"stopping">>)
           /\ Harmless(<<"stop fences">>) /\ Harmless(<<"orient">>) /\ Harmless(<<"upsert", u>>)
           /\ Harmless(<<"move", u>>) /\ Harmless(Park(u, n))
BY DEF Harmless, HarmlessKinds, Park

LEMMA ListsOf ==
    ASSUME NEW w, NEW x, NEW y, NEW z
    PROVE  /\ AllDull(<<>>)
           /\ Dull(z) => AllDull(<<z>>)
           /\ Dull(y) /\ Dull(z) => AllDull(<<y, z>>)
           /\ Dull(x) /\ Dull(y) /\ Dull(z) => AllDull(<<x, y, z>>)
           /\ Dull(w) /\ Dull(x) /\ Dull(y) /\ Dull(z) => AllDull(<<w, x, y, z>>)
           /\ Closes(<<z>>)
           /\ Dull(y) => Closes(<<y, z>>)
           /\ Dull(x) /\ Dull(y) => Closes(<<x, y, z>>)
           /\ Dull(w) /\ Dull(x) /\ Dull(y) => Closes(<<w, x, y, z>>)
           /\ AllHarmless(<<>>)
           /\ Harmless(z) => AllHarmless(<<z>>)
           /\ Harmless(y) /\ Harmless(z) => AllHarmless(<<y, z>>)
<1>1. /\ Len(<<>>) = 0 /\ Len(<<z>>) = 1 /\ Len(<<y, z>>) = 2 /\ Len(<<x, y, z>>) = 3
      /\ Len(<<w, x, y, z>>) = 4
  OBVIOUS
<1> QED
  BY <1>1, ListsMade DEF AllDull, Closes, Dull, AllHarmless

\* A step of a working process on what changes a run, that leaves the run in its state.
LEMMA WorkStep ==
    ASSUME CTypeOK, DeliveryInv, OneWorks, NEW c \in Commands, p[c] # Idle,
           ~Harmless(Head(p[c].agenda)),
           NEW q \in Underway, NEW more, Continue(c, q, more \o Rest(c)), run' = run,
           \/ AllDull(more)
           \/ /\ Head(p[c].agenda)[1] \in EndKinds
              /\ Closes(more) /\ ~Speaking(more)
    PROVE  DeliveryInv'
<1> DEFINE h == Head(p[c].agenda)
           T == {more[k] : k \in 1 .. Len(more)}
<1>1. ~Delivers(p[c].agenda, run) /\ Works(c)
  <2>1. Stops(h) => Harmless(h)
    BY DEF Stops, Harmless, HarmlessKinds
  <2> QED
    BY <2>1, HeadSays
<1>2. run' \notin Finished
  BY <1>1 DEF Delivers
<1>3. more \in Seq(T)
  BY DEF Lists, AllDull, Closes
<1>4. \A k \in 1 .. Len(more) : more[k][1] \in EndKinds => k = Len(more) /\ h[1] \in EndKinds
  BY DEF AllDull, Dull, Closes
<1>5. ~Speaking(more)
  BY DEF AllDull, Dull, Speaking
<1> HIDE DEF T
<1> QED
  BY <1>1, <1>2, <1>3, <1>4, <1>5, Push

\* A decision in the middle of what changes nothing of a run with nothing left.
LEMMA QuietStep ==
    ASSUME CTypeOK, DeliveryInv, OneWorks, NEW c \in Commands, p[c] # Idle, Works(c),
           NEW q \in Underway, NEW more, Continue(c, q, more \o Rest(c)),
           UNCHANGED <<run, units, dispatches>>,
           AllDull(more) \/ (Head(p[c].agenda)[1] \in EndKinds /\ Closes(more)),
           Speaking(more) => \/ Speaks(Head(p[c].agenda))
                             \/ /\ Head(p[c].agenda)[1] \in EndKinds
                                /\ NothingLeft(units, dispatches) /\ Harmless(Head(p[c].agenda)),
           NothingLeft(units, dispatches) /\ Harmless(Head(p[c].agenda)) => AllHarmless(more)
    PROVE  DeliveryInv'
<1> DEFINE h == Head(p[c].agenda)
           T == {more[k] : k \in 1 .. Len(more)}
<1>1. /\ Delivers(p[c].agenda, run) => NothingLeft(units, dispatches) /\ Harmless(h)
      /\ run \in Finished \/ Speaks(h) => Delivers(p[c].agenda, run)
  BY HeadSays
<1>2. run' \in Finished => Delivers(p[c].agenda, run)
  BY <1>1
<1>3. more \in Seq(T)
  BY DEF Lists, AllDull, Closes
<1>4. \A k \in 1 .. Len(more) : more[k][1] \in EndKinds => k = Len(more) /\ h[1] \in EndKinds
  BY DEF AllDull, Dull, Closes
<1>5. Speaking(more) => Delivers(p[c].agenda, run) \/ h[1] \in EndKinds
  BY <1>1
<1>6. Delivers(p[c].agenda, run) \/ Speaking(more) =>
         NothingLeft(units', dispatches') /\ AllHarmless(more)
  BY <1>1
<1> HIDE DEF T
<1> QED
  BY <1>2, <1>3, <1>4, <1>5, <1>6, Push

\* A part of a stop.
LEMMA HaltStep ==
    ASSUME CTypeOK, DeliveryInv, OneWorks, NEW c \in Commands, p[c] # Idle, Stops(Head(p[c].agenda)),
           NEW more, Lists(more), AllStops(more), Continue(c, p[c], more \o Rest(c)),
           UNCHANGED <<units, dispatches>>, run' \in Finished => run \in Finished
    PROVE  DeliveryInv'
<1> DEFINE T == {more[k] : k \in 1 .. Len(more)}
<1>1. /\ Delivers(p[c].agenda, run) => NothingLeft(units, dispatches)
      /\ run \in Finished => Delivers(p[c].agenda, run)
      /\ p[c] \in Underway
  BY HeadSays
<1>2. run' \in Finished => Delivers(p[c].agenda, run)
  BY <1>1
<1>3. more \in Seq(T)
  BY DEF Lists
<1>4. \A k \in 1 .. Len(more) : more[k][1] \notin EndKinds /\ ~Speaks(more[k]) /\ Harmless(more[k])
  BY DEF AllStops, Stops, EndKinds, Speaks, Harmless, HarmlessKinds
<1>5. ~Speaking(more) /\ AllHarmless(more)
  BY <1>4 DEF Speaking, AllHarmless
<1>6. Delivers(p[c].agenda, run) \/ Speaking(more) =>
         NothingLeft(units', dispatches') /\ AllHarmless(more)
  BY <1>1, <1>5
<1> HIDE DEF T
<1> QED
  BY <1>1, <1>2, <1>3, <1>4, <1>5, <1>6, Push

\* A command is over, or has never begun.
LEMMA OverStep ==
    ASSUME CTypeOK, DeliveryInv, OneWorks, NEW c \in Commands, Continue(c, p[c], <<>>),
           UNCHANGED tables
    PROVE  DeliveryInv'
<1>1. p' = [p EXCEPT ![c] = Idle]
  BY DEF Continue
<1>2. p'[c] = Idle /\ \A d \in Commands \ {c} : p'[d] = p[d]
  BY <1>1 DEF CTypeOK
<1>3. UNCHANGED <<run, units, dispatches>>
  BY DEF tables
<1>4. run' \in Finished => NothingLeft(units', dispatches')
  BY <1>3 DEF DeliveryInv
<1> QED
  BY <1>2, <1>3, <1>4, DeliveryFrame

LEMMA EmptyList ==
    /\ <<>> \in Seq({}) /\ Lists(<<>>) /\ AllDull(<<>>) /\ AllHarmless(<<>>)
    /\ AllStops(<<>>) /\ ~Speaking(<<>>)
<1>1. <<>> \in Seq({}) /\ Len(<<>>) = 0 /\ 1 .. 0 = {}
  OBVIOUS
<1>2. Lists(<<>>)
  BY <1>1, SeqLists
<1> QED
  BY <1>1, <1>2 DEF AllDull, AllHarmless, AllStops, Speaking

LEMMA TransactionOver ==
    ASSUME CInv, DeliveryInv, OneWorks, NEW c \in Commands, Transaction(c)
    PROVE  DeliveryInv'
<1> DEFINE h == Head(p[c].agenda)
           none == <<>>
<1>1. p[c] # Idle /\ CTypeOK /\ p[c] \in Underway
  BY UnderwayHas DEF Transaction, At, CInv
<1>2. /\ AllDull(none) /\ AllHarmless(none) /\ Lists(none) /\ AllStops(none) /\ ~Speaking(none)
      /\ none \in Seq({}) /\ 1 .. Len(none) = {}
  BY EmptyList
<1> HIDE DEF none
<1>3. ASSUME Continue(c, p[c], <<>>), UNCHANGED tables
      PROVE  DeliveryInv'
  BY <1>1, <1>3, OverStep
<1>4. ASSUME h[1] \in {"block", "unblock", "fail", "done", "release", "record", "reject", "accept"},
             Continue(c, p[c], none \o Rest(c)), run' = run
      PROVE  DeliveryInv'
  <2>1. ~Harmless(h)
    BY <1>4 DEF Harmless, HarmlessKinds
  <2> HIDE DEF h
  <2>2. ~Harmless(Head(p[c].agenda))
    BY <2>1 DEF h
  <2> QED
    BY <1>1, <1>2, <1>4, <2>2, WorkStep
<1>5. ASSUME h[1] \in {"park", "tell"}, Continue(c, p[c], none \o Rest(c)),
             UNCHANGED <<run, units, dispatches>>
      PROVE  DeliveryInv'
  <2>1. CASE Works(c)
    <3> HIDE DEF h
    <3> QED
      BY <1>1, <1>2, <1>5, <2>1, QuietStep
  <2>2. CASE ~Works(c)
    <3>1. Stops(Head(p[c].agenda))
      BY <1>1, <2>2, HeadSays
    <3> QED
      BY <1>1, <1>2, <1>5, <3>1, HaltStep
  <2> QED
    BY <2>1, <2>2
<1>6. ASSUME h[1] = "move", CanMove(h[2]), SetRunState(h[2]), Continue(c, p[c], none \o Rest(c))
      PROVE  DeliveryInv'
  <2>1. run' = h[2] /\ UNCHANGED <<units, dispatches>>
    BY <1>6 DEF SetRunState
  <2>2. /\ Delivers(p[c].agenda, run) => NothingLeft(units, dispatches)
        /\ run \in Finished \/ Speaks(h) => Delivers(p[c].agenda, run)
        /\ ~Works(c) => Stops(h)
    BY <1>1, HeadSays
  <2>3. h[2] = "COMPLETE" => run \in Finished
    BY <1>6 DEF CanMove, Legal, Always, Finished
  <2>4. h[2] \in Finished => run \in Finished \/ Speaks(h)
    BY <1>6, <2>3 DEF Finished, Speaks
  <2>5. ~Works(c) => (h[2] \notin Finished)
    BY <1>6, <2>2 DEF Stops, Finished
  <2>7. run' \in Finished => Delivers(p[c].agenda, run)
    BY <2>1, <2>2, <2>4
  <2>8. Delivers(p[c].agenda, run) \/ Speaking(none) =>
          NothingLeft(units', dispatches') /\ AllHarmless(none)
    BY <1>2, <2>1, <2>2
  <2>9. ~Works(c) => (run' \in Finished => run \in Finished)
    BY <2>1, <2>5
  <2> HIDE DEF h
  <2> QED
    BY <1>1, <1>2, <1>6, <2>1, <2>7, <2>8, <2>9, Push
<1>7. \/ Continue(c, p[c], <<>>) /\ UNCHANGED tables
      \/ /\ Continue(c, p[c], none \o Rest(c))
         /\ \/ /\ run' = run
               /\ h[1] \in {"block", "unblock", "fail", "done", "release", "record", "reject",
                            "accept"}
            \/ h[1] \in {"park", "tell"} /\ UNCHANGED <<run, units, dispatches>>
            \/ h[1] = "move" /\ CanMove(h[2]) /\ SetRunState(h[2])
  <2>1. CASE At(c, "move") /\ Do(c, CanMove(Arg(c, 2)), SetRunState(Arg(c, 2)), <<>>)
    BY <2>1 DEF At, Do, Arg, none
  <2>2. CASE At(c, "park") /\ Do(c, TRUE, ReleaseFence(Arg(c, 2), Arg(c, 3)), <<>>)
    BY <2>2 DEF At, Do, Arg, none, ReleaseFence
  <2>3. CASE At(c, "tell") /\ Do(c, TRUE, QueueHumanStep(Arg(c, 2)), <<>>)
    BY <2>3 DEF At, Do, Arg, none, QueueHumanStep
  <2>4. CASE At(c, "block") /\ Do(c, TRUE, BlockLaneUnits(Arg(c, 2)), <<>>)
    BY <2>4 DEF At, Do, Arg, none, BlockLaneUnits, KeepAllBut
  <2>5. CASE At(c, "unblock") /\ Do(c, TRUE, UnblockLaneUnits(Arg(c, 2)), <<>>)
    BY <2>5 DEF At, Do, Arg, none, UnblockLaneUnits, KeepAllBut
  <2>6. CASE At(c, "fail") /\ Do(c, TRUE, MarkUnitFailed(Arg(c, 2)), <<>>)
    BY <2>6 DEF At, Do, Arg, none, MarkUnitFailed, KeepAllBut
  <2>7. CASE At(c, "done") /\ Do(c, CanFinish(Arg(c, 2)), MarkUnitDone(Arg(c, 2)), <<>>)
    BY <2>7 DEF At, Do, Arg, none, MarkUnitDone, KeepAllBut
  <2>8. CASE At(c, "release") /\ Do(c, CanRelease(Arg(c, 2)), ReleaseClaimedUnit(Arg(c, 2)), <<>>)
    BY <2>8 DEF At, Do, Arg, none, ReleaseClaimedUnit, KeepAllBut
  <2>9. CASE At(c, "record") /\ Do(c, CanResult(Arg(c, 2), Arg(c, 3)),
                                RecordResult(Arg(c, 2), Arg(c, 3)), <<>>)
    BY <2>9 DEF At, Do, Arg, none, RecordResult, KeepAllBut
  <2>10. CASE At(c, "reject") /\ Do(c, CanVerify(Arg(c, 2), Arg(c, 3)),
                                RecordVerification(Arg(c, 2), Arg(c, 3), FALSE, 0), <<>>)
    BY <2>10 DEF At, Do, Arg, none, RecordVerification, KeepAllBut
  <2>11. CASE At(c, "accept") /\ Do(c, CanVerify(Arg(c, 2), Arg(c, 3)),
                                RecordVerification(Arg(c, 2), Arg(c, 3), TRUE, Arg(c, 4)), <<>>)
    BY <2>11 DEF At, Do, Arg, none, RecordVerification, KeepAllBut
  <2> QED
    BY <2>1, <2>2, <2>3, <2>4, <2>5, <2>6, <2>7, <2>8, <2>9, <2>10, <2>11 DEF Transaction
<1> HIDE DEF h
<1> QED
  BY <1>3, <1>4, <1>5, <1>6, <1>7

\* Moves that do not deliver the run.
LEMMA DullMoves ==
    ASSUME NEW path \in Seq(RunStates)
    PROVE  /\ Lists(Moves(path)) /\ AllHarmless(Moves(path))
           /\ (\A i \in 1 .. Len(path) : path[i] # "DELIVERABLE_READY") => AllDull(Moves(path))
           /\ \A k \in 1 .. Len(Moves(path)) : Moves(path)[k][1] \notin EndKinds
<1>1. Moves(path) = [i \in 1 .. Len(path) |-> <<"move", path[i]>>] /\ Len(path) \in Nat
  BY DEF Moves
<1>2. Moves(path) \in Seq(Plain)
  BY MovesAre
<1>3. Lists(Moves(path))
  BY <1>2, SeqLists
<1>4. Len(Moves(path)) = Len(path) /\ \A i \in 1 .. Len(path) : Moves(path)[i] = <<"move", path[i]>>
  BY <1>1, <1>2
<1>5. ASSUME NEW i \in 1 .. Len(path)
      PROVE  Harmless(Moves(path)[i]) /\ Moves(path)[i][1] = "move"
  <2>1. Moves(path)[i][1] = "move"
    BY <1>4
  <2> QED
    BY <2>1 DEF Harmless, HarmlessKinds
<1>6. \A i \in 1 .. Len(path) : path[i] # "DELIVERABLE_READY" => Dull(Moves(path)[i])
  BY <1>4, DullMade
<1> QED
  BY <1>3, <1>4, <1>5, <1>6 DEF AllHarmless, AllDull, EndKinds

LEMMA PathMoves ==
    /\ \A s \in RunStates \ {"DELIVERABLE_READY"} :
         AllDull(Moves(<<s>>)) /\ AllHarmless(Moves(<<s>>))
    /\ \A s, r \in RunStates \ {"DELIVERABLE_READY"} :
         AllDull(Moves(<<s, r>>)) /\ AllHarmless(Moves(<<s, r>>))
    /\ AllDull(Moves(<<>>)) /\ AllHarmless(Moves(<<>>))
    /\ AllDull(<<>>) /\ AllHarmless(<<>>)
<1>1. ASSUME NEW s \in RunStates \ {"DELIVERABLE_READY"}
      PROVE  AllDull(Moves(<<s>>)) /\ AllHarmless(Moves(<<s>>))
  <2> DEFINE a == <<s>>
  <2>1. a \in Seq(RunStates) /\ \A i \in 1 .. Len(a) : a[i] # "DELIVERABLE_READY"
    OBVIOUS
  <2> HIDE DEF a
  <2>2. AllDull(Moves(a)) /\ AllHarmless(Moves(a))
    BY <2>1, DullMoves
  <2> QED
    BY <2>2 DEF a
<1>2. ASSUME NEW s \in RunStates \ {"DELIVERABLE_READY"},
             NEW r \in RunStates \ {"DELIVERABLE_READY"}
      PROVE  AllDull(Moves(<<s, r>>)) /\ AllHarmless(Moves(<<s, r>>))
  <2> DEFINE a == <<s, r>>
  <2>1. a \in Seq(RunStates) /\ \A i \in 1 .. Len(a) : a[i] # "DELIVERABLE_READY"
    OBVIOUS
  <2> HIDE DEF a
  <2>2. AllDull(Moves(a)) /\ AllHarmless(Moves(a))
    BY <2>1, DullMoves
  <2> QED
    BY <2>2 DEF a
<1>3. AllDull(Moves(<<>>)) /\ AllHarmless(Moves(<<>>))
  <2> DEFINE a == <<>>
  <2>1. a \in Seq(RunStates) /\ \A i \in 1 .. Len(a) : a[i] # "DELIVERABLE_READY"
    OBVIOUS
  <2> HIDE DEF a
  <2>2. AllDull(Moves(a)) /\ AllHarmless(Moves(a))
    BY <2>1, DullMoves
  <2> QED
    BY <2>2 DEF a
<1> QED
  BY <1>1, <1>2, <1>3, EmptyList

LEMMA WalksDull ==
    /\ AllDull(Walk) /\ AllDull(Ensure) /\ AllDull(Unwind)
    /\ AllHarmless(Unwind)
<1>1. /\ AllDull(Moves(<<"READY", "EXECUTING">>)) /\ AllDull(Moves(<<"EXECUTING">>))
      /\ AllDull(Moves(<<"VERIFYING">>)) /\ AllDull(Moves(<<"VERIFYING", "CHECKPOINTED">>))
      /\ AllHarmless(Moves(<<"VERIFYING", "CHECKPOINTED">>))
      /\ AllDull(Moves(<<>>)) /\ AllDull(<<>>) /\ AllHarmless(<<>>)
  <2>1. {"READY", "EXECUTING", "VERIFYING", "CHECKPOINTED"} \subseteq RunStates \ {"DELIVERABLE_READY"}
    BY DEF RunStates
  <2> QED
    BY <2>1, PathMoves
<1>2. Walk \in {Moves(<<"READY", "EXECUTING">>), Moves(<<"EXECUTING">>), Moves(<<>>)}
  BY DEF Walk
<1>3. /\ Ensure \in {Moves(<<"VERIFYING">>), <<>>}
      /\ Unwind \in {Moves(<<"VERIFYING", "CHECKPOINTED">>), <<>>}
  BY DEF Ensure, Unwind
<1> QED
  BY <1>1, <1>2, <1>3

\* A list made of a finite set.
LEMMA SetLists ==
    ASSUME NEW S, IsFiniteSet(S)
    PROVE  /\ Lists(SetToSeq(S))
           /\ \A k \in 1 .. Len(SetToSeq(S)) : SetToSeq(S)[k] \in S
           /\ (\A x \in S : Dull(x)) => AllDull(SetToSeq(S))
           /\ S = {} => AllHarmless(SetToSeq(S))
           /\ (\A x \in S : Harmless(x)) => AllHarmless(SetToSeq(S))
<1> DEFINE a == SetToSeq(S)
<1>1. a \in Seq(S)
  BY SetInSequence
<1> HIDE DEF a
<1>2. Lists(a) /\ \A k \in 1 .. Len(a) : a[k] \in S
  BY <1>1, SeqLists
<1> QED
  BY <1>2 DEF AllDull, AllHarmless, a

LEMMA ReconcileDull ==
    AllDull(Reconcile) /\ (NothingLeft(units, dispatches) => AllHarmless(Reconcile))
<1> DEFINE N == {k \in gated : WaitingIn(k, {"PENDING", "READY"})}
           U == {k \in Lanes \ gated : WaitingIn(k, {"BLOCKED"})}
           A == {<<"block", l>> : l \in N} \cup {<<"unblock", l>> : l \in U}
<1>1. IsFiniteSet(A)
  <2> DEFINE f == [l \in N |-> <<"block", l>>]
             g == [l \in U |-> <<"unblock", l>>]
  <2>1. N \subseteq Lanes /\ U \subseteq Lanes
    BY UnitAssumptions DEF WaitingIn
  <2>2. IsFiniteSet(N) /\ IsFiniteSet(U)
    BY <2>1, FS_Subset, UnitAssumptions
  <2>3. IsFiniteSet({f[l] : l \in N}) /\ IsFiniteSet({g[l] : l \in U})
    <3> HIDE DEF N, U
    <3> QED
      BY <2>2, ImageFinite
  <2>4. A = {f[l] : l \in N} \cup {g[l] : l \in U}
    OBVIOUS
  <2> QED
    BY <2>3, <2>4, FS_Union
<1>2. \A x \in A : Dull(x)
  BY DullMade
<1>3. NothingLeft(units, dispatches) => A = {}
  <2> SUFFICES ASSUME NothingLeft(units, dispatches)
               PROVE  A = {}
    OBVIOUS
  <2>1. \A l : ~WaitingIn(l, {"PENDING", "READY"}) /\ ~WaitingIn(l, {"BLOCKED"})
    BY DEF WaitingIn, NothingLeft, UnitOver
  <2> QED
    BY <2>1
<1>4. Reconcile = SetToSeq(A)
  BY DEF Reconcile
<1> HIDE DEF A
<1> QED
  BY <1>1, <1>2, <1>3, <1>4, SetLists

LEMMA LookOver ==
    ASSUME CInv, DeliveryInv, OneWorks, NEW c \in Commands, Look(c)
    PROVE  DeliveryInv'
<1> DEFINE h == Head(p[c].agenda)
<1>1. p[c] # Idle /\ CTypeOK /\ p[c] \in Underway
  BY UnderwayHas DEF Look, At, CInv
<1>2. AllDull(Walk) /\ AllDull(Ensure) /\ AllDull(Unwind) /\ AllHarmless(Unwind)
      /\ AllDull(Reconcile) /\ (NothingLeft(units, dispatches) => AllHarmless(Reconcile))
  BY WalksDull, ReconcileDull
<1>3. ASSUME NEW more, h[1] \in {"walk", "ensure"}, AllDull(more), Decide(c, more)
      PROVE  DeliveryInv'
  <2>1. ~Harmless(Head(p[c].agenda))
    BY <1>3 DEF Harmless, HarmlessKinds
  <2>2. Continue(c, p[c], more \o Rest(c)) /\ run' = run
    BY <1>3 DEF Decide, tables
  <2> QED
    BY <1>1, <1>3, <2>1, <2>2, WorkStep
<1>4. ASSUME NEW more, h[1] \in {"unwind", "reconcile"}, AllDull(more), Decide(c, more),
             NothingLeft(units, dispatches) => AllHarmless(more)
      PROVE  DeliveryInv'
  <2>1. Works(c)
    <3>1. ~Stops(h)
      BY <1>4 DEF Stops
    <3> QED
      BY <1>1, <3>1, HeadSays
  <2>2. Continue(c, p[c], more \o Rest(c)) /\ UNCHANGED <<run, units, dispatches>>
    BY <1>4 DEF Decide, tables
  <2>3. ~Speaking(more)
    BY <1>4 DEF AllDull, Dull, Speaking
  <2> QED
    BY <1>1, <1>4, <2>1, <2>2, <2>3, QuietStep
<1>5. \/ h[1] = "walk" /\ Decide(c, Walk)
      \/ h[1] = "ensure" /\ Decide(c, Ensure)
      \/ h[1] = "unwind" /\ Decide(c, Unwind)
      \/ h[1] = "reconcile" /\ Decide(c, Reconcile)
  BY DEF Look, At
<1> HIDE DEF h
<1> QED
  BY <1>2, <1>3, <1>4, <1>5

\* A decision of what takes a unit on, judges it or gives it back.
Busy == {"judge", "rollback", "terminal", "check", "settle", "wait", "ask again", "wave", "gate",
         "claim fence", "claim", "dispatch", "received", "fetch", "walk", "ensure"}

LEMMA BusyStep ==
    ASSUME CInv, DeliveryInv, OneWorks, NEW c \in Commands, p[c] # Idle, Head(p[c].agenda)[1] \in Busy,
           \/ End(c)
           \/ \E more : /\ Decide(c, more)
                        /\ \/ AllDull(more)
                           \/ /\ Head(p[c].agenda)[1] \in EndKinds
                              /\ Closes(more) /\ ~Speaking(more)
    PROVE  DeliveryInv'
<1>1. CTypeOK /\ p[c] \in Underway
  BY UnderwayHas DEF CInv
<1>2. ~Harmless(Head(p[c].agenda))
  BY DEF Busy, Harmless, HarmlessKinds
<1>3. CASE End(c)
  BY <1>1, <1>3, OverStep DEF End
<1>4. ASSUME NEW more, Decide(c, more),
             \/ AllDull(more)
             \/ /\ Head(p[c].agenda)[1] \in EndKinds
                /\ Closes(more) /\ ~Speaking(more)
      PROVE  DeliveryInv'
  <2>1. Continue(c, p[c], more \o Rest(c)) /\ run' = run
    BY <1>4 DEF Decide, tables
  <2> QED
    BY <1>1, <1>2, <1>4, <2>1, WorkStep
<1> QED
  BY <1>3, <1>4

LEMMA CloseDull ==
    ASSUME NEW u, NEW i, NEW n
    PROVE  AllDull(Close(u, i, n))
<1> DEFINE r == <<"reject", u, i>>
           f == <<"fail", u>>
           k == Park(u, n)
           t == <<"tell", u>>
<1>1. Dull(r) /\ Dull(f) /\ Dull(k) /\ Dull(t)
  BY DullMade
<1>2. Close(u, i, n) = <<r, f, k, t>>
  BY DEF Close
<1> HIDE DEF r, f, k, t
<1> QED
  BY <1>1, <1>2, ListsOf

LEMMA JudgeOver ==
    ASSUME CInv, DeliveryInv, OneWorks, NEW c \in Commands, Judge(c) \/ Rollback(c) \/ Checked(c)
    PROVE  DeliveryInv'
<1> DEFINE h == Head(p[c].agenda)
<1>1. p[c] # Idle /\ h[1] \in Busy
  BY DEF Judge, Rollback, Checked, At, Busy
<1>2. ASSUME NEW u, NEW i, NEW n, NEW d, NEW x
      PROVE  /\ AllDull(<<>>) /\ AllDull(Close(u, i, n)) /\ AllDull(<<<<"check", u, i, n, d>>>>)
             /\ AllDull(<<Park(u, n)>>) /\ AllDull(<<<<"tell", u>>, Park(u, n)>>)
             /\ AllDull(<<<<"terminal">>>>)
             /\ AllDull(<<<<"reject", u, i>>, <<"fail", u>>, <<"rollback", u, n, x>>>>)
             /\ AllDull(<<<<"accept", u, i, d>>, <<"done", u>>, Park(u, n)>>)
  <2> DEFINE k == <<"check", u, i, n, d>>
             q == Park(u, n)
             t == <<"tell", u>>
             z == <<"terminal">>
             r == <<"reject", u, i>>
             f == <<"fail", u>>
             b == <<"rollback", u, n, x>>
             a == <<"accept", u, i, d>>
             y == <<"done", u>>
  <2>1. /\ Dull(k) /\ Dull(q) /\ Dull(t) /\ Dull(z) /\ Dull(r) /\ Dull(f) /\ Dull(b) /\ Dull(a)
        /\ Dull(y)
    BY DullMade
  <2>2. AllDull(Close(u, i, n)) /\ AllDull(<<>>)
    BY CloseDull, EmptyList
  <2> HIDE DEF k, q, t, z, r, f, b, a, y
  <2>3. /\ AllDull(<<k>>) /\ AllDull(<<q>>) /\ AllDull(<<t, q>>) /\ AllDull(<<z>>)
        /\ AllDull(<<r, f, b>>) /\ AllDull(<<a, y, q>>)
    BY <2>1, ListsOf
  <2> QED
    BY <2>2, <2>3 DEF k, q, t, z, r, f, b, a, y
<1>3. CASE Judge(c)
  <2>1. \/ Decide(c, <<>>) \/ Decide(c, Close(h[2], h[3], h[4]))
        \/ Decide(c, <<<<"check", h[2], h[3], h[4], units[h[2]].def>>>>)
    BY <1>3 DEF Judge, Arg
  <2> HIDE DEF h
  <2>2. \E more : Decide(c, more) /\ AllDull(more)
    BY <1>2, <2>1
  <2> QED
    BY <1>1, <2>2, BusyStep DEF h
<1>4. CASE Rollback(c)
  <2> DEFINE o == <<<<"tell", h[2]>>, Park(h[2], h[3])>>
             z == <<<<"terminal">>>>
  <2>1. \/ Decide(c, <<Park(h[2], h[3])>>)
        \/ Decide(c, o \o z)
        \/ Decide(c, o \o <<>>)
    BY <1>4 DEF Rollback, Arg
  <2> HIDE DEF h
  <2>2. AllDull(<<Park(h[2], h[3])>>) /\ AllDull(o) /\ AllDull(z) /\ AllDull(<<>>)
    BY <1>2
  <2> HIDE DEF o, z
  <2>3. AllDull(o \o z) /\ AllDull(o \o <<>>)
    BY <2>2, DullJoined
  <2>4. \E more : Decide(c, more) /\ AllDull(more)
    BY <2>1, <2>2, <2>3
  <2> QED
    BY <1>1, <2>4, BusyStep DEF h
<1>5. CASE Checked(c)
  <2> DEFINE st == <<<<"reject", h[2], h[3]>>, <<"fail", h[2]>>, <<"rollback", h[2], h[4], "stale">>>>
             late == Append(st, <<"tell", h[2]>>)
             no == <<<<"reject", h[2], h[3]>>, <<"fail", h[2]>>, <<"rollback", h[2], h[4], "judged">>>>
             yes == <<<<"accept", h[2], h[3], h[5]>>, <<"done", h[2]>>, Park(h[2], h[4])>>
  <2>1. Decide(c, late) \/ Decide(c, st) \/ Decide(c, no) \/ Decide(c, yes)
    BY <1>5 DEF Checked, Arg
  <2> HIDE DEF h
  <2>2. AllDull(late) /\ AllDull(st) /\ AllDull(no) /\ AllDull(yes)
    <3>1. AllDull(st) /\ AllDull(no) /\ AllDull(yes) /\ Dull(<<"tell", h[2]>>)
      BY <1>2, DullMade
    <3> HIDE DEF st, no, yes
    <3> QED
      BY <3>1, DullAppended
  <2> HIDE DEF late, st, no, yes
  <2>3. \E more : Decide(c, more) /\ AllDull(more)
    BY <2>1, <2>2
  <2> QED
    BY <1>1, <2>3, BusyStep DEF h
<1> QED
  BY <1>3, <1>4, <1>5

LEMMA SettleOver ==
    ASSUME CInv, DeliveryInv, OneWorks, NEW c \in Commands,
           FailTerminally(c) \/ Settle(c) \/ WaitForFounder(c)
    PROVE  DeliveryInv'
<1> DEFINE h == Head(p[c].agenda)
           z == <<"settle">>
           w == <<"unwind">>
           n == <<"nothing ready">>
           quiet == <<w, n>>
<1>1. /\ p[c] # Idle /\ h[1] \in Busy
      /\ Settle(c) => h[1] \in EndKinds
  BY DEF FailTerminally, Settle, WaitForFounder, At, Busy, EndKinds
<1>2. /\ AllDull(Moves(<<"FAILED_TERMINAL">>)) /\ AllDull(Moves(<<"WAITING_HUMAN">>))
      /\ AllDull(Moves(<<"READY">>)) /\ AllDull(Moves(<<"VERIFYING">>))
      /\ AllDull(Moves(<<"CHECKPOINTED">>)) /\ AllDull(<<>>)
  <2>1. {"FAILED_TERMINAL", "WAITING_HUMAN", "READY", "VERIFYING", "CHECKPOINTED"}
            \subseteq RunStates \ {"DELIVERABLE_READY"}
    BY DEF RunStates, Terminal
  <2> QED
    BY <2>1, PathMoves
<1>3. Closes(<<z>>) /\ ~Speaking(<<z>>) /\ Closes(quiet) /\ ~Speaking(quiet)
  <2>1. Dull(w) /\ ~Speaks(w) /\ ~Speaks(z) /\ ~Speaks(n)
    BY DEF Dull, EndKinds, Speaks
  <2> HIDE DEF w, z, n
  <2>2. Closes(<<z>>) /\ Closes(<<w, n>>)
    BY <2>1, ListsOf
  <2>3. /\ Len(<<z>>) = 1 /\ <<z>>[1] = z
        /\ Len(<<w, n>>) = 2 /\ <<w, n>>[1] = w /\ <<w, n>>[2] = n
    OBVIOUS
  <2> QED
    BY <2>1, <2>2, <2>3 DEF Speaking
<1>4. CASE FailTerminally(c) \/ WaitForFounder(c)
  <2>1. \/ Decide(c, Moves(<<"FAILED_TERMINAL">>)) \/ Decide(c, <<>>)
        \/ Decide(c, Moves(<<"WAITING_HUMAN">>)) \/ End(c)
    BY <1>4 DEF FailTerminally, WaitForFounder
  <2>2. End(c) \/ \E more : Decide(c, more) /\ AllDull(more)
    BY <1>2, <2>1
  <2> QED
    BY <1>1, <2>2, BusyStep
<1>5. CASE Settle(c)
  <2> DEFINE v == Moves(<<"VERIFYING">>)
             k == Moves(<<"CHECKPOINTED">>)
  <2>1. \/ Decide(c, v \o <<z>>) \/ Decide(c, k \o <<z>>)
        \/ Decide(c, Moves(<<"READY">>)) \/ Decide(c, quiet) \/ End(c)
    BY <1>5 DEF Settle
  <2> HIDE DEF v, k, quiet, z
  <2>2. AllDull(v) /\ AllDull(k) /\ Lists(<<z>>)
    BY <1>2, <1>3 DEF v, k, Closes
  <2>3. /\ Closes(v \o <<z>>) /\ Closes(k \o <<z>>)
        /\ ~Speaking(v \o <<z>>) /\ ~Speaking(k \o <<z>>)
    BY <1>3, <2>2, DullJoined
  <2>4. \/ End(c)
        \/ \E more : Decide(c, more) /\ (AllDull(more) \/ (Closes(more) /\ ~Speaking(more)))
    BY <1>2, <1>3, <2>1, <2>3
  <2> QED
    BY <1>1, <1>5, <2>4, BusyStep
<1> QED
  BY <1>4, <1>5

\* A decision while the step is still looking around.
Looking == {"list", "orphans", "results", "contract", "await", "select", "unwind", "reconcile",
            "orient", "nothing ready", "deliver", "delivered"}

LEMMA LookingStep ==
    ASSUME CInv, DeliveryInv, OneWorks, NEW c \in Commands, p[c] # Idle,
           Head(p[c].agenda)[1] \in Looking,
           NEW q \in Underway, NEW more, Continue(c, q, more \o Rest(c)), UNCHANGED tables,
           AllDull(more) \/ (Head(p[c].agenda)[1] \in EndKinds /\ Closes(more)),
           Speaking(more) => \/ Speaks(Head(p[c].agenda))
                             \/ /\ Head(p[c].agenda)[1] \in EndKinds
                                /\ NothingLeft(units, dispatches) /\ Harmless(Head(p[c].agenda)),
           NothingLeft(units, dispatches) /\ Harmless(Head(p[c].agenda)) => AllHarmless(more)
    PROVE  DeliveryInv'
<1>1. CTypeOK /\ UNCHANGED <<run, units, dispatches>>
  BY DEF CInv, tables
<1>2. Works(c)
  <2>1. ~Stops(Head(p[c].agenda))
    BY DEF Stops, Looking
  <2> QED
    BY <1>1, <2>1, HeadSays
<1> QED
  BY <1>1, <1>2, QuietStep

\* It ends, or goes on with what neither delivers the run nor does any harm.
LEMMA LookingOn ==
    ASSUME CInv, DeliveryInv, OneWorks, NEW c \in Commands, p[c] # Idle,
           Head(p[c].agenda)[1] \in Looking,
           \/ End(c)
           \/ \E more : /\ Decide(c, more) /\ ~Speaking(more)
                        /\ AllDull(more) \/ (Head(p[c].agenda)[1] \in EndKinds /\ Closes(more))
                        /\ NothingLeft(units, dispatches) /\ Harmless(Head(p[c].agenda))
                             => AllHarmless(more)
    PROVE  DeliveryInv'
<1>1. CTypeOK /\ p[c] \in Underway
  BY UnderwayHas DEF CInv
<1>2. CASE End(c)
  BY <1>1, <1>2, OverStep DEF End
<1>3. ASSUME NEW more, Decide(c, more), ~Speaking(more),
             AllDull(more) \/ (Head(p[c].agenda)[1] \in EndKinds /\ Closes(more)),
             NothingLeft(units, dispatches) /\ Harmless(Head(p[c].agenda)) => AllHarmless(more)
      PROVE  DeliveryInv'
  <2>1. Continue(c, p[c], more \o Rest(c)) /\ UNCHANGED tables
    BY <1>3 DEF Decide
  <2> QED
    BY <1>1, <1>3, <2>1, LookingStep
<1> QED
  BY <1>2, <1>3

LEMMA LeftMeans ==
    NothingLeft(units, dispatches) <=>
        (\A u \in Planned : units[u].status \in UnitOver) /\ Dispatches(Open) = {}
<1>1. (\A u \in Planned : units[u].status \in UnitOver) <=>
      \A u \in Units : units[u].status \in UnitOver \cup {"UNPLANNED"}
  BY DEF Planned, UnitOver
<1>2. Dispatches(Open) = {} <=>
      \A u \in Units : \A i \in DOMAIN dispatches[u] : dispatches[u][i].status \notin Open
  <2>1. ASSUME Dispatches(Open) = {}, NEW u \in Units, NEW i \in DOMAIN dispatches[u]
        PROVE  dispatches[u][i].status \notin Open
    <3>1. <<u, i>> \in UNION {{v} \X DOMAIN dispatches[v] : v \in Units}
      BY <2>1
    <3> QED
      BY <2>1, <3>1 DEF Dispatches
  <2>2. ASSUME \A u \in Units : \A i \in DOMAIN dispatches[u] : dispatches[u][i].status \notin Open
        PROVE  Dispatches(Open) = {}
    BY <2>2, DispatchesAre
  <2> QED
    BY <2>1, <2>2
<1> QED
  BY <1>1, <1>2 DEF NothingLeft

LEMMA NothingReadyOver ==
    ASSUME CInv, DeliveryInv, OneWorks, NEW c \in Commands, NothingReady(c)
    PROVE  DeliveryInv'
<1> DEFINE h == Head(p[c].agenda)
           stuck == {u \in Unreachable : Lane[u] \notin gated}
           told == SetToSeq({<<"tell", u>> : u \in stuck})
           again == IF stuck = {} THEN <<>> ELSE <<<<"reconcile">>>>
           wait == <<"wait">>
           deliver == <<"deliver">>
           more == told \o again \o <<wait>>
<1>1. /\ p[c] # Idle /\ h[1] \in Looking /\ h[1] \in EndKinds /\ Harmless(h)
      /\ p[c] \in Underway
  BY UnderwayHas DEF NothingReady, At, Looking, EndKinds, Harmless, HarmlessKinds, CInv
<1>2. stuck \in SUBSET Units
  BY DEF Unreachable, Behind
<1>3. AllDull(told)
  <2> HIDE DEF stuck
  <2> DEFINE f == [u \in stuck |-> <<"tell", u>>]
             A == {<<"tell", u>> : u \in stuck}
  <2>1. IsFiniteSet(stuck)
    BY <1>2, FS_Subset, UnitAssumptions
  <2>2. IsFiniteSet({f[u] : u \in stuck})
    BY <2>1, ImageFinite
  <2>3. A = {f[u] : u \in stuck}
    OBVIOUS
  <2>4. IsFiniteSet(A) /\ \A x \in A : Dull(x)
    BY <2>2, <2>3, DullMade
  <2> HIDE DEF A
  <2>5. AllDull(SetToSeq(A))
    BY <2>4, SetLists
  <2> QED
    BY <2>5 DEF A
<1>4. AllDull(again) /\ Closes(<<wait>>) /\ Closes(<<deliver>>) /\ AllHarmless(<<deliver>>)
      /\ ~Speaking(<<wait>>)
  <2>1. Dull(<<"reconcile">>) /\ Harmless(deliver) /\ ~Speaks(wait)
    BY DullMade, HarmlessMade DEF Speaks
  <2> HIDE DEF wait, deliver
  <2>2. /\ AllDull(<<<<"reconcile">>>>) /\ AllDull(<<>>) /\ AllHarmless(<<deliver>>)
        /\ Closes(<<wait>>) /\ Closes(<<deliver>>)
    BY <2>1, ListsOf, EmptyList
  <2>3. Len(<<wait>>) = 1 /\ <<wait>>[1] = wait
    OBVIOUS
  <2> QED
    BY <2>1, <2>2, <2>3 DEF Speaking
<1>5. \/ End(c)
      \/ Decide(c, <<deliver>>) /\ NothingLeft(units, dispatches)
      \/ Decide(c, more) /\ ~NothingLeft(units, dispatches)
  BY LeftMeans DEF NothingReady
<1> HIDE DEF told, again, wait, deliver
<1>6. Closes(more) /\ ~Speaking(more)
  <2>1. AllDull(told \o again) /\ Lists(<<wait>>)
    BY <1>3, <1>4, DullJoined DEF Closes
  <2> QED
    BY <1>4, <2>1, DullJoined
<1> HIDE DEF more
<1>7. CASE End(c) \/ (Decide(c, more) /\ ~NothingLeft(units, dispatches))
  BY <1>1, <1>6, <1>7, LookingOn
<1>8. CASE Decide(c, <<deliver>>) /\ NothingLeft(units, dispatches)
  <2>1. Continue(c, p[c], <<deliver>> \o Rest(c)) /\ UNCHANGED tables
    BY <1>8 DEF Decide
  <2> QED
    BY <1>1, <1>4, <1>8, <2>1, LookingStep
<1> QED
  BY <1>5, <1>7, <1>8

LEMMA DeliverOver ==
    ASSUME CInv, DeliveryInv, OneWorks, NEW c \in Commands, Deliver(c) \/ Delivered(c)
    PROVE  DeliveryInv'
<1> DEFINE h == Head(p[c].agenda)
           d == <<"delivered", run>>
           path == CASE Arg(c, 2) = "EXECUTING" -> <<"VERIFYING", "CHECKPOINTED">>
                       [] Arg(c, 2) = "VERIFYING" -> <<"CHECKPOINTED">>
                       [] Arg(c, 2) = "WAITING_HUMAN" -> <<"READY">>
                       [] OTHER -> <<>>
           way == path \o <<"DELIVERABLE_READY">>
<1>1. /\ p[c] # Idle /\ h[1] \in Looking /\ h[1] \in EndKinds /\ Speaks(h)
      /\ p[c] \in Underway /\ CTypeOK
  BY UnderwayHas DEF Deliver, Delivered, At, Looking, EndKinds, Speaks, CInv
<1>2. way \in Seq(RunStates)
  <2>1. /\ <<"VERIFYING", "CHECKPOINTED">> \in Seq(RunStates)
        /\ <<"CHECKPOINTED">> \in Seq(RunStates) /\ <<"READY">> \in Seq(RunStates)
        /\ <<>> \in Seq(RunStates) /\ <<"DELIVERABLE_READY">> \in Seq(RunStates)
    BY DEF RunStates
  <2>2. path \in Seq(RunStates)
    BY <2>1
  <2> HIDE DEF path
  <2> QED
    BY <2>1, <2>2
<1>3. Decide(c, <<d>>) \/ Decide(c, Moves(way)) \/ End(c)
  BY DEF Deliver, Delivered
<1>4. Closes(<<d>>) /\ AllHarmless(<<d>>)
  <2>1. Harmless(d)
    BY HarmlessMade
  <2> HIDE DEF d
  <2> QED
    BY <2>1, ListsOf
<1> HIDE DEF way, d
<1>5. Closes(Moves(way)) /\ AllHarmless(Moves(way))
  BY <1>2, DullMoves DEF Closes
<1>6. ASSUME NEW more, Closes(more), AllHarmless(more), Decide(c, more)
      PROVE  DeliveryInv'
  <2>1. Continue(c, p[c], more \o Rest(c)) /\ UNCHANGED tables
    BY <1>6 DEF Decide
  <2> QED
    BY <1>1, <1>6, <2>1, LookingStep
<1>7. CASE End(c)
  BY <1>1, <1>7, OverStep DEF End
<1> QED
  BY <1>3, <1>4, <1>5, <1>6, <1>7

\* One or two entries that neither deliver the run nor end the agenda before
\* the last of them.
LEMMA FewEntries ==
    ASSUME NEW y, NEW z, ~Speaks(z)
    PROVE  /\ Closes(<<z>>) /\ ~Speaking(<<z>>)
           /\ Dull(y) => Closes(<<y, z>>) /\ ~Speaking(<<y, z>>)
<1>1. /\ Len(<<z>>) = 1 /\ <<z>>[1] = z
      /\ Len(<<y, z>>) = 2 /\ <<y, z>>[1] = y /\ <<y, z>>[2] = z
  OBVIOUS
<1>2. ~Speaking(<<z>>) /\ (Dull(y) => ~Speaking(<<y, z>>))
  BY <1>1 DEF Speaking, Dull
<1>3. Closes(<<z>>) /\ (Dull(y) => Closes(<<y, z>>))
  BY ListsOf
<1> QED
  BY <1>2, <1>3

LEMMA ListOver ==
    ASSUME CInv, DeliveryInv, OneWorks, NEW c \in Commands, ListUnits(c)
    PROVE  DeliveryInv'
<1> DEFINE o == <<"orphans", Rows>>
           r == <<"results", Rows>>
<1>1. /\ p[c] # Idle /\ Head(p[c].agenda)[1] \in Looking /\ Head(p[c].agenda)[1] \in EndKinds
      /\ Decide(c, <<o, r>>)
  BY DEF ListUnits, At, Looking, EndKinds
<1>2. Dull(o) /\ ~Speaks(r)
  BY DullMade DEF Speaks
<1>3. NothingLeft(units, dispatches) => Harmless(o) /\ Harmless(r)
  <2> SUFFICES ASSUME NothingLeft(units, dispatches)
               PROVE  Harmless(o) /\ Harmless(r)
    OBVIOUS
  <2>1. \A x \in Rows : x.status \in UnitOver
    BY LeftMeans DEF Rows, Row
  <2> QED
    BY <2>1 DEF Harmless
<1> HIDE DEF o, r
<1>4. Closes(<<o, r>>) /\ ~Speaking(<<o, r>>)
  BY <1>2, FewEntries
<1>5. NothingLeft(units, dispatches) => AllHarmless(<<o, r>>)
  BY <1>3, ListsOf
<1> QED
  BY <1>1, <1>4, <1>5, LookingOn

LEMMA RepairDull ==
    ASSUME NEW r
    PROVE  /\ AllDull(Repair(r))
           /\ r.status \in UnitOver => AllHarmless(Repair(r))
<1> DEFINE k == Park(r.unit, r.fence)
           l == <<"release", r.unit>>
           f == <<"fail", r.unit>>
<1>1. Dull(k) /\ Dull(l) /\ Dull(f) /\ Harmless(k)
  BY DullMade, HarmlessMade
<1>2. /\ Repair(r) \in {<<k>>, <<k, l>>, <<k, f>>, <<>>}
      /\ r.status \in UnitOver => Repair(r) \in {<<k>>, <<>>}
  BY DEF Repair, UnitOver
<1> HIDE DEF k, l, f
<1>3. AllDull(<<k>>) /\ AllDull(<<k, l>>) /\ AllDull(<<k, f>>) /\ AllHarmless(<<k>>)
  BY <1>1, ListsOf
<1> QED
  BY <1>2, <1>3, EmptyList

LEMMA OrphansOver ==
    ASSUME CInv, DeliveryInv, OneWorks, NEW c \in Commands, Orphans(c)
    PROVE  DeliveryInv'
<1> DEFINE h == Head(p[c].agenda)
<1>1. /\ p[c] # Idle /\ h[1] = "orphans" /\ h[1] \in Looking /\ p[c] \in Underway
  BY UnderwayHas DEF Orphans, At, Looking, CInv
<1>2. Harmless(h) => \A r \in h[2] : r.status \in UnitOver
  BY <1>1 DEF Harmless, HarmlessKinds
<1>3. CASE Decide(c, <<>>)
  BY <1>1, <1>3, EmptyList, LookingOn
<1>4. ASSUME NEW r \in h[2],
             Continue(c, [p[c] EXCEPT !.noted = @ \/ Repair(r) # <<>>],
                      Repair(r) \o <<<<"orphans", h[2] \ {r}>>>> \o Rest(c)),
             UNCHANGED tables
      PROVE  DeliveryInv'
  <2> DEFINE q == [p[c] EXCEPT !.noted = @ \/ Repair(r) # <<>>]
             o == <<"orphans", h[2] \ {r}>>
             more == Repair(r) \o <<o>>
  <2>1. q \in Underway
    <3>1. (p[c].noted \/ Repair(r) # <<>>) \in BOOLEAN
      BY Zenon
    <3>2. \A b \in BOOLEAN : [p[c] EXCEPT !.noted = b] \in Underway
      BY <1>1, NotedMade
    <3> QED
      BY <3>1, <3>2, Zenon
  <2>2. Dull(o) /\ (Harmless(h) => Harmless(o))
    <3>1. o[1] = "orphans" /\ o[2] = h[2] \ {r}
      OBVIOUS
    <3>2. Harmless(h) => Harmless(o)
      BY <1>2, <3>1 DEF Harmless
    <3> QED
      BY <3>2, DullMade
  <2>3. AllDull(Repair(r)) /\ (Harmless(h) => AllHarmless(Repair(r)))
    BY <1>2, <1>4, RepairDull
  <2> HIDE DEF q, o
  <2>4. AllDull(<<o>>) /\ (Harmless(h) => AllHarmless(<<o>>))
    BY <2>2, ListsOf
  <2>5. AllDull(more) /\ (Harmless(h) => AllHarmless(more))
    BY <2>3, <2>4, DullJoined DEF AllDull
  <2>6. Continue(c, q, more \o Rest(c))
    BY <1>4 DEF q, o
  <2> HIDE DEF more
  <2>7. ~Speaking(more)
    BY <2>5 DEF AllDull, Dull, Speaking
  <2> QED
    BY <1>1, <1>4, <2>1, <2>5, <2>6, <2>7, LookingStep
<1> HIDE DEF h
<1> QED
  BY <1>3, <1>4 DEF Orphans, Arg, h

LEMMA ResultsOver ==
    ASSUME CInv, DeliveryInv, OneWorks, NEW c \in Commands, Results(c)
    PROVE  DeliveryInv'
<1> DEFINE h == Head(p[c].agenda)
           k == <<"contract">>
           w == <<"walk">>
           n == <<"ensure">>
           s == <<"settle">>
<1>1. /\ p[c] # Idle /\ h[1] = "results" /\ h[1] \in Looking /\ h[1] \in EndKinds
  BY DEF Results, At, Looking, EndKinds
<1>2. Harmless(h) => Unjudged(h[2]) = {}
  BY <1>1 DEF Harmless, HarmlessKinds, Unjudged, UnitOver
<1>3. \/ End(c)
      \/ Decide(c, <<k>>)
      \/ \E x \in Unjudged(h[2]) :
           \/ Decide(c, <<w, n, <<"judge", x[1].unit, x[2], x[1].fence>>, s>>)
           \/ Decide(c, Close(x[1].unit, x[2], x[1].fence))
  BY DEF Results, Arg
<1> HIDE DEF h
<1>4. CASE End(c)
  BY <1>1, <1>4, LookingOn DEF h
<1>5. CASE Decide(c, <<k>>)
  <2>1. ~Speaks(k) /\ Harmless(k)
    BY HarmlessMade DEF Speaks
  <2> HIDE DEF k
  <2>2. Closes(<<k>>) /\ ~Speaking(<<k>>) /\ AllHarmless(<<k>>)
    BY <2>1, FewEntries, ListsOf
  <2> QED
    BY <1>1, <1>5, <2>2, LookingOn DEF h
<1>6. ASSUME NEW x \in Unjudged(h[2]),
             \/ Decide(c, <<w, n, <<"judge", x[1].unit, x[2], x[1].fence>>, s>>)
             \/ Decide(c, Close(x[1].unit, x[2], x[1].fence))
      PROVE  DeliveryInv'
  <2> DEFINE j == <<"judge", x[1].unit, x[2], x[1].fence>>
             judge == <<w, n, j, s>>
             shut == Close(x[1].unit, x[2], x[1].fence)
  <2>1. ~Harmless(h)
    BY <1>2, <1>6
  <2>2. Dull(w) /\ Dull(n) /\ Dull(j) /\ ~Speaks(s)
    BY DullMade DEF Speaks
  <2>3. AllDull(shut)
    BY CloseDull
  <2>4. Decide(c, judge) \/ Decide(c, shut)
    BY <1>6
  <2> HIDE DEF w, n, j, s
  <2>5. Closes(judge)
    BY <2>2, ListsOf
  <2>6. ~Speaking(judge)
    <3>1. /\ Len(judge) = 4 /\ judge[1] = w /\ judge[2] = n /\ judge[3] = j /\ judge[4] = s
      OBVIOUS
    <3> HIDE DEF judge
    <3> QED
      BY <2>2, <3>1 DEF Speaking, Dull
  <2> HIDE DEF judge, shut
  <2>7. ~Speaking(shut)
    BY <2>3 DEF AllDull, Dull, Speaking
  <2> QED
    BY <1>1, <2>1, <2>3, <2>4, <2>5, <2>6, <2>7, LookingOn DEF h
<1> QED
  BY <1>3, <1>4, <1>5, <1>6

LEMMA ContractOver ==
    ASSUME CInv, DeliveryInv, OneWorks, NEW c \in Commands, ReadContract(c)
    PROVE  DeliveryInv'
<1> DEFINE a == <<"await">>
           s == <<"stopping">>
<1>1. /\ p[c] # Idle /\ Head(p[c].agenda)[1] \in Looking /\ Head(p[c].agenda)[1] \in EndKinds
      /\ Decide(c, <<a>>) \/ Decide(c, Moves(<<"PAUSED">>)) \/ Decide(c, <<s>>)
  BY DEF ReadContract, At, Looking, EndKinds
<1>2. ~Speaks(a) /\ Harmless(a) /\ ~Speaks(s) /\ Harmless(s)
  BY HarmlessMade DEF Speaks
<1> HIDE DEF a, s
<1>3. /\ Closes(<<a>>) /\ ~Speaking(<<a>>) /\ AllHarmless(<<a>>)
      /\ Closes(<<s>>) /\ ~Speaking(<<s>>) /\ AllHarmless(<<s>>)
  BY <1>2, FewEntries, ListsOf
<1>4. AllDull(Moves(<<"PAUSED">>)) /\ AllHarmless(Moves(<<"PAUSED">>))
  <2>1. "PAUSED" \in RunStates \ {"DELIVERABLE_READY"}
    BY DEF RunStates
  <2> QED
    BY <2>1, PathMoves
<1>5. ~Speaking(Moves(<<"PAUSED">>))
  BY <1>4 DEF AllDull, Dull, Speaking
<1>6. \E more : /\ Decide(c, more) /\ ~Speaking(more) /\ AllHarmless(more)
                /\ AllDull(more) \/ Closes(more)
  BY <1>1, <1>3, <1>4, <1>5
<1> QED
  BY <1>1, <1>6, LookingOn

LEMMA AwaitOver ==
    ASSUME CInv, DeliveryInv, OneWorks, NEW c \in Commands, Await(c)
    PROVE  DeliveryInv'
<1> DEFINE r == <<"reconcile">>
           s == <<"select">>
           D == Dispatches({"DISPATCHED"})
           ask(d) == <<"ask again", d[1], d[2], units[d[1]].fence>>
<1>1. /\ p[c] # Idle /\ Head(p[c].agenda)[1] \in Looking /\ Head(p[c].agenda)[1] \in EndKinds
      /\ \/ Decide(c, <<r, s>>) \/ End(c)
         \/ \E d \in D : Decide(c, <<ask(d)>>)
  BY DEF Await, At, Looking, EndKinds
<1>2. NothingLeft(units, dispatches) => D = {}
  BY DispatchesAre DEF NothingLeft, Open
<1>3. Dull(r) /\ ~Speaks(s) /\ Harmless(r) /\ Harmless(s)
  BY DullMade, HarmlessMade DEF Speaks
<1> HIDE DEF r, s
<1>4. Closes(<<r, s>>) /\ ~Speaking(<<r, s>>) /\ AllHarmless(<<r, s>>)
  BY <1>3, FewEntries, ListsOf
<1>5. ASSUME NEW d \in D
      PROVE  AllDull(<<ask(d)>>) /\ ~Speaking(<<ask(d)>>) /\ ~NothingLeft(units, dispatches)
  <2>1. Dull(ask(d))
    BY DullMade
  <2> HIDE DEF ask
  <2>2. AllDull(<<ask(d)>>)
    BY <2>1, ListsOf
  <2> HIDE DEF D
  <2> QED
    BY <1>2, <1>5, <2>2 DEF AllDull, Dull, Speaking
<1> HIDE DEF D, ask
<1>6. \/ End(c)
      \/ \E more : /\ Decide(c, more) /\ ~Speaking(more) /\ (AllDull(more) \/ Closes(more))
                   /\ NothingLeft(units, dispatches) => AllHarmless(more)
  BY <1>1, <1>4, <1>5
<1> QED
  BY <1>1, <1>6, LookingOn

LEMMA SelectOver ==
    ASSUME CInv, DeliveryInv, OneWorks, NEW c \in Commands, Select(c)
    PROVE  DeliveryInv'
<1> DEFINE u == <<"unwind">>
           n == <<"nothing ready">>
           k == <<"walk">>
           w == <<"wave", Ready>>
<1>1. /\ p[c] # Idle /\ Head(p[c].agenda)[1] \in Looking /\ Head(p[c].agenda)[1] \in EndKinds
      /\ \/ Decide(c, <<u, n>>) \/ End(c)
         \/ Ready # {} /\ Decide(c, <<k, w>>)
  BY DEF Select, At, Looking, EndKinds
<1>2. NothingLeft(units, dispatches) => Ready = {}
  BY DEF NothingLeft, Ready, UnitOver
<1>3. Dull(u) /\ ~Speaks(n) /\ Harmless(u) /\ Harmless(n) /\ Dull(k) /\ ~Speaks(w)
  BY DullMade, HarmlessMade DEF Speaks
<1> HIDE DEF u, n, k, w
<1>4. /\ Closes(<<u, n>>) /\ ~Speaking(<<u, n>>) /\ AllHarmless(<<u, n>>)
      /\ Closes(<<k, w>>) /\ ~Speaking(<<k, w>>)
  BY <1>3, FewEntries, ListsOf
<1>5. \/ End(c)
      \/ \E more : /\ Decide(c, more) /\ ~Speaking(more) /\ Closes(more)
                   /\ NothingLeft(units, dispatches) => AllHarmless(more)
  BY <1>1, <1>2, <1>4
<1> QED
  BY <1>1, <1>5, LookingOn

LEMMA SendOver ==
    ASSUME CInv, DeliveryInv, OneWorks, NEW c \in Commands,
           AskAgain(c) \/ Wave(c) \/ Gate(c) \/ Fetch(c)
    PROVE  DeliveryInv'
<1> DEFINE h == Head(p[c].agenda)
<1>1. p[c] # Idle /\ h[1] \in Busy
  BY DEF AskAgain, Wave, Gate, Fetch, At, Busy
<1>2. ASSUME NEW u, NEW i, NEW n, NEW S
      PROVE  /\ AllDull(<<<<"stopping">>>>) /\ AllDull(<<<<"walk">>>>) /\ AllDull(<<<<"unwind">>>>)
             /\ AllDull(<<<<"reject", u, i>>, Park(u, n), <<"fail", u>>>>)
             /\ AllDull(<<<<"reject", u, i>>, <<"fail", u>>, Park(u, n)>>)
             /\ AllDull(<<<<"gate", u>>, <<"wave", S>>>>) /\ AllDull(<<<<"fail", u>>>>)
             /\ AllDull(<<<<"claim fence", u, i>>>>) /\ AllDull(<<<<"judge", u, i, n>>>>)
  <2> DEFINE s == <<"stopping">>
             w == <<"walk">>
             x == <<"unwind">>
             r == <<"reject", u, i>>
             k == Park(u, n)
             f == <<"fail", u>>
             g == <<"gate", u>>
             v == <<"wave", S>>
             t == <<"claim fence", u, i>>
             j == <<"judge", u, i, n>>
  <2>1. /\ Dull(s) /\ Dull(w) /\ Dull(x) /\ Dull(r) /\ Dull(k) /\ Dull(f) /\ Dull(g) /\ Dull(v)
        /\ Dull(t) /\ Dull(j)
    BY DullMade
  <2> HIDE DEF s, w, x, r, k, f, g, v, t, j
  <2>2. /\ AllDull(<<s>>) /\ AllDull(<<w>>) /\ AllDull(<<x>>) /\ AllDull(<<r, k, f>>)
        /\ AllDull(<<r, f, k>>) /\ AllDull(<<g, v>>) /\ AllDull(<<f>>) /\ AllDull(<<t>>)
        /\ AllDull(<<j>>)
    BY <2>1, ListsOf
  <2> QED
    BY <2>2 DEF s, w, x, r, k, f, g, v, t, j
<1>3. ASSUME AskAgain(c)
      PROVE  \E more : Decide(c, more) /\ AllDull(more)
  <2>1. \/ Decide(c, <<<<"stopping">>>>) \/ Decide(c, <<<<"walk">>>>)
        \/ Decide(c, <<<<"reject", h[2], h[3]>>, Park(h[2], h[4]), <<"fail", h[2]>>>>)
        \/ Decide(c, <<<<"reject", h[2], h[3]>>, <<"fail", h[2]>>, Park(h[2], h[4])>>)
    BY <1>3 DEF AskAgain, Arg
  <2> HIDE DEF h
  <2> QED
    BY <1>2, <2>1
<1>4. ASSUME Wave(c)
      PROVE  End(c) \/ \E more : Decide(c, more) /\ AllDull(more)
  <2>1. \/ End(c) \/ Decide(c, <<<<"unwind">>>>)
        \/ \E u \in h[2] : Decide(c, <<<<"gate", u>>, <<"wave", h[2] \ {u}>>>>)
    BY <1>4 DEF Wave, Arg
  <2> HIDE DEF h
  <2> QED
    BY <1>2, <2>1
<1>5. ASSUME Gate(c)
      PROVE  \E more : Decide(c, more) /\ AllDull(more)
  <2>1. \/ Decide(c, <<<<"stopping">>>>) \/ Decide(c, <<<<"fail", h[2]>>>>)
        \/ Decide(c, <<<<"claim fence", h[2], contract.revision>>>>)
    BY <1>5 DEF Gate, Arg
  <2> HIDE DEF h
  <2> QED
    BY <1>2, <2>1
<1>6. ASSUME Fetch(c)
      PROVE  \E more : Decide(c, more) /\ AllDull(more)
  <2>1. Decide(c, <<<<"judge", h[2], h[3], units[h[2]].fence>>>>)
    BY <1>6 DEF Fetch, Arg
  <2> HIDE DEF h
  <2> QED
    BY <1>2, <2>1
<1>7. End(c) \/ \E more : Decide(c, more) /\ AllDull(more)
  BY <1>3, <1>4, <1>5, <1>6
<1> QED
  BY <1>1, <1>7, BusyStep

LEMMA ClaimOver ==
    ASSUME CInv, DeliveryInv, OneWorks, NEW c \in Commands,
           ClaimUnitFence(c) \/ Claim(c) \/ Dispatch(c)
    PROVE  DeliveryInv'
<1> DEFINE h == Head(p[c].agenda)
<1>1. p[c] # Idle /\ h[1] \in Busy
  BY DEF ClaimUnitFence, Claim, Dispatch, At, Busy
<1>2. CTypeOK /\ p[c] \in Underway /\ ~Harmless(Head(p[c].agenda))
  BY <1>1, UnderwayHas DEF CInv, Busy, Harmless, HarmlessKinds
<1>3. ASSUME NEW more, AllDull(more), NEW q \in Underway, Continue(c, q, more \o Rest(c)), run' = run
      PROVE  DeliveryInv'
  BY <1>1, <1>2, <1>3, WorkStep
<1>4. CASE ClaimUnitFence(c)
  <2> DEFINE k == <<"claim", h[2], FenceFor(h[2]), h[3]>>
  <2>1. \/ run' = run /\ Continue(c, p[c], <<k>> \o Rest(c))
        \/ Decide(c, <<>>)
    BY <1>4 DEF ClaimUnitFence, ClaimFence, Arg
  <2>2. Dull(k)
    BY DullMade
  <2> HIDE DEF k
  <2>3. AllDull(<<k>>) /\ AllDull(<<>>)
    BY <2>2, ListsOf, EmptyList
  <2> HIDE DEF h
  <2>4. CASE Decide(c, <<>>)
    BY <1>1, <2>3, <2>4, BusyStep DEF h
  <2> QED
    BY <1>2, <1>3, <2>1, <2>3, <2>4
<1>5. CASE Claim(c)
  <2> DEFINE d == <<"dispatch", h[2], Len(dispatches[h[2]]) + 1, h[4]>>
             k == Park(h[2], h[3])
  <2>1. \/ run' = run /\ Continue(c, p[c], <<d>> \o Rest(c))
        \/ Decide(c, <<k>>)
    BY <1>5 DEF Claim, ClaimUnit, KeepAllBut, Arg
  <2>2. Dull(d) /\ Dull(k)
    BY DullMade
  <2> HIDE DEF d, k
  <2>3. AllDull(<<d>>) /\ AllDull(<<k>>)
    BY <2>2, ListsOf
  <2> HIDE DEF h
  <2>4. CASE Decide(c, <<k>>)
    BY <1>1, <2>3, <2>4, BusyStep DEF h
  <2> QED
    BY <1>2, <1>3, <2>1, <2>3, <2>4
<1>6. CASE Dispatch(c)
  <2> DEFINE q == [p[c] EXCEPT !.sent = TRUE]
  <2>1. \/ run' = run /\ Continue(c, q, Rest(c))
        \/ End(c)
    BY <1>6 DEF Dispatch, RecordDispatch, KeepAllBut
  <2>2. q \in Underway
    BY <1>2, NotedMade
  <2>3. <<>> \o Rest(c) = Rest(c)
    BY <1>1, <1>2, UnderwayHas
  <2> HIDE DEF q
  <2>4. CASE End(c)
    BY <1>1, <2>4, BusyStep
  <2> QED
    BY <1>3, <2>1, <2>2, <2>3, <2>4, EmptyList
<1> QED
  BY <1>4, <1>5, <1>6

LEMMA ReceivedOver ==
    ASSUME CInv, DeliveryInv, OneWorks, NEW c \in Commands, Received(c)
    PROVE  DeliveryInv'
<1> DEFINE h == Head(p[c].agenda)
           w == <<"walk">>
           n == <<"ensure">>
           f == <<"fetch", h[2], h[3]>>
           s == <<"settle">>
           j == <<"reject", h[2], h[3]>>
           x == <<"fail", h[2]>>
           t == <<"tell", h[2]>>
           k == Park(h[2], h[4])
           r == <<"reconcile">>
           on == <<w, n, f, s>>
           late == <<j, x, t, k, r>>
<1>1. p[c] # Idle /\ h[1] \in Busy /\ h[1] \in EndKinds
  BY DEF Received, At, Busy, EndKinds
<1>2. Decide(c, on) \/ Decide(c, late)
  BY DEF Received, Arg
<1>3. /\ Dull(w) /\ Dull(n) /\ Dull(f) /\ ~Speaks(s) /\ Dull(j) /\ Dull(x) /\ Dull(t) /\ Dull(k)
      /\ Dull(r)
  BY DullMade DEF Speaks
<1> HIDE DEF h, w, n, f, s, j, x, t, k, r
<1>4. Closes(on)
  BY <1>3, ListsOf
<1>5. ~Speaking(on)
  <2>1. Len(on) = 4 /\ on[1] = w /\ on[2] = n /\ on[3] = f /\ on[4] = s
    OBVIOUS
  <2> HIDE DEF on
  <2> QED
    BY <1>3, <2>1 DEF Speaking, Dull
<1>6. AllDull(late)
  <2>1. AllDull(<<j, x, t, k>>) /\ AllDull(<<r>>)
    BY <1>3, ListsOf
  <2>2. late = <<j, x, t, k>> \o <<r>>
    OBVIOUS
  <2> DEFINE a == <<j, x, t, k>>
             b == <<r>>
  <2> HIDE DEF a, b, late
  <2>3. AllDull(a \o b)
    BY <2>1, DullJoined DEF a, b
  <2> QED
    BY <2>2, <2>3 DEF a, b
<1> HIDE DEF on, late
<1> QED
  BY <1>1, <1>2, <1>4, <1>5, <1>6, BusyStep DEF h

LEMMA OrientOver ==
    ASSUME CInv, DeliveryInv, OneWorks, NEW c \in Commands, Orient(c)
    PROVE  DeliveryInv'
<1>1. /\ p[c] # Idle /\ Head(p[c].agenda)[1] \in Looking
      /\ Decide(c, Moves(<<"PLANNING">>)) \/ Decide(c, <<>>)
  BY DEF Orient, At, Looking
<1>2. /\ AllDull(Moves(<<"PLANNING">>)) /\ AllHarmless(Moves(<<"PLANNING">>))
      /\ AllDull(<<>>) /\ AllHarmless(<<>>)
  <2>1. "PLANNING" \in RunStates \ {"DELIVERABLE_READY"}
    BY DEF RunStates
  <2> QED
    BY <2>1, PathMoves
<1>3. \E more : Decide(c, more) /\ AllDull(more) /\ AllHarmless(more)
  BY <1>1, <1>2
<1>4. \E more : Decide(c, more) /\ ~Speaking(more) /\ AllDull(more) /\ AllHarmless(more)
  BY <1>3 DEF AllDull, Dull, Speaking
<1> QED
  BY <1>1, <1>4, LookingOn

\* The fences of some units, to be parked one after the other.
LEMMA ParksAre ==
    ASSUME NEW S \in SUBSET Units
    PROVE  LET a == SetToSeq({Park(u, units[u].fence) : u \in S}) IN
           AllDull(a) /\ AllHarmless(a) /\ AllStops(a)
<1> DEFINE f == [u \in S |-> Park(u, units[u].fence)]
           A == {Park(u, units[u].fence) : u \in S}
           a == SetToSeq(A)
<1>1. IsFiniteSet(S)
  BY FS_Subset, UnitAssumptions
<1>2. IsFiniteSet({f[u] : u \in S})
  BY <1>1, ImageFinite
<1>3. A = {f[u] : u \in S}
  OBVIOUS
<1>4. \A x \in A : Dull(x) /\ Harmless(x) /\ Stops(x)
  <2>1. \A u, n : Stops(Park(u, n))
    BY DEF Stops, Park
  <2> QED
    BY <2>1, DullMade, HarmlessMade
<1>5. IsFiniteSet(A)
  BY <1>2, <1>3
<1> HIDE DEF A
<1>6. AllDull(a) /\ AllHarmless(a) /\ \A k \in 1 .. Len(a) : a[k] \in A
  BY <1>4, <1>5, SetLists
<1>7. AllStops(a)
  BY <1>4, <1>6 DEF AllStops
<1> QED
  BY <1>6, <1>7 DEF A

LEMMA NothingAfter ==
    ASSUME NEW S, NEW a \in Seq(S), Len(a) = 1
    PROVE  Tail(a) = <<>>
<1> DEFINE s == Tail(a)
<1>1. s \in Seq(S) /\ Len(s) = 0
  OBVIOUS
<1> HIDE DEF s
<1>2. s = <<>>
  BY <1>1
<1> QED
  BY <1>2 DEF s

LEMMA UpsertOver ==
    ASSUME CInv, DeliveryInv, OneWorks, NEW c \in Commands, Upsert(c)
    PROVE  DeliveryInv'
<1> DEFINE e == Head(p[c].agenda)
           S == {v \in Dropped(e[2]) : units[v].fence # 0}
           parks == SetToSeq({Park(f[1], f[2]) : f \in OrphanedFences(e[2])})
           r == <<"reconcile">>
           more == parks \o <<r>>
           a == p[c].agenda
<1>1. p[c] # Idle /\ e[1] \in EndKinds /\ ~Stops(e)
  BY DEF Upsert, At, EndKinds, Stops
<1>2. CTypeOK /\ Works(c) /\ p[c] \in Underway
  <2>1. CTypeOK
    BY DEF CInv
  <2> HIDE DEF e
  <2>2. ~Stops(Head(p[c].agenda))
    BY <1>1 DEF e
  <2> QED
    BY <1>1, <2>1, <2>2, HeadSays
<1>3. \/ run' = "READY" /\ Continue(c, p[c], more \o Rest(c))
      \/ End(c)
  BY DEF Upsert, Do, Arg, End, UpsertUnits
<1>4. AllDull(parks)
  <2>1. S \in SUBSET Units
    BY DEF Dropped, Planned
  <2>2. {Park(f[1], f[2]) : f \in OrphanedFences(e[2])} = {Park(u, units[u].fence) : u \in S}
    <3>1. OrphanedFences(e[2]) = {<<u, units[u].fence>> : u \in S}
      BY DEF OrphanedFences
    <3> HIDE DEF S
    <3>2. ASSUME NEW f \in OrphanedFences(e[2])
          PROVE  \E u \in S : f[1] = u /\ f[2] = units[u].fence
      BY <3>1
    <3>3. ASSUME NEW u \in S
          PROVE  \E f \in OrphanedFences(e[2]) : f[1] = u /\ f[2] = units[u].fence
      <4>1. <<u, units[u].fence>> \in OrphanedFences(e[2])
        BY <3>1
      <4> QED
        BY <4>1
    <3> QED
      BY <3>2, <3>3
  <2> HIDE DEF S
  <2> QED
    BY <2>1, <2>2, ParksAre
<1>5. Rest(c) = <<>>
  <2>1. a \in Seq(Entry) /\ a # <<>> /\ e = a[1] /\ Trails(a)
    BY <1>1, <1>2, UnderwayHas DEF DeliveryInv, Good
  <2> HIDE DEF a, e
  <2>2. Len(a) \in Nat \ {0}
    BY <2>1
  <2>3. Len(a) = 1
    <3> DEFINE n == Len(a)
    <3>1. n \in Nat \ {0}
      BY <2>2
    <3> HIDE DEF n
    <3>2. n # 1 => 1 \in 1 .. n - 1
      BY <3>1
    <3> QED
      BY <1>1, <2>1, <3>2 DEF Trails, n
  <2>4. Tail(a) = <<>>
    BY <2>1, <2>3, NothingAfter
  <2> QED
    BY <2>4 DEF Rest, a
<1> HIDE DEF parks
<1>6. AllDull(more)
  <2>1. Dull(r)
    BY DullMade
  <2> HIDE DEF r
  <2>2. AllDull(<<r>>)
    BY <2>1, ListsOf
  <2> QED
    BY <1>4, <2>2, DullJoined
<1> HIDE DEF more
<1>7. CASE run' = "READY" /\ Continue(c, p[c], more \o Rest(c))
  <2>1. more \o Rest(c) = more
    BY <1>5, <1>6 DEF AllDull, Lists
  <2>2. /\ \A d \in Commands \ {c} : p'[d] = p[d]
        /\ p'[c] # Idle => p'[c].agenda = more
    <3> DEFINE x == [p[c] EXCEPT !.agenda = more]
               y == IF more = <<>> THEN Idle ELSE x
    <3>1. p' = [p EXCEPT ![c] = y]
      BY <1>7, <2>1 DEF Continue
    <3>2. x.agenda = more
      BY <1>2 DEF Underway
    <3> HIDE DEF x
    <3>3. y # Idle => y.agenda = more
      BY <3>2
    <3> HIDE DEF y
    <3> QED
      BY <1>2, <3>1, <3>3 DEF CTypeOK
  <2>3. Trails(more) /\ ~Speaking(more)
    <3>1. Len(more) \in Nat
      BY <1>6 DEF AllDull, Lists
    <3>2. \A k \in 1 .. Len(more) - 1 : k \in 1 .. Len(more)
      BY <3>1
    <3> QED
      BY <1>6, <3>2 DEF Trails, Speaking, AllDull, Dull
  <2>4. run' \notin Finished
    BY <1>7 DEF Finished
  <2>5. Good(c, more, run', units', dispatches')
    BY <1>2, <2>3, <2>4 DEF Good, Delivers
  <2> QED
    BY <1>2, <2>2, <2>4, <2>5, DeliveryFrame
<1>8. CASE End(c)
  BY <1>2, <1>8, OverStep DEF End
<1> QED
  BY <1>3, <1>7, <1>8

LEMMA StopsJoined ==
    ASSUME NEW m, NEW n, Lists(m), Lists(n), AllStops(m), AllStops(n)
    PROVE  Lists(m \o n) /\ AllStops(m \o n)
BY Joined DEF AllStops

LEMMA StoppingOver ==
    ASSUME CInv, DeliveryInv, OneWorks, NEW c \in Commands, Stopping(c) \/ StopFences(c)
    PROVE  DeliveryInv'
<1>1. /\ p[c] # Idle /\ Stops(Head(p[c].agenda)) /\ CTypeOK
  BY DEF Stopping, StopFences, At, Stops, CInv
<1>2. ASSUME NEW more, Decide(c, more), Lists(more), AllStops(more)
      PROVE  DeliveryInv'
  <2>1. Continue(c, p[c], more \o Rest(c)) /\ UNCHANGED <<units, dispatches>> /\ run' = run
    BY <1>2 DEF Decide, tables
  <2> QED
    BY <1>1, <1>2, <2>1, HaltStep
<1>3. CASE Stopping(c)
  <2> DEFINE x == <<"move", "STOPPING">>
             f == <<"stop fences">>
             y == <<"move", "STOPPED">>
  <2>1. Moves(<<"STOPPING">>) = <<x>> /\ Moves(<<"STOPPED">>) = <<y>>
    BY DEF Moves
  <2>2. \/ Decide(c, <<x>> \o <<f>> \o <<y>>)
        \/ Decide(c, <<>> \o <<f>> \o <<y>>)
    BY <1>3, <2>1 DEF Stopping
  <2>3. Stops(x) /\ Stops(f) /\ Stops(y)
    BY DEF Stops
  <2> HIDE DEF x, f, y
  <2>4. /\ Lists(<<x>>) /\ Lists(<<f>>) /\ Lists(<<y>>) /\ Lists(<<>>)
        /\ AllStops(<<x>>) /\ AllStops(<<f>>) /\ AllStops(<<y>>) /\ AllStops(<<>>)
    <3>1. Lists(<<x>>) /\ Lists(<<f>>) /\ Lists(<<y>>)
      BY ListsMade
    <3>2. AllStops(<<x>>) /\ AllStops(<<f>>) /\ AllStops(<<y>>)
      BY <2>3 DEF AllStops
    <3> QED
      BY <3>1, <3>2, EmptyList
  <2> DEFINE a == <<x>>
             b == <<f>>
             d == <<y>>
             e == <<>>
  <2>5. Decide(c, a \o b \o d) \/ Decide(c, e \o b \o d)
    BY <2>2
  <2> HIDE DEF a, b, d, e
  <2>6. /\ Lists(a \o b) /\ Lists(e \o b) /\ Lists(d)
        /\ AllStops(a \o b) /\ AllStops(e \o b) /\ AllStops(d)
    BY <2>4, StopsJoined DEF a, b, d, e
  <2>7. /\ Lists(a \o b \o d) /\ Lists(e \o b \o d)
        /\ AllStops(a \o b \o d) /\ AllStops(e \o b \o d)
    BY <2>6, StopsJoined
  <2> QED
    BY <1>2, <2>5, <2>7
<1>4. CASE StopFences(c)
  <2> DEFINE S == {v \in Units : /\ units[v].status \in {"CLAIMED", "DISPATCHED", "RESULT_IN"}
                                 /\ units[v].fence # 0}
             more == SetToSeq({Park(u, units[u].fence) : u \in S})
  <2>1. Decide(c, more)
    BY <1>4 DEF StopFences
  <2>2. S \in SUBSET Units
    OBVIOUS
  <2> HIDE DEF S
  <2>3. Lists(more) /\ AllStops(more)
    BY <2>2, ParksAre DEF AllDull
  <2> HIDE DEF more
  <2> QED
    BY <1>2, <2>1, <2>3
<1> QED
  BY <1>3, <1>4

LEMMA ProgressOver ==
    ASSUME CInv, DeliveryInv, OneWorks, NEW c \in Commands, Progress(c)
    PROVE  DeliveryInv'
BY TransactionOver, LookOver, JudgeOver, SettleOver, NothingReadyOver, DeliverOver,
   ListOver, OrphansOver, ResultsOver, ContractOver, AwaitOver, SendOver, SelectOver,
   ClaimOver, ReceivedOver, OrientOver, UpsertOver, StoppingOver
   DEF Progress, Judging, Stepping

LEMMA StartOver ==
    ASSUME CTypeOK, DeliveryInv, OneWorks, NEW c \in Commands, NEW s, NEW a, Start(c, s, a),
           UNCHANGED tables, Closes(a), ~Speaking(a),
           NothingLeft(units, dispatches) => AllHarmless(a),
           ~Works(c) => AllStops(a)
    PROVE  DeliveryInv'
<1>1. /\ \A d \in Commands \ {c} : p'[d] = p[d]
      /\ p'[c].agenda = a
  BY DEF Start, CTypeOK
<1>2. UNCHANGED <<run, units, dispatches>>
  BY DEF tables
<1>3. run' \in Finished => NothingLeft(units', dispatches')
  BY <1>2 DEF DeliveryInv
<1>4. Trails(a)
  <2>1. Len(a) \in Nat
    BY DEF Closes, Lists
  <2>2. \A k \in 1 .. Len(a) - 1 : k \in 1 .. Len(a) /\ k # Len(a)
    BY <2>1
  <2> QED
    BY <2>2 DEF Trails, Closes
<1>5. Good(c, a, run', units', dispatches')
  BY <1>2, <1>3, <1>4 DEF Good, Delivers
<1> QED
  BY <1>1, <1>2, <1>3, <1>5, DeliveryFrame

LEMMA BeginOver ==
    ASSUME CInv, DeliveryInv, OneWorks, NEW c \in Commands,
           BeginStep(c) \/ BeginResult(c) \/ BeginPlan(c) \/ BeginStop(c)
    PROVE  DeliveryInv'
<1>1. CTypeOK
  BY DEF CInv
<1>2. CASE BeginStep(c)
  <2> DEFINE k == <<"list">>
  <2>1. Works(c) /\ Start(c, driver, <<k>>) /\ UNCHANGED tables
    BY <1>2 DEF BeginStep, Works
  <2>2. ~Speaks(k) /\ Harmless(k)
    BY HarmlessMade DEF Speaks
  <2> HIDE DEF k
  <2>3. Closes(<<k>>) /\ ~Speaking(<<k>>) /\ AllHarmless(<<k>>)
    BY <2>2, FewEntries, ListsOf
  <2> QED
    BY <1>1, <2>1, <2>3, StartOver
<1>3. CASE BeginResult(c)
  <2>1. PICK d \in Dispatches({"DISPATCHED"}) :
          Start(c, driver,
                 IF run = "PAUSED" \/ contract.state = "paused"
                 THEN <<<<"record", d[1], d[2]>>>>
                 ELSE <<<<"record", d[1], d[2]>>,
                        <<"received", d[1], d[2], units[d[1]].fence>>>>)
    BY <1>3 DEF BeginResult
  <2> DEFINE r == <<"record", d[1], d[2]>>
             k == <<"received", d[1], d[2], units[d[1]].fence>>
  <2>2. Start(c, driver, <<r>>) \/ Start(c, driver, <<r, k>>)
    BY <2>1
  <2>3. Works(c) /\ UNCHANGED tables /\ ~NothingLeft(units, dispatches)
    BY <1>3, DispatchesAre DEF BeginResult, Works, NothingLeft, Open
  <2>4. Dull(r) /\ ~Speaks(r) /\ ~Speaks(k)
    BY DullMade DEF Speaks
  <2> HIDE DEF r, k
  <2>5. Closes(<<r>>) /\ ~Speaking(<<r>>) /\ Closes(<<r, k>>) /\ ~Speaking(<<r, k>>)
    BY <2>4, FewEntries
  <2> QED
    BY <1>1, <2>2, <2>3, <2>5, StartOver
<1>4. CASE BeginPlan(c)
  <2> DEFINE m == IF run = "NEW" THEN Moves(<<"ORIENTING">>) ELSE <<>>
             o == <<"orient">>
  <2>1. PICK g \in Plans : Start(c, driver, m \o <<o, <<"upsert", g>>>>)
    BY <1>4 DEF BeginPlan
  <2> DEFINE k == <<"upsert", g>>
             a == m \o <<o, k>>
  <2>2. Works(c) /\ UNCHANGED tables
    BY <1>4 DEF BeginPlan, Works
  <2>3. Start(c, driver, a)
    BY <2>1
  <2>4. AllDull(m) /\ AllHarmless(m)
    <3>1. "ORIENTING" \in RunStates \ {"DELIVERABLE_READY"}
      BY DEF RunStates
    <3> QED
      BY <3>1, PathMoves
  <2>5. Dull(o) /\ ~Speaks(k) /\ Harmless(o) /\ Harmless(k)
    BY DullMade, HarmlessMade DEF Speaks
  <2> HIDE DEF m, o, k
  <2>6. Closes(<<o, k>>) /\ ~Speaking(<<o, k>>) /\ AllHarmless(<<o, k>>)
    BY <2>5, FewEntries, ListsOf
  <2>7. Lists(<<o, k>>)
    BY <2>6 DEF Closes
  <2>8. Closes(a) /\ ~Speaking(a) /\ AllHarmless(a)
    BY <2>4, <2>6, <2>7, DullJoined
  <2> HIDE DEF a
  <2> QED
    BY <1>1, <2>2, <2>3, <2>8, StartOver
<1>5. CASE BeginStop(c)
  <2> DEFINE k == <<"stopping">>
  <2>1. Start(c, driver, <<k>>) /\ UNCHANGED tables
    BY <1>5 DEF BeginStop
  <2>2. ~Speaks(k) /\ Harmless(k) /\ Stops(k)
    BY HarmlessMade DEF Speaks, Stops
  <2> HIDE DEF k
  <2>3. Closes(<<k>>) /\ ~Speaking(<<k>>) /\ AllHarmless(<<k>>)
    BY <2>2, FewEntries, ListsOf
  <2>4. AllStops(<<k>>)
    BY <2>2 DEF AllStops
  <2> QED
    BY <1>1, <2>1, <2>3, <2>4, StartOver
<1> QED
  BY <1>2, <1>3, <1>4, <1>5

LEMMA FounderOver ==
    ASSUME CInv, DeliveryInv, OneWorks, Founder
    PROVE  DeliveryInv'
<1>1. p' = p /\ UNCHANGED <<units, dispatches>> /\ (run' \in Finished => run \in Finished)
  BY DEF Founder, Interferes, Releases, Contract, Amend, Resolve, AdoptRun, SetRunState, Finished
<1>2. ASSUME NEW c \in Commands, p'[c] # Idle
      PROVE  Good(c, p'[c].agenda, run', units', dispatches')
  <2> DEFINE a == p[c].agenda
  <2>1. Good(c, a, run, units, dispatches)
    BY <1>1, <1>2 DEF DeliveryInv
  <2> HIDE DEF a
  <2>2. Good(c, a, run', units', dispatches')
    BY <1>1, <2>1 DEF Good, Delivers
  <2> QED
    BY <1>1, <2>2 DEF a
<1>3. run' \in Finished => NothingLeft(units', dispatches')
  BY <1>1 DEF DeliveryInv
<1> QED
  BY <1>2, <1>3 DEF DeliveryInv

LEMMA StepOver ==
    ASSUME CInv, DeliveryInv, OneWorks, [Next]_vars
    PROVE  DeliveryInv'
<1>1. CTypeOK
  BY DEF CInv
<1>2. CASE UNCHANGED vars
  BY <1>2 DEF vars, pvars, tables, DeliveryInv, Good, Delivers
<1>3. ASSUME NEW c \in Commands, Kill(c)
      PROVE  DeliveryInv'
  BY <1>1, <1>3, OverStep DEF Kill
<1> QED
  BY <1>2, <1>3, BeginOver, ProgressOver, FounderOver DEF Next

\* A run is delivered, and completed, only with every unit of its plan over and
\* nothing in flight, although a second process stops the run, a founder acts
\* and a kill ends a command anywhere (_handle_no_ready_units, _deliver_or_hold).
THEOREM DeliveredIsOverHolds == ASSUME OneWorks PROVE Spec => []DeliveredIsOver
<1>1. OneDriver
  BY DEF OneWorks, OneDriver, Works, Drives
<1>2. ControllerInit => DeliveryInv
  BY DEF ControllerInit, RunInit, DeliveryInv, Finished
<1>3. CInv /\ DeliveryInv /\ [Next]_vars => DeliveryInv'
  BY StepOver
<1>4. CInv /\ DeliveryInv => DeliveredIsOver
  BY LeftMeans DEF DeliveryInv, DeliveredIsOver, Finished
<1>5. Spec => []CInv
  BY <1>1, AgendasFit
<1> QED
  BY <1>2, <1>3, <1>4, <1>5, PTL DEF Spec
=============================================================================
