------------------------- MODULE ControllerFenceProofs -------------------------
(***************************************************************************)
(* As long as a worker may be writing for a unit, the unit's fence is held *)
(* (FencedWhileOpen), whatever is killed, planned or refused meanwhile:    *)
(* for any number of units, lanes, plans, retries and kills.               *)
(*                                                                         *)
(* The argument.  An attempt is closed in one transaction, its unit given  *)
(* back in a second and its fence parked in a third, and a kill may come   *)
(* between any two.  So the invariant speaks of the agenda: what lifts a   *)
(* fence or gives a unit back finds the attempt closed, or something that  *)
(* closes it stands before it (Covered); an entry that speaks of an        *)
(* attempt speaks of the latest one as long as that is open (Kept); and    *)
(* what is put before the rest of an agenda leaves the rest as it was, if  *)
(* it takes no attempt further (SpliceFenced, Easier).  Only a dispatch    *)
(* does, and then nothing but the rest of its wave is left to do           *)
(* (Follows).  A check that fails a run for good leaves the fences of      *)
(* other units held: what may still be done then lifts none (LateKinds).   *)
(*                                                                         *)
(* OneCommand is the hypothesis, as in the run that checks the property: a *)
(* process that began to stop the run before another failed it for good    *)
(* parks the fences of units still out.                                    *)
(***************************************************************************)
EXTENDS ControllerProofs

-----------------------------------------------------------------------------
(* The invariant *)

\* One command runs at a time.
OneCommand == \A c, d \in Commands : c = d

\* The run is being stopped: its fences may go.
Stopped(r) == r \in {"STOPPING", "STOPPED"}

\* The latest attempt of u is with a worker, or waits for its verdict.
Out(us, ds, u) ==
    /\ us[u].status \in {"DISPATCHED", "RESULT_IN"}
    /\ ds[u] # <<>> /\ ds[u][Len(ds[u])].status \in Open
HeldBy(fs, u, n) == n # 0 => fs[u].id = n /\ fs[u].live

\* What an entry needs of the tables.
Reaches(e) == IF e[1] \in {"gate", "claim fence", "claim"} THEN {e[2]}
              ELSE IF e[1] = "wave" THEN e[2] ELSE {}
Kept(e, us, ds, fs) ==
    /\ e[1] \in Numbered => (Out(us, ds, e[2]) => e[3] = Len(ds[e[2]]))
    /\ \A u \in Reaches(e) : ~Out(us, ds, u)
    /\ e[1] = "claim" => HeldBy(fs, e[2], e[3])
    /\ e[1] = "dispatch" => HeldBy(fs, e[2], us[e[2]].fence)
    /\ e[1] = "results" => \A r \in e[2] : r.status = "RESULT_IN" => AwaitedIn(ds, r.unit) = {}
    /\ e[1] = "orphans" => \A r \in e[2] : r.status \in {"DONE", "SKIPPED"} => ~Out(us, ds, r.unit)

\* What lifts a fence or gives a unit back, and what closes an attempt before.
Lifts(e) == e[1] \in {"park", "fail", "rollback"}
Ends(e, u) == e[1] \in {"reject", "accept"} /\ e[2] = u

\* What may be left to do when a run has failed for good, and what may fail it.
LateKinds == {"record", "received", "reject", "fail", "tell", "park", "reconcile", "block",
              "unblock", "orient", "upsert", "settle"}
Fatal(e) ==
    \/ e[1] \in {"fetch", "judge", "check", "rollback", "terminal"}
    \/ e[1] = "move" /\ e[2] = "FAILED_TERMINAL"

\* What may come after what on one agenda.
Sends(e) == e[1] \in Sending \cup {"wave"}
Follows(e, f) ==
    /\ Sends(e) => f[1] = "wave"
    /\ e[1] = "record" => f[1] = "received" /\ f[2] = e[2] /\ f[3] = e[3]
    /\ Fatal(e) => f[1] \in LateKinds
    /\ f[1] \notin {"claim", "dispatch"}

ToStopping(e) == e[1] = "move" /\ e[2] = "STOPPING"
Covered(a, k, us, ds) ==
    ~Out(us, ds, a[k][2]) \/ \E j \in 1 .. k - 1 : Ends(a[j], a[k][2])
Fenced(a, us, ds, fs, r) ==
    /\ \A k \in 1 .. Len(a) : Kept(a[k], us, ds, fs)
    /\ \A j, k \in 1 .. Len(a) : j < k => Follows(a[j], a[k])
    /\ \A k \in 1 .. Len(a) : Lifts(a[k]) => Covered(a, k, us, ds)
    /\ \A k \in 1 .. Len(a) : a[k][1] = "stop fences" =>
         \/ k = 1 /\ r \in Finished
         \/ k > 1 /\ ToStopping(a[k - 1])
    /\ r = "FAILED_TERMINAL" => \A k \in 1 .. Len(a) : a[k][1] \in LateKinds

\* A unit that is out is fenced; only its latest attempt is with a worker, and
\* then its row says so, or has been planned anew and knows no fence.
Guarded(us, ds, fs, u) ==
    /\ Out(us, ds, u) => HeldBy(fs, u, us[u].fence)
    /\ \A i \in AwaitedIn(ds, u) : i = Len(ds[u])
    /\ AwaitedIn(ds, u) # {} =>
         us[u].status # "RESULT_IN" /\ (us[u].status = "DISPATCHED" \/ us[u].fence = 0)

FenceInv ==
    \/ Stopped(run)
    \/ /\ \A u \in Units : Guarded(units, dispatches, fences, u)
       /\ \A c \in Commands : p[c] # Idle =>
            Fenced(p[c].agenda, units, dispatches, fences, run)

\* The invariants, of a run nobody stops.
Meanwhile == CInv /\ DeliveryInv /\ FenceInv /\ ~Stopped(run)

LEMMA FenceFrame ==
    ASSUME OneCommand, NEW c \in Commands,
           \A u \in Units : Guarded(units', dispatches', fences', u),
           p'[c] # Idle => Fenced(p'[c].agenda, units', dispatches', fences', run')
    PROVE  FenceInv'
<1>1. \A d \in Commands : d = c
  BY DEF OneCommand
<1> QED
  BY <1>1 DEF FenceInv

\* What one entry of an agenda has.
LEMMA FencedHas ==
    ASSUME NEW a, NEW us, NEW ds, NEW fs, NEW r, Fenced(a, us, ds, fs, r), NEW k \in 1 .. Len(a)
    PROVE  /\ Kept(a[k], us, ds, fs)
           /\ Lifts(a[k]) => Covered(a, k, us, ds)
           /\ a[k][1] = "stop fences" =>
                (k = 1 /\ r \in Finished) \/ (k > 1 /\ ToStopping(a[k - 1]))
           /\ r = "FAILED_TERMINAL" => a[k][1] \in LateKinds
<1>1. Kept(a[k], us, ds, fs)
  BY DEF Fenced
<1>2. Lifts(a[k]) => Covered(a, k, us, ds)
  BY DEF Fenced
<1>3. a[k][1] = "stop fences" =>
        (k = 1 /\ r \in Finished) \/ (k > 1 /\ ToStopping(a[k - 1]))
  BY DEF Fenced
<1>4. r = "FAILED_TERMINAL" => a[k][1] \in LateKinds
  BY DEF Fenced
<1> QED
  BY <1>1, <1>2, <1>3, <1>4

\* What the head of an agenda has.
LEMMA HeadFenced ==
    ASSUME Meanwhile, NEW c \in Commands, p[c] # Idle
    PROVE  LET a == p[c].agenda h == Head(p[c].agenda) IN
           /\ CTypeOK /\ RTypeOK /\ p[c] \in Underway
           /\ a \in Seq(Entry) /\ a # <<>> /\ h = a[1] /\ h \in Entry
           /\ Fenced(a, units, dispatches, fences, run)
           /\ Trails(a)
           /\ Kept(h, units, dispatches, fences)
           /\ Sound(h, units, dispatches, fences, contract.revision)
           /\ Lifts(h) => ~Out(units, dispatches, h[2])
           /\ h[1] = "stop fences" => run \in Finished
           /\ run = "FAILED_TERMINAL" => h[1] \in LateKinds
           /\ \A u \in Units : Guarded(units, dispatches, fences, u)
           /\ run \in Finished => NothingLeft(units, dispatches)
<1> DEFINE a == p[c].agenda
<1>1. CTypeOK /\ RTypeOK
  BY DEF Meanwhile, CInv, CTypeOK
<1>2. /\ a \in Seq(Entry) /\ a # <<>> /\ Head(a) = a[1] /\ Head(a) \in Entry /\ p[c] \in Underway
  BY <1>1, UnderwayHas
<1>3. /\ Fenced(a, units, dispatches, fences, run)
      /\ \A u \in Units : Guarded(units, dispatches, fences, u)
  BY DEF Meanwhile, FenceInv
<1>4. Trails(a) /\ (run \in Finished => NothingLeft(units, dispatches))
  BY DEF Meanwhile, DeliveryInv, Good
<1>5. Fits(a, units, dispatches, fences, contract.revision)
  BY DEF Meanwhile, CInv
<1> HIDE DEF a
<1>6. 1 \in 1 .. Len(a)
  BY <1>2
<1>7. /\ Kept(a[1], units, dispatches, fences)
      /\ Lifts(a[1]) => Covered(a, 1, units, dispatches)
      /\ a[1][1] = "stop fences" => run \in Finished
      /\ run = "FAILED_TERMINAL" => a[1][1] \in LateKinds
  <2>1. ~(1 > 1)
    OBVIOUS
  <2> QED
    BY <1>3, <1>6, <2>1, FencedHas
<1>8. Lifts(a[1]) => ~Out(units, dispatches, a[1][2])
  <2>1. 1 .. 1 - 1 = {}
    OBVIOUS
  <2> QED
    BY <1>7, <2>1 DEF Covered
<1>9. Sound(a[1], units, dispatches, fences, contract.revision)
  BY <1>5, <1>6 DEF Fits
<1> QED
  BY <1>1, <1>2, <1>3, <1>4, <1>7, <1>8, <1>9 DEF a

\* No unit comes out, and none of those that are has another attempt.
Easier(us, ds, vs, es) == \A u \in Units :
    /\ Out(vs, es, u) => Out(us, ds, u) /\ Len(es[u]) = Len(ds[u])
    /\ AwaitedIn(es, u) \subseteq AwaitedIn(ds, u)

LEMMA KeptEasier ==
    ASSUME NEW e \in Entry, NEW us, NEW ds, NEW fs, NEW vs, NEW es, NEW gs,
           Kept(e, us, ds, fs), Easier(us, ds, vs, es), e[1] \notin {"claim", "dispatch"}
    PROVE  Kept(e, vs, es, gs)
<1>1. e[1] \in Numbered => e[2] \in Units
  BY EntryShape DEF Numbered
<1>2. Reaches(e) \subseteq Units
  BY EntryShape DEF Reaches
<1>3. e[1] \in {"orphans", "results"} => e[2] \subseteq Listed
  BY EntryShape
<1>4. \A r \in Listed : r.unit \in Units
  BY DEF Listed
<1>5. e[1] \in Numbered => (Out(vs, es, e[2]) => e[3] = Len(es[e[2]]))
  BY <1>1 DEF Kept, Easier
<1>6. \A u \in Reaches(e) : ~Out(vs, es, u)
  BY <1>2 DEF Kept, Easier
<1>7. e[1] = "results" => \A r \in e[2] : r.status = "RESULT_IN" => AwaitedIn(es, r.unit) = {}
  BY <1>3, <1>4 DEF Kept, Easier
<1>8. e[1] = "orphans" => \A r \in e[2] : r.status \in {"DONE", "SKIPPED"} => ~Out(vs, es, r.unit)
  BY <1>3, <1>4 DEF Kept, Easier
<1> QED
  BY <1>5, <1>6, <1>7, <1>8 DEF Kept

LEMMA LiftsUnit ==
    ASSUME NEW e \in Entry, Lifts(e)
    PROVE  e[2] \in Units
BY EntryShape DEF Lifts

\* What an entry puts in its place fits before the rest, if no unit came out.
Yields(h, e) ==
    /\ Sends(e) => Sends(h)
    /\ e[1] # "record"
    /\ Fatal(e) => Fatal(h)

LEMMA SpliceFenced ==
    ASSUME NEW a \in Seq(Entry), a # <<>>, NEW T, NEW more \in Seq(T),
           NEW us, NEW ds, NEW fs, NEW r, NEW vs, NEW es, NEW gs, NEW s,
           Fenced(a, us, ds, fs, r), Fenced(more, vs, es, gs, s), Easier(us, ds, vs, es),
           ~ToStopping(a[1]), \A u \in Units : Ends(a[1], u) => ~Out(vs, es, u),
           Len(a) = 1 \/ \A j \in 1 .. Len(more) : Yields(a[1], more[j]),
           s = "FAILED_TERMINAL" => r = "FAILED_TERMINAL" \/ Fatal(a[1])
    PROVE  Fenced(more \o Tail(a), vs, es, gs, s)
<1> DEFINE b == more \o Tail(a)
           n == Len(more)
<1>1. /\ Len(a) \in Nat \ {0} /\ n \in Nat /\ Len(b) = n + Len(a) - 1
      /\ \A k \in 1 .. Len(b) :
           \/ k \in 1 .. n /\ b[k] = more[k]
           \/ k > n /\ k - n + 1 \in 2 .. Len(a) /\ b[k] = a[k - n + 1]
  BY SplicedWith
<1> DEFINE m == Len(a)
<1> HIDE DEF b, n, m
<1>2. ASSUME NEW k \in 2 .. m
      PROVE  a[k] \in Entry /\ Follows(a[1], a[k]) /\ Kept(a[k], us, ds, fs)
             /\ (s = "FAILED_TERMINAL" => a[k][1] \in LateKinds)
  <2>1. k \in 1 .. m /\ 1 \in 1 .. m /\ 1 < k
    BY <1>1 DEF m
  <2>2. a[k] \in Entry
    BY <2>1 DEF m
  <2>3. Follows(a[1], a[k]) /\ Kept(a[k], us, ds, fs)
    BY <2>1 DEF Fenced, m
  <2>4. s = "FAILED_TERMINAL" => a[k][1] \in LateKinds
    BY <2>1, <2>3 DEF Fenced, Follows, m
  <2> QED
    BY <2>2, <2>3, <2>4
<1>3. ASSUME NEW k \in 1 .. Len(b)
      PROVE  Kept(b[k], vs, es, gs) /\ (s = "FAILED_TERMINAL" => b[k][1] \in LateKinds)
  <2>1. CASE k \in 1 .. n /\ b[k] = more[k]
    BY <2>1 DEF Fenced, n
  <2>2. CASE k > n /\ k - n + 1 \in 2 .. Len(a) /\ b[k] = a[k - n + 1]
    <3> DEFINE i == k - n + 1
    <3>1. i \in 2 .. m /\ b[k] = a[i]
      BY <2>2 DEF m
    <3> HIDE DEF i
    <3>2. /\ a[i] \in Entry /\ Kept(a[i], us, ds, fs) /\ Follows(a[1], a[i])
          /\ s = "FAILED_TERMINAL" => a[i][1] \in LateKinds
      BY <1>2, <3>1
    <3>3. a[i][1] \notin {"claim", "dispatch"}
      BY <3>2 DEF Follows
    <3>4. Kept(a[i], vs, es, gs)
      BY <3>2, <3>3, KeptEasier
    <3> QED
      BY <3>1, <3>2, <3>4
  <2> QED
    BY <1>1, <2>1, <2>2
<1>4. ASSUME NEW j \in 1 .. Len(b), NEW k \in 1 .. Len(b), j < k
      PROVE  Follows(b[j], b[k])
  <2>1. CASE k \in 1 .. n /\ b[k] = more[k]
    <3>1. j \in 1 .. n /\ b[j] = more[j]
      BY <1>1, <1>4, <2>1
    <3> QED
      BY <1>4, <2>1, <3>1 DEF Fenced, n
  <2>2. CASE k > n /\ k - n + 1 \in 2 .. Len(a) /\ b[k] = a[k - n + 1]
    <3> DEFINE i == k - n + 1
    <3>1. i \in 2 .. m /\ b[k] = a[i] /\ Len(a) # 1
      BY <1>1, <2>2 DEF m
    <3>2. CASE j \in 1 .. n /\ b[j] = more[j]
      <4>1. Yields(a[1], more[j])
        BY <3>1, <3>2 DEF n
      <4> HIDE DEF i
      <4>2. Follows(a[1], a[i])
        BY <1>2, <3>1
      <4>3. Follows(more[j], a[i])
        BY <4>1, <4>2 DEF Yields, Follows
      <4> QED
        BY <3>1, <3>2, <4>3
    <3>3. CASE j > n /\ j - n + 1 \in 2 .. Len(a) /\ b[j] = a[j - n + 1]
      <4>1. /\ j - n + 1 \in 1 .. Len(a) /\ i \in 1 .. Len(a) /\ j - n + 1 < i
        BY <1>1, <1>4, <2>2, <3>3
      <4> HIDE DEF i
      <4>2. Follows(a[j - n + 1], a[i])
        BY <4>1 DEF Fenced
      <4> QED
        BY <3>1, <3>3, <4>2
    <3> QED
      BY <1>1, <3>2, <3>3
  <2> QED
    BY <1>1, <2>1, <2>2
<1>5. ASSUME NEW k \in 1 .. Len(b), Lifts(b[k])
      PROVE  Covered(b, k, vs, es)
  <2>1. CASE k \in 1 .. n /\ b[k] = more[k]
    <3>1. Covered(more, k, vs, es)
      BY <1>5, <2>1 DEF Fenced, n
    <3>2. \A j \in 1 .. k - 1 : j \in 1 .. Len(b) /\ b[j] = more[j]
      BY <1>1, <2>1
    <3> QED
      BY <2>1, <3>1, <3>2 DEF Covered
  <2>2. CASE k > n /\ k - n + 1 \in 2 .. Len(a) /\ b[k] = a[k - n + 1]
    <3> DEFINE i == k - n + 1
    <3>1. i \in 2 .. m /\ b[k] = a[i] /\ i \in 1 .. Len(a)
      BY <1>1, <2>2 DEF m
    <3>2. \A j \in 2 .. i - 1 : j + n - 1 \in 1 .. k - 1 /\ b[j + n - 1] = a[j]
      <4>1. ASSUME NEW j \in 2 .. i - 1
            PROVE  j + n - 1 \in 1 .. k - 1 /\ b[j + n - 1] = a[j]
        <5>1. /\ j + n - 1 \in 1 .. k - 1 /\ j + n - 1 \in 1 .. Len(b)
              /\ j + n - 1 > n /\ (j + n - 1) - n + 1 = j
          BY <1>1
        <5> DEFINE o == j + n - 1
        <5>2. b[o] = a[o - n + 1]
          <6>1. o \in 1 .. Len(b) /\ o \notin 1 .. n
            BY <1>1, <5>1
          <6> QED
            BY <1>1, <6>1
        <5> QED
          BY <5>1, <5>2
      <4> QED
        BY <4>1
    <3> HIDE DEF i
    <3>3. a[i] \in Entry
      BY <1>2, <3>1
    <3> DEFINE u == a[i][2]
    <3>4. u \in Units
      BY <1>5, <3>1, <3>3, LiftsUnit
    <3>5. ~Out(us, ds, u) \/ \E j \in 1 .. i - 1 : Ends(a[j], u)
      BY <1>5, <3>1 DEF Fenced, Covered
    <3> HIDE DEF u
    <3>6. ~Out(us, ds, u) => ~Out(vs, es, u)
      BY <3>4 DEF Easier
    <3>7. ASSUME NEW j \in 1 .. i - 1, Ends(a[j], u)
          PROVE  ~Out(vs, es, u) \/ \E l \in 1 .. k - 1 : Ends(b[l], u)
      <4>1. CASE j = 1
        BY <3>4, <3>7, <4>1
      <4>2. CASE j \in 2 .. i - 1
        <5>1. j + n - 1 \in 1 .. k - 1 /\ b[j + n - 1] = a[j]
          BY <3>2, <4>2
        <5> QED
          BY <3>7, <5>1
      <4>3. j = 1 \/ j \in 2 .. i - 1
        BY <3>1 DEF m
      <4> QED
        BY <4>1, <4>2, <4>3
    <3>8. ~Out(vs, es, u) \/ \E l \in 1 .. k - 1 : Ends(b[l], u)
      BY <3>5, <3>6, <3>7
    <3> QED
      BY <3>1, <3>8 DEF Covered, u
  <2> QED
    BY <1>1, <2>1, <2>2
<1>6. ASSUME NEW k \in 1 .. Len(b), b[k][1] = "stop fences"
      PROVE  (k = 1 /\ s \in Finished) \/ (k > 1 /\ ToStopping(b[k - 1]))
  <2>1. CASE k \in 1 .. n /\ b[k] = more[k]
    <3>1. (k = 1 /\ s \in Finished) \/ (k > 1 /\ ToStopping(more[k - 1]))
      BY <1>6, <2>1 DEF Fenced, n
    <3>2. k > 1 => b[k - 1] = more[k - 1]
      <4>1. k > 1 => k - 1 \in 1 .. Len(b) /\ ~(k - 1 > n)
        BY <1>1, <2>1
      <4> QED
        BY <1>1, <4>1
    <3> QED
      BY <3>1, <3>2
  <2>2. CASE k > n /\ k - n + 1 \in 2 .. Len(a) /\ b[k] = a[k - n + 1]
    <3> DEFINE i == k - n + 1
    <3>1. i \in 1 .. Len(a) /\ i > 1 /\ b[k] = a[i] /\ i - 1 = k - n
      BY <1>1, <2>2
    <3>2. i - 1 # 1 => k > 1 /\ b[k - 1] = a[i - 1]
      <4>1. i - 1 # 1 => /\ k - 1 \in 1 .. Len(b) /\ k > 1 /\ k - 1 > n /\ (k - 1) - n + 1 = i - 1
                         /\ k - 1 \notin 1 .. n
        BY <1>1, <2>2
      <4> QED
        BY <1>1, <4>1
    <3> HIDE DEF i
    <3>3. ToStopping(a[i - 1])
      <4>1. a[i][1] = "stop fences" /\ i \in 1 .. Len(a) /\ i # 1
        <5>1. i \in 1 .. Len(a) /\ i > 1 /\ b[k] = a[i]
          BY <3>1
        <5>2. a[i][1] = "stop fences"
          BY <1>6, <5>1
        <5>3. i # 1
          BY <1>1, <5>1
        <5> QED
          BY <5>1, <5>2, <5>3
      <4>2. (i = 1 /\ r \in Finished) \/ (i > 1 /\ ToStopping(a[i - 1]))
        BY <4>1, FencedHas, Zenon
      <4> QED
        BY <4>1, <4>2
    <3>4. i - 1 # 1
      BY <3>3
    <3> QED
      BY <3>2, <3>3, <3>4
  <2> QED
    BY <1>1, <2>1, <2>2
<1>7. Fenced(b, vs, es, gs, s)
  BY <1>3, <1>4, <1>5, <1>6 DEF Fenced
<1> QED
  BY <1>7 DEF b

\* A command goes on with more of its agenda.
LEMMA Onward ==
    ASSUME Meanwhile, OneCommand, NEW c \in Commands, p[c] # Idle,
           NEW q \in Underway, NEW more, Lists(more), Continue(c, q, more \o Rest(c)),
           \A u \in Units : Guarded(units', dispatches', fences', u),
           Easier(units, dispatches, units', dispatches'),
           ~ToStopping(Head(p[c].agenda)),
           \A u \in Units : Ends(Head(p[c].agenda), u) => ~Out(units', dispatches', u),
           Fenced(more, units', dispatches', fences', run'),
           \/ Head(p[c].agenda)[1] \in EndKinds
           \/ \A j \in 1 .. Len(more) : Yields(Head(p[c].agenda), more[j]),
           run' = "FAILED_TERMINAL" => run = "FAILED_TERMINAL" \/ Fatal(Head(p[c].agenda))
    PROVE  FenceInv'
<1> DEFINE a == p[c].agenda
           b == more \o Tail(a)
           T == {more[k] : k \in 1 .. Len(more)}
<1>1. /\ CTypeOK /\ a \in Seq(Entry) /\ a # <<>> /\ Head(a) = a[1] /\ Trails(a)
      /\ Fenced(a, units, dispatches, fences, run)
  BY HeadFenced
<1>2. p'[c] # Idle => p'[c].agenda = b
  <2> DEFINE e == [q EXCEPT !.agenda = b]
             r == IF b = <<>> THEN Idle ELSE e
  <2>1. p' = [p EXCEPT ![c] = r]
    BY DEF Continue, Rest
  <2>2. e.agenda = b
    BY DEF Underway
  <2> HIDE DEF e
  <2>3. r # Idle => r.agenda = b
    BY <2>2
  <2> HIDE DEF r
  <2> QED
    BY <1>1, <2>1, <2>3 DEF CTypeOK
<1>3. more \in Seq(T)
  BY DEF Lists
<1> HIDE DEF T
<1>4. /\ ~ToStopping(a[1]) /\ \A u \in Units : Ends(a[1], u) => ~Out(units', dispatches', u)
      /\ a[1][1] \in EndKinds \/ \A j \in 1 .. Len(more) : Yields(a[1], more[j])
      /\ run' = "FAILED_TERMINAL" => run = "FAILED_TERMINAL" \/ Fatal(a[1])
  BY <1>1
<1> HIDE DEF a
<1>5. a[1][1] \in EndKinds => Len(a) = 1
  <2> DEFINE n == Len(a)
  <2>1. n \in Nat \ {0}
    BY <1>1
  <2> HIDE DEF n
  <2>2. n # 1 => 1 \in 1 .. n - 1
    BY <2>1
  <2> QED
    BY <1>1, <2>2 DEF Trails, n
<1>6. Fenced(b, units', dispatches', fences', run')
  BY <1>1, <1>3, <1>4, <1>5, SpliceFenced
<1> QED
  BY <1>2, <1>6, FenceFrame DEF b

\* Nothing has changed.
LEMMA SameEasier ==
    ASSUME UNCHANGED <<units, dispatches>>
    PROVE  Easier(units, dispatches, units', dispatches')
BY DEF Easier, Out, AwaitedIn

LEMMA SameGuarded ==
    ASSUME UNCHANGED <<units, dispatches, fences>>, NEW u \in Units,
           Guarded(units, dispatches, fences, u)
    PROVE  Guarded(units', dispatches', fences', u)
BY DEF Guarded, Out, AwaitedIn, HeldBy

\* A decision.
LEMMA Decided ==
    ASSUME Meanwhile, OneCommand, NEW c \in Commands, p[c] # Idle,
           Head(p[c].agenda)[1] \notin {"move", "reject", "accept"},
           NEW q \in Underway, NEW more, Lists(more), Continue(c, q, more \o Rest(c)),
           UNCHANGED tables,
           Fenced(more, units, dispatches, fences, run),
           \/ Head(p[c].agenda)[1] \in EndKinds
           \/ \A j \in 1 .. Len(more) : Yields(Head(p[c].agenda), more[j])
    PROVE  FenceInv'
<1>1. UNCHANGED <<run, units, dispatches, fences>>
  BY DEF tables
<1>2. \A u \in Units : Guarded(units', dispatches', fences', u)
  BY <1>1, HeadFenced, SameGuarded
<1>3. Easier(units, dispatches, units', dispatches')
  BY <1>1, SameEasier
<1>4. /\ ~ToStopping(Head(p[c].agenda))
      /\ \A u \in Units : ~Ends(Head(p[c].agenda), u)
  BY DEF ToStopping, Ends
<1>5. Fenced(more, units', dispatches', fences', run')
  BY <1>1
<1> QED
  BY <1>1, <1>2, <1>3, <1>4, <1>5, Onward

LEMMA FenceOver ==
    ASSUME CTypeOK, FenceInv, OneCommand, NEW c \in Commands, Continue(c, p[c], <<>>),
           UNCHANGED tables
    PROVE  FenceInv'
<1>1. p' = [p EXCEPT ![c] = Idle]
  BY DEF Continue
<1>2. p'[c] = Idle
  BY <1>1 DEF CTypeOK
<1>3. UNCHANGED <<run, units, dispatches, fences>>
  BY DEF tables
<1>4. CASE Stopped(run)
  BY <1>3, <1>4 DEF FenceInv
<1>5. CASE ~Stopped(run)
  <2>1. \A u \in Units : Guarded(units', dispatches', fences', u)
    BY <1>3, <1>5, SameGuarded DEF FenceInv
  <2> QED
    BY <1>2, <2>1, FenceFrame
<1> QED
  BY <1>4, <1>5

-----------------------------------------------------------------------------
(* Entries that lift nothing, and lists of entries *)

LooseKinds == {"list", "contract", "await", "select", "walk", "ensure", "unwind", "reconcile",
               "settle", "nothing ready", "wait", "deliver", "orient", "stopping", "move",
               "delivered", "block", "unblock", "tell", "done", "release", "upsert"}
Loose(e) == e[1] \in LooseKinds /\ ~Fatal(e)
AllLoose(m) == Lists(m) /\ \A k \in 1 .. Len(m) : Loose(m[k])
Late(m) == \A k \in 1 .. Len(m) : m[k][1] \in LateKinds

\* An entry that lifts nothing that is out.
Free(e, us, ds, fs, r) ==
    /\ Kept(e, us, ds, fs)
    /\ Lifts(e) => ~Out(us, ds, e[2])
    /\ e[1] # "stop fences"
    /\ r = "FAILED_TERMINAL" => e[1] \in LateKinds

LEMMA LooseHas ==
    ASSUME NEW e, Loose(e), NEW us, NEW ds, NEW fs
    PROVE  /\ Kept(e, us, ds, fs) /\ ~Lifts(e) /\ e[1] # "stop fences"
           /\ ~Sends(e) /\ e[1] # "record" /\ ~Fatal(e)
           /\ e[1] \notin {"claim", "dispatch", "reject", "accept"}
<1>1. /\ e[1] \notin Numbered /\ Reaches(e) = {}
      /\ e[1] \notin {"claim", "dispatch", "results", "orphans"}
  BY DEF Loose, LooseKinds, Numbered, Reaches
<1> QED
  BY <1>1 DEF Loose, LooseKinds, Kept, Lifts, Sends, Sending

LEMMA LooseMade ==
    ASSUME NEW u
    PROVE  /\ Loose(<<"list">>) /\ Loose(<<"contract">>) /\ Loose(<<"await">>)
           /\ Loose(<<"select">>) /\ Loose(<<"walk">>) /\ Loose(<<"ensure">>)
           /\ Loose(<<"unwind">>) /\ Loose(<<"reconcile">>) /\ Loose(<<"settle">>)
           /\ Loose(<<"nothing ready">>) /\ Loose(<<"wait">>) /\ Loose(<<"deliver">>)
           /\ Loose(<<"orient">>) /\ Loose(<<"stopping">>) /\ Loose(<<"delivered", u>>)
           /\ Loose(<<"block", u>>) /\ Loose(<<"unblock", u>>) /\ Loose(<<"tell", u>>)
           /\ Loose(<<"done", u>>) /\ Loose(<<"release", u>>) /\ Loose(<<"upsert", u>>)
           /\ u # "FAILED_TERMINAL" => Loose(<<"move", u>>)
BY DEF Loose, LooseKinds, Fatal

LEMMA LooseFenced ==
    ASSUME NEW m, AllLoose(m), NEW us, NEW ds, NEW fs, NEW r, r = "FAILED_TERMINAL" => Late(m)
    PROVE  /\ Lists(m) /\ Fenced(m, us, ds, fs, r)
           /\ \A h : \A k \in 1 .. Len(m) : Yields(h, m[k])
<1>1. \A k \in 1 .. Len(m) :
        /\ Kept(m[k], us, ds, fs) /\ ~Lifts(m[k]) /\ m[k][1] # "stop fences"
        /\ ~Sends(m[k]) /\ m[k][1] # "record" /\ ~Fatal(m[k])
        /\ m[k][1] \notin {"claim", "dispatch", "reject", "accept"}
  BY LooseHas DEF AllLoose
<1>2. \A j, k \in 1 .. Len(m) : j < k => Follows(m[j], m[k])
  BY <1>1 DEF Follows
<1>3. r = "FAILED_TERMINAL" => \A k \in 1 .. Len(m) : m[k][1] \in LateKinds
  BY DEF Late
<1>4. Fenced(m, us, ds, fs, r)
  BY <1>1, <1>2, <1>3 DEF Fenced
<1>5. \A h : \A k \in 1 .. Len(m) : Yields(h, m[k])
  BY <1>1 DEF Yields
<1> QED
  BY <1>4, <1>5 DEF AllLoose

LEMMA LooseStep ==
    ASSUME Meanwhile, OneCommand, NEW c \in Commands, p[c] # Idle,
           Head(p[c].agenda)[1] \notin {"move", "reject", "accept"},
           NEW q \in Underway, NEW more, AllLoose(more), Continue(c, q, more \o Rest(c)),
           UNCHANGED tables,
           run = "FAILED_TERMINAL" => Late(more)
    PROVE  FenceInv'
<1>1. /\ Lists(more) /\ Fenced(more, units, dispatches, fences, run)
      /\ \A h : \A k \in 1 .. Len(more) : Yields(h, more[k])
  BY LooseFenced
<1> QED
  BY <1>1, Decided

\* Short lists of entries that lift nothing that is out.
LEMMA FreeLists ==
    ASSUME NEW w, NEW x, NEW y, NEW z, NEW us, NEW ds, NEW fs, NEW r
    PROVE  /\ Free(z, us, ds, fs, r) => Fenced(<<z>>, us, ds, fs, r)
           /\ Free(y, us, ds, fs, r) /\ Free(z, us, ds, fs, r) /\ Follows(y, z)
              => Fenced(<<y, z>>, us, ds, fs, r)
           /\ /\ Free(x, us, ds, fs, r) /\ Free(y, us, ds, fs, r) /\ Free(z, us, ds, fs, r)
              /\ Follows(x, y) /\ Follows(x, z) /\ Follows(y, z)
              => Fenced(<<x, y, z>>, us, ds, fs, r)
           /\ /\ Free(w, us, ds, fs, r) /\ Free(x, us, ds, fs, r) /\ Free(y, us, ds, fs, r)
              /\ Free(z, us, ds, fs, r) /\ Follows(w, x) /\ Follows(w, y) /\ Follows(w, z)
              /\ Follows(x, y) /\ Follows(x, z) /\ Follows(y, z)
              => Fenced(<<w, x, y, z>>, us, ds, fs, r)
<1>1. /\ Len(<<z>>) = 1 /\ Len(<<y, z>>) = 2 /\ Len(<<x, y, z>>) = 3 /\ Len(<<w, x, y, z>>) = 4
      /\ <<z>>[1] = z /\ <<y, z>>[1] = y /\ <<y, z>>[2] = z
      /\ <<x, y, z>>[1] = x /\ <<x, y, z>>[2] = y /\ <<x, y, z>>[3] = z
      /\ <<w, x, y, z>>[1] = w /\ <<w, x, y, z>>[2] = x /\ <<w, x, y, z>>[3] = y
      /\ <<w, x, y, z>>[4] = z
  OBVIOUS
<1>2. ASSUME NEW m, \A k \in 1 .. Len(m) : Free(m[k], us, ds, fs, r),
             \A j, k \in 1 .. Len(m) : j < k => Follows(m[j], m[k])
      PROVE  Fenced(m, us, ds, fs, r)
  BY <1>2 DEF Free, Fenced, Covered
<1> DEFINE a == <<z>>
           b == <<y, z>>
           d == <<x, y, z>>
           e == <<w, x, y, z>>
<1>3. Free(z, us, ds, fs, r) => Fenced(a, us, ds, fs, r)
  <2>1. Len(a) = 1 /\ a[1] = z
    BY <1>1
  <2> HIDE DEF a
  <2> QED
    BY <1>2, <2>1
<1>4. Free(y, us, ds, fs, r) /\ Free(z, us, ds, fs, r) /\ Follows(y, z)
      => Fenced(b, us, ds, fs, r)
  <2>1. Len(b) = 2 /\ b[1] = y /\ b[2] = z
    BY <1>1
  <2> HIDE DEF b
  <2> QED
    BY <1>2, <2>1
<1>5. /\ Free(x, us, ds, fs, r) /\ Free(y, us, ds, fs, r) /\ Free(z, us, ds, fs, r)
      /\ Follows(x, y) /\ Follows(x, z) /\ Follows(y, z)
      => Fenced(d, us, ds, fs, r)
  <2>1. Len(d) = 3 /\ d[1] = x /\ d[2] = y /\ d[3] = z
    BY <1>1
  <2> HIDE DEF d
  <2> QED
    BY <1>2, <2>1
<1>6. /\ Free(w, us, ds, fs, r) /\ Free(x, us, ds, fs, r) /\ Free(y, us, ds, fs, r)
      /\ Free(z, us, ds, fs, r) /\ Follows(w, x) /\ Follows(w, y) /\ Follows(w, z)
      /\ Follows(x, y) /\ Follows(x, z) /\ Follows(y, z)
      => Fenced(e, us, ds, fs, r)
  <2>1. Len(e) = 4 /\ e[1] = w /\ e[2] = x /\ e[3] = y /\ e[4] = z
    BY <1>1
  <2> HIDE DEF e
  <2> QED
    BY <1>2, <2>1
<1> QED
  BY <1>3, <1>4, <1>5, <1>6 DEF a, b, d, e

\* A list that begins with closing an attempt of u, and goes on about u.
About(m, u, us, ds, fs, r) ==
    /\ Lists(m) /\ Len(m) >= 1 /\ Ends(m[1], u)
    /\ \A k \in 1 .. Len(m) : /\ Kept(m[k], us, ds, fs)
                              /\ Lifts(m[k]) => m[k][2] = u
                              /\ m[k][1] # "stop fences"
    /\ \A j, k \in 1 .. Len(m) : j < k => Follows(m[j], m[k])
    /\ r = "FAILED_TERMINAL" => Late(m)
LEMMA AboutFenced ==
    ASSUME NEW m, NEW u, NEW us, NEW ds, NEW fs, NEW r, About(m, u, us, ds, fs, r)
    PROVE  Fenced(m, us, ds, fs, r)
<1>1. ASSUME NEW k \in 1 .. Len(m), Lifts(m[k])
      PROVE  Covered(m, k, us, ds)
  <2>1. Ends(m[1], u) /\ m[k][2] = u
    BY <1>1 DEF About
  <2>2. k # 1
    BY <1>1, <2>1 DEF Ends, Lifts
  <2>3. 1 \in 1 .. k - 1
    BY <2>2
  <2> QED
    BY <2>1, <2>3 DEF Covered
<1> QED
  BY <1>1 DEF About, Fenced, Late
-----------------------------------------------------------------------------
(* The transactions *)

LEMMA SameLength ==
    ASSUME NEW S, NEW s \in Seq(S), NEW t \in Seq(S), DOMAIN s = DOMAIN t
    PROVE  Len(s) = Len(t)
<1> DEFINE n == Len(s)
           m == Len(t)
<1>1. n \in Nat /\ m \in Nat /\ 1 .. n = 1 .. m
  OBVIOUS
<1> HIDE DEF n, m
<1>2. n = m
  <2>1. n # 0 => n \in 1 .. m
    BY <1>1
  <2>2. m # 0 => m \in 1 .. n
    BY <1>1
  <2> QED
    BY <1>1, <2>1, <2>2
<1> QED
  BY <1>2 DEF n, m

LEMMA NoneMeans ==
    ASSUME NEW S, NEW s \in Seq(S)
    PROVE  s # <<>> <=> Len(s) # 0
OBVIOUS

\* A unit whose row has not changed or has left its attempt, and whose attempts
\* have not changed or are closed.
LEMMA Milder ==
    ASSUME NEW us, NEW ds, NEW fs, NEW vs, NEW es, NEW u, Guarded(us, ds, fs, u),
           ds[u] \in Seq(Attempt), es[u] \in Seq(Attempt), Len(es[u]) = Len(ds[u]),
           \A i \in DOMAIN ds[u] :
             es[u][i].status = ds[u][i].status \/ es[u][i].status \notin Open,
           \/ vs[u] = us[u]
           \/ /\ vs[u].status \notin {"DISPATCHED", "RESULT_IN"}
              /\ AwaitedIn(es, u) = {} \/ vs[u].fence = 0
    PROVE  /\ Guarded(vs, es, fs, u)
           /\ Out(vs, es, u) => Out(us, ds, u) /\ Len(es[u]) = Len(ds[u])
           /\ AwaitedIn(es, u) \subseteq AwaitedIn(ds, u)
<1> DEFINE n == Len(ds[u])
<1>1. n \in Nat /\ DOMAIN ds[u] = 1 .. n /\ DOMAIN es[u] = 1 .. n /\ Len(es[u]) = n
      /\ (ds[u] # <<>> <=> n # 0) /\ (es[u] # <<>> <=> n # 0)
  BY SameLength, NoneMeans
<1>2. AwaitedIn(es, u) \subseteq AwaitedIn(ds, u)
  BY <1>1 DEF AwaitedIn, Open
<1>3. ASSUME Out(vs, es, u)
      PROVE  Out(us, ds, u) /\ vs[u] = us[u]
  <2>1. vs[u] = us[u]
    BY <1>3 DEF Out
  <2>2. n # 0 /\ n \in 1 .. n /\ es[u][n].status \in Open
    BY <1>1, <1>3 DEF Out
  <2>3. ds[u][n].status \in Open
    BY <1>1, <2>2
  <2> QED
    BY <1>1, <1>3, <2>1, <2>2, <2>3 DEF Out
<1>4. Out(vs, es, u) => HeldBy(fs, u, vs[u].fence)
  BY <1>3 DEF Guarded
<1>5. \A i \in AwaitedIn(es, u) : i = Len(es[u])
  BY <1>1, <1>2 DEF Guarded
<1>6. AwaitedIn(es, u) # {} =>
        vs[u].status # "RESULT_IN" /\ (vs[u].status = "DISPATCHED" \/ vs[u].fence = 0)
  BY <1>2 DEF Guarded
<1> QED
  BY <1>1, <1>2, <1>3, <1>4, <1>5, <1>6 DEF Guarded

\* Only rows have changed.
LEMMA RowsMilder ==
    ASSUME RTypeOK, \A u \in Units : Guarded(units, dispatches, fences, u),
           UNCHANGED <<dispatches, fences>>,
           \A u \in Units :
             \/ units'[u] = units[u]
             \/ /\ units'[u].status \notin {"DISPATCHED", "RESULT_IN"}
                /\ AwaitedIn(dispatches, u) = {} \/ units'[u].fence = 0
    PROVE  /\ \A u \in Units : Guarded(units', dispatches', fences', u)
           /\ Easier(units, dispatches, units', dispatches')
<1>1. ASSUME NEW u \in Units
      PROVE  /\ Guarded(units', dispatches', fences', u)
             /\ Out(units', dispatches', u) =>
                  Out(units, dispatches, u) /\ Len(dispatches'[u]) = Len(dispatches[u])
             /\ AwaitedIn(dispatches', u) \subseteq AwaitedIn(dispatches, u)
  <2>1. dispatches[u] \in Seq(Attempt)
    BY DEF RTypeOK
  <2>2. /\ Guarded(units', dispatches, fences, u)
        /\ Out(units', dispatches, u) =>
             Out(units, dispatches, u) /\ Len(dispatches[u]) = Len(dispatches[u])
        /\ AwaitedIn(dispatches, u) \subseteq AwaitedIn(dispatches, u)
    BY <2>1, Milder
  <2> QED
    BY <2>2
<1> QED
  BY <1>1 DEF Easier

\* A unit that is not out is not with a worker, or its row knows no fence.
LEMMA NotOut ==
    ASSUME NEW u, Guarded(units, dispatches, fences, u), ~Out(units, dispatches, u),
           dispatches[u] \in Seq(Attempt)
    PROVE  AwaitedIn(dispatches, u) = {} \/ units[u].fence = 0
<1> SUFFICES ASSUME NEW i \in AwaitedIn(dispatches, u), units[u].status = "DISPATCHED"
             PROVE  FALSE
  BY DEF Guarded
<1>1. i = Len(dispatches[u]) /\ i \in DOMAIN dispatches[u] /\ dispatches[u][i].status = "DISPATCHED"
  BY DEF Guarded, AwaitedIn
<1>2. dispatches[u] # <<>>
  BY <1>1
<1> QED
  BY <1>1, <1>2 DEF Out, Open

\* An attempt closed.
LEMMA AttemptMilder ==
    ASSUME RTypeOK, NEW u \in Units, NEW i \in DOMAIN dispatches[u], NEW att \in Attempt,
           att.status \notin Open, UNCHANGED <<units, fences>>,
           AttemptsOK(dispatches', contract.revision), dispatches'[u][i] = att,
           \A v \in Units : DOMAIN dispatches'[v] = DOMAIN dispatches[v],
           \A v \in Units : \A k \in DOMAIN dispatches[v] :
             v # u \/ k # i => dispatches'[v][k] = dispatches[v][k],
           \A v \in Units : Guarded(units, dispatches, fences, v),
           Out(units, dispatches, u) => i = Len(dispatches[u])
    PROVE  /\ \A v \in Units : Guarded(units', dispatches', fences', v)
           /\ Easier(units, dispatches, units', dispatches')
           /\ ~Out(units', dispatches', u)
<1>5. \A v \in Units : /\ dispatches[v] \in Seq(Attempt) /\ dispatches'[v] \in Seq(Attempt)
                       /\ Len(dispatches'[v]) = Len(dispatches[v])
  <2> SUFFICES ASSUME NEW v \in Units
               PROVE  /\ dispatches[v] \in Seq(Attempt) /\ dispatches'[v] \in Seq(Attempt)
                      /\ Len(dispatches'[v]) = Len(dispatches[v])
    OBVIOUS
  <2>1. dispatches[v] \in Seq(Attempt) /\ dispatches'[v] \in Seq(Attempt)
    BY DEF RTypeOK, AttemptsOK
  <2>2. DOMAIN dispatches'[v] = DOMAIN dispatches[v]
    OBVIOUS
  <2> QED
    BY <2>1, <2>2, SameLength
<1>7. ASSUME NEW v \in Units
      PROVE  /\ Guarded(units', dispatches', fences', v)
             /\ Out(units', dispatches', v) =>
                  Out(units, dispatches, v) /\ Len(dispatches'[v]) = Len(dispatches[v])
             /\ AwaitedIn(dispatches', v) \subseteq AwaitedIn(dispatches, v)
  <2>1. \A k \in DOMAIN dispatches[v] :
          \/ dispatches'[v][k].status = dispatches[v][k].status
          \/ dispatches'[v][k].status \notin Open
    OBVIOUS
  <2>2. /\ dispatches[v] \in Seq(Attempt) /\ dispatches'[v] \in Seq(Attempt)
        /\ Len(dispatches'[v]) = Len(dispatches[v])
    BY <1>5
  <2>3. Guarded(units, dispatches, fences, v) /\ units'[v] = units[v]
    OBVIOUS
  <2>4. /\ Guarded(units', dispatches', fences, v)
        /\ Out(units', dispatches', v) =>
             Out(units, dispatches, v) /\ Len(dispatches'[v]) = Len(dispatches[v])
        /\ AwaitedIn(dispatches', v) \subseteq AwaitedIn(dispatches, v)
    BY <2>1, <2>2, <2>3, Milder, SMTT(30)
  <2> QED
    BY <2>4
<1>8. ASSUME Out(units', dispatches', u)
      PROVE  FALSE
  <2>1. Out(units, dispatches, u) /\ Len(dispatches'[u]) = Len(dispatches[u])
    BY <1>7, <1>8
  <2>2. Len(dispatches'[u]) = i
    BY <2>1
  <2> QED
    BY <1>8, <2>2 DEF Out
<1> QED
  BY <1>7, <1>8 DEF Easier

LEMMA ClosedMilder ==
    ASSUME RTypeOK, NEW u \in Units, NEW i \in DOMAIN dispatches[u], NEW att \in Attempt,
           att.revision = dispatches[u][i].revision, att.status \notin Open,
           Altered(u, i, att),
           UNCHANGED <<units, fences>>,
           \A v \in Units : Guarded(units, dispatches, fences, v),
           Out(units, dispatches, u) => i = Len(dispatches[u])
    PROVE  /\ \A v \in Units : Guarded(units', dispatches', fences', v)
           /\ Easier(units, dispatches, units', dispatches')
           /\ ~Out(units', dispatches', u)
<1>1. /\ AttemptsOK(dispatches', contract.revision)
      /\ dispatches'[u][i] = att
      /\ \A v \in Units : DOMAIN dispatches'[v] = DOMAIN dispatches[v]
      /\ \A v \in Units : \A j \in DOMAIN dispatches[v] :
           v # u \/ j # i => dispatches'[v][j] = dispatches[v][j]
  BY AttemptAltered
<1> QED
  BY <1>1, AttemptMilder

LEMMA VerdictMilder ==
    ASSUME RTypeOK, NEW u \in Units, NEW i \in DOMAIN dispatches[u],
           NEW accepted \in BOOLEAN, NEW def \in Nat, RecordVerification(u, i, accepted, def),
           \A v \in Units : Guarded(units, dispatches, fences, v),
           Out(units, dispatches, u) => i = Len(dispatches[u])
    PROVE  /\ run' = run
           /\ \A v \in Units : Guarded(units', dispatches', fences', v)
           /\ Easier(units, dispatches, units', dispatches')
           /\ ~Out(units', dispatches', u)
<1> DEFINE st == IF accepted THEN "VERIFIED" ELSE "REJECTED"
           judged == IF accepted THEN def ELSE 0
           att == [dispatches[u][i] EXCEPT !.status = st, !.judged = judged]
<1>1. dispatches[u][i] \in Attempt /\ st \in {"VERIFIED", "REJECTED"} /\ judged \in Nat
  BY DEF RTypeOK
<1>2. /\ Altered(u, i, att)
      /\ UNCHANGED <<units, fences>> /\ run' = run
  BY DEF RecordVerification, KeepAllBut, Altered
<1> HIDE DEF st, judged
<1>3. att \in Attempt /\ att.revision = dispatches[u][i].revision /\ att.status = st
  BY <1>1 DEF Attempt
<1>4. att.status \notin Open
  BY <1>1, <1>3 DEF Open
<1> HIDE DEF att
<1> QED
  BY <1>2, <1>3, <1>4, ClosedMilder
-----------------------------------------------------------------------------
(* A run being stopped is stopped for good *)

LEMMA RunMoves ==
    ASSUME Next
    PROVE  run' = run \/ run' \in Legal(run)
<1>1. ASSUME NEW c \in Commands, BeginStep(c) \/ BeginResult(c) \/ BeginPlan(c) \/ BeginStop(c)
      PROVE  run' = run
  BY <1>1 DEF BeginStep, BeginResult, BeginPlan, BeginStop, tables
<1>2. ASSUME NEW c \in Commands, Transaction(c)
      PROVE  run' = run \/ run' \in Legal(run)
  <2>1. CASE At(c, "move") /\ Do(c, CanMove(Arg(c, 2)), SetRunState(Arg(c, 2)), <<>>)
    BY <2>1 DEF Do, SetRunState, CanMove, tables
  <2>2. CASE At(c, "park") /\ Do(c, TRUE, ReleaseFence(Arg(c, 2), Arg(c, 3)), <<>>)
    BY <2>2 DEF Do, ReleaseFence, tables
  <2>3. CASE At(c, "tell") /\ Do(c, TRUE, QueueHumanStep(Arg(c, 2)), <<>>)
    BY <2>3 DEF Do, QueueHumanStep, tables
  <2>4. CASE At(c, "block") /\ Do(c, TRUE, BlockLaneUnits(Arg(c, 2)), <<>>)
    BY <2>4 DEF Do, BlockLaneUnits, KeepAllBut, tables
  <2>5. CASE At(c, "unblock") /\ Do(c, TRUE, UnblockLaneUnits(Arg(c, 2)), <<>>)
    BY <2>5 DEF Do, UnblockLaneUnits, KeepAllBut, tables
  <2>6. CASE At(c, "fail") /\ Do(c, TRUE, MarkUnitFailed(Arg(c, 2)), <<>>)
    BY <2>6 DEF Do, MarkUnitFailed, KeepAllBut, tables
  <2>7. CASE At(c, "done") /\ Do(c, CanFinish(Arg(c, 2)), MarkUnitDone(Arg(c, 2)), <<>>)
    BY <2>7 DEF Do, MarkUnitDone, KeepAllBut, tables
  <2>8. CASE At(c, "release") /\ Do(c, CanRelease(Arg(c, 2)), ReleaseClaimedUnit(Arg(c, 2)), <<>>)
    BY <2>8 DEF Do, ReleaseClaimedUnit, KeepAllBut, tables
  <2>9. CASE At(c, "record") /\ Do(c, CanResult(Arg(c, 2), Arg(c, 3)),
                                RecordResult(Arg(c, 2), Arg(c, 3)), <<>>)
    BY <2>9 DEF Do, RecordResult, KeepAllBut, tables
  <2>10. CASE At(c, "reject") /\ Do(c, CanVerify(Arg(c, 2), Arg(c, 3)),
                                RecordVerification(Arg(c, 2), Arg(c, 3), FALSE, 0), <<>>)
    BY <2>10 DEF Do, RecordVerification, KeepAllBut, tables
  <2>11. CASE At(c, "accept") /\ Do(c, CanVerify(Arg(c, 2), Arg(c, 3)),
                                RecordVerification(Arg(c, 2), Arg(c, 3), TRUE, Arg(c, 4)), <<>>)
    BY <2>11 DEF Do, RecordVerification, KeepAllBut, tables
  <2> QED
    BY <1>2, <2>1, <2>2, <2>3, <2>4, <2>5, <2>6, <2>7, <2>8, <2>9, <2>10, <2>11 DEF Transaction
<1>3. ASSUME NEW c \in Commands, Look(c)
      PROVE  run' = run
  BY <1>3 DEF Look, Decide, tables
<1>4. ASSUME NEW c \in Commands, Judging(c)
      PROVE  run' = run
  <2>1. CASE Judge(c)
    BY <2>1 DEF Judge, Decide, tables
  <2>2. CASE Rollback(c)
    BY <2>2 DEF Rollback, Decide, tables
  <2>3. CASE FailTerminally(c)
    BY <2>3 DEF FailTerminally, Decide, tables
  <2>4. CASE Checked(c)
    BY <2>4 DEF Checked, Decide, tables
  <2>5. CASE Settle(c)
    BY <2>5 DEF Settle, Decide, End, tables
  <2>6. CASE NothingReady(c)
    BY <2>6 DEF NothingReady, Decide, End, tables
  <2>7. CASE WaitForFounder(c)
    BY <2>7 DEF WaitForFounder, Decide, End, tables
  <2>8. CASE Deliver(c)
    BY <2>8 DEF Deliver, Decide, End, tables
  <2>9. CASE Delivered(c)
    BY <2>9 DEF Delivered, Decide, End, tables
  <2> QED
    BY <1>4, <2>1, <2>2, <2>3, <2>4, <2>5, <2>6, <2>7, <2>8, <2>9 DEF Judging
<1>5. ASSUME NEW c \in Commands, Stepping(c)
      PROVE  run' = run
  <2>1. CASE ListUnits(c) \/ Orphans(c)
    BY <2>1 DEF ListUnits, Orphans, Decide, tables
  <2>2. CASE Results(c)
    BY <2>2 DEF Results, Decide, End, tables
  <2>3. CASE ReadContract(c)
    BY <2>3 DEF ReadContract, Decide, tables
  <2>4. CASE Await(c)
    BY <2>4 DEF Await, Decide, End, tables
  <2>5. CASE AskAgain(c)
    BY <2>5 DEF AskAgain, Decide, tables
  <2>6. CASE Select(c) \/ Wave(c)
    BY <2>6 DEF Select, Wave, Decide, End, tables
  <2>7. CASE Gate(c)
    BY <2>7 DEF Gate, Decide, tables
  <2>8. CASE ClaimUnitFence(c)
    BY <2>8 DEF ClaimUnitFence, ClaimFence, Decide, tables
  <2>9. CASE Claim(c)
    BY <2>9 DEF Claim, ClaimUnit, KeepAllBut, Decide, tables
  <2>10. CASE Dispatch(c)
    BY <2>10 DEF Dispatch, RecordDispatch, KeepAllBut, End, tables
  <2> QED
    BY <1>5, <2>1, <2>2, <2>3, <2>4, <2>5, <2>6, <2>7, <2>8, <2>9, <2>10 DEF Stepping
<1>6. ASSUME NEW c \in Commands, Received(c) \/ Fetch(c) \/ Orient(c) \/ Stopping(c) \/ StopFences(c)
      PROVE  run' = run
  BY <1>6 DEF Received, Fetch, Orient, Stopping, StopFences, Decide, tables
<1>7. ASSUME NEW c \in Commands, Upsert(c)
      PROVE  run' = run \/ run' \in Legal(run)
  BY <1>7 DEF Upsert, Do, UpsertUnits, CanUpsert, CanMove, tables
<1>8. ASSUME NEW c \in Commands, Kill(c)
      PROVE  run' = run
  BY <1>8 DEF Kill, tables
<1>9. ASSUME Founder
      PROVE  run' = run \/ run' \in Legal(run)
  BY <1>9 DEF Founder, Interferes, Releases, Contract, Amend, Resolve, AdoptRun, SetRunState, CanMove
<1> QED
  BY <1>1, <1>2, <1>3, <1>4, <1>5, <1>6, <1>7, <1>8, <1>9 DEF Next, Progress

LEMMA StoppedStays ==
    ASSUME Next, Stopped(run)
    PROVE  Stopped(run')
<1>1. Legal("STOPPING") = {"STOPPED"} /\ Legal("STOPPED") = {}
  BY DEF Legal
<1> QED
  BY <1>1, RunMoves DEF Stopped
-----------------------------------------------------------------------------
(* Each transaction *)

LEMMA NothingFenced ==
    ASSUME NEW us, NEW ds, NEW fs, NEW r
    PROVE  Lists(<<>>) /\ Len(<<>>) = 0 /\ Fenced(<<>>, us, ds, fs, r)
<1>1. Lists(<<>>) /\ Len(<<>>) = 0 /\ 1 .. 0 = {}
  BY EmptyList
<1> DEFINE none == <<>>
<1> HIDE DEF none
<1>2. Len(none) = 0 => Fenced(none, us, ds, fs, r)
  BY <1>1 DEF Fenced
<1> QED
  BY <1>1, <1>2 DEF none

\* A transaction, and the command goes on with the rest.
LEMMA CarriedOn ==
    ASSUME Meanwhile, OneCommand, NEW c \in Commands, p[c] # Idle,
           Continue(c, p[c], <<>> \o Rest(c)),
           \A u \in Units : Guarded(units', dispatches', fences', u),
           Easier(units, dispatches, units', dispatches'),
           ~ToStopping(Head(p[c].agenda)),
           \A u \in Units : Ends(Head(p[c].agenda), u) => ~Out(units', dispatches', u),
           run' = "FAILED_TERMINAL" => run = "FAILED_TERMINAL" \/ Fatal(Head(p[c].agenda))
    PROVE  FenceInv'
<1> DEFINE none == <<>>
<1>1. p[c] \in Underway
  BY HeadFenced
<1>2. Lists(none) /\ Len(none) = 0 /\ Fenced(none, units', dispatches', fences', run')
  BY NothingFenced
<1>3. Continue(c, p[c], none \o Rest(c))
  OBVIOUS
<1> HIDE DEF none
<1>4. \A j \in 1 .. Len(none) : Yields(Head(p[c].agenda), none[j])
  BY <1>2
<1> QED
  BY <1>1, <1>2, <1>3, <1>4, Onward

\* A fence goes that no unit that is out has.
LEMMA FenceGone ==
    ASSUME NEW u \in Units, NEW n, ReleaseFence(u, n), ~Out(units, dispatches, u), RTypeOK,
           \A v \in Units : Guarded(units, dispatches, fences, v)
    PROVE  /\ run' = run
           /\ \A v \in Units : Guarded(units', dispatches', fences', v)
           /\ Easier(units, dispatches, units', dispatches')
<1>1. UNCHANGED <<run, units, dispatches>>
  BY DEF ReleaseFence
<1>2. \A v \in Units \ {u} : fences'[v] = fences[v]
  <2>1. CASE Holds(u, n)
    <3>1. fences' = [fences EXCEPT ![u].live = FALSE]
      BY <2>1 DEF ReleaseFence
    <3> QED
      BY <3>1 DEF RTypeOK
  <2>2. CASE ~Holds(u, n)
    BY <2>2 DEF ReleaseFence
  <2> QED
    BY <2>1, <2>2
<1>3. \A v \in Units \ {u} : Guarded(units', dispatches', fences', v)
  BY <1>1, <1>2 DEF Guarded, Out, AwaitedIn, HeldBy
<1>4. Guarded(units', dispatches', fences', u)
  BY <1>1 DEF Guarded, Out, AwaitedIn
<1>5. Easier(units, dispatches, units', dispatches')
  BY <1>1, SameEasier
<1> QED
  BY <1>1, <1>3, <1>4, <1>5

\* One row, set by a transaction on one unit.
LEMMA RowMilder ==
    ASSUME RTypeOK, NEW u \in Units, NEW row, SetUnit(u, row), UNCHANGED <<dispatches, fences>>,
           row.status \notin {"DISPATCHED", "RESULT_IN"},
           AwaitedIn(dispatches, u) = {} \/ row.fence = 0,
           \A v \in Units : Guarded(units, dispatches, fences, v)
    PROVE  /\ \A v \in Units : Guarded(units', dispatches', fences', v)
           /\ Easier(units, dispatches, units', dispatches')
<1>1. units' = [units EXCEPT ![u] = row]
  BY DEF SetUnit
<1>2. units'[u] = row /\ \A v \in Units \ {u} : units'[v] = units[v]
  BY <1>1 DEF RTypeOK
<1>3. \A v \in Units :
        \/ units'[v] = units[v]
        \/ /\ units'[v].status \notin {"DISPATCHED", "RESULT_IN"}
           /\ AwaitedIn(dispatches, v) = {} \/ units'[v].fence = 0
  BY <1>2
<1> QED
  BY <1>3, RowsMilder

LEMMA UnitMilder ==
    ASSUME RTypeOK, NEW u \in Units,
           \A v \in Units : Guarded(units, dispatches, fences, v)
    PROVE  /\ MarkUnitFailed(u) /\ ~Out(units, dispatches, u) =>
                /\ run' = run
                /\ \A v \in Units : Guarded(units', dispatches', fences', v)
                /\ Easier(units, dispatches, units', dispatches')
           /\ MarkUnitDone(u) =>
                /\ run' = run
                /\ \A v \in Units : Guarded(units', dispatches', fences', v)
                /\ Easier(units, dispatches, units', dispatches')
           /\ ReleaseClaimedUnit(u) =>
                /\ run' = run
                /\ \A v \in Units : Guarded(units', dispatches', fences', v)
                /\ Easier(units, dispatches, units', dispatches')
<1>1. /\ units[u] \in UnitRow /\ dispatches[u] \in Seq(Attempt)
      /\ Guarded(units, dispatches, fences, u)
  BY DEF RTypeOK
<1>2. ASSUME MarkUnitFailed(u), ~Out(units, dispatches, u)
      PROVE  /\ run' = run
             /\ \A v \in Units : Guarded(units', dispatches', fences', v)
             /\ Easier(units, dispatches, units', dispatches')
  <2> DEFINE st == IF units[u].retries < RetryCeiling THEN "READY" ELSE "FAILED"
             n == units[u].retries + 1
             row == [units[u] EXCEPT !.retries = n, !.status = st]
  <2>1. SetUnit(u, row) /\ UNCHANGED <<dispatches, fences>> /\ run' = run
    BY <1>2 DEF MarkUnitFailed, KeepAllBut
  <2>2. st \notin {"DISPATCHED", "RESULT_IN"}
    OBVIOUS
  <2> HIDE DEF st, n
  <2>3. row.status = st /\ row.fence = units[u].fence
    BY <1>1 DEF UnitRow
  <2> HIDE DEF row
  <2>4. AwaitedIn(dispatches, u) = {} \/ units[u].fence = 0
    BY <1>1, <1>2, NotOut
  <2> QED
    BY <2>1, <2>2, <2>3, <2>4, RowMilder
<1>3. ASSUME MarkUnitDone(u)
      PROVE  /\ run' = run
             /\ \A v \in Units : Guarded(units', dispatches', fences', v)
             /\ Easier(units, dispatches, units', dispatches')
  <2> DEFINE row == [units[u] EXCEPT !.status = "DONE"]
  <2>1. SetUnit(u, row) /\ UNCHANGED <<dispatches, fences>> /\ run' = run /\ CanFinish(u)
    BY <1>3 DEF MarkUnitDone, KeepAllBut
  <2>2. row.status = "DONE"
    BY <1>1 DEF UnitRow
  <2> HIDE DEF row
  <2>3. units[u].status = "RESULT_IN"
    BY <1>1, <2>1 DEF CanFinish, UnitRow, UnitStatus
  <2>4. AwaitedIn(dispatches, u) = {}
    BY <1>1, <2>3 DEF Guarded
  <2> QED
    BY <2>1, <2>2, <2>4, RowMilder
<1>4. ASSUME ReleaseClaimedUnit(u)
      PROVE  /\ run' = run
             /\ \A v \in Units : Guarded(units', dispatches', fences', v)
             /\ Easier(units, dispatches, units', dispatches')
  <2> DEFINE st == StatusFor(units[u].deps)
             row == [units[u] EXCEPT !.status = st, !.fence = 0]
  <2>1. SetUnit(u, row) /\ UNCHANGED <<dispatches, fences>> /\ run' = run
    BY <1>4 DEF ReleaseClaimedUnit, KeepAllBut
  <2>2. st \notin {"DISPATCHED", "RESULT_IN"}
    BY DEF StatusFor
  <2> HIDE DEF st
  <2>3. row.status = st /\ row.fence = 0
    BY <1>1 DEF UnitRow
  <2> HIDE DEF row
  <2> QED
    BY <2>1, <2>2, <2>3, RowMilder
<1> QED
  BY <1>2, <1>3, <1>4

LEMMA LaneMilder ==
    ASSUME RTypeOK, NEW l, \A v \in Units : Guarded(units, dispatches, fences, v),
           BlockLaneUnits(l) \/ UnblockLaneUnits(l)
    PROVE  /\ run' = run
           /\ \A v \in Units : Guarded(units', dispatches', fences', v)
           /\ Easier(units, dispatches, units', dispatches')
<1>1. run' = run /\ UNCHANGED <<dispatches, fences>>
  BY DEF BlockLaneUnits, UnblockLaneUnits, KeepAllBut
<1>2. \A v \in Units :
        \/ units'[v] = units[v]
        \/ /\ units[v].status \in {"PENDING", "READY", "BLOCKED"}
           /\ units'[v].status \in {"PENDING", "READY", "BLOCKED"}
           /\ units'[v].fence = units[v].fence
  <2> SUFFICES ASSUME NEW v \in Units, units'[v] # units[v]
               PROVE  /\ units[v].status \in {"PENDING", "READY", "BLOCKED"}
                      /\ units'[v].status \in {"PENDING", "READY", "BLOCKED"}
                      /\ units'[v].fence = units[v].fence
    OBVIOUS
  <2>1. units[v] \in UnitRow
    BY DEF RTypeOK
  <2>2. CASE BlockLaneUnits(l)
    <3>1. units[v].status \in {"PENDING", "READY"} /\ units'[v] = [units[v] EXCEPT !.status = "BLOCKED"]
      BY <2>2 DEF BlockLaneUnits
    <3> QED
      BY <2>1, <3>1 DEF UnitRow
  <2>3. CASE UnblockLaneUnits(l)
    <3> DEFINE st == StatusFor(units[v].deps)
    <3>1. units[v].status = "BLOCKED" /\ units'[v] = [units[v] EXCEPT !.status = st]
      BY <2>3 DEF UnblockLaneUnits
    <3>2. st \in {"PENDING", "READY"}
      BY DEF StatusFor
    <3> HIDE DEF st
    <3> QED
      BY <2>1, <3>1, <3>2 DEF UnitRow
  <2> QED
    BY <2>2, <2>3
<1>3. \A v \in Units :
        \/ units'[v] = units[v]
        \/ /\ units'[v].status \notin {"DISPATCHED", "RESULT_IN"}
           /\ AwaitedIn(dispatches, v) = {} \/ units'[v].fence = 0
  BY <1>2 DEF Guarded
<1> QED
  BY <1>1, <1>3, RowsMilder
LEMMA TailIs ==
    ASSUME NEW S, NEW a \in Seq(S), a # <<>>
    PROVE  LET b == Tail(a) IN
           /\ b \in Seq(S) /\ <<>> \o b = b
           /\ \A k \in 1 .. Len(b) : /\ k + 1 \in 2 .. Len(a) /\ k + 1 \in 1 .. Len(a)
                                      /\ b[k] = a[k + 1]
           /\ \A j, k \in 1 .. Len(b) : j < k => j + 1 < k + 1
<1> DEFINE b == Tail(a)
           m == Len(a)
           n == Len(b)
<1>1. b \in Seq(S) /\ m \in Nat \ {0} /\ n = m - 1
  OBVIOUS
<1>2. \A k \in 1 .. n : b[k] = a[k + 1]
  OBVIOUS
<1> HIDE DEF b
<1>3. <<>> \o b = b
  BY <1>1
<1> HIDE DEF m, n
<1>4. \A k \in 1 .. n : k + 1 \in 2 .. m /\ k + 1 \in 1 .. m
  BY <1>1
<1>5. \A j, k \in 1 .. n : j < k => j + 1 < k + 1
  BY <1>1
<1> QED
  BY <1>1, <1>2, <1>3, <1>4, <1>5 DEF b, m, n

\* What is left of an agenda whose head has brought a unit out.
LEMMA TailFenced ==
    ASSUME NEW a \in Seq(Entry), a # <<>>, NEW us, NEW ds, NEW fs, NEW r, Fenced(a, us, ds, fs, r),
           NEW vs, NEW es, NEW gs,
           \A k \in 2 .. Len(a) :
             Kept(a[k], vs, es, gs) /\ ~Lifts(a[k]) /\ a[k][1] # "stop fences"
    PROVE  Fenced(Tail(a), vs, es, gs, r)
<1> DEFINE b == Tail(a)
<1>1. /\ \A k \in 1 .. Len(b) : /\ k + 1 \in 2 .. Len(a) /\ k + 1 \in 1 .. Len(a)
                                 /\ b[k] = a[k + 1]
      /\ \A j, k \in 1 .. Len(b) : j < k => j + 1 < k + 1
  BY TailIs
<1> HIDE DEF b
<1>2. \A k \in 1 .. Len(b) : Kept(b[k], vs, es, gs) /\ ~Lifts(b[k]) /\ b[k][1] # "stop fences"
  BY <1>1
<1>3. ASSUME NEW j \in 1 .. Len(b), NEW k \in 1 .. Len(b), j < k
      PROVE  Follows(b[j], b[k])
  <2>1. /\ j + 1 \in 1 .. Len(a) /\ k + 1 \in 1 .. Len(a) /\ j + 1 < k + 1
        /\ b[j] = a[j + 1] /\ b[k] = a[k + 1]
    BY <1>1, <1>3
  <2>2. Follows(a[j + 1], a[k + 1])
    BY <2>1 DEF Fenced
  <2> QED
    BY <2>1, <2>2
<1>4. r = "FAILED_TERMINAL" => \A k \in 1 .. Len(b) : b[k][1] \in LateKinds
  BY <1>1 DEF Fenced
<1>5. Fenced(b, vs, es, gs, r)
  BY <1>2, <1>3, <1>4 DEF Fenced
<1> QED
  BY <1>5 DEF b

LEMMA SentOn ==
    ASSUME Meanwhile, OneCommand, NEW c \in Commands, p[c] # Idle, NEW q \in Underway,
           Continue(c, q, Rest(c)) \/ Continue(c, q, <<>> \o Rest(c)), run' = run,
           \A u \in Units : Guarded(units', dispatches', fences', u),
           \A k \in 2 .. Len(p[c].agenda) :
             LET e == p[c].agenda[k] IN
             Kept(e, units', dispatches', fences') /\ ~Lifts(e) /\ e[1] # "stop fences"
    PROVE  FenceInv'
<1> DEFINE a == p[c].agenda
           b == Tail(a)
<1>1. /\ CTypeOK /\ a \in Seq(Entry) /\ a # <<>>
      /\ Fenced(a, units, dispatches, fences, run)
  BY HeadFenced
<1>2. <<>> \o b = b
  <2> HIDE DEF a
  <2> QED
    BY <1>1, TailIs
<1>3. p'[c] # Idle => p'[c].agenda = b
  <2> DEFINE e == [q EXCEPT !.agenda = b]
             r == IF b = <<>> THEN Idle ELSE e
  <2>1. Continue(c, q, b)
    BY <1>2 DEF Rest
  <2>2. p' = [p EXCEPT ![c] = r]
    BY <2>1 DEF Continue
  <2>3. e.agenda = b
    BY DEF Underway
  <2> HIDE DEF e
  <2>4. r # Idle => r.agenda = b
    BY <2>3
  <2> HIDE DEF r
  <2> QED
    BY <1>1, <2>2, <2>4 DEF CTypeOK
<1>4. Fenced(b, units', dispatches', fences', run')
  <2> HIDE DEF a
  <2>1. \A k \in 2 .. Len(a) : /\ Kept(a[k], units', dispatches', fences')
                               /\ ~Lifts(a[k]) /\ a[k][1] # "stop fences"
    BY DEF a
  <2> QED
    BY <1>1, <2>1, TailFenced
<1> HIDE DEF b
<1> QED
  BY <1>3, <1>4, FenceFrame

\* A result recorded.
LEMMA ResultAltered ==
    ASSUME RTypeOK, NEW u \in Units, NEW i \in DOMAIN dispatches[u], RecordResult(u, i)
    PROVE  /\ units'[u].status = "RESULT_IN" /\ units'[u].fence = units[u].fence
           /\ \A v \in Units \ {u} : units'[v] = units[v]
           /\ \A v \in Units : /\ DOMAIN dispatches'[v] = DOMAIN dispatches[v]
                               /\ dispatches'[v] \in Seq(Attempt)
           /\ dispatches'[u][i].status = "RESULT_IN"
           /\ \A v \in Units : \A k \in DOMAIN dispatches[v] :
                v # u \/ k # i => dispatches'[v][k] = dispatches[v][k]
           /\ dispatches[u][i].status = "DISPATCHED" /\ fences' = fences /\ run' = run
<1> DEFINE att == [dispatches[u][i] EXCEPT !.status = "RESULT_IN"]
           row == [units[u] EXCEPT !.status = "RESULT_IN"]
<1>1. dispatches[u][i] \in Attempt /\ units[u] \in UnitRow
  BY DEF RTypeOK
<1>2. /\ Altered(u, i, att) /\ units' = [units EXCEPT ![u] = row]
      /\ fences' = fences /\ run' = run /\ dispatches[u][i].status = "DISPATCHED"
  BY DEF RecordResult, KeepAllBut, Altered, SetUnit, CanResult
<1>3. att \in Attempt /\ att.revision = dispatches[u][i].revision /\ att.status = "RESULT_IN"
  BY <1>1 DEF Attempt, Open
<1>4. row.status = "RESULT_IN" /\ row.fence = units[u].fence
  BY <1>1 DEF UnitRow
<1> HIDE DEF att, row
<1>5. units'[u] = row /\ \A v \in Units \ {u} : units'[v] = units[v]
  BY <1>2 DEF RTypeOK
<1>6. /\ AttemptsOK(dispatches', contract.revision)
      /\ dispatches'[u][i] = att
      /\ \A v \in Units : DOMAIN dispatches'[v] = DOMAIN dispatches[v]
      /\ \A v \in Units : \A k \in DOMAIN dispatches[v] :
           v # u \/ k # i => dispatches'[v][k] = dispatches[v][k]
  BY <1>2, <1>3, AttemptAltered
<1>7. \A v \in Units : dispatches'[v] \in Seq(Attempt)
  BY <1>6 DEF AttemptsOK
<1> QED
  BY <1>2, <1>3, <1>4, <1>5, <1>6, <1>7

LEMMA ResultGuarded ==
    ASSUME RTypeOK, NEW u \in Units, NEW i \in DOMAIN dispatches[u], RecordResult(u, i),
           \A v \in Units : Guarded(units, dispatches, fences, v)
    PROVE  /\ \A v \in Units : Guarded(units', dispatches', fences', v)
           /\ i = Len(dispatches'[u])
<1>1. /\ units'[u].status = "RESULT_IN" /\ units'[u].fence = units[u].fence
      /\ \A v \in Units \ {u} : units'[v] = units[v]
      /\ \A v \in Units : /\ DOMAIN dispatches'[v] = DOMAIN dispatches[v]
                          /\ dispatches'[v] \in Seq(Attempt) /\ dispatches[v] \in Seq(Attempt)
      /\ dispatches'[u][i].status = "RESULT_IN"
      /\ \A v \in Units : \A k \in DOMAIN dispatches[v] :
                v # u \/ k # i => dispatches'[v][k] = dispatches[v][k]
      /\ dispatches[u][i].status = "DISPATCHED" /\ fences' = fences
  BY ResultAltered DEF RTypeOK
<1>2. \A v \in Units : Len(dispatches'[v]) = Len(dispatches[v])
  BY <1>1, SameLength
<1>3. i \in AwaitedIn(dispatches, u)
  BY <1>1 DEF AwaitedIn
<1>4. i = Len(dispatches[u]) /\ i = Len(dispatches'[u]) /\ dispatches[u] # <<>>
  BY <1>1, <1>2, <1>3 DEF Guarded
<1>5. AwaitedIn(dispatches', u) = {}
  <2> SUFFICES ASSUME NEW k \in AwaitedIn(dispatches', u)
               PROVE  FALSE
    OBVIOUS
  <2>1. k \in DOMAIN dispatches[u] /\ dispatches'[u][k].status = "DISPATCHED"
    BY <1>1 DEF AwaitedIn
  <2>2. k # i
    BY <1>1, <2>1
  <2>3. k \in AwaitedIn(dispatches, u)
    BY <1>1, <2>1, <2>2 DEF AwaitedIn
  <2> QED
    BY <1>4, <2>2, <2>3 DEF Guarded
<1>6. HeldBy(fences, u, units[u].fence)
  <2>1. units[u].status = "DISPATCHED" \/ units[u].fence = 0
    BY <1>3 DEF Guarded
  <2>2. CASE units[u].status = "DISPATCHED"
    <3>1. Out(units, dispatches, u)
      BY <1>1, <1>4, <2>2 DEF Out, Open
    <3> QED
      BY <3>1 DEF Guarded
  <2>3. CASE units[u].fence = 0
    BY <2>3 DEF HeldBy
  <2> QED
    BY <2>1, <2>2, <2>3
<1>7. Guarded(units', dispatches', fences', u)
  BY <1>1, <1>5, <1>6 DEF Guarded
<1>8. ASSUME NEW v \in Units \ {u}
      PROVE  Guarded(units', dispatches', fences', v)
  <2>1. /\ units'[v] = units[v] /\ fences' = fences
        /\ \A k \in DOMAIN dispatches[v] :
             \/ dispatches'[v][k].status = dispatches[v][k].status
             \/ dispatches'[v][k].status \notin Open
    BY <1>1
  <2>2. /\ dispatches[v] \in Seq(Attempt) /\ dispatches'[v] \in Seq(Attempt)
        /\ Len(dispatches'[v]) = Len(dispatches[v])
        /\ Guarded(units, dispatches, fences, v)
    BY <1>1, <1>2
  <2>3. Guarded(units', dispatches', fences, v)
    BY <2>1, <2>2, Milder, SMTT(30)
  <2> QED
    BY <1>1, <2>3
<1> QED
  BY <1>4, <1>7, <1>8

LEMMA RecordFenced ==
    ASSUME Meanwhile, OneCommand, NEW c \in Commands, p[c] # Idle,
           Head(p[c].agenda)[1] = "record", Continue(c, p[c], <<>> \o Rest(c)),
           RecordResult(Head(p[c].agenda)[2], Head(p[c].agenda)[3])
    PROVE  FenceInv'
<1> DEFINE a == p[c].agenda
           u == a[1][2]
           i == a[1][3]
<1>1. /\ RTypeOK /\ a \in Seq(Entry) /\ a # <<>> /\ Head(a) = a[1] /\ a[1] \in Entry
      /\ Fenced(a, units, dispatches, fences, run) /\ p[c] \in Underway
      /\ Sound(a[1], units, dispatches, fences, contract.revision)
      /\ \A v \in Units : Guarded(units, dispatches, fences, v)
  BY HeadFenced
<1>2. a[1][1] = "record" /\ RecordResult(u, i)
  BY <1>1
<1> HIDE DEF a
<1>3. u \in Units /\ i \in DOMAIN dispatches[u]
  BY <1>1, <1>2, EntryShape DEF Sound, Numbered
<1>4. /\ \A v \in Units : Guarded(units', dispatches', fences', v)
      /\ i = Len(dispatches'[u]) /\ run' = run
  BY <1>1, <1>2, <1>3, ResultGuarded DEF RecordResult, KeepAllBut
<1>5. \A k \in 2 .. Len(a) : /\ Kept(a[k], units', dispatches', fences')
                             /\ ~Lifts(a[k]) /\ a[k][1] # "stop fences"
  <2> SUFFICES ASSUME NEW k \in 2 .. Len(a)
               PROVE  /\ Kept(a[k], units', dispatches', fences')
                      /\ ~Lifts(a[k]) /\ a[k][1] # "stop fences"
    OBVIOUS
  <2>1. 1 \in 1 .. Len(a) /\ k \in 1 .. Len(a) /\ 1 < k
    BY <1>1
  <2>2. Follows(a[1], a[k])
    BY <1>1, <2>1 DEF Fenced
  <2>3. a[k][1] = "received" /\ a[k][2] = u /\ a[k][3] = i
    BY <1>2, <2>2 DEF Follows
  <2>4. Reaches(a[k]) = {}
    BY <2>3 DEF Reaches
  <2> HIDE DEF u, i
  <2> QED
    BY <1>4, <2>3, <2>4 DEF Kept, Lifts
<1> HIDE DEF u, i
<1>6. \A k \in 2 .. Len(p[c].agenda) :
             LET e == p[c].agenda[k] IN
             Kept(e, units', dispatches', fences') /\ ~Lifts(e) /\ e[1] # "stop fences"
  BY <1>5 DEF a
<1> QED
  BY <1>1, <1>4, <1>6, SentOn

LEMMA TransactionFenced ==
    ASSUME Meanwhile, OneCommand, NEW c \in Commands, Transaction(c)
    PROVE  FenceInv'
<1> DEFINE h == Head(p[c].agenda)
<1>1. /\ p[c] # Idle /\ CTypeOK /\ RTypeOK /\ p[c] \in Underway /\ h \in Entry
      /\ Kept(h, units, dispatches, fences)
      /\ Sound(h, units, dispatches, fences, contract.revision)
      /\ Lifts(h) => ~Out(units, dispatches, h[2])
      /\ \A u \in Units : Guarded(units, dispatches, fences, u)
  BY HeadFenced DEF Transaction, At
<1> HIDE DEF h
<1>2. ASSUME Continue(c, p[c], <<>>), UNCHANGED tables
      PROVE  FenceInv'
  BY <1>1, <1>2, FenceOver DEF Meanwhile
<1>3. ASSUME h[1] \notin {"move", "reject", "accept"}, Continue(c, p[c], <<>> \o Rest(c)), run' = run,
             \A u \in Units : Guarded(units', dispatches', fences', u),
             Easier(units, dispatches, units', dispatches')
      PROVE  FenceInv'
  <2>1. ~ToStopping(h) /\ \A u \in Units : ~Ends(h, u)
    BY <1>3 DEF ToStopping, Ends
  <2> QED
    BY <1>1, <1>3, <2>1, CarriedOn DEF h
<1>4. CASE At(c, "move") /\ Do(c, CanMove(Arg(c, 2)), SetRunState(Arg(c, 2)), <<>>)
  <2>1. \/ Continue(c, p[c], <<>>) /\ UNCHANGED tables
        \/ /\ h[1] = "move" /\ run' = h[2] /\ UNCHANGED <<units, dispatches, fences>>
           /\ Continue(c, p[c], <<>> \o Rest(c))
    BY <1>4 DEF At, Arg, Do, SetRunState, h
  <2>2. ASSUME h[1] = "move", run' = h[2], UNCHANGED <<units, dispatches, fences>>,
               Continue(c, p[c], <<>> \o Rest(c))
        PROVE  FenceInv'
    <3>1. CASE h[2] = "STOPPING"
      BY <2>2, <3>1 DEF FenceInv, Stopped
    <3>2. CASE h[2] # "STOPPING"
      <4>1. /\ ~ToStopping(h) /\ \A u \in Units : ~Ends(h, u)
            /\ run' = "FAILED_TERMINAL" => Fatal(h)
        BY <2>2, <3>2 DEF ToStopping, Ends, Fatal
      <4>2. \A u \in Units : Guarded(units', dispatches', fences', u)
        BY <1>1, <2>2, SameGuarded
      <4>3. Easier(units, dispatches, units', dispatches')
        BY <2>2, SameEasier
      <4> QED
        BY <1>1, <2>2, <4>1, <4>2, <4>3, CarriedOn DEF h
    <3> QED
      BY <3>1, <3>2
  <2> QED
    BY <1>2, <2>1, <2>2
<1>5. CASE At(c, "park") /\ Do(c, TRUE, ReleaseFence(Arg(c, 2), Arg(c, 3)), <<>>)
  <2>1. h[1] = "park" /\ ReleaseFence(h[2], h[3]) /\ Continue(c, p[c], <<>> \o Rest(c))
    BY <1>5 DEF At, Arg, Do, h
  <2>2. h[2] \in Units /\ ~Out(units, dispatches, h[2])
    BY <1>1, <2>1, EntryShape DEF Lifts
  <2>3. /\ run' = run
        /\ \A u \in Units : Guarded(units', dispatches', fences', u)
        /\ Easier(units, dispatches, units', dispatches')
    BY <1>1, <2>1, <2>2, FenceGone
  <2> QED
    BY <1>3, <2>1, <2>3
<1>6. CASE At(c, "tell") /\ Do(c, TRUE, QueueHumanStep(Arg(c, 2)), <<>>)
  <2>1. /\ h[1] = "tell" /\ UNCHANGED <<run, units, dispatches, fences>>
        /\ Continue(c, p[c], <<>> \o Rest(c))
    BY <1>6 DEF At, Arg, Do, h, QueueHumanStep
  <2>2. \A u \in Units : Guarded(units', dispatches', fences', u)
    BY <1>1, <2>1, SameGuarded
  <2>3. Easier(units, dispatches, units', dispatches')
    BY <2>1, SameEasier
  <2> QED
    BY <1>3, <2>1, <2>2, <2>3
<1>7. CASE \/ At(c, "block") /\ Do(c, TRUE, BlockLaneUnits(Arg(c, 2)), <<>>)
           \/ At(c, "unblock") /\ Do(c, TRUE, UnblockLaneUnits(Arg(c, 2)), <<>>)
  <2>1. /\ h[1] \in {"block", "unblock"} /\ Continue(c, p[c], <<>> \o Rest(c))
        /\ BlockLaneUnits(h[2]) \/ UnblockLaneUnits(h[2])
    BY <1>7 DEF At, Arg, Do, h
  <2>2. /\ run' = run
        /\ \A u \in Units : Guarded(units', dispatches', fences', u)
        /\ Easier(units, dispatches, units', dispatches')
    BY <1>1, <2>1, LaneMilder
  <2> QED
    BY <1>3, <2>1, <2>2
<1>8. CASE \/ At(c, "fail") /\ Do(c, TRUE, MarkUnitFailed(Arg(c, 2)), <<>>)
           \/ At(c, "done") /\ Do(c, CanFinish(Arg(c, 2)), MarkUnitDone(Arg(c, 2)), <<>>)
           \/ /\ At(c, "release")
              /\ Do(c, CanRelease(Arg(c, 2)), ReleaseClaimedUnit(Arg(c, 2)), <<>>)
  <2>1. \/ Continue(c, p[c], <<>>) /\ UNCHANGED tables
        \/ /\ h[1] \in {"fail", "done", "release"} /\ Continue(c, p[c], <<>> \o Rest(c))
           /\ \/ h[1] = "fail" /\ MarkUnitFailed(h[2])
              \/ MarkUnitDone(h[2])
              \/ ReleaseClaimedUnit(h[2])
    BY <1>8 DEF At, Arg, Do, h
  <2>2. ASSUME h[1] \in {"fail", "done", "release"}, Continue(c, p[c], <<>> \o Rest(c)),
               \/ h[1] = "fail" /\ MarkUnitFailed(h[2])
               \/ MarkUnitDone(h[2])
               \/ ReleaseClaimedUnit(h[2])
        PROVE  FenceInv'
    <3>1. h[2] \in Units /\ (h[1] = "fail" => ~Out(units, dispatches, h[2]))
      BY <1>1, <2>2, EntryShape DEF Lifts
    <3>2. /\ run' = run
          /\ \A u \in Units : Guarded(units', dispatches', fences', u)
          /\ Easier(units, dispatches, units', dispatches')
      BY <1>1, <2>2, <3>1, UnitMilder
    <3> QED
      BY <1>3, <2>2, <3>2
  <2> QED
    BY <1>2, <2>1, <2>2
<1>9. CASE At(c, "record") /\ Do(c, CanResult(Arg(c, 2), Arg(c, 3)),
                                RecordResult(Arg(c, 2), Arg(c, 3)), <<>>)
  <2>1. \/ Continue(c, p[c], <<>>) /\ UNCHANGED tables
        \/ h[1] = "record" /\ RecordResult(h[2], h[3]) /\ Continue(c, p[c], <<>> \o Rest(c))
    BY <1>9 DEF At, Arg, Do, h
  <2> QED
    BY <1>1, <1>2, <2>1, RecordFenced DEF h
<1>10. CASE \/ At(c, "reject") /\ Do(c, CanVerify(Arg(c, 2), Arg(c, 3)),
                                 RecordVerification(Arg(c, 2), Arg(c, 3), FALSE, 0), <<>>)
            \/ At(c, "accept") /\ Do(c, CanVerify(Arg(c, 2), Arg(c, 3)),
                                 RecordVerification(Arg(c, 2), Arg(c, 3), TRUE, Arg(c, 4)), <<>>)
  <2>1. \/ Continue(c, p[c], <<>>) /\ UNCHANGED tables
        \/ /\ h[1] \in {"reject", "accept"} /\ Continue(c, p[c], <<>> \o Rest(c))
           /\ \/ RecordVerification(h[2], h[3], FALSE, 0)
              \/ h[1] = "accept" /\ RecordVerification(h[2], h[3], TRUE, h[4])
    BY <1>10 DEF At, Arg, Do, h
  <2>2. ASSUME h[1] \in {"reject", "accept"}, Continue(c, p[c], <<>> \o Rest(c)),
               \/ RecordVerification(h[2], h[3], FALSE, 0)
               \/ h[1] = "accept" /\ RecordVerification(h[2], h[3], TRUE, h[4])
        PROVE  FenceInv'
    <3>1. /\ h[2] \in Units /\ h[3] \in DOMAIN dispatches[h[2]]
          /\ h[1] = "accept" => h[4] \in Nat
          /\ Out(units, dispatches, h[2]) => h[3] = Len(dispatches[h[2]])
      BY <1>1, <2>2, EntryShape DEF Sound, Numbered, Kept
    <3>2. PICK accepted \in BOOLEAN, def \in Nat : RecordVerification(h[2], h[3], accepted, def)
      BY <2>2, <3>1
    <3>3. /\ run' = run
          /\ \A v \in Units : Guarded(units', dispatches', fences', v)
          /\ Easier(units, dispatches, units', dispatches')
          /\ ~Out(units', dispatches', h[2])
      BY <1>1, <3>1, <3>2, VerdictMilder
    <3>4. ~ToStopping(h) /\ \A u \in Units : Ends(h, u) => u = h[2]
      BY <2>2 DEF ToStopping, Ends
    <3> QED
      BY <1>1, <2>2, <3>3, <3>4, CarriedOn DEF h
  <2> QED
    BY <1>2, <2>1, <2>2
<1> QED
  BY <1>4, <1>5, <1>6, <1>7, <1>8, <1>9, <1>10 DEF Transaction
-----------------------------------------------------------------------------
(* Lists of entries that lift nothing *)

LEMMA LooseMoves ==
    ASSUME NEW path \in Seq(RunStates), \A i \in 1 .. Len(path) : path[i] # "FAILED_TERMINAL"
    PROVE  AllLoose(Moves(path))
<1>1. Moves(path) = [i \in 1 .. Len(path) |-> <<"move", path[i]>>] /\ Len(path) \in Nat
  BY DEF Moves
<1>2. Moves(path) \in Seq(Plain)
  BY MovesAre
<1>3. Lists(Moves(path))
  BY <1>2, SeqLists
<1>4. Len(Moves(path)) = Len(path) /\ \A i \in 1 .. Len(path) : Moves(path)[i] = <<"move", path[i]>>
  BY <1>1, <1>2
<1>5. \A i \in 1 .. Len(path) : Loose(Moves(path)[i])
  BY <1>4, LooseMade
<1> QED
  BY <1>3, <1>4, <1>5 DEF AllLoose

LEMMA LoosePaths ==
    /\ \A s \in RunStates \ {"FAILED_TERMINAL"} : AllLoose(Moves(<<s>>))
    /\ \A s, r \in RunStates \ {"FAILED_TERMINAL"} : AllLoose(Moves(<<s, r>>))
    /\ AllLoose(Moves(<<>>)) /\ AllLoose(<<>>) /\ Late(Moves(<<>>)) /\ Late(<<>>)
<1>1. ASSUME NEW s \in RunStates \ {"FAILED_TERMINAL"}
      PROVE  AllLoose(Moves(<<s>>))
  <2> DEFINE a == <<s>>
  <2>1. a \in Seq(RunStates) /\ \A i \in 1 .. Len(a) : a[i] # "FAILED_TERMINAL"
    OBVIOUS
  <2> HIDE DEF a
  <2>2. AllLoose(Moves(a))
    BY <2>1, LooseMoves
  <2> QED
    BY <2>2 DEF a
<1>2. ASSUME NEW s \in RunStates \ {"FAILED_TERMINAL"}, NEW r \in RunStates \ {"FAILED_TERMINAL"}
      PROVE  AllLoose(Moves(<<s, r>>))
  <2> DEFINE a == <<s, r>>
  <2>1. a \in Seq(RunStates) /\ \A i \in 1 .. Len(a) : a[i] # "FAILED_TERMINAL"
    OBVIOUS
  <2> HIDE DEF a
  <2>2. AllLoose(Moves(a))
    BY <2>1, LooseMoves
  <2> QED
    BY <2>2 DEF a
<1>3. Lists(<<>>) /\ Len(<<>>) = 0 /\ 1 .. 0 = {}
  BY EmptyList
<1>4. Moves(<<>>) = <<>>
  BY DEF Moves
<1>5. AllLoose(<<>>) /\ Late(<<>>)
  BY <1>3 DEF AllLoose, Late
<1> QED
  BY <1>1, <1>2, <1>4, <1>5

LEMMA LooseJoined ==
    ASSUME NEW m, NEW n, AllLoose(m), AllLoose(n)
    PROVE  AllLoose(m \o n) /\ (Late(m) /\ Late(n) => Late(m \o n))
<1> DEFINE b == m \o n
<1>1. /\ Lists(b) /\ Len(m) \in Nat /\ Len(n) \in Nat /\ Len(b) = Len(m) + Len(n)
      /\ \A k \in 1 .. Len(b) :
           \/ k \in 1 .. Len(m) /\ b[k] = m[k]
           \/ k - Len(m) \in 1 .. Len(n) /\ b[k] = n[k - Len(m)]
  BY Joined DEF AllLoose
<1> HIDE DEF b
<1>2. AllLoose(b)
  BY <1>1 DEF AllLoose
<1>3. Late(m) /\ Late(n) => Late(b)
  BY <1>1 DEF Late
<1> QED
  BY <1>2, <1>3 DEF b

LEMMA LooseLists ==
    ASSUME NEW x, NEW y, NEW z
    PROVE  /\ Loose(z) => AllLoose(<<z>>)
           /\ Loose(y) /\ Loose(z) => AllLoose(<<y, z>>)
           /\ Loose(x) /\ Loose(y) /\ Loose(z) => AllLoose(<<x, y, z>>)
           /\ z[1] \in LateKinds => Late(<<z>>)
           /\ y[1] \in LateKinds /\ z[1] \in LateKinds => Late(<<y, z>>)
           /\ x[1] \in LateKinds /\ y[1] \in LateKinds /\ z[1] \in LateKinds => Late(<<x, y, z>>)
<1> DEFINE a == <<z>>
           b == <<y, z>>
           d == <<x, y, z>>
<1>1. /\ Lists(a) /\ Len(a) = 1 /\ a[1] = z
      /\ Lists(b) /\ Len(b) = 2 /\ b[1] = y /\ b[2] = z
      /\ Lists(d) /\ Len(d) = 3 /\ d[1] = x /\ d[2] = y /\ d[3] = z
  BY ListsMade
<1> HIDE DEF a, b, d
<1>2. /\ Loose(z) => AllLoose(a)
      /\ Loose(y) /\ Loose(z) => AllLoose(b)
      /\ Loose(x) /\ Loose(y) /\ Loose(z) => AllLoose(d)
  BY <1>1 DEF AllLoose
<1>3. /\ z[1] \in LateKinds => Late(a)
      /\ y[1] \in LateKinds /\ z[1] \in LateKinds => Late(b)
      /\ x[1] \in LateKinds /\ y[1] \in LateKinds /\ z[1] \in LateKinds => Late(d)
  BY <1>1 DEF Late
<1> QED
  BY <1>2, <1>3 DEF a, b, d

LEMMA SetLoose ==
    ASSUME NEW S, IsFiniteSet(S), \A x \in S : Loose(x)
    PROVE  AllLoose(SetToSeq(S)) /\ ((\A x \in S : x[1] \in LateKinds) => Late(SetToSeq(S)))
<1> DEFINE a == SetToSeq(S)
<1>1. Lists(a) /\ \A k \in 1 .. Len(a) : a[k] \in S
  BY SetLists
<1> HIDE DEF a
<1>2. AllLoose(a) /\ ((\A x \in S : x[1] \in LateKinds) => Late(a))
  BY <1>1 DEF AllLoose, Late
<1> QED
  BY <1>2 DEF a

LEMMA WalksLoose ==
    /\ AllLoose(Walk) /\ AllLoose(Ensure) /\ AllLoose(Unwind)
<1>1. /\ AllLoose(Moves(<<"READY", "EXECUTING">>)) /\ AllLoose(Moves(<<"EXECUTING">>))
      /\ AllLoose(Moves(<<"VERIFYING">>)) /\ AllLoose(Moves(<<"VERIFYING", "CHECKPOINTED">>))
      /\ AllLoose(Moves(<<>>)) /\ AllLoose(<<>>)
  <2>1. {"READY", "EXECUTING", "VERIFYING", "CHECKPOINTED"} \subseteq RunStates \ {"FAILED_TERMINAL"}
    BY DEF RunStates
  <2> QED
    BY <2>1, LoosePaths
<1>2. Walk \in {Moves(<<"READY", "EXECUTING">>), Moves(<<"EXECUTING">>), Moves(<<>>)}
  BY DEF Walk
<1>3. /\ Ensure \in {Moves(<<"VERIFYING">>), <<>>}
      /\ Unwind \in {Moves(<<"VERIFYING", "CHECKPOINTED">>), <<>>}
  BY DEF Ensure, Unwind
<1> QED
  BY <1>1, <1>2, <1>3

LEMMA ReconcileLoose == AllLoose(Reconcile) /\ Late(Reconcile)
<1> DEFINE N == {k \in gated : WaitingIn(k, {"PENDING", "READY"})}
           U == {k \in Lanes \ gated : WaitingIn(k, {"BLOCKED"})}
           A == {<<"block", l>> : l \in N} \cup {<<"unblock", l>> : l \in U}
<1>1. IsFiniteSet(A)
  <2> DEFINE f == [l \in N |-> <<"block", l>>]
             g == [l \in U |-> <<"unblock", l>>]
  <2>1. N \subseteq Lanes /\ U \subseteq Lanes
    BY UnitAssumptions DEF WaitingIn
  <2>2. IsFiniteSet(N) /\ IsFiniteSet(U)
    BY <2>1, FS_Subset, UnitAssumptions
  <2>3. IsFiniteSet({f[l] : l \in N}) /\ IsFiniteSet({g[l] : l \in U})
    <3> HIDE DEF N, U
    <3> QED
      BY <2>2, ImageFinite
  <2>4. A = {f[l] : l \in N} \cup {g[l] : l \in U}
    OBVIOUS
  <2> QED
    BY <2>3, <2>4, FS_Union
<1>2. \A x \in A : Loose(x)
  BY LooseMade
<1>3. \A x \in A : x[1] \in LateKinds
  BY DEF LateKinds
<1>4. Reconcile = SetToSeq(A)
  BY DEF Reconcile
<1> HIDE DEF A
<1> QED
  BY <1>1, <1>2, <1>3, <1>4, SetLoose

\* A decision, or the end of the command.
LEMMA LooselyDecided ==
    ASSUME Meanwhile, OneCommand, NEW c \in Commands, p[c] # Idle,
           Head(p[c].agenda)[1] \notin {"move", "reject", "accept"},
           \/ End(c)
           \/ \E more : /\ AllLoose(more) /\ Decide(c, more)
                        /\ run = "FAILED_TERMINAL" => Late(more)
    PROVE  FenceInv'
<1>1. p[c] \in Underway /\ CTypeOK
  BY HeadFenced
<1>2. CASE End(c)
  BY <1>1, <1>2, FenceOver DEF End, Meanwhile
<1>3. CASE \E more : /\ AllLoose(more) /\ Decide(c, more)
                     /\ run = "FAILED_TERMINAL" => Late(more)
  BY <1>1, <1>3, LooseStep DEF Decide
<1> QED
  BY <1>2, <1>3

LEMMA LookFenced ==
    ASSUME Meanwhile, OneCommand, NEW c \in Commands, Look(c)
    PROVE  FenceInv'
<1> DEFINE h == Head(p[c].agenda)
<1>1. p[c] # Idle /\ (run = "FAILED_TERMINAL" => h[1] \in LateKinds)
  BY HeadFenced DEF Look, At
<1>2. \/ h[1] = "walk" /\ Decide(c, Walk)
      \/ h[1] = "ensure" /\ Decide(c, Ensure)
      \/ h[1] = "unwind" /\ Decide(c, Unwind)
      \/ h[1] = "reconcile" /\ Decide(c, Reconcile)
  BY DEF Look, At
<1>3. \E more : /\ AllLoose(more) /\ Decide(c, more)
                /\ run = "FAILED_TERMINAL" => Late(more)
  BY <1>1, <1>2, WalksLoose, ReconcileLoose DEF LateKinds
<1>4. h[1] \notin {"move", "reject", "accept"}
  BY <1>2
<1> HIDE DEF h
<1> QED
  BY <1>1, <1>3, <1>4, LooselyDecided DEF h
-----------------------------------------------------------------------------
(* Judging *)

\* Entries about one attempt of a unit.
Pieces(u, i, n, d, s) ==
    {<<"reject", u, i>>, <<"accept", u, i, d>>, <<"fail", u>>, <<"done", u>>, <<"tell", u>>,
     Park(u, n), <<"rollback", u, n, s>>, <<"reconcile">>}
Given(m, u, us, ds, fs, r) ==
    /\ About(m, u, us, ds, fs, r)
    /\ \A k \in 1 .. Len(m) : /\ ~Sends(m[k]) /\ m[k][1] # "record"
                              /\ Fatal(m[k]) => m[k][1] = "rollback"

LiftsOnly(e, u) == Lifts(e) => e[2] = u

LEMMA VerdictEntries ==
    ASSUME NEW u, NEW i, NEW n, NEW d, NEW s, NEW e \in Pieces(u, i, n, d, s)
    PROVE  /\ LiftsOnly(e, u)
           /\ e[1] # "stop fences" /\ ~Sends(e) /\ e[1] # "record"
           /\ e[1] \notin {"claim", "dispatch"}
           /\ Fatal(e) => e[1] = "rollback"
<1>1. e[1] \in {"reject", "accept", "fail", "done", "tell", "park", "rollback", "reconcile"}
  BY DEF Pieces, Park
<1>2. e[1] \in {"park", "fail", "rollback"} => e[2] = u
  BY DEF Pieces, Park
<1> QED
  BY <1>1, <1>2 DEF LiftsOnly, Lifts, Sends, Sending, Fatal

LEMMA VerdictKept ==
    ASSUME NEW u, NEW i, NEW n, NEW d, NEW s, NEW us, NEW ds, NEW fs,
           Out(us, ds, u) => i = Len(ds[u])
    PROVE  \A e \in Pieces(u, i, n, d, s) : Kept(e, us, ds, fs)
<1> SUFFICES ASSUME NEW e \in Pieces(u, i, n, d, s)
             PROVE  Kept(e, us, ds, fs)
  OBVIOUS
<1>1. e[1] \in {"reject", "accept", "fail", "done", "tell", "park", "rollback", "reconcile"}
  BY DEF Pieces, Park
<1>2. e[1] \in {"reject", "accept"} => e[2] = u /\ e[3] = i
  BY DEF Pieces, Park
<1>3. e[1] \in Numbered => (Out(us, ds, e[2]) => e[3] = Len(ds[e[2]]))
  BY <1>1, <1>2 DEF Numbered
<1>4. Reaches(e) = {}
  BY <1>1 DEF Reaches
<1> QED
  BY <1>1, <1>3, <1>4 DEF Kept

\* A list of such entries, that begins with the verdict.
LEMMA AboutMade ==
    ASSUME NEW u, NEW i, NEW n, NEW d, NEW s, NEW us, NEW ds, NEW fs, NEW r,
           Out(us, ds, u) => i = Len(ds[u]), NEW m, Lists(m), Len(m) >= 1, Len(m) \in Nat,
           m[1] \in {<<"reject", u, i>>, <<"accept", u, i, d>>},
           \A k \in 1 .. Len(m) :
             /\ m[k] \in Pieces(u, i, n, d, s)
             /\ m[k][1] = "rollback" =>
                  \A j \in 1 .. Len(m) : j > k => m[j][1] \in LateKinds,
           r = "FAILED_TERMINAL" => Late(m)
    PROVE  Given(m, u, us, ds, fs, r)
<1> DEFINE S == Pieces(u, i, n, d, s)
<1>1. \A e \in S :
        /\ Lifts(e) => e[2] = u
        /\ e[1] # "stop fences" /\ ~Sends(e) /\ e[1] # "record"
        /\ e[1] \notin {"claim", "dispatch"}
        /\ Fatal(e) => e[1] = "rollback"
        /\ Kept(e, us, ds, fs)
  <2>1. \A e \in S :
          /\ LiftsOnly(e, u)
          /\ e[1] # "stop fences" /\ ~Sends(e) /\ e[1] # "record"
          /\ e[1] \notin {"claim", "dispatch"}
          /\ Fatal(e) => e[1] = "rollback"
    BY VerdictEntries
  <2>2. \A e \in S : Kept(e, us, ds, fs)
    BY VerdictKept
  <2> HIDE DEF S
  <2> QED
    BY <2>1, <2>2 DEF LiftsOnly
<1>2. Ends(m[1], u)
  BY DEF Ends
<1>3. \A k \in 1 .. Len(m) : m[k] \in S
  OBVIOUS
<1> HIDE DEF S
<1>4. \A k \in 1 .. Len(m) : /\ Kept(m[k], us, ds, fs) /\ (Lifts(m[k]) => m[k][2] = u)
                             /\ m[k][1] # "stop fences" /\ ~Sends(m[k]) /\ m[k][1] # "record"
                             /\ m[k][1] \notin {"claim", "dispatch"}
                             /\ Fatal(m[k]) => m[k][1] = "rollback"
  BY <1>1, <1>3
<1>5. \A j, k \in 1 .. Len(m) : j < k => Follows(m[j], m[k])
  BY <1>4 DEF Follows
<1>6. About(m, u, us, ds, fs, r)
  BY <1>2, <1>4, <1>5 DEF About
<1> QED
  BY <1>4, <1>6 DEF Given

\* The lists there are.
LEMMA VerdictLists ==
    ASSUME NEW u, NEW i, NEW n, NEW d, NEW s, NEW us, NEW ds, NEW fs, NEW r,
           Out(us, ds, u) => i = Len(ds[u])
    PROVE  LET A(m) == Given(m, u, us, ds, fs, r)
               rej == <<"reject", u, i>>
               acc == <<"accept", u, i, d>>
               f == <<"fail", u>>
               dn == <<"done", u>>
               t == <<"tell", u>>
               k == Park(u, n)
               b == <<"rollback", u, n, s>>
               c == <<"reconcile">>
           IN /\ A(<<rej, f, k, t>>) /\ A(<<rej, f, k>>) /\ A(<<rej, k, f>>)
              /\ A(<<rej, f, t, k, c>>)
              /\ r # "FAILED_TERMINAL" =>
                   A(<<rej, f, b>>) /\ A(<<rej, f, b, t>>) /\ A(<<acc, dn, k>>)
<1> DEFINE A(m) == Given(m, u, us, ds, fs, r)
           rej == <<"reject", u, i>>
           acc == <<"accept", u, i, d>>
           f == <<"fail", u>>
           dn == <<"done", u>>
           t == <<"tell", u>>
           k == Park(u, n)
           b == <<"rollback", u, n, s>>
           c == <<"reconcile">>
           S == Pieces(u, i, n, d, s)
<1>1. ASSUME NEW m, Lists(m), Len(m) >= 1, Len(m) \in Nat, m[1] \in {rej, acc},
             \A j \in 1 .. Len(m) : m[j] \in S,
             \A j \in 1 .. Len(m) : m[j][1] = "rollback" =>
               \A l \in 1 .. Len(m) : l > j => m[l][1] \in LateKinds,
             r = "FAILED_TERMINAL" => Late(m)
      PROVE  A(m)
  BY <1>1, AboutMade
<1> HIDE DEF A
<1>2. /\ rej[1] \in LateKinds /\ f[1] \in LateKinds /\ t[1] \in LateKinds /\ k[1] \in LateKinds
      /\ c[1] \in LateKinds
      /\ \A e \in {rej, acc, f, dn, t, k, c} : e[1] # "rollback"
  BY DEF LateKinds, Park
<1>3. S = {rej, acc, f, dn, t, k, b, c}
  BY DEF Pieces
<1> HIDE DEF rej, acc, f, dn, t, k, b, c, S
<1>4. A(<<rej, f, k, t>>)
  <2> DEFINE m == <<rej, f, k, t>>
  <2>1. Lists(m) /\ Len(m) = 4 /\ m[1] = rej /\ m[2] = f /\ m[3] = k /\ m[4] = t
    BY ListsMade
  <2> HIDE DEF m
  <2>2. \A j \in 1 .. Len(m) : m[j] \in {rej, f, k, t}
    BY <2>1
  <2>3. (\A j \in 1 .. Len(m) : m[j] \in S /\ m[j][1] # "rollback") /\ Late(m)
    BY <1>2, <1>3, <2>2 DEF Late
  <2>4. A(m)
    BY <1>1, <2>1, <2>3
  <2> QED
    BY <2>4 DEF m
<1>5. A(<<rej, f, k>>)
  <2> DEFINE m == <<rej, f, k>>
  <2>1. Lists(m) /\ Len(m) = 3 /\ m[1] = rej /\ m[2] = f /\ m[3] = k
    BY ListsMade
  <2> HIDE DEF m
  <2>2. \A j \in 1 .. Len(m) : m[j] \in {rej, f, k}
    BY <2>1
  <2>3. (\A j \in 1 .. Len(m) : m[j] \in S /\ m[j][1] # "rollback") /\ Late(m)
    BY <1>2, <1>3, <2>2 DEF Late
  <2>4. A(m)
    BY <1>1, <2>1, <2>3
  <2> QED
    BY <2>4 DEF m
<1>6. A(<<rej, k, f>>)
  <2> DEFINE m == <<rej, k, f>>
  <2>1. Lists(m) /\ Len(m) = 3 /\ m[1] = rej /\ m[2] = k /\ m[3] = f
    BY ListsMade
  <2> HIDE DEF m
  <2>2. \A j \in 1 .. Len(m) : m[j] \in {rej, f, k}
    BY <2>1
  <2>3. (\A j \in 1 .. Len(m) : m[j] \in S /\ m[j][1] # "rollback") /\ Late(m)
    BY <1>2, <1>3, <2>2 DEF Late
  <2>4. A(m)
    BY <1>1, <2>1, <2>3
  <2> QED
    BY <2>4 DEF m
<1>7. A(<<rej, f, t, k, c>>)
  <2> DEFINE m == <<rej, f, t, k, c>>
  <2>1. /\ Len(m) = 5 /\ m[1] = rej /\ m[2] = f /\ m[3] = t /\ m[4] = k /\ m[5] = c
        /\ m \in Seq({rej, f, t, k, c})
    OBVIOUS
  <2> HIDE DEF m
  <2>2. Lists(m) /\ \A j \in 1 .. Len(m) : m[j] \in {rej, f, t, k, c}
    BY <2>1, SeqLists
  <2>3. (\A j \in 1 .. Len(m) : m[j] \in S /\ m[j][1] # "rollback") /\ Late(m)
    BY <1>2, <1>3, <2>2 DEF Late
  <2>4. A(m)
    BY <1>1, <2>1, <2>2, <2>3
  <2> QED
    BY <2>4 DEF m
<1>8. ASSUME r # "FAILED_TERMINAL"
      PROVE  A(<<rej, f, b>>)
  <2> DEFINE m == <<rej, f, b>>
  <2>1. Lists(m) /\ Len(m) = 3 /\ m[1] = rej /\ m[2] = f /\ m[3] = b
    BY ListsMade
  <2> HIDE DEF m
  <2>2. \A j \in 1 .. Len(m) : m[j] \in {rej, f, b} /\ (j < 3 => m[j] \in {rej, f})
    BY <2>1
  <2>3. \A j \in 1 .. Len(m) : m[j] \in S /\ (m[j][1] = "rollback" => j = 3)
    BY <1>2, <1>3, <2>1, <2>2
  <2>4. A(m)
    BY <1>1, <1>8, <2>1, <2>3
  <2> QED
    BY <2>4 DEF m
<1>9. ASSUME r # "FAILED_TERMINAL"
      PROVE  A(<<rej, f, b, t>>)
  <2> DEFINE m == <<rej, f, b, t>>
  <2>1. Lists(m) /\ Len(m) = 4 /\ m[1] = rej /\ m[2] = f /\ m[3] = b /\ m[4] = t
    BY ListsMade
  <2> HIDE DEF m
  <2>2. \A j \in 1 .. Len(m) : j \in {1, 2, 3, 4}
    BY <2>1
  <2>3. \A j \in 1 .. Len(m) : m[j] \in S /\ (m[j][1] = "rollback" => j = 3)
    BY <1>2, <1>3, <2>1, <2>2
  <2>4. \A l \in 1 .. Len(m) : l > 3 => m[l][1] \in LateKinds
    BY <1>2, <2>1, <2>2
  <2>6. \A j \in 1 .. Len(m) : m[j][1] = "rollback" =>
          \A l \in 1 .. Len(m) : l > j => m[l][1] \in LateKinds
    BY <2>3, <2>4
  <2>7. /\ Lists(m) /\ Len(m) >= 1 /\ Len(m) \in Nat /\ m[1] \in {rej, acc}
        /\ \A j \in 1 .. Len(m) : m[j] \in S
    BY <2>1, <2>3
  <2>5. A(m)
    BY <1>1, <1>9, <2>6, <2>7
  <2> QED
    BY <2>5 DEF m
<1>10. ASSUME r # "FAILED_TERMINAL"
       PROVE  A(<<acc, dn, k>>)
  <2> DEFINE m == <<acc, dn, k>>
  <2>1. Lists(m) /\ Len(m) = 3 /\ m[1] = acc /\ m[2] = dn /\ m[3] = k
    BY ListsMade
  <2> HIDE DEF m
  <2>2. \A j \in 1 .. Len(m) : m[j] \in {acc, dn, k}
    BY <2>1
  <2>3. \A j \in 1 .. Len(m) : m[j] \in S /\ m[j][1] # "rollback"
    BY <1>2, <1>3, <2>2
  <2>4. A(m)
    BY <1>1, <1>10, <2>1, <2>3
  <2> QED
    BY <2>4 DEF m
<1> QED
  BY <1>4, <1>5, <1>6, <1>7, <1>8, <1>9, <1>10 DEF A, rej, acc, f, dn, t, k, b, c
\* A verdict and what goes with it is decided.
LEMMA VerdictStep ==
    ASSUME Meanwhile, OneCommand, NEW c \in Commands, p[c] # Idle,
           Head(p[c].agenda)[1] \notin {"move", "reject", "accept"},
           NEW m, NEW u, Given(m, u, units, dispatches, fences, run), Decide(c, m),
           \/ Head(p[c].agenda)[1] \in EndKinds
           \/ Fatal(Head(p[c].agenda))
           \/ \A k \in 1 .. Len(m) : m[k][1] # "rollback"
    PROVE  FenceInv'
<1>1. p[c] \in Underway /\ Lists(m)
  BY HeadFenced DEF Given, About
<1>2. Fenced(m, units, dispatches, fences, run)
  BY AboutFenced DEF Given
<1>3. \/ Head(p[c].agenda)[1] \in EndKinds
      \/ \A k \in 1 .. Len(m) : Yields(Head(p[c].agenda), m[k])
  BY DEF Given, Yields
<1> QED
  BY <1>1, <1>2, <1>3, Decided DEF Decide

LEMMA JudgeFenced ==
    ASSUME Meanwhile, OneCommand, NEW c \in Commands, Judge(c)
    PROVE  FenceInv'
<1> DEFINE h == Head(p[c].agenda)
           u == h[2]
           i == h[3]
           n == h[4]
           d == units[u].def
<1>1. /\ p[c] # Idle /\ h[1] = "judge" /\ Kept(h, units, dispatches, fences)
      /\ run = "FAILED_TERMINAL" => h[1] \in LateKinds
      /\ p[c] \in Underway
  BY HeadFenced DEF Judge, At
<1>2. Out(units, dispatches, u) => i = Len(dispatches[u])
  BY <1>1 DEF Kept, Numbered
<1>3. \/ Decide(c, <<>>)
      \/ Decide(c, Close(u, i, n))
      \/ Decide(c, <<<<"check", u, i, n, d>>>>)
  BY DEF Judge, Arg
<1>4. CASE Decide(c, <<>>)
  <2>1. AllLoose(<<>>) /\ Late(<<>>)
    BY LoosePaths
  <2>2. h[1] \notin {"move", "reject", "accept"}
    BY <1>1
  <2> HIDE DEF h
  <2> QED
    BY <1>1, <1>4, <2>1, <2>2, LooselyDecided DEF h
<1> HIDE DEF h, u, i, n, d
<1>5. CASE Decide(c, Close(u, i, n))
  <2> DEFINE m == <<<<"reject", u, i>>, <<"fail", u>>, Park(u, n), <<"tell", u>>>>
  <2>1. Given(m, u, units, dispatches, fences, run)
    BY <1>2, VerdictLists
  <2>2. Decide(c, m)
    BY <1>5 DEF Close
  <2> HIDE DEF m
  <2>3. h[1] \notin {"move", "reject", "accept"} /\ Fatal(h)
    BY <1>1 DEF Fatal
  <2> QED
    BY <1>1, <2>1, <2>2, <2>3, VerdictStep DEF h
<1>6. CASE Decide(c, <<<<"check", u, i, n, d>>>>)
  <2> DEFINE e == <<"check", u, i, n, d>>
             m == <<e>>
  <2>1. e[1] = "check" /\ e[2] = u /\ e[3] = i
    OBVIOUS
  <2>2. Lists(m) /\ Len(m) = 1 /\ m[1] = e /\ Decide(c, m)
    BY <1>6, ListsMade
  <2> HIDE DEF e
  <2>3. Reaches(e) = {}
    BY <2>1 DEF Reaches
  <2>4. Kept(e, units, dispatches, fences)
    BY <1>2, <2>1, <2>3 DEF Kept
  <2>5. run # "FAILED_TERMINAL"
    BY <1>1 DEF LateKinds
  <2>6. Free(e, units, dispatches, fences, run)
    BY <2>1, <2>4, <2>5 DEF Free, Lifts
  <2>7. Fenced(m, units, dispatches, fences, run)
    BY <2>6, FreeLists
  <2> HIDE DEF m
  <2>8. Yields(h, e)
    BY <1>1, <2>1 DEF Yields, Sends, Sending, Fatal
  <2>9. \A k \in 1 .. Len(m) : Yields(h, m[k])
    BY <2>2, <2>8
  <2>10. h[1] \notin {"move", "reject", "accept"} /\ Continue(c, p[c], m \o Rest(c)) /\ UNCHANGED tables
    BY <1>1, <2>2 DEF Decide
  <2> QED
    BY <1>1, <2>2, <2>7, <2>9, <2>10, Decided DEF h
<1> QED
  BY <1>3, <1>4, <1>5, <1>6

\* Three entries, one more or less.
Same(a, b) == a = b
LEMMA SameLists ==
    ASSUME NEW a, NEW b, Lists(a), Lists(b), Len(a) = Len(b),
           \A k \in 1 .. Len(a) : a[k] = b[k]
    PROVE  Same(a, b)
<1> DEFINE S == {a[k] : k \in 1 .. Len(a)}
           T == {b[k] : k \in 1 .. Len(b)}
<1>1. a \in Seq(S) /\ b \in Seq(T)
  BY DEF Lists
<1> HIDE DEF S, T
<1>2. a = [k \in 1 .. Len(a) |-> a[k]]
  BY <1>1
<1>3. b = [k \in 1 .. Len(b) |-> b[k]]
  BY <1>1
<1> QED
  BY <1>2, <1>3 DEF Same

LEMMA Appended ==
    ASSUME NEW S, NEW s \in Seq(S), NEW x \in S
    PROVE  LET b == Append(s, x) IN
           /\ b \in Seq(S) /\ Len(b) = Len(s) + 1
           /\ \A k \in 1 .. Len(b) :
                \/ k \in 1 .. Len(s) /\ Same(b[k], s[k])
                \/ k = Len(s) + 1 /\ Same(b[k], x)
<1> DEFINE b == Append(s, x)
<1>1. /\ b \in Seq(S) /\ Len(b) = Len(s) + 1
      /\ \A k \in 1 .. Len(b) : b[k] = IF k = Len(s) + 1 THEN x ELSE s[k]
  OBVIOUS
<1>2. Len(s) \in Nat
  OBVIOUS
<1> HIDE DEF b
<1> QED
  BY <1>1, <1>2 DEF b, Same

LEMMA Concats ==
    ASSUME NEW w, NEW x, NEW y, NEW z
    PROVE  /\ <<x, y>> \o <<z>> = <<x, y, z>> /\ <<x, y>> \o <<>> = <<x, y>>
           /\ Append(<<w, x, y>>, z) = <<w, x, y, z>>
<1> DEFINE S == {w, x, y, z}
           two == <<x, y>>
           one == <<z>>
           xyz == <<x, y, z>>
           three == <<w, x, y>>
           all == <<w, x, y, z>>
<1>1. /\ Lists(two) /\ Len(two) = 2 /\ two[1] = x /\ two[2] = y
      /\ Lists(one) /\ Len(one) = 1 /\ one[1] = z
      /\ Lists(xyz) /\ Len(xyz) = 3 /\ xyz[1] = x /\ xyz[2] = y /\ xyz[3] = z
      /\ Lists(all) /\ Len(all) = 4
      /\ all[1] = w /\ all[2] = x /\ all[3] = y /\ all[4] = z
  BY ListsMade
<1>2. /\ three \in Seq(S) /\ Len(three) = 3
      /\ three[1] = w /\ three[2] = x /\ three[3] = y /\ z \in S /\ two \in Seq(S)
  OBVIOUS
<1> HIDE DEF S, two, one, three, xyz, all
<1>3. two \o one = xyz
  <2> DEFINE a == two \o one
  <2>1. /\ Lists(a) /\ Len(a) = Len(two) + Len(one)
        /\ \A k \in 1 .. Len(a) :
             \/ k \in 1 .. Len(two) /\ a[k] = two[k]
             \/ k - Len(two) \in 1 .. Len(one) /\ a[k] = one[k - Len(two)]
    BY <1>1, Joined
  <2> HIDE DEF a
  <2>2. \A k \in 1 .. Len(a) :
          \/ k \in 1 .. 2 /\ a[k] = two[k]
          \/ k - 2 \in 1 .. 1 /\ a[k] = one[k - 2]
    BY <1>1, <2>1
  <2>3. \A k \in 1 .. Len(a) : a[k] = xyz[k]
    BY <1>1, <2>2
  <2>4. Same(a, xyz)
    BY <1>1, <2>1, <2>3, SameLists
  <2> QED
    BY <2>4 DEF a, Same
<1>4. two \o <<>> = two
  BY <1>2
<1>5. Append(three, z) = all
  <2> DEFINE a == Append(three, z)
  <2>1. /\ a \in Seq(S) /\ Len(a) = Len(three) + 1
        /\ \A k \in 1 .. Len(a) :
             \/ k \in 1 .. Len(three) /\ Same(a[k], three[k])
             \/ k = Len(three) + 1 /\ Same(a[k], z)
    BY <1>2, Appended
  <2> HIDE DEF a
  <2>2. \A k \in 1 .. Len(a) :
          \/ k \in 1 .. 3 /\ a[k] = three[k]
          \/ k = 4 /\ a[k] = z
    BY <1>2, <2>1 DEF Same
  <2>4. Lists(a)
    BY <2>1, SeqLists
  <2>5. \A k \in 1 .. Len(a) : a[k] = all[k]
    BY <1>1, <1>2, <2>2
  <2>6. Same(a, all)
    BY <1>1, <1>2, <2>1, <2>4, <2>5, SameLists
  <2> QED
    BY <2>6 DEF a, Same
<1> QED
  BY <1>3, <1>4, <1>5 DEF two, one, three, xyz, all

LEMMA RollbackFenced ==
    ASSUME Meanwhile, OneCommand, NEW c \in Commands, Rollback(c)
    PROVE  FenceInv'
<1> DEFINE h == Head(p[c].agenda)
           u == h[2]
           n == h[3]
           t == <<"tell", u>>
           k == Park(u, n)
           b == <<"terminal">>
<1>1. /\ p[c] # Idle /\ h[1] = "rollback"
      /\ run = "FAILED_TERMINAL" => h[1] \in LateKinds
      /\ Lifts(h) => ~Out(units, dispatches, u)
      /\ p[c] \in Underway
  BY HeadFenced DEF Rollback, At
<1>2. ~Out(units, dispatches, u) /\ run # "FAILED_TERMINAL"
  BY <1>1 DEF Lifts, LateKinds
<1>3. \/ Decide(c, <<k>>) \/ Decide(c, <<t, k>>) \/ Decide(c, <<t, k, b>>)
  <2>1. <<t, k>> \o <<<<"terminal">>>> = <<t, k, b>> /\ <<t, k>> \o <<>> = <<t, k>>
    <3> HIDE DEF t, k, h
    <3> QED
      BY Concats DEF b
  <2> HIDE DEF h
  <2>2. \/ Decide(c, <<Park(u, n)>>)
        \/ Decide(c, <<<<"tell", u>>, Park(u, n)>> \o <<<<"terminal">>>>)
        \/ Decide(c, <<<<"tell", u>>, Park(u, n)>> \o <<>>)
    BY DEF Rollback, Arg, h
  <2> QED
    BY <2>1, <2>2
<1> HIDE DEF u, n
<1>4. t[1] = "tell" /\ k[1] = "park" /\ k[2] = u /\ b[1] = "terminal"
  BY DEF Park
<1> HIDE DEF t, k, b
<1>5. \A e \in {t, k, b} : Kept(e, units, dispatches, fences)
  BY <1>4 DEF Kept, Numbered, Reaches
<1>6. \A e \in {t, k, b} : Free(e, units, dispatches, fences, run)
  BY <1>2, <1>4, <1>5 DEF Free, Lifts
<1>7. Follows(t, k) /\ Follows(t, b) /\ Follows(k, b)
  BY <1>4 DEF Follows, Sends, Sending, Fatal
<1>8. /\ Fenced(<<k>>, units, dispatches, fences, run)
      /\ Fenced(<<t, k>>, units, dispatches, fences, run)
      /\ Fenced(<<t, k, b>>, units, dispatches, fences, run)
  BY <1>6, <1>7, FreeLists
<1>9. \A e \in {t, k, b} : Yields(h, e)
  BY <1>1, <1>4 DEF Yields, Sends, Sending, Fatal
<1> HIDE DEF h
<1>10. ASSUME NEW m, Decide(c, m), Lists(m), Fenced(m, units, dispatches, fences, run),
              \A j \in 1 .. Len(m) : m[j] \in {t, k, b}
       PROVE  FenceInv'
  <2>1. \A j \in 1 .. Len(m) : Yields(h, m[j])
    BY <1>9, <1>10
  <2>2. h[1] \notin {"move", "reject", "accept"} /\ Continue(c, p[c], m \o Rest(c)) /\ UNCHANGED tables
    BY <1>1, <1>10 DEF Decide
  <2> QED
    BY <1>1, <1>10, <2>1, <2>2, Decided DEF h
<1>11. CASE Decide(c, <<k>>)
  <2> DEFINE m == <<k>>
  <2>1. Lists(m) /\ Len(m) = 1 /\ m[1] = k /\ Decide(c, m) /\ Fenced(m, units, dispatches, fences, run)
    BY <1>8, <1>11, ListsMade
  <2> HIDE DEF m
  <2>2. \A j \in 1 .. Len(m) : m[j] \in {t, k, b}
    BY <2>1
  <2> QED
    BY <1>10, <2>1, <2>2
<1>12. CASE Decide(c, <<t, k>>)
  <2> DEFINE m == <<t, k>>
  <2>1. /\ Lists(m) /\ Len(m) = 2 /\ m[1] = t /\ m[2] = k /\ Decide(c, m)
        /\ Fenced(m, units, dispatches, fences, run)
    BY <1>8, <1>12, ListsMade
  <2> HIDE DEF m
  <2>2. \A j \in 1 .. Len(m) : m[j] \in {t, k, b}
    BY <2>1
  <2> QED
    BY <1>10, <2>1, <2>2
<1>13. CASE Decide(c, <<t, k, b>>)
  <2> DEFINE m == <<t, k, b>>
  <2>1. /\ Lists(m) /\ Len(m) = 3 /\ m[1] = t /\ m[2] = k /\ m[3] = b /\ Decide(c, m)
        /\ Fenced(m, units, dispatches, fences, run)
    BY <1>8, <1>13, ListsMade
  <2> HIDE DEF m
  <2>2. \A j \in 1 .. Len(m) : m[j] \in {t, k, b}
    BY <2>1
  <2> QED
    BY <1>10, <2>1, <2>2
<1> QED
  BY <1>3, <1>11, <1>12, <1>13

LEMMA CheckedFenced ==
    ASSUME Meanwhile, OneCommand, NEW c \in Commands, Checked(c)
    PROVE  FenceInv'
<1> DEFINE h == Head(p[c].agenda)
           u == h[2]
           i == h[3]
           n == h[4]
           d == h[5]
           rej == <<"reject", u, i>>
           f == <<"fail", u>>
           stale == <<"rollback", u, n, "stale">>
           judged == <<"rollback", u, n, "judged">>
           t == <<"tell", u>>
<1>1. /\ p[c] # Idle /\ h[1] = "check" /\ Kept(h, units, dispatches, fences)
      /\ run = "FAILED_TERMINAL" => h[1] \in LateKinds
      /\ p[c] \in Underway
  BY HeadFenced DEF Checked, At
<1>2. Out(units, dispatches, u) => i = Len(dispatches[u])
  BY <1>1 DEF Kept, Numbered
<1>3. run # "FAILED_TERMINAL"
  BY <1>1 DEF LateKinds
<1>4. \/ Decide(c, <<rej, f, stale, t>>)
      \/ Decide(c, <<rej, f, stale>>)
      \/ Decide(c, <<<<"accept", u, i, d>>, <<"done", u>>, Park(u, n)>>)
      \/ Decide(c, <<rej, f, judged>>)
  <2>1. Append(<<rej, f, stale>>, t) = <<rej, f, stale, t>>
    <3> HIDE DEF rej, f, stale, t
    <3> QED
      BY Concats
  <2> HIDE DEF h
  <2>2. \/ Decide(c, Append(<<rej, f, stale>>, t))
        \/ Decide(c, <<rej, f, stale>>)
        \/ Decide(c, <<<<"accept", u, i, d>>, <<"done", u>>, Park(u, n)>>)
        \/ Decide(c, <<rej, f, judged>>)
    BY DEF Checked, Arg, h
  <2> QED
    BY <2>1, <2>2
<1> HIDE DEF u, i, n, d
<1>5. /\ Given(<<rej, f, stale, t>>, u, units, dispatches, fences, run)
      /\ Given(<<rej, f, stale>>, u, units, dispatches, fences, run)
      /\ Given(<<<<"accept", u, i, d>>, <<"done", u>>, Park(u, n)>>, u, units, dispatches, fences, run)
      /\ Given(<<rej, f, judged>>, u, units, dispatches, fences, run)
  BY <1>2, <1>3, VerdictLists
<1>6. \E m : Given(m, u, units, dispatches, fences, run) /\ Decide(c, m)
  BY <1>4, <1>5
<1>7. h[1] \notin {"move", "reject", "accept"} /\ Fatal(h)
  BY <1>1 DEF Fatal
<1> HIDE DEF h
<1> QED
  BY <1>1, <1>6, <1>7, VerdictStep DEF h
\* After a failed rollback the run may fail for good; whoever comes here has
\* judged, or has looked at a run that has not failed.
LEMMA FailFenced ==
    ASSUME Meanwhile, OneCommand, NEW c \in Commands, FailTerminally(c)
    PROVE  FenceInv'
<1> DEFINE h == Head(p[c].agenda)
           e == <<"move", "FAILED_TERMINAL">>
           m == Moves(<<"FAILED_TERMINAL">>)
<1>1. /\ p[c] # Idle /\ h[1] = "terminal" /\ p[c] \in Underway
      /\ run = "FAILED_TERMINAL" => h[1] \in LateKinds
  BY HeadFenced DEF FailTerminally, At
<1>2. run # "FAILED_TERMINAL" /\ h[1] \notin {"move", "reject", "accept"} /\ Fatal(h)
  BY <1>1 DEF LateKinds, Fatal
<1>3. Decide(c, <<>>) \/ Decide(c, m)
  BY DEF FailTerminally
<1> HIDE DEF h
<1>4. CASE Decide(c, <<>>)
  BY <1>1, <1>2, <1>4, LoosePaths, LooselyDecided DEF h
<1>5. CASE Decide(c, m)
  <2>1. m = <<e>>
    BY DEF Moves
  <2>2. e[1] = "move" /\ e[2] = "FAILED_TERMINAL"
    OBVIOUS
  <2> HIDE DEF e
  <2>3. Lists(m) /\ Len(m) = 1 /\ m[1] = e
    <3>1. Lists(<<e>>) /\ Len(<<e>>) = 1 /\ <<e>>[1] = e
      BY ListsMade
    <3> QED
      BY <2>1, <3>1
  <2>4. Free(e, units, dispatches, fences, run)
    BY <1>2, <2>2 DEF Free, Kept, Lifts, Numbered, Reaches
  <2>5. Fenced(m, units, dispatches, fences, run)
    BY <2>1, <2>4, FreeLists
  <2> HIDE DEF m
  <2>6. Yields(h, e)
    BY <1>2, <2>2 DEF Yields, Sends, Sending
  <2>8. \A k \in 1 .. Len(m) : Yields(h, m[k])
    BY <2>3, <2>6
  <2>7. Continue(c, p[c], m \o Rest(c)) /\ UNCHANGED tables
    BY <1>5 DEF Decide
  <2> QED
    BY <1>1, <1>2, <2>3, <2>5, <2>7, <2>8, Decided DEF h
<1> QED
  BY <1>3, <1>4, <1>5

LEMMA SettleFenced ==
    ASSUME Meanwhile, OneCommand, NEW c \in Commands, Settle(c)
    PROVE  FenceInv'
<1> DEFINE z == <<"settle">>
           w == <<"unwind">>
           n == <<"nothing ready">>
           v == Moves(<<"VERIFYING">>)
           k == Moves(<<"CHECKPOINTED">>)
<1>1. p[c] # Idle /\ Head(p[c].agenda)[1] \notin {"move", "reject", "accept"}
  BY DEF Settle, At
<1>2. \/ End(c)
      \/ /\ run # "FAILED_TERMINAL"
         /\ \/ Decide(c, v \o <<z>>) \/ Decide(c, k \o <<z>>)
            \/ Decide(c, Moves(<<"READY">>)) \/ Decide(c, <<w, n>>)
  BY DEF Settle
<1>3. Loose(z) /\ Loose(w) /\ Loose(n)
  BY LooseMade
<1>4. AllLoose(v) /\ AllLoose(k) /\ AllLoose(Moves(<<"READY">>))
  <2>1. {"VERIFYING", "CHECKPOINTED", "READY"} \subseteq RunStates \ {"FAILED_TERMINAL"}
    BY DEF RunStates
  <2> QED
    BY <2>1, LoosePaths
<1> HIDE DEF z, w, n, v, k
<1>5. AllLoose(<<z>>) /\ AllLoose(<<w, n>>)
  BY <1>3, LooseLists
<1>6. AllLoose(v \o <<z>>) /\ AllLoose(k \o <<z>>)
  BY <1>4, <1>5, LooseJoined
<1>7. \/ End(c)
      \/ \E more : /\ AllLoose(more) /\ Decide(c, more)
                   /\ run = "FAILED_TERMINAL" => Late(more)
  BY <1>2, <1>4, <1>5, <1>6
<1> QED
  BY <1>1, <1>7, LooselyDecided

LEMMA NothingReadyFenced ==
    ASSUME Meanwhile, OneCommand, NEW c \in Commands, NothingReady(c)
    PROVE  FenceInv'
<1> DEFINE h == Head(p[c].agenda)
           stuck == {u \in Unreachable : Lane[u] \notin gated}
           told == SetToSeq({<<"tell", u>> : u \in stuck})
           again == IF stuck = {} THEN <<>> ELSE <<<<"reconcile">>>>
           wait == <<"wait">>
           deliver == <<"deliver">>
           more == told \o again \o <<wait>>
<1>1. /\ p[c] # Idle /\ h[1] = "nothing ready"
      /\ run = "FAILED_TERMINAL" => h[1] \in LateKinds
  BY HeadFenced DEF NothingReady, At
<1>2. run # "FAILED_TERMINAL" /\ h[1] \notin {"move", "reject", "accept"}
  BY <1>1 DEF LateKinds
<1>3. stuck \in SUBSET Units
  BY DEF Unreachable, Behind
<1>4. AllLoose(told)
  <2> HIDE DEF stuck
  <2> DEFINE f == [u \in stuck |-> <<"tell", u>>]
             A == {<<"tell", u>> : u \in stuck}
  <2>1. IsFiniteSet(stuck)
    BY <1>3, FS_Subset, UnitAssumptions
  <2>2. IsFiniteSet({f[u] : u \in stuck})
    BY <2>1, ImageFinite
  <2>3. A = {f[u] : u \in stuck}
    OBVIOUS
  <2>4. IsFiniteSet(A) /\ \A x \in A : Loose(x)
    BY <2>2, <2>3, LooseMade
  <2> HIDE DEF A
  <2>5. AllLoose(SetToSeq(A))
    BY <2>4, SetLoose
  <2> QED
    BY <2>5 DEF A
<1>5. AllLoose(again) /\ AllLoose(<<wait>>) /\ AllLoose(<<deliver>>)
  <2>1. Loose(<<"reconcile">>) /\ Loose(wait) /\ Loose(deliver)
    BY LooseMade
  <2> HIDE DEF wait, deliver
  <2>2. AllLoose(<<<<"reconcile">>>>) /\ AllLoose(<<wait>>) /\ AllLoose(<<deliver>>)
    BY <2>1, LooseLists
  <2>3. AllLoose(<<>>)
    BY LoosePaths
  <2> QED
    BY <2>2, <2>3
<1>6. End(c) \/ Decide(c, <<deliver>>) \/ Decide(c, more)
  BY DEF NothingReady
<1> HIDE DEF h, told, again, wait, deliver
<1>7. AllLoose(told \o again)
  BY <1>4, <1>5, LooseJoined
<1>8. AllLoose(more)
  BY <1>5, <1>7, LooseJoined
<1> HIDE DEF more
<1> QED
  BY <1>1, <1>2, <1>5, <1>6, <1>8, LooselyDecided DEF h

LEMMA WaitFenced ==
    ASSUME Meanwhile, OneCommand, NEW c \in Commands, WaitForFounder(c)
    PROVE  FenceInv'
<1>1. /\ p[c] # Idle /\ Head(p[c].agenda)[1] \notin {"move", "reject", "accept"}
      /\ \/ End(c)
         \/ run # "FAILED_TERMINAL" /\ Decide(c, Moves(<<"WAITING_HUMAN">>))
  BY DEF WaitForFounder, At
<1>2. AllLoose(Moves(<<"WAITING_HUMAN">>))
  <2>1. "WAITING_HUMAN" \in RunStates \ {"FAILED_TERMINAL"}
    BY DEF RunStates
  <2> QED
    BY <2>1, LoosePaths
<1> QED
  BY <1>1, <1>2, LooselyDecided

LEMMA DeliverFenced ==
    ASSUME Meanwhile, OneCommand, NEW c \in Commands, Deliver(c) \/ Delivered(c)
    PROVE  FenceInv'
<1> DEFINE h == Head(p[c].agenda)
           d == <<"delivered", run>>
           path == CASE Arg(c, 2) = "EXECUTING" -> <<"VERIFYING", "CHECKPOINTED">>
                       [] Arg(c, 2) = "VERIFYING" -> <<"CHECKPOINTED">>
                       [] Arg(c, 2) = "WAITING_HUMAN" -> <<"READY">>
                       [] OTHER -> <<>>
           way == path \o <<"DELIVERABLE_READY">>
<1>1. /\ p[c] # Idle /\ h[1] \in {"deliver", "delivered"}
      /\ run = "FAILED_TERMINAL" => h[1] \in LateKinds
  BY HeadFenced DEF Deliver, Delivered, At
<1>2. run # "FAILED_TERMINAL" /\ h[1] \notin {"move", "reject", "accept"}
  BY <1>1 DEF LateKinds
<1>3. way \in Seq(RunStates \ {"FAILED_TERMINAL"})
  <2> DEFINE S == RunStates \ {"FAILED_TERMINAL"}
  <2>1. {"VERIFYING", "CHECKPOINTED", "READY", "DELIVERABLE_READY"} \subseteq S
    BY DEF RunStates
  <2> HIDE DEF S
  <2>2. /\ <<"VERIFYING", "CHECKPOINTED">> \in Seq(S) /\ <<"CHECKPOINTED">> \in Seq(S)
        /\ <<"READY">> \in Seq(S) /\ <<>> \in Seq(S) /\ <<"DELIVERABLE_READY">> \in Seq(S)
    BY <2>1
  <2>3. path \in Seq(S)
    BY <2>2
  <2> HIDE DEF path
  <2> QED
    BY <2>2, <2>3 DEF S
<1>4. Decide(c, <<d>>) \/ Decide(c, Moves(way)) \/ End(c)
  BY DEF Deliver, Delivered
<1>5. Loose(d)
  BY LooseMade
<1> HIDE DEF h, way, d
<1>6. AllLoose(<<d>>)
  BY <1>5, LooseLists
<1>7. AllLoose(Moves(way))
  <2>1. /\ way \in Seq(RunStates)
        /\ \A i \in 1 .. Len(way) : way[i] # "FAILED_TERMINAL"
    BY <1>3
  <2> QED
    BY <2>1, LooseMoves
<1> QED
  BY <1>1, <1>2, <1>4, <1>6, <1>7, LooselyDecided DEF h

LEMMA JudgingFenced ==
    ASSUME Meanwhile, OneCommand, NEW c \in Commands, Judging(c)
    PROVE  FenceInv'
BY JudgeFenced, RollbackFenced, FailFenced, CheckedFenced, SettleFenced, NothingReadyFenced,
   WaitFenced, DeliverFenced DEF Judging

-----------------------------------------------------------------------------
(* Stepping *)

\* An entry that lifts nothing that is out, sends nothing and fails nothing.
Mild(e, us, ds, fs, r) ==
    Free(e, us, ds, fs, r) /\ ~Sends(e) /\ e[1] # "record" /\ ~Fatal(e)
AllMild(m, us, ds, fs, r) == Lists(m) /\ \A k \in 1 .. Len(m) : Mild(m[k], us, ds, fs, r)

LEMMA MildFenced ==
    ASSUME NEW m, NEW us, NEW ds, NEW fs, NEW r, AllMild(m, us, ds, fs, r)
    PROVE  /\ Lists(m) /\ Fenced(m, us, ds, fs, r)
           /\ \A h : \A k \in 1 .. Len(m) : Yields(h, m[k])
<1>1. \A k \in 1 .. Len(m) :
        /\ Kept(m[k], us, ds, fs) /\ (Lifts(m[k]) => ~Out(us, ds, m[k][2]))
        /\ m[k][1] # "stop fences" /\ (r = "FAILED_TERMINAL" => m[k][1] \in LateKinds)
        /\ ~Sends(m[k]) /\ m[k][1] # "record" /\ ~Fatal(m[k])
  BY DEF AllMild, Mild, Free
<1>2. \A k \in 1 .. Len(m) : m[k][1] \notin {"claim", "dispatch"}
  BY <1>1 DEF Sends, Sending
<1>3. \A j, k \in 1 .. Len(m) : j < k => Follows(m[j], m[k])
  BY <1>1, <1>2 DEF Follows
<1>4. Fenced(m, us, ds, fs, r)
  BY <1>1, <1>3 DEF Fenced, Covered
<1>5. \A h : \A k \in 1 .. Len(m) : Yields(h, m[k])
  BY <1>1 DEF Yields
<1> QED
  BY <1>4, <1>5 DEF AllMild

LEMMA MildStep ==
    ASSUME Meanwhile, OneCommand, NEW c \in Commands, p[c] # Idle,
           Head(p[c].agenda)[1] \notin {"move", "reject", "accept"},
           NEW q \in Underway, NEW more, AllMild(more, units, dispatches, fences, run),
           Continue(c, q, more \o Rest(c)), UNCHANGED tables
    PROVE  FenceInv'
<1>1. /\ Lists(more) /\ Fenced(more, units, dispatches, fences, run)
      /\ \A h : \A k \in 1 .. Len(more) : Yields(h, more[k])
  BY MildFenced
<1> QED
  BY <1>1, Decided

LEMMA MildLists ==
    ASSUME NEW x, NEW y, NEW z, NEW us, NEW ds, NEW fs, NEW r
    PROVE  LET M(e) == Mild(e, us, ds, fs, r) A(m) == AllMild(m, us, ds, fs, r) IN
           /\ A(<<>>)
           /\ M(z) => A(<<z>>)
           /\ M(y) /\ M(z) => A(<<y, z>>)
           /\ M(x) /\ M(y) /\ M(z) => A(<<x, y, z>>)
<1> DEFINE a == <<z>>
           b == <<y, z>>
           d == <<x, y, z>>
           n == <<>>
<1>1. /\ Lists(a) /\ Len(a) = 1 /\ a[1] = z
      /\ Lists(b) /\ Len(b) = 2 /\ b[1] = y /\ b[2] = z
      /\ Lists(d) /\ Len(d) = 3 /\ d[1] = x /\ d[2] = y /\ d[3] = z
  BY ListsMade
<1>3. Lists(n) /\ Len(n) = 0 /\ 1 .. 0 = {}
  BY EmptyList
<1> DEFINE M(e) == Mild(e, us, ds, fs, r)
<1> HIDE DEF a, b, d, n
<1>2. /\ M(z) => \A k \in 1 .. Len(a) : M(a[k])
      /\ M(y) /\ M(z) => \A k \in 1 .. Len(b) : M(b[k])
      /\ M(x) /\ M(y) /\ M(z) => \A k \in 1 .. Len(d) : M(d[k])
      /\ \A k \in 1 .. Len(n) : M(n[k])
  <2> HIDE DEF M
  <2> QED
    BY <1>1, <1>3
<1> QED
  BY <1>1, <1>2, <1>3 DEF AllMild, a, b, d, n

LEMMA MildJoined ==
    ASSUME NEW m, NEW n, NEW us, NEW ds, NEW fs, NEW r,
           AllMild(m, us, ds, fs, r), AllMild(n, us, ds, fs, r)
    PROVE  AllMild(m \o n, us, ds, fs, r)
<1> DEFINE b == m \o n
<1>1. /\ Lists(b) /\ Len(m) \in Nat /\ Len(n) \in Nat /\ Len(b) = Len(m) + Len(n)
      /\ \A k \in 1 .. Len(b) :
           \/ k \in 1 .. Len(m) /\ b[k] = m[k]
           \/ k - Len(m) \in 1 .. Len(n) /\ b[k] = n[k - Len(m)]
  BY Joined DEF AllMild
<1> HIDE DEF b
<1>2. AllMild(b, us, ds, fs, r)
  BY <1>1 DEF AllMild
<1> QED
  BY <1>2 DEF b

LEMMA ListFenced ==
    ASSUME Meanwhile, OneCommand, NEW c \in Commands, ListUnits(c)
    PROVE  FenceInv'
<1> DEFINE h == Head(p[c].agenda)
           o == <<"orphans", Rows>>
           t == <<"results", Rows>>
<1>1. /\ p[c] # Idle /\ h[1] = "list" /\ p[c] \in Underway /\ Decide(c, <<o, t>>)
      /\ run = "FAILED_TERMINAL" => h[1] \in LateKinds
      /\ \A u \in Units : Guarded(units, dispatches, fences, u)
  BY HeadFenced DEF ListUnits, At
<1>2. run # "FAILED_TERMINAL" /\ h[1] \notin {"move", "reject", "accept"}
  BY <1>1 DEF LateKinds
<1>3. \A r \in Rows : r.unit \in Units /\ r.status = units[r.unit].status
  BY DEF Rows, Row, Planned
<1>4. \A r \in Rows : r.status \in {"DONE", "SKIPPED"} => ~Out(units, dispatches, r.unit)
  BY <1>3 DEF Out
<1>5. \A r \in Rows : r.status = "RESULT_IN" => AwaitedIn(dispatches, r.unit) = {}
  BY <1>1, <1>3 DEF Guarded
<1>6. o[1] = "orphans" /\ o[2] = Rows /\ t[1] = "results" /\ t[2] = Rows
  OBVIOUS
<1> HIDE DEF h, o, t
<1>7. Kept(o, units, dispatches, fences) /\ Kept(t, units, dispatches, fences)
  BY <1>4, <1>5, <1>6 DEF Kept, Numbered, Reaches
<1>8. Mild(o, units, dispatches, fences, run) /\ Mild(t, units, dispatches, fences, run)
  BY <1>2, <1>6, <1>7 DEF Mild, Free, Lifts, Sends, Sending, Fatal
<1>9. AllMild(<<o, t>>, units, dispatches, fences, run)
  BY <1>8, MildLists
<1>10. Continue(c, p[c], <<o, t>> \o Rest(c)) /\ UNCHANGED tables
  BY <1>1 DEF Decide
<1> QED
  BY <1>1, <1>2, <1>9, <1>10, MildStep DEF h

\* A unit with no open attempt is not out.
LEMMA ClosedIsIn ==
    ASSUME RTypeOK, NEW u \in Units, OpenOf(u) = {}
    PROVE  ~Out(units, dispatches, u)
<1> SUFFICES ASSUME Out(units, dispatches, u) PROVE FALSE
  OBVIOUS
<1> DEFINE i == Len(dispatches[u])
<1>1. dispatches[u] \in Seq(Attempt) /\ dispatches[u] # <<>>
  BY DEF RTypeOK, Out
<1>2. i \in DOMAIN dispatches[u]
  BY <1>1
<1>3. dispatches[u][i].status \in Open
  BY DEF Out
<1> HIDE DEF i
<1>4. <<u, i>> \in Dispatches(Open)
  BY <1>2, <1>3 DEF Dispatches
<1>5. <<u, i>> \in OpenOf(u)
  BY <1>4 DEF OpenOf
<1> QED
  BY <1>5

LEMMA RepairMild ==
    ASSUME RTypeOK, NEW r \in Listed, run # "FAILED_TERMINAL",
           r.status \in {"DONE", "SKIPPED"} => ~Out(units, dispatches, r.unit)
    PROVE  AllMild(Repair(r), units, dispatches, fences, run)
<1> DEFINE k == Park(r.unit, r.fence)
           l == <<"release", r.unit>>
           f == <<"fail", r.unit>>
           M(e) == Mild(e, units, dispatches, fences, run)
<1>1. r.unit \in Units
  BY DEF Listed
<1>2. \/ Repair(r) = <<>>
      \/ ~Out(units, dispatches, r.unit) /\ Repair(r) \in {<<k>>, <<k, l>>, <<k, f>>}
  BY <1>1, ClosedIsIn DEF Repair
<1>3. /\ k[1] = "park" /\ k[2] = r.unit /\ l[1] = "release" /\ f[1] = "fail" /\ f[2] = r.unit
  BY DEF Park
<1> HIDE DEF k, l, f
<1>4. ~Out(units, dispatches, r.unit) => M(k) /\ M(l) /\ M(f)
  <2>1. \A e \in {k, l, f} : Kept(e, units, dispatches, fences)
    BY <1>3 DEF Kept, Numbered, Reaches
  <2> QED
    BY <1>3, <2>1 DEF Mild, Free, Lifts, Sends, Sending, Fatal
<1> HIDE DEF M
<1>5. /\ AllMild(<<>>, units, dispatches, fences, run)
      /\ ~Out(units, dispatches, r.unit) => /\ AllMild(<<k>>, units, dispatches, fences, run)
                                            /\ AllMild(<<k, l>>, units, dispatches, fences, run)
                                            /\ AllMild(<<k, f>>, units, dispatches, fences, run)
  BY <1>4, MildLists DEF M
<1> QED
  BY <1>2, <1>5

LEMMA OrphansFenced ==
    ASSUME Meanwhile, OneCommand, NEW c \in Commands, Orphans(c)
    PROVE  FenceInv'
<1> DEFINE h == Head(p[c].agenda)
<1>1. /\ p[c] # Idle /\ h[1] = "orphans" /\ p[c] \in Underway /\ h \in Entry /\ RTypeOK
      /\ Kept(h, units, dispatches, fences)
      /\ run = "FAILED_TERMINAL" => h[1] \in LateKinds
  BY HeadFenced DEF Orphans, At
<1>2. run # "FAILED_TERMINAL" /\ h[1] \notin {"move", "reject", "accept"}
  BY <1>1 DEF LateKinds
<1>3. h[2] \subseteq Listed
  BY <1>1, EntryShape
<1>4. \A r \in h[2] : r.status \in {"DONE", "SKIPPED"} => ~Out(units, dispatches, r.unit)
  BY <1>1 DEF Kept
<1>5. CASE Decide(c, <<>>)
  <2> HIDE DEF h
  <2> QED
    BY <1>1, <1>2, <1>5, LoosePaths, LooselyDecided DEF h
<1>6. ASSUME NEW r \in h[2],
             Continue(c, [p[c] EXCEPT !.noted = @ \/ Repair(r) # <<>>],
                      Repair(r) \o <<<<"orphans", h[2] \ {r}>>>> \o Rest(c)),
             UNCHANGED tables
      PROVE  FenceInv'
  <2> DEFINE q == [p[c] EXCEPT !.noted = @ \/ Repair(r) # <<>>]
             o == <<"orphans", h[2] \ {r}>>
             more == Repair(r) \o <<o>>
  <2>1. q \in Underway
    <3>1. (p[c].noted \/ Repair(r) # <<>>) \in BOOLEAN
      BY Zenon
    <3>2. \A b \in BOOLEAN : [p[c] EXCEPT !.noted = b] \in Underway
      BY <1>1, NotedMade
    <3> QED
      BY <3>1, <3>2, Zenon
  <2>2. o[1] = "orphans" /\ o[2] = h[2] \ {r}
    OBVIOUS
  <2>3. AllMild(Repair(r), units, dispatches, fences, run)
    BY <1>1, <1>2, <1>3, <1>4, <1>6, RepairMild
  <2> HIDE DEF q, o
  <2>4. Continue(c, q, more \o Rest(c))
    BY <1>6 DEF q, o
  <2> HIDE DEF h
  <2>5. Kept(o, units, dispatches, fences)
    BY <1>4, <2>2 DEF Kept, Numbered, Reaches
  <2>6. Mild(o, units, dispatches, fences, run)
    BY <1>2, <2>2, <2>5 DEF Mild, Free, Lifts, Sends, Sending, Fatal
  <2>7. AllMild(<<o>>, units, dispatches, fences, run)
    BY <2>6, MildLists
  <2>8. AllMild(more, units, dispatches, fences, run)
    BY <2>3, <2>7, MildJoined
  <2> HIDE DEF more
  <2> QED
    BY <1>1, <1>2, <1>6, <2>1, <2>4, <2>8, MildStep DEF h
<1> HIDE DEF h
<1> QED
  BY <1>5, <1>6 DEF Orphans, Arg, h

LEMMA ResultsFenced ==
    ASSUME Meanwhile, OneCommand, NEW c \in Commands, Results(c)
    PROVE  FenceInv'
<1> DEFINE h == Head(p[c].agenda)
           w == <<"walk">>
           n == <<"ensure">>
           s == <<"settle">>
           k == <<"contract">>
<1>1. /\ p[c] # Idle /\ h[1] = "results" /\ p[c] \in Underway /\ h \in Entry /\ RTypeOK
      /\ Kept(h, units, dispatches, fences)
      /\ run = "FAILED_TERMINAL" => h[1] \in LateKinds
  BY HeadFenced DEF Results, At
<1>2. /\ run # "FAILED_TERMINAL" /\ h[1] \notin {"move", "reject", "accept"}
      /\ h[1] \in EndKinds
  BY <1>1 DEF LateKinds, EndKinds
<1>3. h[2] \subseteq Listed
  BY <1>1, EntryShape
<1>4. \A r \in h[2] : r.status = "RESULT_IN" => AwaitedIn(dispatches, r.unit) = {}
  BY <1>1 DEF Kept
<1>5. \/ End(c)
      \/ Decide(c, <<k>>)
      \/ \E x \in Unjudged(h[2]) :
           \/ Decide(c, <<w, n, <<"judge", x[1].unit, x[2], x[1].fence>>, s>>)
           \/ Decide(c, Close(x[1].unit, x[2], x[1].fence))
  BY DEF Results, Arg
<1> HIDE DEF h
<1>6. CASE End(c)
  BY <1>1, <1>2, <1>6, LooselyDecided DEF h
<1>7. CASE Decide(c, <<k>>)
  <2>1. Loose(k)
    BY LooseMade
  <2> HIDE DEF k
  <2>2. AllLoose(<<k>>)
    BY <2>1, LooseLists
  <2> QED
    BY <1>1, <1>2, <1>7, <2>2, LooselyDecided DEF h
<1>8. ASSUME NEW x \in Unjudged(h[2]),
             \/ Decide(c, <<w, n, <<"judge", x[1].unit, x[2], x[1].fence>>, s>>)
             \/ Decide(c, Close(x[1].unit, x[2], x[1].fence))
      PROVE  FenceInv'
  <2> DEFINE u == x[1].unit
             i == x[2]
             m == x[1].fence
             j == <<"judge", u, i, m>>
  <2>1. /\ x[1] \in h[2] /\ x[1].status = "RESULT_IN"
        /\ <<u, i>> \in Dispatches({"RESULT_IN"})
        /\ \A d \in Dispatches({"RESULT_IN"}) : d[1] = u => d[2] <= i
    BY DEF Unjudged
  <2>2. AwaitedIn(dispatches, u) = {} /\ u \in Units /\ i \in DOMAIN dispatches[u]
    BY <1>3, <1>4, <2>1, DispatchesAre DEF Listed
  <2> HIDE DEF u, i, m
  <2>3. Out(units, dispatches, u) => i = Len(dispatches[u])
    <3> SUFFICES ASSUME Out(units, dispatches, u) PROVE i = Len(dispatches[u])
      OBVIOUS
    <3> DEFINE l == Len(dispatches[u])
    <3>1. dispatches[u] \in Seq(Attempt) /\ dispatches[u] # <<>>
      BY <1>1, <2>2 DEF RTypeOK, Out
    <3>2. l \in DOMAIN dispatches[u] /\ i \in 1 .. l /\ l \in Nat
      BY <2>2, <3>1
    <3>3. dispatches[u][l].status \in Open
      BY DEF Out
    <3> HIDE DEF l
    <3>4. dispatches[u][l].status = "RESULT_IN"
      BY <2>2, <3>2, <3>3 DEF AwaitedIn, Open
    <3>5. <<u, l>> \in Dispatches({"RESULT_IN"})
      BY <2>2, <3>2, <3>4 DEF Dispatches
    <3>6. l <= i
      BY <2>1, <3>5
    <3>7. i = l
      BY <3>2, <3>6
    <3> QED
      BY <3>7 DEF l
  <2>4. CASE Decide(c, Close(u, i, m))
    <3> DEFINE shut == <<<<"reject", u, i>>, <<"fail", u>>, Park(u, m), <<"tell", u>>>>
    <3>1. Given(shut, u, units, dispatches, fences, run)
      BY <2>3, VerdictLists
    <3>2. Decide(c, shut)
      BY <2>4 DEF Close
    <3> HIDE DEF shut
    <3> QED
      BY <1>1, <1>2, <3>1, <3>2, VerdictStep DEF h
  <2>5. CASE Decide(c, <<w, n, j, s>>)
    <3>1. /\ w[1] = "walk" /\ n[1] = "ensure" /\ j[1] = "judge" /\ j[2] = u /\ j[3] = i
          /\ s[1] = "settle"
      OBVIOUS
    <3> HIDE DEF w, n, j, s
    <3>2. \A e \in {w, n, j, s} : Kept(e, units, dispatches, fences)
      BY <2>3, <3>1 DEF Kept, Numbered, Reaches
    <3>3. \A e \in {w, n, j, s} : Free(e, units, dispatches, fences, run)
      BY <1>2, <3>1, <3>2 DEF Free, Lifts
    <3>4. /\ Follows(w, n) /\ Follows(w, j) /\ Follows(w, s) /\ Follows(n, j) /\ Follows(n, s)
          /\ Follows(j, s)
      BY <3>1 DEF Follows, Sends, Sending, Fatal, LateKinds
    <3>5. Fenced(<<w, n, j, s>>, units, dispatches, fences, run)
      BY <3>3, <3>4, FreeLists
    <3>6. Lists(<<w, n, j, s>>)
      BY ListsMade
    <3>7. Continue(c, p[c], <<w, n, j, s>> \o Rest(c)) /\ UNCHANGED tables
      BY <2>5 DEF Decide
    <3> QED
      BY <1>1, <1>2, <3>5, <3>6, <3>7, Decided DEF h
  <2> QED
    BY <1>8, <2>4, <2>5 DEF u, i, m
<1> QED
  BY <1>5, <1>6, <1>7, <1>8

LEMMA ContractFenced ==
    ASSUME Meanwhile, OneCommand, NEW c \in Commands, ReadContract(c)
    PROVE  FenceInv'
<1> DEFINE h == Head(p[c].agenda)
           a == <<"await">>
           s == <<"stopping">>
<1>1. /\ p[c] # Idle /\ h[1] = "contract"
      /\ run = "FAILED_TERMINAL" => h[1] \in LateKinds
      /\ Decide(c, <<a>>) \/ Decide(c, Moves(<<"PAUSED">>)) \/ Decide(c, <<s>>)
  BY HeadFenced DEF ReadContract, At
<1>2. run # "FAILED_TERMINAL" /\ h[1] \notin {"move", "reject", "accept"}
  BY <1>1 DEF LateKinds
<1>3. Loose(a) /\ Loose(s)
  BY LooseMade
<1> HIDE DEF h, a, s
<1>4. AllLoose(<<a>>) /\ AllLoose(<<s>>)
  BY <1>3, LooseLists
<1>5. AllLoose(Moves(<<"PAUSED">>))
  <2>1. "PAUSED" \in RunStates \ {"FAILED_TERMINAL"}
    BY DEF RunStates
  <2> QED
    BY <2>1, LoosePaths
<1> QED
  BY <1>1, <1>2, <1>4, <1>5, LooselyDecided DEF h

LEMMA AwaitFenced ==
    ASSUME Meanwhile, OneCommand, NEW c \in Commands, Await(c)
    PROVE  FenceInv'
<1> DEFINE h == Head(p[c].agenda)
           r == <<"reconcile">>
           s == <<"select">>
           D == Dispatches({"DISPATCHED"})
           ask(d) == <<"ask again", d[1], d[2], units[d[1]].fence>>
<1>1. /\ p[c] # Idle /\ h[1] = "await" /\ p[c] \in Underway
      /\ run = "FAILED_TERMINAL" => h[1] \in LateKinds
      /\ \A u \in Units : Guarded(units, dispatches, fences, u)
  BY HeadFenced DEF Await, At
<1>2. run # "FAILED_TERMINAL" /\ h[1] \notin {"move", "reject", "accept"}
  BY <1>1 DEF LateKinds
<1>3. Decide(c, <<r, s>>) \/ End(c) \/ \E d \in D : Decide(c, <<ask(d)>>)
  BY DEF Await
<1>4. Loose(r) /\ Loose(s)
  BY LooseMade
<1> HIDE DEF h, r, s
<1>5. CASE Decide(c, <<r, s>>) \/ End(c)
  <2>1. AllLoose(<<r, s>>)
    BY <1>4, LooseLists
  <2> QED
    BY <1>1, <1>2, <1>5, <2>1, LooselyDecided DEF h
<1>6. ASSUME NEW d \in D, Decide(c, <<ask(d)>>)
      PROVE  FenceInv'
  <2> DEFINE a == ask(d)
  <2>1. /\ d[1] \in Units /\ d[2] \in DOMAIN dispatches[d[1]]
        /\ dispatches[d[1]][d[2]].status = "DISPATCHED"
    BY DispatchesAre
  <2>2. d[2] = Len(dispatches[d[1]])
    BY <1>1, <2>1 DEF Guarded, AwaitedIn
  <2>3. a[1] = "ask again" /\ a[2] = d[1] /\ a[3] = d[2]
    OBVIOUS
  <2>4. Decide(c, <<a>>)
    BY <1>6
  <2> HIDE DEF a
  <2>5. Kept(a, units, dispatches, fences)
    BY <2>2, <2>3 DEF Kept, Reaches
  <2>6. Mild(a, units, dispatches, fences, run)
    BY <1>2, <2>3, <2>5 DEF Mild, Free, Lifts, Sends, Sending, Fatal
  <2>7. AllMild(<<a>>, units, dispatches, fences, run)
    BY <2>6, MildLists
  <2>8. Continue(c, p[c], <<a>> \o Rest(c)) /\ UNCHANGED tables
    BY <2>4 DEF Decide
  <2> QED
    BY <1>1, <1>2, <2>7, <2>8, MildStep DEF h
<1> QED
  BY <1>3, <1>5, <1>6

LEMMA AskAgainFenced ==
    ASSUME Meanwhile, OneCommand, NEW c \in Commands, AskAgain(c)
    PROVE  FenceInv'
<1> DEFINE h == Head(p[c].agenda)
           u == h[2]
           i == h[3]
           n == h[4]
           rej == <<"reject", u, i>>
           f == <<"fail", u>>
           k == Park(u, n)
           s == <<"stopping">>
           w == <<"walk">>
<1>1. /\ p[c] # Idle /\ h[1] = "ask again" /\ Kept(h, units, dispatches, fences)
      /\ run = "FAILED_TERMINAL" => h[1] \in LateKinds
  BY HeadFenced DEF AskAgain, At
<1>2. run # "FAILED_TERMINAL" /\ h[1] \notin {"move", "reject", "accept"}
  BY <1>1 DEF LateKinds
<1>3. Out(units, dispatches, u) => i = Len(dispatches[u])
  BY <1>1 DEF Kept, Numbered
<1>4. \/ Decide(c, <<s>>) \/ Decide(c, <<w>>)
      \/ Decide(c, <<rej, k, f>>) \/ Decide(c, <<rej, f, k>>)
  BY DEF AskAgain, Arg
<1> HIDE DEF h, u, i, n
<1>5. CASE Decide(c, <<s>>) \/ Decide(c, <<w>>)
  <2>1. Loose(s) /\ Loose(w)
    BY LooseMade
  <2> HIDE DEF s, w
  <2>2. AllLoose(<<s>>) /\ AllLoose(<<w>>)
    BY <2>1, LooseLists
  <2> QED
    BY <1>1, <1>2, <1>5, <2>2, LooselyDecided DEF h
<1>6. /\ Given(<<rej, k, f>>, u, units, dispatches, fences, run)
      /\ Given(<<rej, f, k>>, u, units, dispatches, fences, run)
  BY <1>3, VerdictLists
<1>7. rej[1] # "rollback" /\ f[1] # "rollback" /\ k[1] # "rollback"
  BY DEF Park
<1> HIDE DEF rej, f, k
<1>8. CASE Decide(c, <<rej, k, f>>)
  <2> DEFINE m == <<rej, k, f>>
  <2>1. Len(m) = 3 /\ m[1] = rej /\ m[2] = k /\ m[3] = f
    OBVIOUS
  <2>2. Given(m, u, units, dispatches, fences, run) /\ Decide(c, m)
    BY <1>6, <1>8
  <2> HIDE DEF m
  <2>3. \A j \in 1 .. Len(m) : m[j][1] # "rollback"
    BY <1>7, <2>1
  <2> QED
    BY <1>1, <1>2, <2>2, <2>3, VerdictStep DEF h
<1>9. CASE Decide(c, <<rej, f, k>>)
  <2> DEFINE m == <<rej, f, k>>
  <2>1. Len(m) = 3 /\ m[1] = rej /\ m[2] = f /\ m[3] = k
    OBVIOUS
  <2>2. Given(m, u, units, dispatches, fences, run) /\ Decide(c, m)
    BY <1>6, <1>9
  <2> HIDE DEF m
  <2>3. \A j \in 1 .. Len(m) : m[j][1] # "rollback"
    BY <1>7, <2>1
  <2> QED
    BY <1>1, <1>2, <2>2, <2>3, VerdictStep DEF h
<1> QED
  BY <1>4, <1>5, <1>8, <1>9

\* A unit whose row awaits no answer is not out.
LEMMA RowIsIn ==
    ASSUME NEW u, units[u].status \notin {"DISPATCHED", "RESULT_IN"}
    PROVE  ~Out(units, dispatches, u)
BY DEF Out

\* What sends nothing but what its head was to send.
LEMMA SendStep ==
    ASSUME Meanwhile, OneCommand, NEW c \in Commands, p[c] # Idle,
           Head(p[c].agenda)[1] \notin {"move", "reject", "accept"},
           \/ Sends(Head(p[c].agenda))
           \/ Head(p[c].agenda)[1] \in EndKinds,
           NEW x, NEW y, Decide(c, <<x, y>>), x[1] \in {"walk", "gate"}, y[1] = "wave",
           \A u \in Reaches(x) \cup Reaches(y) : ~Out(units, dispatches, u),
           run # "FAILED_TERMINAL"
    PROVE  FenceInv'
<1> DEFINE m == <<x, y>>
           h == Head(p[c].agenda)
<1>1. Lists(m) /\ Len(m) = 2 /\ m[1] = x /\ m[2] = y
  BY ListsMade
<1>2. Continue(c, p[c], m \o Rest(c)) /\ UNCHANGED tables
  BY DEF Decide
<1>3. p[c] \in Underway
  BY HeadFenced
<1> HIDE DEF h
<1>4. Kept(x, units, dispatches, fences) /\ Kept(y, units, dispatches, fences)
  BY DEF Kept, Numbered
<1>5. Free(x, units, dispatches, fences, run) /\ Free(y, units, dispatches, fences, run)
  BY <1>4 DEF Free, Lifts
<1>6. Follows(x, y)
  BY DEF Follows, Sends, Sending, Fatal
<1>7. Fenced(m, units, dispatches, fences, run)
  BY <1>5, <1>6, FreeLists
<1> HIDE DEF m
<1>8. ~Fatal(x) /\ ~Fatal(y) /\ x[1] # "record" /\ y[1] # "record"
  BY DEF Fatal
<1>9. Sends(h) => \A k \in 1 .. Len(m) : Yields(h, m[k])
  BY <1>1, <1>8 DEF Yields
<1> QED
  BY <1>1, <1>2, <1>3, <1>7, <1>9, Decided DEF h

LEMMA SelectFenced ==
    ASSUME Meanwhile, OneCommand, NEW c \in Commands, Select(c)
    PROVE  FenceInv'
<1> DEFINE h == Head(p[c].agenda)
           t == <<"unwind">>
           n == <<"nothing ready">>
           w == <<"walk">>
           g == <<"wave", Ready>>
<1>1. /\ p[c] # Idle /\ h[1] = "select"
      /\ run = "FAILED_TERMINAL" => h[1] \in LateKinds
      /\ Decide(c, <<t, n>>) \/ End(c) \/ Decide(c, <<w, g>>)
  BY HeadFenced DEF Select, At
<1>2. /\ run # "FAILED_TERMINAL" /\ h[1] \notin {"move", "reject", "accept"}
      /\ h[1] \in EndKinds
  BY <1>1 DEF LateKinds, EndKinds
<1>3. CASE Decide(c, <<t, n>>) \/ End(c)
  <2>1. Loose(t) /\ Loose(n)
    BY LooseMade
  <2> HIDE DEF h, t, n
  <2>2. AllLoose(<<t, n>>)
    BY <2>1, LooseLists
  <2> QED
    BY <1>1, <1>2, <1>3, <2>2, LooselyDecided DEF h
<1>4. CASE Decide(c, <<w, g>>)
  <2>1. w[1] = "walk" /\ g[1] = "wave" /\ g[2] = Ready
    OBVIOUS
  <2>2. Decide(c, <<w, g>>)
    BY <1>4
  <2> HIDE DEF h, w, g
  <2>3. \A u \in Ready : ~Out(units, dispatches, u)
    BY RowIsIn DEF Ready
  <2>4. \A u \in Reaches(w) \cup Reaches(g) : ~Out(units, dispatches, u)
    BY <2>1, <2>3 DEF Reaches
  <2> QED
    BY <1>1, <1>2, <2>1, <2>2, <2>4, SendStep DEF h
<1> QED
  BY <1>1, <1>3, <1>4

LEMMA WaveFenced ==
    ASSUME Meanwhile, OneCommand, NEW c \in Commands, Wave(c)
    PROVE  FenceInv'
<1> DEFINE h == Head(p[c].agenda)
           t == <<"unwind">>
<1>1. /\ p[c] # Idle /\ h[1] = "wave" /\ Kept(h, units, dispatches, fences)
      /\ run = "FAILED_TERMINAL" => h[1] \in LateKinds
      /\ \/ End(c) \/ Decide(c, <<t>>)
         \/ \E u \in h[2] : Decide(c, <<<<"gate", u>>, <<"wave", h[2] \ {u}>>>>)
  BY HeadFenced DEF Wave, At, Arg
<1>2. /\ run # "FAILED_TERMINAL" /\ h[1] \notin {"move", "reject", "accept"}
      /\ Sends(h)
  BY <1>1 DEF LateKinds, Sends
<1>3. CASE Decide(c, <<t>>) \/ End(c)
  <2>1. Loose(t)
    BY LooseMade
  <2> HIDE DEF h, t
  <2>2. AllLoose(<<t>>)
    BY <2>1, LooseLists
  <2> QED
    BY <1>1, <1>2, <1>3, <2>2, LooselyDecided DEF h
<1>4. ASSUME NEW u \in h[2], Decide(c, <<<<"gate", u>>, <<"wave", h[2] \ {u}>>>>)
      PROVE  FenceInv'
  <2> DEFINE x == <<"gate", u>>
             y == <<"wave", h[2] \ {u}>>
  <2>1. x[1] = "gate" /\ x[2] = u /\ y[1] = "wave" /\ y[2] = h[2] \ {u}
    OBVIOUS
  <2>2. Decide(c, <<x, y>>)
    BY <1>4
  <2> HIDE DEF h, x, y
  <2>3. \A v \in h[2] : ~Out(units, dispatches, v)
    BY <1>1 DEF Kept, Reaches
  <2>4. \A v \in Reaches(x) \cup Reaches(y) : ~Out(units, dispatches, v)
    BY <2>1, <2>3 DEF Reaches
  <2> QED
    BY <1>1, <1>2, <2>1, <2>2, <2>4, SendStep DEF h
<1> QED
  BY <1>1, <1>3, <1>4

LEMMA GateFenced ==
    ASSUME Meanwhile, OneCommand, NEW c \in Commands, Gate(c)
    PROVE  FenceInv'
<1> DEFINE h == Head(p[c].agenda)
           s == <<"stopping">>
           f == <<"fail", h[2]>>
           m == <<"claim fence", h[2], contract.revision>>
<1>1. /\ p[c] # Idle /\ h[1] = "gate" /\ Kept(h, units, dispatches, fences)
      /\ p[c] \in Underway
      /\ run = "FAILED_TERMINAL" => h[1] \in LateKinds
      /\ \/ Decide(c, <<s>>) \/ Decide(c, <<f>>) \/ Decide(c, <<m>>)
  BY HeadFenced DEF Gate, At, Arg
<1>2. /\ run # "FAILED_TERMINAL" /\ h[1] \notin {"move", "reject", "accept"}
      /\ Sends(h)
  BY <1>1 DEF LateKinds, Sends, Sending
<1>3. Loose(s)
  BY LooseMade
<1>4. f[1] = "fail" /\ f[2] = h[2] /\ m[1] = "claim fence" /\ m[2] = h[2]
  OBVIOUS
<1> HIDE DEF h, s, f, m
<1>5. ~Out(units, dispatches, h[2])
  BY <1>1 DEF Kept, Reaches
<1>6. CASE Decide(c, <<s>>)
  <2>1. AllLoose(<<s>>)
    BY <1>3, LooseLists
  <2> QED
    BY <1>1, <1>2, <1>6, <2>1, LooselyDecided DEF h
<1>7. CASE Decide(c, <<f>>)
  <2>1. Kept(f, units, dispatches, fences)
    BY <1>4 DEF Kept, Numbered, Reaches
  <2>2. Mild(f, units, dispatches, fences, run)
    BY <1>2, <1>4, <1>5, <2>1 DEF Mild, Free, Sends, Sending, Fatal
  <2>3. AllMild(<<f>>, units, dispatches, fences, run)
    BY <2>2, MildLists
  <2>4. Continue(c, p[c], <<f>> \o Rest(c)) /\ UNCHANGED tables
    BY <1>7 DEF Decide
  <2> QED
    BY <1>1, <1>2, <2>3, <2>4, MildStep DEF h
<1>8. CASE Decide(c, <<m>>)
  <2> DEFINE more == <<m>>
  <2>1. Lists(more) /\ Len(more) = 1 /\ more[1] = m
    BY ListsMade
  <2>2. Kept(m, units, dispatches, fences)
    BY <1>4, <1>5 DEF Kept, Numbered, Reaches
  <2>3. Free(m, units, dispatches, fences, run)
    BY <1>2, <1>4, <2>2 DEF Free, Lifts
  <2>4. Fenced(more, units, dispatches, fences, run)
    BY <2>3, FreeLists
  <2>5. Continue(c, p[c], more \o Rest(c)) /\ UNCHANGED tables
    BY <1>8 DEF Decide
  <2> HIDE DEF more
  <2>6. Yields(h, m)
    BY <1>2, <1>4 DEF Yields, Fatal
  <2>7. \A k \in 1 .. Len(more) : Yields(h, more[k])
    BY <2>1, <2>6
  <2> QED
    BY <1>1, <1>2, <2>1, <2>4, <2>5, <2>7, Decided DEF h
<1> QED
  BY <1>1, <1>6, <1>7, <1>8

LEMMA FenceTaken ==
    ASSUME RTypeOK, NEW u \in Units, NEW s, ClaimFence(u, s), ~Out(units, dispatches, u),
           \A v \in Units : Guarded(units, dispatches, fences, v)
    PROVE  /\ run' = run /\ UNCHANGED <<units, dispatches>>
           /\ HeldBy(fences', u, FenceFor(u))
           /\ \A v \in Units : Guarded(units', dispatches', fences', v)
<1> DEFINE f == [id |-> FenceFor(u), live |-> TRUE, by |-> s]
<1>1. fences' = [fences EXCEPT ![u] = f] /\ UNCHANGED <<run, units, dispatches>>
  BY DEF ClaimFence
<1>2. f.id = FenceFor(u) /\ f.live
  OBVIOUS
<1> HIDE DEF f
<1>3. fences'[u] = f /\ \A v \in Units \ {u} : fences'[v] = fences[v]
  BY <1>1 DEF RTypeOK
<1>4. ASSUME NEW v \in Units
      PROVE  Guarded(units', dispatches', fences', v)
  <2>1. Out(units', dispatches', v) => Out(units, dispatches, v) /\ v # u
    BY <1>1
  <2>2. Out(units', dispatches', v) => HeldBy(fences', v, units'[v].fence)
    BY <1>1, <1>3, <2>1 DEF Guarded, HeldBy
  <2> QED
    BY <1>1, <2>2 DEF Guarded
<1>5. HeldBy(fences', u, FenceFor(u))
  BY <1>2, <1>3 DEF HeldBy
<1> QED
  BY <1>1, <1>4, <1>5

LEMMA OnceSent ==
    ASSUME NEW h, NEW x, NEW us, NEW ds, NEW fs, NEW r, Sends(h), Free(x, us, ds, fs, r),
           ~Fatal(x), x[1] # "record"
    PROVE  /\ Lists(<<x>>) /\ Fenced(<<x>>, us, ds, fs, r)
           /\ \A k \in 1 .. Len(<<x>>) : Yields(h, <<x>>[k])
<1> DEFINE m == <<x>>
<1>1. Lists(m) /\ Len(m) = 1 /\ m[1] = x
  BY ListsMade
<1>2. Fenced(m, us, ds, fs, r)
  BY FreeLists
<1> HIDE DEF m
<1>3. Yields(h, x)
  BY DEF Yields
<1>4. \A k \in 1 .. Len(m) : Yields(h, m[k])
  BY <1>1, <1>3
<1> QED
  BY <1>1, <1>2, <1>4 DEF m

LEMMA ClaimFenceFenced ==
    ASSUME Meanwhile, OneCommand, NEW c \in Commands, ClaimUnitFence(c)
    PROVE  FenceInv'
<1> DEFINE h == Head(p[c].agenda)
           u == h[2]
           n == FenceFor(u)
           x == <<"claim", u, n, h[3]>>
           more == <<x>>
<1>1. /\ p[c] # Idle /\ h[1] = "claim fence" /\ p[c] \in Underway /\ h \in Entry
      /\ Kept(h, units, dispatches, fences) /\ RTypeOK
      /\ run = "FAILED_TERMINAL" => h[1] \in LateKinds
      /\ \A v \in Units : Guarded(units, dispatches, fences, v)
  BY HeadFenced DEF ClaimUnitFence, At
<1>2. /\ run # "FAILED_TERMINAL" /\ h[1] \notin {"move", "reject", "accept"}
      /\ Sends(h) /\ ~ToStopping(h)
  BY <1>1 DEF LateKinds, Sends, Sending, ToStopping
<1>3. u \in Units /\ ~Out(units, dispatches, u)
  BY <1>1, EntryShape DEF Kept, Reaches
<1>4. \/ ClaimFence(u, p[c].session) /\ Continue(c, p[c], more \o Rest(c))
      \/ Decide(c, <<>>)
  BY DEF ClaimUnitFence, Arg
<1>5. x[1] = "claim" /\ x[2] = u /\ x[3] = n
  OBVIOUS
<1> HIDE DEF h, u, n, x, more
<1>6. CASE Decide(c, <<>>)
  BY <1>1, <1>2, <1>6, LoosePaths, LooselyDecided DEF h
<1>7. CASE ClaimFence(u, p[c].session) /\ Continue(c, p[c], more \o Rest(c))
  <2>1. /\ run' = run /\ UNCHANGED <<units, dispatches>> /\ HeldBy(fences', u, n)
        /\ \A v \in Units : Guarded(units', dispatches', fences', v)
    BY <1>1, <1>3, <1>7, FenceTaken DEF n
  <2>2. Easier(units, dispatches, units', dispatches')
    BY <2>1, SameEasier
  <2>3. ~Out(units', dispatches', u)
    BY <1>3, <2>1
  <2>4. Kept(x, units', dispatches', fences')
    BY <1>5, <2>1, <2>3 DEF Kept, Reaches, Numbered
  <2>5. Free(x, units', dispatches', fences', run') /\ ~Fatal(x) /\ x[1] # "record"
    BY <1>2, <1>5, <2>1, <2>4 DEF Free, Lifts, Fatal
  <2>6. /\ Lists(more) /\ Fenced(more, units', dispatches', fences', run')
        /\ \A k \in 1 .. Len(more) : Yields(h, more[k])
    BY <1>2, <2>5, OnceSent DEF more
  <2>7. \A v \in Units : Ends(h, v) => ~Out(units', dispatches', v)
    BY <1>1 DEF Ends
  <2> QED
    BY <1>1, <1>2, <1>7, <2>1, <2>2, <2>6, <2>7, Onward DEF h
<1> QED
  BY <1>4, <1>6, <1>7

LEMMA ClaimFenced ==
    ASSUME Meanwhile, OneCommand, NEW c \in Commands, Claim(c)
    PROVE  FenceInv'
<1> DEFINE h == Head(p[c].agenda)
           u == h[2]
           n == h[3]
           k == Park(u, n)
           row == [units[u] EXCEPT !.status = "CLAIMED", !.fence = n]
           x == <<"dispatch", u, Len(dispatches[u]) + 1, h[4]>>
           more == <<x>>
<1>1. /\ p[c] # Idle /\ h[1] = "claim" /\ p[c] \in Underway /\ h \in Entry
      /\ Kept(h, units, dispatches, fences) /\ RTypeOK
      /\ Sound(h, units, dispatches, fences, contract.revision)
      /\ run = "FAILED_TERMINAL" => h[1] \in LateKinds
      /\ \A v \in Units : Guarded(units, dispatches, fences, v)
  BY HeadFenced DEF Claim, At
<1>2. /\ run # "FAILED_TERMINAL" /\ h[1] \notin {"move", "reject", "accept"}
      /\ Sends(h) /\ ~ToStopping(h) /\ h[1] \in Sending
  BY <1>1 DEF LateKinds, Sends, Sending, ToStopping
<1>3. u \in Units /\ ~Out(units, dispatches, u) /\ HeldBy(fences, u, n)
  BY <1>1, EntryShape DEF Kept, Reaches
<1>4. \/ ClaimUnit(u, n) /\ Continue(c, p[c], more \o Rest(c))
      \/ Decide(c, <<k>>)
  BY DEF Claim, Arg
<1>5. x[1] = "dispatch" /\ x[2] = u /\ k[1] = "park" /\ k[2] = u
  BY DEF Park
<1>6. AwaitedIn(dispatches, u) = {}
  <2>1. h[1] \notin Chooses /\ h[1] # "wave"
    BY <1>1 DEF Chooses
  <2>2. u \in Targets(h)
    BY <1>2, <2>1 DEF Targets
  <2> HIDE DEF h, u
  <2> QED
    BY <1>1, <1>2, <2>2 DEF Sound
<1>7. row.status = "CLAIMED" /\ row.fence = n
  BY <1>1, <1>3 DEF RTypeOK, UnitRow
<1>8. ClaimUnit(u, n) =>
        /\ SetUnit(u, row) /\ UNCHANGED <<dispatches, fences>> /\ run' = run
        /\ units' = [units EXCEPT ![u] = row]
  BY DEF ClaimUnit, KeepAllBut, SetUnit
<1> HIDE DEF h, u, n, x, more, row, k
<1>9. CASE Decide(c, <<k>>)
  <2>1. Kept(k, units, dispatches, fences)
    BY <1>5 DEF Kept, Numbered, Reaches
  <2>2. Mild(k, units, dispatches, fences, run)
    BY <1>2, <1>3, <1>5, <2>1 DEF Mild, Free, Sends, Sending, Fatal
  <2>3. AllMild(<<k>>, units, dispatches, fences, run)
    BY <2>2, MildLists
  <2>4. Continue(c, p[c], <<k>> \o Rest(c)) /\ UNCHANGED tables
    BY <1>9 DEF Decide
  <2> QED
    BY <1>1, <1>2, <2>3, <2>4, MildStep DEF h
<1>10. CASE ClaimUnit(u, n) /\ Continue(c, p[c], more \o Rest(c))
  <2>1. /\ \A v \in Units : Guarded(units', dispatches', fences', v)
        /\ Easier(units, dispatches, units', dispatches')
    BY <1>1, <1>3, <1>6, <1>7, <1>8, <1>10, RowMilder
  <2>2. units'[u].fence = n
    BY <1>1, <1>3, <1>7, <1>8, <1>10 DEF RTypeOK
  <2>3. HeldBy(fences', u, units'[u].fence)
    BY <1>3, <1>8, <1>10, <2>2
  <2>4. Kept(x, units', dispatches', fences')
    BY <1>5, <2>3 DEF Kept, Reaches, Numbered
  <2>5. Free(x, units', dispatches', fences', run') /\ ~Fatal(x) /\ x[1] # "record"
    BY <1>2, <1>5, <1>8, <1>10, <2>4 DEF Free, Lifts, Fatal
  <2>6. /\ Lists(more) /\ Fenced(more, units', dispatches', fences', run')
        /\ \A i \in 1 .. Len(more) : Yields(h, more[i])
    BY <1>2, <2>5, OnceSent DEF more
  <2>7. \A v \in Units : Ends(h, v) => ~Out(units', dispatches', v)
    BY <1>1 DEF Ends
  <2>8. run' = run
    BY <1>8, <1>10
  <2> QED
    BY <1>1, <1>2, <1>10, <2>1, <2>6, <2>7, <2>8, Onward DEF h
<1> QED
  BY <1>4, <1>9, <1>10

LEMMA AttemptSent ==
    ASSUME RTypeOK, NEW u \in Units, NEW i \in Nat, NEW r \in 1 .. contract.revision,
           AwaitedIn(dispatches, u) = {}, CanDispatch(u, i), RecordDispatch(u, i, r),
           HeldBy(fences, u, units[u].fence),
           \A v \in Units : Guarded(units, dispatches, fences, v)
    PROVE  /\ run' = run
           /\ \A v \in Units \ {u} : units'[v] = units[v] /\ dispatches'[v] = dispatches[v]
           /\ \A v \in Units : Guarded(units', dispatches', fences', v)
<1> DEFINE att == [status |-> "DISPATCHED", revision |-> r, judged |-> 0]
           row == [units[u] EXCEPT !.status = "DISPATCHED"]
           s == Append(dispatches[u], att)
<1>1. /\ units'[u].status = "DISPATCHED"
      /\ \A v \in Units \ {u} : units'[v] = units[v] /\ dispatches'[v] = dispatches[v]
      /\ \A j \in AwaitedIn(dispatches', u) : j = i
  BY DispatchKeeps
<1>2. /\ dispatches' = [dispatches EXCEPT ![u] = s]
      /\ units' = [units EXCEPT ![u] = row]
      /\ UNCHANGED <<run, fences>>
  BY DEF RecordDispatch, SetUnit, KeepAllBut
<1>3. row.fence = units[u].fence
  BY DEF RTypeOK, UnitRow
<1>4. Len(s) = i
  <2>1. dispatches[u] \in Seq(Attempt)
    BY DEF RTypeOK
  <2> QED
    BY <2>1 DEF CanDispatch
<1> HIDE DEF att, row, s
<1>5. Len(dispatches'[u]) = i /\ units'[u].fence = units[u].fence
  BY <1>2, <1>3, <1>4 DEF RTypeOK
<1>6. Guarded(units', dispatches', fences', u)
  BY <1>1, <1>2, <1>5 DEF Guarded, HeldBy
<1>7. ASSUME NEW v \in Units \ {u}
      PROVE  Guarded(units', dispatches', fences', v)
  BY <1>1, <1>2 DEF Guarded, Out, HeldBy, AwaitedIn
<1> QED
  BY <1>1, <1>2, <1>6, <1>7

LEMMA DispatchFenced ==
    ASSUME Meanwhile, OneCommand, NEW c \in Commands, Dispatch(c)
    PROVE  FenceInv'
<1> DEFINE h == Head(p[c].agenda)
           a == p[c].agenda
           u == h[2]
           i == h[3]
           q == [p[c] EXCEPT !.sent = TRUE]
<1>1. /\ p[c] # Idle /\ h[1] = "dispatch" /\ p[c] \in Underway /\ h \in Entry
      /\ a \in Seq(Entry) /\ h = a[1] /\ a # <<>>
      /\ Fenced(a, units, dispatches, fences, run)
      /\ Kept(h, units, dispatches, fences) /\ RTypeOK
      /\ Sound(h, units, dispatches, fences, contract.revision)
      /\ run = "FAILED_TERMINAL" => h[1] \in LateKinds
      /\ \A v \in Units : Guarded(units, dispatches, fences, v)
  BY HeadFenced DEF Dispatch, At
<1>2. /\ run # "FAILED_TERMINAL" /\ h[1] \notin {"move", "reject", "accept"}
      /\ Sends(h) /\ ~ToStopping(h) /\ h[1] \in Sending
  BY <1>1 DEF LateKinds, Sends, Sending, ToStopping
<1>3. u \in Units /\ i \in Nat /\ HeldBy(fences, u, units[u].fence) /\ h[4] \in 1 .. contract.revision
  BY <1>1, EntryShape DEF Kept, Sound
<1>4. Targets(h) = {u}
  BY <1>2, TargetsAre
<1>5. \/ CanDispatch(u, i) /\ RecordDispatch(u, i, h[4]) /\ Continue(c, q, Rest(c))
      \/ End(c)
  BY DEF Dispatch, Arg
<1>6. q \in Underway
  BY <1>1, NotedMade
<1>7. Ordered(a)
  BY <1>1 DEF Meanwhile, CInv, Fits
<1> HIDE DEF h, u, i, q, a
<1>8. AwaitedIn(dispatches, u) = {}
  BY <1>1, <1>2, <1>4 DEF Sound
<1>9. CASE End(c)
  BY <1>1, <1>2, <1>9, LooselyDecided DEF h
<1>10. CASE CanDispatch(u, i) /\ RecordDispatch(u, i, h[4]) /\ Continue(c, q, Rest(c))
  <2>1. /\ run' = run
        /\ \A v \in Units \ {u} : units'[v] = units[v] /\ dispatches'[v] = dispatches[v]
        /\ \A v \in Units : Guarded(units', dispatches', fences', v)
    BY <1>1, <1>3, <1>8, <1>10, AttemptSent
  <2>2. ASSUME NEW k \in 2 .. Len(a)
        PROVE  Kept(a[k], units', dispatches', fences') /\ ~Lifts(a[k]) /\ a[k][1] # "stop fences"
    <3>1. Len(a) \in Nat /\ k \in 1 .. Len(a) /\ 1 \in 1 .. Len(a) /\ 1 < k
      BY <1>1
    <3>2. Follows(a[1], a[k]) /\ Kept(a[k], units, dispatches, fences)
      BY <1>1, <3>1 DEF Fenced
    <3>3. a[k][1] = "wave"
      <4>1. Sends(a[1])
        BY <1>1, <1>2
      <4> QED
        BY <3>2, <4>1 DEF Follows
    <3>4. Targets(a[k]) = a[k][2]
      BY <3>3, TargetsAre
    <3>5. Targets(a[1]) \cap Targets(a[k]) = {}
      BY <1>7, <3>1 DEF Ordered
    <3>6. u \notin a[k][2]
      BY <1>1, <1>4, <3>4, <3>5
    <3>7. a[k][2] \subseteq Units
      <4>1. a[k] \in Entry
        BY <1>1, <3>1
      <4> QED
        BY <3>3, <4>1, EntryShape
    <3>8. \A v \in a[k][2] : ~Out(units, dispatches, v)
      BY <3>2, <3>3 DEF Kept, Reaches
    <3>9. \A v \in a[k][2] : ~Out(units', dispatches', v)
      BY <2>1, <3>6, <3>7, <3>8 DEF Out
    <3> QED
      BY <3>3, <3>9 DEF Kept, Reaches, Numbered, Lifts
  <2> QED
    BY <1>1, <1>6, <1>10, <2>1, <2>2, SentOn DEF a
<1> QED
  BY <1>5, <1>9, <1>10

LEMMA SteppingFenced ==
    ASSUME Meanwhile, OneCommand, NEW c \in Commands, Stepping(c)
    PROVE  FenceInv'
BY ListFenced, OrphansFenced, ResultsFenced, ContractFenced, AwaitFenced, AskAgainFenced,
   SelectFenced, WaveFenced, GateFenced, ClaimFenceFenced, ClaimFenced, DispatchFenced
   DEF Stepping

-----------------------------------------------------------------------------
(* Results, plans and stops *)

LEMMA ReceivedFenced ==
    ASSUME Meanwhile, OneCommand, NEW c \in Commands, Received(c)
    PROVE  FenceInv'
<1> DEFINE h == Head(p[c].agenda)
           u == h[2]
           i == h[3]
           w == <<"walk">>
           n == <<"ensure">>
           s == <<"settle">>
           j == <<"fetch", u, i>>
           late == <<<<"reject", u, i>>, <<"fail", u>>, <<"tell", u>>, Park(u, h[4]), <<"reconcile">>>>
<1>1. /\ p[c] # Idle /\ h[1] = "received" /\ p[c] \in Underway
      /\ Kept(h, units, dispatches, fences)
  BY HeadFenced DEF Received, At
<1>2. /\ h[1] \in EndKinds /\ h[1] \notin {"move", "reject", "accept"} /\ h[1] \in Numbered
  BY <1>1 DEF EndKinds, Numbered
<1>3. Out(units, dispatches, u) => i = Len(dispatches[u])
  BY <1>1, <1>2 DEF Kept
<1>4. \/ run \in Walkable /\ Decide(c, <<w, n, j, s>>)
      \/ Decide(c, late)
  BY DEF Received, Arg
<1>5. /\ w[1] = "walk" /\ n[1] = "ensure" /\ j[1] = "fetch" /\ j[2] = u /\ j[3] = i
      /\ s[1] = "settle"
  OBVIOUS
<1>6. Given(late, u, units, dispatches, fences, run)
  <2> HIDE DEF u, i, h
  <2> QED
    BY <1>3, VerdictLists
<1> HIDE DEF h, u, i, w, n, s, j, late
<1>7. CASE Decide(c, late)
  BY <1>1, <1>2, <1>6, <1>7, VerdictStep DEF h
<1>8. CASE run \in Walkable /\ Decide(c, <<w, n, j, s>>)
  <2>1. run # "FAILED_TERMINAL"
    BY <1>8 DEF Walkable, DispatchSource
  <2>2. \A e \in {w, n, j, s} : Kept(e, units, dispatches, fences)
    BY <1>3, <1>5 DEF Kept, Numbered, Reaches
  <2>3. \A e \in {w, n, j, s} : Free(e, units, dispatches, fences, run)
    BY <1>5, <2>1, <2>2 DEF Free, Lifts
  <2>4. /\ Follows(w, n) /\ Follows(w, j) /\ Follows(w, s) /\ Follows(n, j) /\ Follows(n, s)
        /\ Follows(j, s)
    BY <1>5 DEF Follows, Sends, Sending, Fatal, LateKinds
  <2>5. Fenced(<<w, n, j, s>>, units, dispatches, fences, run)
    BY <2>3, <2>4, FreeLists
  <2>6. Lists(<<w, n, j, s>>)
    BY ListsMade
  <2>7. Continue(c, p[c], <<w, n, j, s>> \o Rest(c)) /\ UNCHANGED tables
    BY <1>8 DEF Decide
  <2> QED
    BY <1>1, <1>2, <2>5, <2>6, <2>7, Decided DEF h
<1> QED
  BY <1>4, <1>7, <1>8

LEMMA FetchFenced ==
    ASSUME Meanwhile, OneCommand, NEW c \in Commands, Fetch(c)
    PROVE  FenceInv'
<1> DEFINE h == Head(p[c].agenda)
           x == <<"judge", h[2], h[3], units[h[2]].fence>>
           more == <<x>>
<1>1. /\ p[c] # Idle /\ h[1] = "fetch" /\ p[c] \in Underway
      /\ Kept(h, units, dispatches, fences)
      /\ run = "FAILED_TERMINAL" => h[1] \in LateKinds
  BY HeadFenced DEF Fetch, At
<1>2. /\ run # "FAILED_TERMINAL" /\ h[1] \notin {"move", "reject", "accept"}
      /\ Fatal(h) /\ h[1] \in Numbered
  BY <1>1 DEF LateKinds, Fatal, Numbered
<1>3. Out(units, dispatches, h[2]) => h[3] = Len(dispatches[h[2]])
  BY <1>1, <1>2 DEF Kept
<1>4. x[1] = "judge" /\ x[2] = h[2] /\ x[3] = h[3]
  OBVIOUS
<1>5. Continue(c, p[c], more \o Rest(c)) /\ UNCHANGED tables
  BY DEF Fetch, Arg, Decide
<1>6. Lists(more) /\ Len(more) = 1 /\ more[1] = x
  BY ListsMade
<1> HIDE DEF h, x
<1>7. Kept(x, units, dispatches, fences)
  BY <1>3, <1>4 DEF Kept, Numbered, Reaches
<1>8. Free(x, units, dispatches, fences, run)
  BY <1>2, <1>4, <1>7 DEF Free, Lifts
<1>9. Fenced(more, units, dispatches, fences, run)
  BY <1>8, FreeLists
<1> HIDE DEF more
<1>10. Yields(h, x)
  BY <1>2, <1>4 DEF Yields, Sends, Sending
<1>11. \A k \in 1 .. Len(more) : Yields(h, more[k])
  BY <1>6, <1>10
<1> QED
  BY <1>1, <1>2, <1>5, <1>6, <1>9, <1>11, Decided DEF h

LEMMA OrientFenced ==
    ASSUME Meanwhile, OneCommand, NEW c \in Commands, Orient(c)
    PROVE  FenceInv'
<1> DEFINE m == Moves(<<"PLANNING">>)
<1>1. /\ p[c] # Idle /\ Head(p[c].agenda)[1] \notin {"move", "reject", "accept"}
      /\ (run = "ORIENTING" /\ Decide(c, m)) \/ Decide(c, <<>>)
  BY DEF Orient, At
<1>2. AllLoose(m) /\ AllLoose(<<>>) /\ Late(<<>>)
  <2>1. "PLANNING" \in RunStates \ {"FAILED_TERMINAL"}
    BY DEF RunStates
  <2> QED
    BY <2>1, LoosePaths
<1> HIDE DEF m
<1> QED
  BY <1>1, <1>2, LooselyDecided

LEMMA PlanMilder ==
    ASSUME RTypeOK, NEW g \in Plans, UpsertUnits(g),
           \A u \in Units : Guarded(units, dispatches, fences, u)
    PROVE  /\ \A u \in Units : Guarded(units', dispatches', fences', u)
           /\ Easier(units, dispatches, units', dispatches')
           /\ \A u \in Dropped(g) : ~Out(units', dispatches', u)
           /\ run' = "READY" /\ run # "FAILED_TERMINAL"
<1> DEFINE rows == [u \in Units |-> PlannedRow(g, u)]
<1>1. /\ units' = Cascade(rows) /\ run' = "READY" /\ fences' = fences
      /\ run # "FAILED_TERMINAL"
  BY DEF UpsertUnits, CanUpsert, CanMove, Legal
<1>2. rows \in [Units -> UnitRow] /\ \A u \in Units : rows[u] = PlannedRow(g, u)
  BY PlannedRowIs
<1> HIDE DEF rows
<1>3. ASSUME NEW u \in Units
      PROVE  /\ Guarded(units', dispatches', fences', u)
             /\ Out(units', dispatches', u) =>
                  Out(units, dispatches, u) /\ Len(dispatches'[u]) = Len(dispatches[u])
             /\ AwaitedIn(dispatches', u) \subseteq AwaitedIn(dispatches, u)
             /\ u \in Dropped(g) => ~Out(units', dispatches', u)
  <2> DEFINE r == rows[u]
             s == dispatches'[u]
             d == dispatches[u]
  <2>1. /\ d \in Seq(Attempt) /\ units[u] \in UnitRow /\ r \in UnitRow
        /\ Guarded(units, dispatches, fences, u)
    BY <1>2 DEF RTypeOK
  <2>2. /\ s \in Seq(Attempt) /\ DOMAIN s = DOMAIN d
        /\ \A i \in DOMAIN d : s[i].status = d[i].status \/ s[i].status \notin Open
        /\ u \in Dropped(g) => AwaitedIn(dispatches', u) = {}
    <3> DEFINE closed(i) == [d[i] EXCEPT !.status = "CANCELLED"]
               cut == [i \in DOMAIN d |-> IF d[i].status \in Open THEN closed(i) ELSE d[i]]
    <3>1. s = IF u \in Dropped(g) THEN cut ELSE d
      BY DEF UpsertUnits
    <3>2. ASSUME NEW i \in DOMAIN d
          PROVE  d[i] \in Attempt /\ closed(i) \in Attempt /\ closed(i).status = "CANCELLED"
      <4>1. d[i] \in Attempt
        BY <2>1
      <4> QED
        BY <4>1 DEF Attempt
    <3> HIDE DEF closed
    <3>3. cut \in Seq(Attempt) /\ DOMAIN cut = DOMAIN d
      <4>1. Len(d) \in Nat /\ DOMAIN d = 1 .. Len(d)
        BY <2>1
      <4> QED
        BY <3>2, <4>1
    <3>4. ASSUME NEW i \in DOMAIN d
          PROVE  /\ cut[i].status = d[i].status \/ cut[i].status \notin Open
                 /\ cut[i].status # "DISPATCHED"
      BY <3>2 DEF Open
    <3>5. u \in Dropped(g) => \A i \in DOMAIN s : s[i].status # "DISPATCHED"
      BY <3>1, <3>3, <3>4
    <3> HIDE DEF cut, s, d
    <3>6. /\ s \in Seq(Attempt) /\ DOMAIN s = DOMAIN d
          /\ \A i \in DOMAIN d : s[i].status = d[i].status \/ s[i].status \notin Open
      BY <2>1, <3>1, <3>3, <3>4
    <3> QED
      BY <3>5, <3>6 DEF AwaitedIn, s
  <2>3. Len(s) = Len(d)
    <3> HIDE DEF s, d
    <3> QED
      BY <2>1, <2>2, SameLength
  <2>4. units[u].status = "SKIPPED" => AwaitedIn(dispatches, u) = {} \/ units[u].fence = 0
    BY <2>1 DEF Guarded
  <2>5. u \notin Dropped(g) => AwaitedIn(dispatches', u) = AwaitedIn(dispatches, u)
    <3>1. u \notin Dropped(g) => s = d
      BY DEF UpsertUnits
    <3> QED
      BY <3>1 DEF AwaitedIn
  <2>6. \/ u \notin Dropped(g) /\ r = units[u]
        \/ /\ r.status \in {"READY", "PENDING"} /\ r.fence = units[u].fence
           /\ units[u].status = "SKIPPED" /\ u \notin Dropped(g)
        \/ r.status \in {"READY", "PENDING"} /\ r.fence = 0 /\ u \notin Dropped(g)
        \/ r.status = "SKIPPED" /\ u \in Dropped(g)
    <3>1. \A x : StatusFor(x) \in {"READY", "PENDING"}
      BY DEF StatusFor
    <3>2. \A x : LET y == [units[u] EXCEPT !.status = x] IN y.status = x /\ y.fence = units[u].fence
      BY <2>1 DEF UnitRow
    <3>3. r = PlannedRow(g, u)
      BY <1>2
    <3>4. CASE u \in DOMAIN g /\ units[u].deps = g[u].deps /\ units[u].def = g[u].def
      <4>1. u \notin Dropped(g)
        BY <3>4 DEF Dropped
      <4>2. CASE units[u].status = "SKIPPED"
        <5>1. r = [units[u] EXCEPT !.status = StatusFor(units[u].deps)]
          BY <3>3, <3>4, <4>2 DEF PlannedRow
        <5> QED
          BY <3>1, <3>2, <4>1, <4>2, <5>1
      <4>3. CASE units[u].status # "SKIPPED"
        BY <3>3, <3>4, <4>1, <4>3 DEF PlannedRow
      <4> QED
        BY <4>2, <4>3
    <3>5. CASE u \in DOMAIN g /\ ~(units[u].deps = g[u].deps /\ units[u].def = g[u].def)
      <4>1. u \notin Dropped(g)
        BY <3>5 DEF Dropped
      <4>2. r = [status |-> StatusFor(g[u].deps), deps |-> g[u].deps,
                 def |-> g[u].def, retries |-> 0, fence |-> 0]
        BY <3>3, <3>5 DEF PlannedRow
      <4> HIDE DEF r
      <4>3. r.status = StatusFor(g[u].deps) /\ r.fence = 0
        BY <4>2
      <4> QED
        BY <3>1, <4>1, <4>3
    <3>6. CASE u \notin DOMAIN g /\ units[u].status \in {"UNPLANNED", "DONE"}
      BY <3>3, <3>6 DEF PlannedRow, Dropped, Planned
    <3>7. CASE u \notin DOMAIN g /\ units[u].status \notin {"UNPLANNED", "DONE"}
      <4>1. u \in Dropped(g)
        BY <3>7 DEF Dropped, Planned
      <4>2. r = [units[u] EXCEPT !.status = "SKIPPED"]
        BY <3>3, <3>7 DEF PlannedRow
      <4> QED
        BY <3>2, <4>1, <4>2
    <3> QED
      BY <3>4, <3>5, <3>6, <3>7
  <2>7. \/ units'[u] = r
        \/ r.status = "DONE" /\ units'[u].status = "PENDING" /\ units'[u].fence = 0
    BY <1>1, <1>2, CascadeIs
  <2> HIDE DEF r, s, d
  <2>8. \/ units'[u] = units[u]
        \/ /\ units'[u].status \notin {"DISPATCHED", "RESULT_IN"}
           /\ AwaitedIn(dispatches', u) = {} \/ units'[u].fence = 0
    BY <2>2, <2>4, <2>5, <2>6, <2>7
  <2>9. u \in Dropped(g) => units'[u].status = "SKIPPED"
    BY <2>6, <2>7
  <2>10. u \in Dropped(g) => ~Out(units', dispatches', u)
    BY <2>9 DEF Out
  <2>11. /\ Guarded(units', dispatches', fences, u)
         /\ Out(units', dispatches', u) =>
              Out(units, dispatches, u) /\ Len(dispatches'[u]) = Len(dispatches[u])
         /\ AwaitedIn(dispatches', u) \subseteq AwaitedIn(dispatches, u)
    BY <2>1, <2>2, <2>3, <2>8, Milder DEF s, d
  <2> QED
    BY <1>1, <2>10, <2>11
<1> QED
  BY <1>1, <1>3 DEF Easier, Dropped, Planned

LEMMA SetMild ==
    ASSUME NEW S, IsFiniteSet(S), NEW us, NEW ds, NEW fs, NEW r,
           \A x \in S : Mild(x, us, ds, fs, r)
    PROVE  AllMild(SetToSeq(S), us, ds, fs, r)
<1> DEFINE a == SetToSeq(S)
<1>1. Lists(a) /\ \A k \in 1 .. Len(a) : a[k] \in S
  BY SetLists
<1> HIDE DEF a
<1>2. AllMild(a, us, ds, fs, r)
  BY <1>1 DEF AllMild
<1> QED
  BY <1>2 DEF a

LEMMA UpsertFenced ==
    ASSUME Meanwhile, OneCommand, NEW c \in Commands, Upsert(c)
    PROVE  FenceInv'
<1> DEFINE h == Head(p[c].agenda)
           g == h[2]
           F == OrphanedFences(g)
           P == {Park(f[1], f[2]) : f \in F}
           parks == SetToSeq(P)
           x == <<"reconcile">>
           more == parks \o <<x>>
<1>1. /\ p[c] # Idle /\ h[1] = "upsert" /\ p[c] \in Underway /\ h \in Entry /\ RTypeOK
      /\ \A u \in Units : Guarded(units, dispatches, fences, u)
  BY HeadFenced DEF Upsert, At
<1>2. /\ h[1] \in EndKinds /\ h[1] \notin {"move", "reject", "accept"} /\ ~ToStopping(h)
      /\ g \in Plans
  BY <1>1, EntryShape DEF EndKinds, ToStopping
<1>3. \/ UpsertUnits(g) /\ Continue(c, p[c], more \o Rest(c))
      \/ End(c)
  BY DEF Upsert, Do, Arg, End
<1>4. x[1] = "reconcile"
  OBVIOUS
<1>5. Dropped(g) \subseteq Units
  BY DEF Dropped, Planned
<1>6. \A f \in F : f[1] \in Dropped(g)
  BY DEF OrphanedFences
<1>7. IsFiniteSet(P)
  <2> DEFINE S == {v \in Dropped(g) : units[v].fence # 0}
             k == [u \in S |-> Park(u, units[u].fence)]
  <2>1. IsFiniteSet(S)
    BY <1>5, FS_Subset, UnitAssumptions
  <2>2. IsFiniteSet({k[u] : u \in S})
    BY <2>1, ImageFinite
  <2>3. P = {k[u] : u \in S}
    <3>1. F = {<<u, units[u].fence>> : u \in S}
      BY DEF OrphanedFences
    <3> HIDE DEF S
    <3>2. ASSUME NEW f \in F
          PROVE  \E u \in S : Park(f[1], f[2]) = k[u]
      BY <3>1
    <3>3. ASSUME NEW u \in S
          PROVE  \E f \in F : k[u] = Park(f[1], f[2])
      <4>1. <<u, units[u].fence>> \in F
        BY <3>1
      <4> QED
        BY <4>1
    <3> QED
      BY <3>2, <3>3
  <2> QED
    BY <2>2, <2>3
<1>8. \A y \in P : y[1] = "park" /\ y[2] \in Dropped(g)
  BY <1>6 DEF Park
<1> HIDE DEF h, g, F, P, parks, x, more
<1>9. CASE End(c)
  BY <1>1, <1>2, <1>9, LooselyDecided DEF h
<1>10. CASE UpsertUnits(g) /\ Continue(c, p[c], more \o Rest(c))
  <2>1. /\ \A u \in Units : Guarded(units', dispatches', fences', u)
        /\ Easier(units, dispatches, units', dispatches')
        /\ \A u \in Dropped(g) : ~Out(units', dispatches', u)
        /\ run' = "READY"
    BY <1>1, <1>2, <1>10, PlanMilder
  <2>2. run' # "FAILED_TERMINAL"
    BY <2>1
  <2>3. ASSUME NEW y \in P
        PROVE  Mild(y, units', dispatches', fences', run')
    <3>1. y[1] = "park" /\ ~Out(units', dispatches', y[2])
      BY <1>8, <2>1
    <3>2. Kept(y, units', dispatches', fences')
      BY <3>1 DEF Kept, Numbered, Reaches
    <3> QED
      BY <2>2, <3>1, <3>2 DEF Mild, Free, Sends, Sending, Fatal
  <2>4. AllMild(parks, units', dispatches', fences', run')
    BY <1>7, <2>3, SetMild DEF parks
  <2>5. Mild(x, units', dispatches', fences', run')
    <3>1. Kept(x, units', dispatches', fences')
      BY <1>4 DEF Kept, Numbered, Reaches
    <3> QED
      BY <1>4, <2>2, <3>1 DEF Mild, Free, Lifts, Sends, Sending, Fatal
  <2>6. AllMild(<<x>>, units', dispatches', fences', run')
    BY <2>5, MildLists
  <2>7. AllMild(more, units', dispatches', fences', run')
    BY <2>4, <2>6, MildJoined DEF more
  <2>8. Lists(more) /\ Fenced(more, units', dispatches', fences', run')
    BY <2>7, MildFenced
  <2>9. \A u \in Units : Ends(h, u) => ~Out(units', dispatches', u)
    BY <1>1 DEF Ends
  <2> QED
    BY <1>1, <1>2, <1>10, <2>1, <2>2, <2>8, <2>9, Onward DEF h
<1> QED
  BY <1>3, <1>9, <1>10

LEMMA Paired ==
    ASSUME NEW y, NEW z
    PROVE  <<y>> \o <<z>> = <<y, z>> /\ <<>> \o <<z>> = <<z>>
<1> DEFINE a == <<y>>
           b == <<z>>
           two == <<y, z>>
           d == a \o b
<1>1. /\ Lists(a) /\ Len(a) = 1 /\ a[1] = y
      /\ Lists(b) /\ Len(b) = 1 /\ b[1] = z
      /\ Lists(two) /\ Len(two) = 2 /\ two[1] = y /\ two[2] = z
  BY ListsMade
<1>2. <<>> \o b = b
  <2>1. b \in Seq({z})
    OBVIOUS
  <2> HIDE DEF b
  <2> QED
    BY <2>1
<1> HIDE DEF a, b, two
<1>3. /\ Lists(d) /\ Len(d) = Len(a) + Len(b)
      /\ \A k \in 1 .. Len(d) :
           \/ k \in 1 .. Len(a) /\ d[k] = a[k]
           \/ k - Len(a) \in 1 .. Len(b) /\ d[k] = b[k - Len(a)]
  BY <1>1, Joined
<1> HIDE DEF d
<1>4. \A k \in 1 .. Len(d) :
        \/ k \in 1 .. 1 /\ d[k] = a[k]
        \/ k - 1 \in 1 .. 1 /\ d[k] = b[k - 1]
  BY <1>1, <1>3
<1>5. \A k \in 1 .. Len(d) : d[k] = two[k]
  BY <1>1, <1>4
<1>6. Same(d, two)
  BY <1>1, <1>3, <1>5, SameLists
<1>7. d = two
  BY <1>6 DEF Same
<1> QED
  BY <1>2, <1>7 DEF a, b, two, d

LEMMA StoppingFenced ==
    ASSUME Meanwhile, OneCommand, NEW c \in Commands, Stopping(c)
    PROVE  FenceInv'
<1> DEFINE h == Head(p[c].agenda)
           x == <<"move", "STOPPING">>
           f == <<"stop fences">>
           y == <<"move", "STOPPED">>
           long == <<x, f, y>>
           short == <<f, y>>
<1>1. /\ p[c] # Idle /\ h[1] = "stopping" /\ p[c] \in Underway /\ run \in RunStates
      /\ run = "FAILED_TERMINAL" => h[1] \in LateKinds
  BY HeadFenced DEF Stopping, At, RTypeOK
<1>2. run # "FAILED_TERMINAL" /\ h[1] \notin {"move", "reject", "accept"}
  BY <1>1 DEF LateKinds
<1>3. \/ Decide(c, <<x>> \o <<f>> \o <<y>>)
      \/ run \in Finished /\ Decide(c, <<>> \o <<f>> \o <<y>>)
  <2>1. Moves(<<"STOPPING">>) = <<x>> /\ Moves(<<"STOPPED">>) = <<y>>
    BY DEF Moves
  <2>2. run \in Terminal \cup {"STOPPING"} => run \in Finished
    BY <1>2 DEF Terminal, Finished, Meanwhile, Stopped
  <2> QED
    BY <2>1, <2>2 DEF Stopping
<1>4. x[1] = "move" /\ x[2] = "STOPPING" /\ f[1] = "stop fences" /\ y[1] = "move" /\ y[2] = "STOPPED"
  OBVIOUS
<1>5. <<x>> \o <<f>> \o <<y>> = long /\ <<>> \o <<f>> \o <<y>> = short
  <2> HIDE DEF x, f, y
  <2>1. <<x>> \o <<f>> = <<x, f>> /\ <<>> \o <<f>> = <<f>> /\ <<f>> \o <<y>> = <<f, y>>
    BY Paired
  <2>2. <<x, f>> \o <<y>> = <<x, f, y>>
    BY Concats
  <2> QED
    BY <2>1, <2>2
<1> HIDE DEF h, x, f, y
<1>6. /\ Lists(long) /\ Len(long) = 3 /\ long[1] = x /\ long[2] = f /\ long[3] = y
      /\ Lists(short) /\ Len(short) = 2 /\ short[1] = f /\ short[2] = y
  BY ListsMade
<1>7. \A e \in {x, f, y} :
        /\ Kept(e, units, dispatches, fences) /\ ~Lifts(e)
        /\ ~Sends(e) /\ e[1] # "record" /\ ~Fatal(e) /\ e[1] \notin {"claim", "dispatch"}
  BY <1>4 DEF Kept, Numbered, Reaches, Lifts, Sends, Sending, Fatal
<1>8. \A e, g \in {x, f, y} : Follows(e, g) /\ Yields(h, e)
  BY <1>7 DEF Follows, Yields
<1>9. ToStopping(x) /\ x[1] # "stop fences" /\ y[1] # "stop fences"
  BY <1>4 DEF ToStopping
<1> HIDE DEF long, short
<1>10. Fenced(long, units, dispatches, fences, run)
  <2>1. \A k \in 1 .. Len(long) : long[k] \in {x, f, y}
    BY <1>6
  <2>2. \A k \in 1 .. Len(long) : long[k][1] = "stop fences" => k > 1 /\ ToStopping(long[k - 1])
    <3>1. \A k \in 1 .. Len(long) : k = 1 \/ k = 2 \/ k = 3
      BY <1>6
    <3>2. 2 - 1 = 1 /\ 2 > 1
      OBVIOUS
    <3> QED
      BY <1>6, <1>9, <3>1, <3>2
  <2> QED
    BY <1>2, <1>7, <1>8, <2>1, <2>2 DEF Fenced
<1>11. run \in Finished => Fenced(short, units, dispatches, fences, run)
  <2> SUFFICES ASSUME run \in Finished PROVE Fenced(short, units, dispatches, fences, run)
    OBVIOUS
  <2>1. \A k \in 1 .. Len(short) : short[k] \in {x, f, y}
    BY <1>6
  <2>2. \A k \in 1 .. Len(short) : short[k][1] = "stop fences" => k = 1
    <3>1. \A k \in 1 .. Len(short) : k = 1 \/ k = 2
      BY <1>6
    <3> QED
      BY <1>6, <1>9, <3>1
  <2> QED
    BY <1>2, <1>7, <1>8, <2>1, <2>2 DEF Fenced
<1>12. /\ \A k \in 1 .. Len(long) : Yields(h, long[k])
       /\ \A k \in 1 .. Len(short) : Yields(h, short[k])
  BY <1>6, <1>8
<1>13. CASE Decide(c, long)
  <2>1. Continue(c, p[c], long \o Rest(c)) /\ UNCHANGED tables
    BY <1>13 DEF Decide
  <2> QED
    BY <1>1, <1>2, <1>6, <1>10, <1>12, <2>1, Decided DEF h
<1>14. CASE run \in Finished /\ Decide(c, short)
  <2>1. Continue(c, p[c], short \o Rest(c)) /\ UNCHANGED tables
    BY <1>14 DEF Decide
  <2> QED
    BY <1>1, <1>2, <1>6, <1>11, <1>12, <1>14, <2>1, Decided DEF h
<1> QED
  BY <1>3, <1>5, <1>13, <1>14

\* A run that is over has no fence to stop.
LEMMA StopFencesFenced ==
    ASSUME Meanwhile, OneCommand, NEW c \in Commands, StopFences(c)
    PROVE  FenceInv'
<1> DEFINE h == Head(p[c].agenda)
           V == {v \in Units : /\ units[v].status \in {"CLAIMED", "DISPATCHED", "RESULT_IN"}
                               /\ units[v].fence # 0}
           S == {Park(u, units[u].fence) : u \in V}
           more == SetToSeq(S)
<1>1. /\ p[c] # Idle /\ h[1] = "stop fences" /\ run \in Finished
      /\ run \in Finished => NothingLeft(units, dispatches)
  BY HeadFenced DEF StopFences, At
<1>2. run # "FAILED_TERMINAL" /\ h[1] \notin {"move", "reject", "accept"}
  BY <1>1 DEF Finished
<1>3. Decide(c, more)
  BY DEF StopFences
<1>4. V = {}
  BY <1>1 DEF NothingLeft, UnitOver
<1>5. S = {}
  BY <1>4
<1> HIDE DEF h, S
<1>6. IsFiniteSet(S)
  BY <1>5, FS_EmptySet
<1>7. AllLoose(more)
  BY <1>5, <1>6, SetLoose
<1> HIDE DEF more
<1> QED
  BY <1>1, <1>2, <1>3, <1>7, LooselyDecided DEF h

LEMMA ProgressFenced ==
    ASSUME Meanwhile, OneCommand, NEW c \in Commands, Progress(c)
    PROVE  FenceInv'
BY TransactionFenced, LookFenced, JudgingFenced, SteppingFenced, ReceivedFenced, FetchFenced,
   OrientFenced, UpsertFenced, StoppingFenced, StopFencesFenced DEF Progress

-----------------------------------------------------------------------------
(* Beginnings, the founder and the theorem *)

LEMMA StartFenced ==
    ASSUME Meanwhile, OneCommand, NEW c \in Commands, NEW s, NEW a, Start(c, s, a),
           UNCHANGED tables, Fenced(a, units, dispatches, fences, run)
    PROVE  FenceInv'
<1>1. CTypeOK /\ \A u \in Units : Guarded(units, dispatches, fences, u)
  BY DEF Meanwhile, CInv, FenceInv
<1>2. p'[c].agenda = a
  BY <1>1 DEF Start, CTypeOK
<1>3. UNCHANGED <<run, units, dispatches, fences>>
  BY DEF tables
<1>4. \A u \in Units : Guarded(units', dispatches', fences', u)
  BY <1>1, <1>3, SameGuarded
<1>5. Fenced(p'[c].agenda, units', dispatches', fences', run')
  BY <1>2, <1>3
<1> QED
  BY <1>4, <1>5, FenceFrame

LEMMA BeginFenced ==
    ASSUME Meanwhile, OneCommand, NEW c \in Commands,
           BeginStep(c) \/ BeginResult(c) \/ BeginPlan(c) \/ BeginStop(c)
    PROVE  FenceInv'
<1>1. CASE BeginStep(c) \/ BeginStop(c)
  <2> DEFINE k == <<"list">>
             s == <<"stopping">>
  <2>1. /\ Start(c, driver, <<k>>) \/ Start(c, driver, <<s>>)
        /\ UNCHANGED tables /\ run # "FAILED_TERMINAL"
    BY <1>1 DEF BeginStep, BeginStop, Terminal
  <2>2. Loose(k) /\ Loose(s)
    BY LooseMade
  <2> HIDE DEF k, s
  <2>3. AllLoose(<<k>>) /\ AllLoose(<<s>>)
    BY <2>2, LooseLists
  <2>4. /\ Fenced(<<k>>, units, dispatches, fences, run)
        /\ Fenced(<<s>>, units, dispatches, fences, run)
    BY <2>1, <2>3, LooseFenced
  <2> QED
    BY <2>1, <2>4, StartFenced
<1>2. CASE BeginResult(c)
  <2>1. PICK d \in Dispatches({"DISPATCHED"}) :
          Start(c, driver,
                 IF run = "PAUSED" \/ contract.state = "paused"
                 THEN <<<<"record", d[1], d[2]>>>>
                 ELSE <<<<"record", d[1], d[2]>>,
                        <<"received", d[1], d[2], units[d[1]].fence>>>>)
    BY <1>2 DEF BeginResult
  <2> DEFINE r == <<"record", d[1], d[2]>>
             k == <<"received", d[1], d[2], units[d[1]].fence>>
  <2>2. (Start(c, driver, <<r>>) \/ Start(c, driver, <<r, k>>)) /\ UNCHANGED tables
    BY <1>2, <2>1 DEF BeginResult
  <2>3. d[2] = Len(dispatches[d[1]])
    <3>1. /\ d[1] \in Units /\ d[2] \in DOMAIN dispatches[d[1]]
          /\ dispatches[d[1]][d[2]].status = "DISPATCHED"
      BY DispatchesAre
    <3>2. Guarded(units, dispatches, fences, d[1])
      BY <3>1 DEF Meanwhile, FenceInv
    <3> QED
      BY <3>1, <3>2 DEF Guarded, AwaitedIn
  <2>4. /\ r[1] = "record" /\ r[2] = d[1] /\ r[3] = d[2]
        /\ k[1] = "received" /\ k[2] = d[1] /\ k[3] = d[2]
    OBVIOUS
  <2> HIDE DEF r, k
  <2>5. Kept(r, units, dispatches, fences) /\ Kept(k, units, dispatches, fences)
    BY <2>3, <2>4 DEF Kept, Reaches
  <2>6. Free(r, units, dispatches, fences, run) /\ Free(k, units, dispatches, fences, run)
    BY <2>4, <2>5 DEF Free, Lifts, LateKinds
  <2>7. Follows(r, k)
    BY <2>4 DEF Follows, Sends, Sending, Fatal
  <2>8. /\ Fenced(<<r>>, units, dispatches, fences, run)
        /\ Fenced(<<r, k>>, units, dispatches, fences, run)
    BY <2>6, <2>7, FreeLists
  <2> QED
    BY <2>2, <2>8, StartFenced
<1>3. CASE BeginPlan(c)
  <2>1. PICK g \in Plans :
          Start(c, driver, (IF run = "NEW" THEN Moves(<<"ORIENTING">>) ELSE <<>>)
                           \o <<<<"orient">>, <<"upsert", g>>>>)
    BY <1>3 DEF BeginPlan
  <2> DEFINE m == Moves(<<"ORIENTING">>)
             o == <<"orient">>
             v == <<"upsert", g>>
             n == <<>>
             b == <<o, v>>
  <2>2. (run = "NEW" /\ Start(c, driver, m \o b)) \/ Start(c, driver, n \o b)
    BY <2>1
  <2>3. UNCHANGED tables
    BY <1>3 DEF BeginPlan
  <2>4. Loose(o) /\ Loose(v) /\ o[1] \in LateKinds /\ v[1] \in LateKinds
    BY LooseMade DEF LateKinds
  <2>5. AllLoose(m) /\ AllLoose(n) /\ Late(n)
    <3>1. "ORIENTING" \in RunStates \ {"FAILED_TERMINAL"}
      BY DEF RunStates
    <3> QED
      BY <3>1, LoosePaths
  <2> HIDE DEF o, v, m, n
  <2>6. AllLoose(b) /\ Late(b)
    BY <2>4, LooseLists
  <2> HIDE DEF b
  <2>7. AllLoose(m \o b) /\ AllLoose(n \o b) /\ Late(n \o b)
    BY <2>5, <2>6, LooseJoined
  <2>8. /\ run = "NEW" => Fenced(m \o b, units, dispatches, fences, run)
        /\ Fenced(n \o b, units, dispatches, fences, run)
    BY <2>7, LooseFenced
  <2> QED
    BY <2>2, <2>3, <2>8, StartFenced
<1> QED
  BY <1>1, <1>2, <1>3

LEMMA RunFreed ==
    ASSUME NEW a, NEW us, NEW ds, NEW fs, NEW r, NEW s, Fenced(a, us, ds, fs, r),
           r \in Finished => s \in Finished, s = "FAILED_TERMINAL" => r = "FAILED_TERMINAL"
    PROVE  Fenced(a, us, ds, fs, s)
BY DEF Fenced

LEMMA FounderFenced ==
    ASSUME Meanwhile, OneCommand, Founder
    PROVE  FenceInv'
<1>1. /\ p' = p /\ UNCHANGED <<units, dispatches, fences>>
      /\ run \in Finished => run' \in Finished
      /\ run' = "FAILED_TERMINAL" => run = "FAILED_TERMINAL"
  BY DEF Founder, Interferes, Releases, Contract, Amend, Resolve, AdoptRun, SetRunState, Finished
<1>2. /\ \A u \in Units : Guarded(units, dispatches, fences, u)
      /\ \A c \in Commands : p[c] # Idle =>
           Fenced(p[c].agenda, units, dispatches, fences, run)
  BY DEF Meanwhile, FenceInv
<1>3. ASSUME NEW c \in Commands, p'[c] # Idle
      PROVE  Fenced(p'[c].agenda, units', dispatches', fences', run')
  <2> DEFINE a == p[c].agenda
  <2>1. Fenced(a, units, dispatches, fences, run)
    BY <1>1, <1>2, <1>3
  <2> HIDE DEF a
  <2>2. Fenced(a, units, dispatches, fences, run')
    BY <1>1, <2>1, RunFreed
  <2> QED
    BY <1>1, <2>2 DEF a
<1>4. \A u \in Units : Guarded(units', dispatches', fences', u)
  BY <1>1, <1>2, SameGuarded
<1> QED
  BY <1>3, <1>4 DEF FenceInv

LEMMA InitFenced ==
    ASSUME ControllerInit
    PROVE  FenceInv
<1>1. /\ \A u \in Units : dispatches[u] = <<>>
      /\ \A c \in Commands : p[c] = Idle
  BY DEF ControllerInit, RunInit
<1>2. ASSUME NEW u \in Units
      PROVE  Guarded(units, dispatches, fences, u)
  BY <1>1 DEF Guarded, Out, AwaitedIn
<1> QED
  BY <1>1, <1>2 DEF FenceInv

LEMMA StepFenced ==
    ASSUME CInv, DeliveryInv, FenceInv, OneCommand, [Next]_vars
    PROVE  FenceInv'
<1>1. CASE UNCHANGED vars
  <2>1. UNCHANGED <<run, units, dispatches, fences, p>>
    BY <1>1 DEF vars, pvars, tables
  <2> QED
    BY <2>1 DEF FenceInv
<1>2. CASE Next /\ Stopped(run)
  BY <1>2, StoppedStays DEF FenceInv
<1>3. CASE Next /\ ~Stopped(run)
  <2>1. Meanwhile
    BY <1>3 DEF Meanwhile
  <2>2. ASSUME NEW c \in Commands, Kill(c)
        PROVE  FenceInv'
    <3>1. CTypeOK /\ Continue(c, p[c], <<>>) /\ UNCHANGED tables
      BY <2>2 DEF CInv, Kill
    <3> QED
      BY <3>1, FenceOver
  <2> QED
    BY <1>3, <2>1, <2>2, BeginFenced, ProgressFenced, FounderFenced DEF Next
<1> QED
  BY <1>1, <1>2, <1>3

\* A unit that is out is fenced, as the row of it says.
LEMMA GuardedHolds ==
    ASSUME CInv, FenceInv
    PROVE  FencedWhileOpen
<1>1. CASE Stopped(run)
  BY <1>1 DEF FencedWhileOpen, Stopped
<1>2. CASE ~Stopped(run)
  <2>1. ASSUME NEW u \in Units, units[u].status \in {"DISPATCHED", "RESULT_IN"},
               units[u].fence # 0, <<u, Len(dispatches[u])>> \in OpenOf(u)
        PROVE  Holds(u, units[u].fence)
    <3> DEFINE i == Len(dispatches[u])
               d == <<u, i>>
    <3>1. d \in Dispatches(Open) /\ d[1] = u /\ d[2] = i
      BY <2>1 DEF OpenOf
    <3> HIDE DEF d
    <3>2. i \in DOMAIN dispatches[u] /\ dispatches[u][i].status \in Open
      BY <3>1, DispatchesAre
    <3>3. Out(units, dispatches, u)
      BY <2>1, <3>2 DEF Out
    <3>4. HeldBy(fences, u, units[u].fence)
      BY <1>2, <3>3 DEF FenceInv, Guarded
    <3> QED
      BY <2>1, <3>4 DEF HeldBy, Holds
  <2> QED
    BY <2>1 DEF FencedWhileOpen
<1> QED
  BY <1>1, <1>2

\* As long as a worker may write for a unit, the unit's fence is held: a kill
\* between any two transactions, a plan, a late result, a failed check or the
\* founder lifts no fence of an attempt that is still open (_close_without_running,
\* _verify_and_finish, _handle_late_result, reconcile_orphaned_claims), unless the
\* run is being stopped.
THEOREM FencedWhileOpenHolds == ASSUME OneCommand PROVE Spec => []FencedWhileOpen
<1>1. OneDriver /\ OneWorks
  BY DEF OneCommand, OneWorks, OneDriver, Works, Drives
<1>2. ControllerInit => FenceInv
  BY InitFenced
<1>3. CInv /\ DeliveryInv /\ FenceInv /\ [Next]_vars => FenceInv'
  BY StepFenced
<1>4. CInv /\ FenceInv => FencedWhileOpen
  BY GuardedHolds
<1>5. Spec => []CInv
  BY <1>1, AgendasFit
<1>6. Spec => []DeliveryInv
  <2>1. ControllerInit => DeliveryInv
    BY DEF ControllerInit, RunInit, DeliveryInv, Finished
  <2>2. CInv /\ DeliveryInv /\ [Next]_vars => DeliveryInv'
    BY <1>1, StepOver
  <2> QED
    BY <1>5, <2>1, <2>2, PTL DEF Spec
<1> QED
  BY <1>2, <1>3, <1>4, <1>5, <1>6, PTL DEF Spec
=============================================================================
