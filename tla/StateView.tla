----------------------------- MODULE StateView -----------------------------
(***************************************************************************)
(* STATE.md, the view write_state_view regenerates after every command.    *)
(*                                                                         *)
(* A command commits to the store and then redraws the file: it reads the  *)
(* records, reads the undelivered handovers, reads the file, checks its    *)
(* markers, saves the old text as a backup, prunes old backups, and        *)
(* replaces the file atomically (temporary file and os.replace).  There is *)
(* no lock ("There are no lock files", SECURITY.md), so the steps of two   *)
(* commands, and of a person editing the file, interleave.  Any step may   *)
(* be the last one: a failed or killed refresh is only warned about.       *)
(*                                                                         *)
(* Abstractions.  The store is the number of its commits; the generated    *)
(* block is the pair of commit numbers its two reads saw.  What people     *)
(* write is a set of notes.  Backups are identified by a stamp that grows, *)
(* as the timestamps in their names do.                                    *)
(***************************************************************************)
EXTENDS Naturals, FiniteSets

CONSTANTS
    Writers,       \* processes that run a command
    Notes,         \* pieces of human prose
    Protected,     \* what redaction and path masking make of a note
    NoView,        \* STATE.md does not exist
    Keep,          \* _STATE_BACKUP_KEEP
    EditsRace,     \* TRUE: people also save while a command is redrawing
    MaxCommits,    \* bound on commits
    MaxBackups     \* bound on backups ever made

ASSUME ProtectedIdempotent ==
    /\ Protected \in [Notes -> Notes]
    /\ \A n \in Notes : Protected[Protected[n]] = Protected[n]
ASSUME KeepPositive == Keep \in Nat \ {0}
ASSUME BoundsAreNumbers == MaxCommits \in Nat /\ MaxBackups \in Nat

NoBlock == [rows |-> 0, handovers |-> 0]
Block == [rows : Nat, handovers : Nat]
\* inside: notes typed between the markers; outside: everywhere else.
Text == [markers : {"none", "pair", "damaged"}, block : Block,
         inside : SUBSET Notes, outside : SUBSET Notes]
Resting == [at |-> "idle"]
Copies == [stamp : Nat, text : Text]

ASSUME NoViewIsNoText == NoView \notin Text

VARIABLES
    store,      \* number of commits
    file,       \* STATE.md: NoView or a Text
    backups,    \* the backups on disk: [stamp, text]
    stamp,      \* stamps handed out
    writer,     \* process -> where it is and what it holds
    typed,      \* history: the notes people typed outside the markers
    unseen      \* history: the processes that could not read a file that was there

viewvars == <<store, file, backups, stamp, writer, typed, unseen>>

VInit ==
    /\ store = 0
    /\ file = NoView
    /\ backups = {}
    /\ stamp = 0
    /\ writer = [w \in Writers |-> Resting]
    /\ typed = {} /\ unseen = {}

Stands(w, step) == writer[w].at = step
Go(w, state) == writer' = [writer EXCEPT ![w] = state]

-----------------------------------------------------------------------------
(* One command *)

\* A mutating command commits and then redraws; dashboard only redraws.
Redraw(w) ==
    /\ Stands(w, "idle")
    /\ \/ store < MaxCommits /\ store' = store + 1
       \/ store' = store
    /\ Go(w, [at |-> "rows"])
    /\ UNCHANGED <<file, backups, stamp, typed, unseen>>

(* render_state_md: SELECTs without a surrounding transaction.              *)
ReadRows(w) ==
    /\ Stands(w, "rows")
    /\ Go(w, [at |-> "handovers", rows |-> store])
    /\ UNCHANGED <<store, file, backups, stamp, typed, unseen>>

ReadHandovers(w) ==
    /\ Stands(w, "handovers")
    /\ Go(w, [at |-> "read",
              block |-> [rows |-> writer[w].rows, handovers |-> store]])
    /\ UNCHANGED <<store, file, backups, stamp, typed, unseen>>

(* The file is read; a damaged marker pair refuses and changes nothing.  A  *)
(* file that is there and cannot be read is taken for missing.              *)
ReadFile(w) ==
    /\ Stands(w, "read")
    /\ \/ /\ IF file # NoView /\ file.markers = "damaged"
             THEN Go(w, Resting)
             ELSE Go(w, [at |-> IF file = NoView THEN "replace" ELSE "backup",
                         block |-> writer[w].block, text |-> file])
          /\ UNCHANGED unseen
       \/ /\ file # NoView
          /\ Go(w, [at |-> "replace", block |-> writer[w].block, text |-> NoView])
          /\ unseen' = unseen \cup {w}
    /\ UNCHANGED <<store, file, backups, stamp, typed>>

\* Mutant: only a file that does not have a generated block yet is backed up.
SaveOldAppendedOnly(w) ==
    /\ Stands(w, "backup")
    /\ stamp < MaxBackups
    /\ stamp' = stamp + 1
    /\ backups' = IF writer[w].text.markers = "pair" THEN backups
                  ELSE backups \cup {[stamp |-> stamp, text |-> writer[w].text]}
    /\ Go(w, [writer[w] EXCEPT !.at = "list"])
    /\ UNCHANGED <<store, file, typed, unseen>>
(* What was read, not what is there now, is saved.                          *)
SaveOld(w) ==
    /\ Stands(w, "backup")
    /\ stamp < MaxBackups
    /\ stamp' = stamp + 1
    /\ backups' = backups \cup {[stamp |-> stamp, text |-> writer[w].text]}
    /\ Go(w, [writer[w] EXCEPT !.at = "list"])
    /\ UNCHANGED <<store, file, typed, unseen>>

\* Mutant: one backup too many is chosen.
SurplusOffByOne(bs) == {b \in bs : Cardinality({c \in bs : c.stamp > b.stamp}) >= Keep - 1}
\* All but the Keep newest.
Surplus(bs) == {b \in bs : Cardinality({c \in bs : c.stamp > b.stamp}) >= Keep}

(* _prune_old_state_backups lists the directory once ...                    *)
ListBackups(w) ==
    /\ Stands(w, "list")
    /\ Go(w, [at |-> "prune", block |-> writer[w].block,
              text |-> writer[w].text, doomed |-> Surplus(backups)])
    /\ UNCHANGED <<store, file, backups, stamp, typed, unseen>>

(* ... and removes what it listed, oldest first; one already gone is only   *)
(* warned about.                                                            *)
Prune(w) ==
    /\ Stands(w, "prune")
    /\ IF writer[w].doomed = {}
       THEN /\ Go(w, [at |-> "replace", block |-> writer[w].block,
                      text |-> writer[w].text])
            /\ UNCHANGED backups
       ELSE \E b \in writer[w].doomed :
              /\ \A c \in writer[w].doomed : b.stamp <= c.stamp
              /\ backups' = backups \ {b}
              /\ Go(w, [writer[w] EXCEPT !.doomed = @ \ {b}])
    /\ UNCHANGED <<store, file, stamp, typed, unseen>>

\* Mutant: prose in front of a first generated block is not carried over.
SpliceLosingPlainFile(text, block) ==
    [markers |-> "pair", block |-> block, inside |-> {},
     outside |-> IF text = NoView \/ text.markers = "none" THEN {}
                 ELSE {Protected[n] : n \in text.outside}]
\* Only what is between the markers is regenerated; the whole document, human
\* prose included, passes through the redactor and the path mask.
Splice(text, block) ==
    [markers |-> "pair", block |-> block, inside |-> {},
     outside |-> IF text = NoView THEN {}
                 ELSE {Protected[n] : n \in text.outside}]

Replace(w) ==
    /\ Stands(w, "replace")
    /\ file' = Splice(writer[w].text, writer[w].block)
    /\ Go(w, Resting)
    /\ UNCHANGED <<store, backups, stamp, typed, unseen>>

(* The process is killed, or a step raises: nothing already done is undone. *)
Fail(w) ==
    /\ ~Stands(w, "idle")
    /\ Go(w, Resting)
    /\ UNCHANGED <<store, file, backups, stamp, typed, unseen>>

Step(w) ==
    \/ Redraw(w) \/ ReadRows(w) \/ ReadHandovers(w) \/ ReadFile(w)
    \/ SaveOld(w) \/ ListBackups(w) \/ Prune(w) \/ Replace(w) \/ Fail(w)

-----------------------------------------------------------------------------
(* A person with an editor *)

Redrawing(w) == writer[w].at \in {"backup", "list", "prune", "replace"}
MaySave == EditsRace \/ \A w \in Writers : ~Redrawing(w)

Here == IF file = NoView
        THEN [markers |-> "none", block |-> NoBlock, inside |-> {}, outside |-> {}]
        ELSE file
InFile(n) == n \in Here.inside \cup Here.outside

(* A note is typed outside the generated block, or, wrongly, inside it.     *)
TypeOutside(n) ==
    /\ MaySave /\ ~InFile(n) /\ n \notin typed
    /\ file' = [Here EXCEPT !.outside = @ \cup {n}]
    /\ typed' = typed \cup {n}
    /\ UNCHANGED <<store, backups, stamp, writer, unseen>>

TypeInside(n) ==
    /\ MaySave /\ ~InFile(n) /\ n \notin typed
    /\ Here.markers = "pair"
    /\ file' = [Here EXCEPT !.inside = @ \cup {n}]
    /\ UNCHANGED <<store, backups, stamp, writer, typed, unseen>>

(* A marker line is deleted or doubled by hand ...                          *)
BreakMarkers ==
    /\ MaySave /\ Here.markers = "pair"
    /\ file' = [Here EXCEPT !.markers = "damaged"]
    /\ UNCHANGED <<store, backups, stamp, writer, typed, unseen>>

(* ... and repaired, by removing both: everything is prose from then on.    *)
MendMarkers ==
    /\ MaySave /\ Here.markers = "damaged"
    /\ file' = [Here EXCEPT !.markers = "none", !.block = NoBlock,
                            !.inside = {}, !.outside = @ \cup Here.inside]
    /\ UNCHANGED <<store, backups, stamp, writer, typed, unseen>>

HumanEdit == (\E n \in Notes : TypeOutside(n) \/ TypeInside(n)) \/ BreakMarkers \/ MendMarkers

VNext == (\E w \in Writers : Step(w)) \/ HumanEdit

VSpec == VInit /\ [][VNext]_viewvars

-----------------------------------------------------------------------------
(* Properties *)

Local ==
    [at : {"idle", "rows"}] \cup [at : {"handovers"}, rows : Nat]
    \cup [at : {"read"}, block : Block]
    \cup [at : {"backup", "list"}, block : Block, text : Text]
    \cup [at : {"prune"}, block : Block, text : Text, doomed : SUBSET Copies]
    \cup [at : {"replace"}, block : Block, text : Text \cup {NoView}]

\* The file is absent or a marked text, a backup always has a text and a stamp
\* of its own, and every process holds what its step needs.
VTypeOK ==
    /\ store \in Nat /\ stamp \in Nat
    /\ file \in Text \cup {NoView}
    /\ backups \subseteq Copies /\ IsFiniteSet(backups)
    /\ \A b \in backups : b.stamp < stamp
    /\ \A b, c \in backups : b.stamp = c.stamp => b = c
    /\ writer \in [Writers -> Local]
    /\ typed \subseteq Notes /\ unseen \subseteq Writers

HumanText(t) == t.inside \cup t.outside
ReadsAs(n, S) == n \in S \/ Protected[n] \in S

\* "leave any human prose outside its markers untouched", short of masking:
\* what was typed outside the markers stays in the file through every redraw,
\* however commands interleave, while no redraw failed to read a file that was
\* there.  It needs nobody to save during one: with EditsRace = TRUE the save
\* is overwritten, and in no backup.
OutsideProseKept == unseen = {} =>
    \A n \in typed : file # NoView /\ ReadsAs(n, HumanText(file))

\* A redraw never takes away human text, wherever it was typed, unless it is
\* in a backup at that moment, while every redraw could read what was there: a
\* command cannot replace the file with text whose backup another command has
\* already pruned.  And pruning, even by two commands with stale listings,
\* removes a backup only when Keep newer exist, whatever could be read.
ReplacedTextBackedUp ==
    [][/\ file # NoView /\ unseen' = {} =>
            \A n \in HumanText(file) :
               \/ ReadsAs(n, HumanText(file'))
               \/ \E b \in backups' : n \in HumanText(b.text)
       /\ \A b \in backups \ backups' :
            Cardinality({c \in backups : c.stamp > b.stamp}) >= Keep]_viewvars

\* What write_state_view's comment says: a generated file "may never
\* irrecoverably lose what a human wrote".  Not so of a redraw that cannot
\* read the file and replaces it, with no backup.
HumanTextNeverLost ==
    [][file # NoView =>
         \A n \in HumanText(file) :
            \/ ReadsAs(n, HumanText(file'))
            \/ \E b \in backups' : n \in HumanText(b.text)]_viewvars
=============================================================================
