------------------------------ MODULE StoreOpen ------------------------------
(***************************************************************************)
(* How processes come to the store's file (tools/bm_store.py,              *)
(* Store.__init__): an opener looks whether there is a file, connects      *)
(* (which creates one), and then either builds the schema or reads what is *)
(* there and migrates it; what it takes for damage it moves aside.         *)
(* Nothing but SQLite's locks orders two openers, and the path, the file   *)
(* behind it and the schema in the file are looked at one after another.   *)
(*                                                                         *)
(* Abstractions.  A file's schema is the number of the last version whose  *)
(* tables are there (zero: an empty file) and the version its meta table   *)
(* names (zero: none).  Damage is whatever makes SQLite or the table check *)
(* fail.  A connection stays with its file when the file is moved (POSIX). *)
(* Git, symlinks, permissions, indexes and the text index are left out; a  *)
(* refusal for any other reason (busy, disk error) is Refuse.              *)
(***************************************************************************)
EXTENDS Naturals, FiniteSets

CONSTANTS
    Openers,      \* processes that open the store
    Roles,        \* opener -> what it may come as: "init", "write" (create=False), "read"
    Knows,        \* opener -> the schema version its program is at
    Top,          \* the newest version of all
    Files,        \* files that can come into being
    NoFile,       \* nothing at the path
    Incidents,    \* quarantine directories that can come into being
    NoDir,        \* a directory not made yet
    MaxDamages    \* bound: files damaged from outside

ASSUME RolesKnown == Roles \in [Openers -> SUBSET {"init", "write", "read"}]
ASSUME KnowsBounded == Top \in Nat /\ Knows \in [Openers -> 1 .. Top]

\* A quarantine directory: the file moved into it, and the founder's mark.
Incident == [holds : Files \cup {NoFile}, acknowledged : BOOLEAN]
ASSUME NothingIsThere == NoFile \notin Files /\ NoDir \notin Incident

VARIABLES
    atPath,       \* the file at store_path, or NoFile
    disk,         \* file -> its tables, its version, whether it is damaged
    aside,        \* incident -> what its directory holds, and the founder's mark
    backup,       \* the version of the copy kept before migrating to a version, 0 if none
    opener,       \* opener -> where it is and what it has read
    disturbed     \* history: the openers under whom another has written

ovars == <<atPath, disk, aside, backup, opener, disturbed>>

Versions == 0 .. Top
Blank == [tables |-> 0, version |-> 0, damaged |-> FALSE]
Store(v) == [tables |-> v, version |-> v, damaged |-> FALSE]
Away == [at |-> "away", as |-> "write", file |-> NoFile, found |-> 0, from |-> 0, listed |-> {}, dir |-> NoDir]

OInit ==
    /\ \E v \in Versions, f \in Files :
         /\ disk = [g \in Files |-> IF g = f /\ v > 0 THEN Store(v) ELSE Blank]
         /\ atPath = IF v > 0 THEN f ELSE NoFile
    /\ aside = [i \in Incidents |-> NoDir]
    /\ backup = [v \in 1 .. Top |-> 0]
    /\ opener = [p \in Openers |-> Away]
    /\ disturbed = {}

In(p, at) == opener[p].at = at
Reads(p) == opener[p].as = "read"
Turn(p, at) == opener' = [opener EXCEPT ![p].at = at]
Leave(p) == opener' = [opener EXCEPT ![p] = Away]
\* What p writes is news to every opener under way.
Disturb(p) == disturbed' = disturbed \cup {q \in Openers \ {p} : ~In(q, "away")}
Unmoved == UNCHANGED <<atPath, aside, backup, disturbed>>

Held == {aside[i].holds : i \in {j \in Incidents : aside[j] # NoDir}}
Unused == {f \in Files : f # atPath /\ f \notin Held /\ disk[f] = Blank
                         /\ \A p \in Openers : opener[p].file # f}
Unacknowledged == {i \in Incidents : aside[i] # NoDir /\ ~aside[i].acknowledged}

-----------------------------------------------------------------------------
(* Coming to the file *)

\* cmd_init refuses while a quarantine is unacknowledged and the flag is not
\* given; every other command refuses when there is no file.
Start(p) ==
    /\ In(p, "away")
    /\ \/ /\ "init" \in Roles[p]
          /\ \E acknowledge \in BOOLEAN :
               /\ Unacknowledged = {} \/ acknowledge
               /\ opener' = [opener EXCEPT ![p] =
                     [Away EXCEPT !.at = "look", !.as = "init",
                                  !.listed = IF acknowledge THEN Unacknowledged ELSE {}]]
       \/ /\ atPath # NoFile
          /\ \E role \in Roles[p] \ {"init"} :
               opener' = [opener EXCEPT ![p] = [Away EXCEPT !.at = "look", !.as = role]]
    /\ disturbed' = disturbed \ {p}
    /\ UNCHANGED <<atPath, disk, aside, backup>>

\* Where an opener goes that has found damage: a ReadOnlyStore reports.
Condemn(p) == Turn(p, IF Reads(p) THEN "report" ELSE "condemn")

\* The size of the file, and pre_existing, before the connection.
Look(p) ==
    /\ In(p, "look")
    /\ \/ /\ atPath # NoFile
          /\ disk[atPath].tables = 0 \/ disk[atPath].damaged
          /\ Condemn(p)
       \/ /\ atPath # NoFile => disk[atPath].tables > 0
          /\ Turn(p, IF atPath # NoFile \/ Reads(p) THEN "connect" ELSE "create")
    /\ UNCHANGED disk /\ Unmoved

Connect(p) ==
    /\ In(p, "connect") \/ In(p, "create")
    /\ \/ /\ atPath # NoFile
          /\ opener' = [opener EXCEPT ![p].at = IF In(p, "connect") THEN "tables" ELSE "build",
                                      ![p].file = atPath]
          /\ UNCHANGED <<atPath, disk, aside, backup, disturbed>>
       \/ /\ atPath = NoFile /\ ~Reads(p)
          /\ \E f \in Unused :
               /\ atPath' = f
               /\ opener' = [opener EXCEPT ![p].at = IF In(p, "connect") THEN "tables" ELSE "build",
                                           ![p].file = f]
          /\ Disturb(p) /\ UNCHANGED <<disk, aside, backup>>

\* Mutant: the version row is written before the tables of the last step.
BuildVersionFirst(p) ==
    LET f == opener[p].file
        d == disk[f]
    IN  /\ In(p, "build")
        /\ \/ /\ d.tables > 0 /\ d.version = 0
              /\ disk' = [disk EXCEPT ![f].version = Knows[p]]
              /\ UNCHANGED opener
           \/ /\ d.version > 0 \/ d.tables = 0
              /\ d.tables < Knows[p]
              /\ disk' = [disk EXCEPT ![f].tables = @ + 1]
              /\ UNCHANGED opener
           \/ /\ d.tables >= Knows[p] /\ d.version > 0
              /\ Turn(p, "open") /\ UNCHANGED disk
        /\ Disturb(p) /\ UNCHANGED <<atPath, aside, backup>>

\* _ensure_schema, a script at a time, each committed by itself; the version
\* row last, and only if there is none.
Build(p) ==
    LET f == opener[p].file
        d == disk[f]
    IN  /\ In(p, "build") /\ ~d.damaged
        /\ \/ /\ d.tables < Knows[p]
              /\ disk' = [disk EXCEPT ![f].tables = @ + 1]
              /\ UNCHANGED opener
           \/ /\ d.tables >= Knows[p]
              /\ disk' = [disk EXCEPT ![f].version = IF @ = 0 THEN Knows[p] ELSE @]
              /\ Turn(p, "open")
        /\ Disturb(p) /\ UNCHANGED <<atPath, aside, backup>>

-----------------------------------------------------------------------------
(* Reading what is there *)

\* _verify_schema_or_raise: the names of the tables first.
ReadTables(p) ==
    LET d == disk[opener[p].file]
    IN  /\ In(p, "tables")
        /\ IF d.damaged
           THEN Condemn(p)
           ELSE opener' = [opener EXCEPT ![p].at = "version", ![p].found = d.tables]
        /\ UNCHANGED disk /\ Unmoved

\* Mutant: an older store has to have this program's tables.
VerdictByOwnTables(p, v, found) ==
    CASE v = 0 \/ found < Knows[p] -> "condemn"
      [] v > Knows[p]              -> "ahead"
      [] v = Knows[p]              -> "open"
      [] OTHER                     -> "behind"

\* What the version, read now, and the tables, read before, say of the store.
Verdict(p, v, found) ==
    CASE v = 0               -> "condemn"
      [] v > Knows[p]        -> "ahead"
      [] found < v           -> "condemn"
      [] v = Knows[p]        -> "open"
      [] OTHER               -> "behind"

ReadVersion(p) ==
    LET d == disk[opener[p].file]
        verdict == IF d.damaged THEN "condemn" ELSE Verdict(p, d.version, opener[p].found)
    IN  /\ In(p, "version")
        /\ CASE verdict = "condemn" -> Condemn(p)
             [] verdict = "open"    -> Turn(p, "open")
             [] verdict = "behind" /\ ~Reads(p) /\ opener[p].from = 0 ->
                  opener' = [opener EXCEPT ![p].at = "backup", ![p].from = d.version]
             [] OTHER               -> Leave(p)
        /\ UNCHANGED disk /\ Unmoved

\* Mutant: a copy that could not be written does not stop the migration.
BackupOrNot(p) ==
    /\ In(p, "backup")
    /\ \/ backup' = [backup EXCEPT ![Knows[p]] = disk[opener[p].file].version]
       \/ UNCHANGED backup
    /\ Turn(p, "migrate")
    /\ UNCHANGED <<atPath, disk, aside, disturbed>>

\* The copy goes to one name for all migrations to this version; without it
\* the migration is refused (Refuse).
Backup(p) ==
    /\ In(p, "backup") /\ ~disk[opener[p].file].damaged
    /\ backup' = [backup EXCEPT ![Knows[p]] = disk[opener[p].file].version]
    /\ Turn(p, "migrate")
    /\ UNCHANGED <<atPath, disk, aside, disturbed>>

\* Mutant: the steps are committed one by one, the version by the first.
MigrateStepwise(p) ==
    LET f == opener[p].file
    IN  /\ In(p, "migrate")
        /\ IF disk[f].version # Knows[p]
           THEN disk' = [disk EXCEPT ![f].version = Knows[p]] /\ UNCHANGED opener
           ELSE /\ disk' = [disk EXCEPT ![f].tables = IF @ < Knows[p] THEN Knows[p] ELSE @]
                /\ Turn(p, "open")
        /\ Disturb(p) /\ UNCHANGED <<atPath, aside, backup>>

\* Every step from the version read before, and the version last, in one
\* exclusive transaction; then the whole verification once more.
Migrate(p) ==
    LET f == opener[p].file
    IN  /\ In(p, "migrate") /\ ~disk[f].damaged
        /\ disk' = [disk EXCEPT ![f].tables = IF @ < Knows[p] THEN Knows[p] ELSE @,
                                ![f].version = Knows[p]]
        /\ Turn(p, "tables")
        /\ Disturb(p) /\ UNCHANGED <<atPath, aside, backup>>

-----------------------------------------------------------------------------
(* Moving aside *)

\* _quarantine_and_raise: the directory first, the connection closed, and
\* then whatever is at the path.
MakeDir(p) ==
    /\ In(p, "condemn")
    /\ \E i \in Incidents :
         /\ aside[i] = NoDir
         /\ aside' = [aside EXCEPT ![i] = [holds |-> NoFile, acknowledged |-> FALSE]]
         /\ opener' = [opener EXCEPT ![p].at = "move", ![p].file = NoFile, ![p].dir = i]
    /\ UNCHANGED <<atPath, disk, backup, disturbed>>

Moving(p) == In(p, "move") /\ atPath # NoFile
Move(p) ==
    /\ In(p, "move")
    /\ aside' = [aside EXCEPT ![opener[p].dir].holds = atPath]
    /\ atPath' = NoFile
    /\ Leave(p) /\ Disturb(p) /\ UNCHANGED <<disk, backup>>

Report(p) == In(p, "report") /\ Leave(p) /\ UNCHANGED disk /\ Unmoved

-----------------------------------------------------------------------------
(* Later, and from outside *)

\* A statement fails on a damaged file (_exec, and the handlers of __init__).
Trip(p) ==
    /\ \E at \in {"build", "migrate", "open"} : In(p, at)
    /\ disk[opener[p].file].damaged
    /\ Condemn(p) /\ UNCHANGED disk /\ Unmoved

\* close; init marks the quarantines it listed before it began.
Close(p) ==
    /\ In(p, "open")
    /\ aside' = [i \in Incidents |-> IF i \in opener[p].listed
                                     THEN [aside[i] EXCEPT !.acknowledged = TRUE]
                                     ELSE aside[i]]
    /\ Leave(p) /\ UNCHANGED <<atPath, disk, backup, disturbed>>

\* A refusal that touches nothing, or a kill: an open transaction rolls back.
Refuse(p) == ~In(p, "away") /\ ~In(p, "open") /\ Leave(p) /\ UNCHANGED disk /\ Unmoved

\* From outside: the file is cut short, or a page or a table of it is lost.
Damage(f) ==
    /\ f = atPath /\ disk[f].version > 0 /\ ~disk[f].damaged
    /\ Cardinality({g \in Files : disk[g].damaged}) < MaxDamages
    /\ disk' = [disk EXCEPT ![f].damaged = TRUE]
    /\ UNCHANGED <<atPath, aside, backup, opener, disturbed>>

ONext ==
    \/ \E p \in Openers :
         \/ Start(p) \/ Look(p) \/ Connect(p) \/ Build(p)
         \/ ReadTables(p) \/ ReadVersion(p) \/ Backup(p) \/ Migrate(p)
         \/ MakeDir(p) \/ Move(p) \/ Report(p)
         \/ Trip(p) \/ Close(p) \/ Refuse(p)
    \/ \E f \in Files : Damage(f)

OSpec == OInit /\ [][ONext]_ovars

-----------------------------------------------------------------------------
(* What a founder may rely on *)

Stages == {"away", "look", "connect", "create", "build", "tables", "version",
           "backup", "migrate", "condemn", "move", "report", "open"}
Opener == [at : Stages, as : {"init", "write", "read"}, file : Files \cup {NoFile},
           found : Versions, from : Versions, listed : SUBSET Incidents,
           dir : Incidents \cup {NoDir}]

\* Every variable has its type, and the directories an opener knows of are there.
OTypeOK ==
    /\ atPath \in Files \cup {NoFile}
    /\ disk \in [Files -> [tables : Versions, version : Versions, damaged : BOOLEAN]]
    /\ aside \in [Incidents -> Incident \cup {NoDir}]
    /\ backup \in [1 .. Top -> Versions]
    /\ opener \in [Openers -> Opener]
    /\ disturbed \subseteq Openers
    /\ \A p \in Openers :
         /\ \A i \in opener[p].listed : aside[i] # NoDir
         /\ In(p, "move") => opener[p].dir \in Incidents /\ aside[opener[p].dir] # NoDir

\* A store that says it is at a version has the tables of that version,
\* however many programs, of whichever versions, create and migrate it at
\* once, and wherever one of them is killed (_ensure_schema writes its row
\* last, _migrate_from is one transaction).
VersionHasItsTables == \A f \in Files : disk[f].tables >= disk[f].version

Sound(f) == f # NoFile /\ disk[f].version > 0 /\ ~disk[f].damaged

\* An opener that nobody has written under moves no store that is whole: not
\* an older one, not a newer one, not a store whose migration was cut short
\* (_verify_schema_or_raise: quarantining a store whose only problem is that
\* it predates an upgrade is data loss dressed as caution).
FinishedStoresStay == [][\A p \in Openers :
    Moving(p) /\ atPath' = NoFile /\ p \notin disturbed => ~Sound(atPath)]_ovars

\* The same of every opener.
SoundStoresStay == [][Sound(atPath) => atPath' = atPath]_ovars

\* Programs of one age keep a copy of what they migrate: the version of a
\* store rises only when the copy of it at the older version has been
\* written, whoever else migrates it or moves it meanwhile (_migrate_from:
\* backed up first).  Between programs of two ages a copy may be older than
\* what it was taken for, when the older program migrates after it.
OneAge == \A p, q \in Openers :
    Roles[p] \cap {"init", "write"} # {} /\ Roles[q] \cap {"init", "write"} # {}
        => Knows[p] = Knows[q]
MigratedFromACopy == [][OneAge => \A f \in Files :
    disk[f].version > 0 /\ disk'[f].version > disk[f].version
        => backup[disk'[f].version] = disk[f].version]_ovars
=============================================================================
