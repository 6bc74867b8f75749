---------------------------- MODULE ProjectMigrations ----------------------------
(***************************************************************************)
(* The migration of one project from schema 0, whose clues are of two      *)
(* types, to schema 1, which has scenes and props instead.  It runs at the *)
(* start of the server, before anything else touches the project, and may  *)
(* be cut off at any step by an exception, which is logged, or by a crash. *)
(* The schema in project.json is written last: a start that finds schema 0 *)
(* does everything again.                                                  *)
(*                                                                         *)
(* A clue has a picture and a history, which is the files of its versions. *)
(* The files of a history are moved by the glob <name>*, which matches the *)
(* files of every clue whose name begins with that name.                   *)
(***************************************************************************)
EXTENDS FiniteSets, Naturals

CONSTANTS
  Clue,
  Location,    \* the clues of type location
  Globbed,     \* the clues whose names begin with a clue's name
  Script,
  MaxCuts      \* exceptions and crashes

ASSUME NamesBegin == Location \subseteq Clue /\ \A c \in Clue : c \in Globbed[c]

VARIABLES
  phase,      \* of the start
  left,       \* what the loop of the phase has not reached
  schema,
  picture, history,  \* the folder of each clue's files, under "clues" at first
  cluesDir,   \* there is a folder clues
  script,     \* "clues", "split" or "unreadable"
  copied,     \* pictures of which there is a backup
  unbacked,   \* a backup failed, which is not held against the migration
  cuts,
  cutShort    \* a start was cut off between the pictures and the histories

migration == << phase, left, schema, picture, history, cluesDir, script, copied, unbacked, cuts, cutShort >>

NoFiles == "none"
Folder(c) == IF c \in Location THEN "scenes" ELSE "props"

\* A picture or a history may be missing; a project of schema 0 was made with the folder.
MigrationInit ==
  /\ phase = "down" /\ left = {} /\ schema = 0
  /\ picture \in [Clue -> {NoFiles, "clues"}]
  /\ history \in [Clue -> {NoFiles, "clues"}]
  /\ cluesDir = TRUE
  /\ script \in [Script -> {"clues", "unreadable"}]
  /\ copied = {} /\ unbacked = FALSE /\ cuts = 0 /\ cutShort = FALSE

Goto(p, s) == phase' = p /\ left' = s

\* run_project_migrations: nothing is done for a project of the current schema.
StartUp ==
  /\ phase = "down"
  /\ IF schema = 1 THEN Goto("up", {}) ELSE Goto("backup", {c \in Clue : picture[c] = "clues"})
  /\ UNCHANGED << schema, picture, history, cluesDir, script, copied, unbacked, cuts, cutShort >>

LinkBackup(c) ==
  /\ phase = "backup" /\ c \in left
  /\ left' = left \ {c} /\ copied' = copied \union {c}
  /\ UNCHANGED << phase, schema, picture, history, cluesDir, script, unbacked, cuts, cutShort >>

\* The disk refuses a link and a copy: a warning, and on.
BackupFails ==
  /\ phase = "backup" /\ left # {} /\ cuts < MaxCuts /\ cuts' = cuts + 1
  /\ left' = {} /\ unbacked' = TRUE
  /\ UNCHANGED << phase, schema, picture, history, cluesDir, script, copied, cutShort >>

\* _relocate_clue_files returns at once without a folder clues.
EnterRelocation ==
  /\ phase = "backup" /\ left = {}
  /\ IF cluesDir THEN Goto("pictures", Clue) ELSE Goto("scripts", Script)
  /\ UNCHANGED << schema, picture, history, cluesDir, script, copied, unbacked, cuts, cutShort >>

MovePicture(c) ==
  /\ phase = "pictures" /\ c \in left
  /\ left' = left \ {c}
  /\ picture' = [picture EXCEPT ![c] = IF @ = "clues" THEN Folder(c) ELSE @]
  /\ UNCHANGED << phase, schema, history, cluesDir, script, copied, unbacked, cuts, cutShort >>

\* The folder stays if there is something else in it.
RemoveCluesDir ==
  /\ phase = "pictures" /\ left = {}
  /\ cluesDir' \in BOOLEAN
  /\ Goto("histories", Clue)
  /\ UNCHANGED << schema, picture, history, script, copied, unbacked, cuts, cutShort >>

MoveHistory(c) ==
  /\ phase = "histories" /\ c \in left
  /\ left' = left \ {c}
  /\ history' = [d \in Clue |-> IF d \in Globbed[c] /\ history[d] = "clues" THEN Folder(c)
                                ELSE history[d]]
  /\ UNCHANGED << phase, schema, picture, cluesDir, script, copied, unbacked, cuts, cutShort >>

EnterScripts ==
  /\ phase = "histories" /\ left = {}
  /\ Goto("scripts", Script)
  /\ UNCHANGED << schema, picture, history, cluesDir, script, copied, unbacked, cuts, cutShort >>

\* A script that cannot be read is passed over.
MigrateScript(s) ==
  /\ phase = "scripts" /\ s \in left
  /\ left' = left \ {s}
  /\ script' = [script EXCEPT ![s] = IF @ = "clues" THEN "split" ELSE @]
  /\ UNCHANGED << phase, schema, picture, history, cluesDir, copied, unbacked, cuts, cutShort >>

\* Mutant: the schema is raised before the scripts are written.
MayCommit_Early == phase = "scripts"

MayCommit == phase = "scripts" /\ left = {}

CommitSchema ==
  /\ MayCommit
  /\ schema' = 1 /\ Goto("up", {})
  /\ UNCHANGED << picture, history, cluesDir, script, copied, unbacked, cuts, cutShort >>

\* An exception is logged and the server goes on with the project as it is; after a crash
\* it is started again, as it is at some time in any case.
CutOff ==
  /\ phase \notin {"down", "up"} /\ cuts < MaxCuts /\ cuts' = cuts + 1
  /\ phase' \in {"down", "up"} /\ left' = {}
  /\ cutShort' = (cutShort \/ (phase = "histories" /\ ~cluesDir))
  /\ UNCHANGED << schema, picture, history, cluesDir, script, copied, unbacked >>

Reboot ==
  /\ phase = "up" /\ schema = 0
  /\ Goto("down", {})
  /\ UNCHANGED << schema, picture, history, cluesDir, script, copied, unbacked, cuts, cutShort >>

MigrationNext ==
  \/ StartUp \/ EnterRelocation \/ RemoveCluesDir \/ EnterScripts \/ CommitSchema
  \/ BackupFails \/ CutOff \/ Reboot
  \/ \E c \in Clue : LinkBackup(c) \/ MovePicture(c) \/ MoveHistory(c)
  \/ \E s \in Script : MigrateScript(s)

MigrationSpec == MigrationInit /\ [][MigrationNext]_migration

-----------------------------------------------------------------------------
(* Properties *)

Unaffected(c) == \A d \in Clue \ {c} : c \notin Globbed[d]

\* A project of schema 1, whatever cut its migration off before, has every picture and
\* every script in the new form, and every picture that was moved in a backup too, if
\* none failed.  The histories follow, with two exceptions: a start cut off after the folder
\* clues was removed leaves them; and another clue's glob may take them to its own folder.
MigrationWhole ==
  schema = 1 =>
    /\ \A c \in Clue :
         /\ picture[c] \in {NoFiles, Folder(c)}
         /\ (picture[c] # NoFiles /\ ~unbacked) => c \in copied
         /\ history[c] = "clues" => cutShort
         /\ (Unaffected(c) /\ history[c] # "clues") => history[c] \in {NoFiles, Folder(c)}
    /\ \A s \in Script : script[s] # "clues"

\* A project that reaches schema 1 has lost nothing on the way: no version files are left
\* in the old folder, where no later start looks for them.
NothingStranded ==
  schema = 1 => \A c \in Clue : history[c] # "clues"

================================================================================
