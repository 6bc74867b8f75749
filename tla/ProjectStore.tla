------------------------------ MODULE ProjectStore ------------------------------
(***************************************************************************)
(* The documents of one project, project.json and the scripts of its       *)
(* episodes, and the threads that change them.  A document is the set of   *)
(* facts it shows: that an asset has its sheet, that a scene has its       *)
(* image, that the index knows the title of a script.  An edit adds facts  *)
(* and takes facts away, so what a writer loses is what was shown before   *)
(* and is not shown after, although the edit did not take it away.         *)
(*                                                                         *)
(* A thread runs one of three programs: a script is loaded without a lock, *)
(* changed and saved under the lock of its file, which also brings the     *)
(* index up to date (save_script); the project is loaded and saved under   *)
(* two separate locks (load_project, save_project); or it is changed under *)
(* one (update_project).                                                   *)
(***************************************************************************)
EXTENDS Integers, Sequences, FiniteSets

CONSTANTS
  Episode,  \* the scripts
  Job,      \* threads
  Nobody

VARIABLES
  project,      \* the facts of project.json
  script,       \* the facts of each script
  projectLock,  \* who holds .project.json.lock
  scriptLock,   \* who holds the lock of a script
  job,          \* the threads
  stale         \* facts that a save of a document loaded earlier brought back or lost

store == << project, script, projectLock, scriptLock, job, stale >>

Title(e) == << "title", e >>
Legacy == << "legacy style", Nobody >>

\* needs: what the document must show, or the edit raises KeyError.
Edit(add, del, needs) == [add |-> add, del |-> del, needs |-> needs]

NoEdit == Edit({}, {}, {})

Resting == [pc |-> "rest", e |-> Nobody, edit |-> NoEdit, copy |-> {}, index |-> {}]

Apply(edit, doc) == (doc \ edit.del) \union edit.add

StoreInit(facts) ==
  /\ project \in {facts, facts \union {Legacy}}
  /\ script = [e \in Episode |-> {}]
  /\ projectLock = Nobody
  /\ scriptLock = [e \in Episode |-> Nobody]
  /\ job = [j \in Job |-> Resting]
  /\ stale = {}

\* The thread j takes up a program, which begins at pc.
Program(j, pc, e, edit) ==
  [job EXCEPT ![j] = [Resting EXCEPT !.pc = pc, !.e = e, !.edit = edit]]

SaveScriptJob(j, e, edit) == Program(j, "load script", e, edit)
SaveProjectJob(j, edit) == Program(j, "load project", Nobody, edit)
UpdateProjectJob(j, edit) == Program(j, "begin update", Nobody, edit)

Ended(j) == job[j].pc \in {"done", "failed"}

At(j, pc) == job[j].pc = pc

End(j, pc) == job' = [job EXCEPT ![j] = [Resting EXCEPT !.pc = pc]]

\* Mutant: an update does not wait for its lock.
ProjectFree_Always == TRUE

ProjectFree == projectLock = Nobody

ScriptFree(e) == scriptLock[e] = Nobody

\* load_project writes the migrated style back under the lock it reads with.
Migrated(doc) == doc \ {Legacy}

-----------------------------------------------------------------------------
(* load_script, the change, save_script *)

LoadScript(j) ==
  LET doc == script[job[j].e] IN
  /\ At(j, "load script")
  /\ IF job[j].edit.needs \subseteq doc
     THEN job' = [job EXCEPT ![j].pc = "write script", ![j].copy = Apply(job[j].edit, doc)]
     ELSE End(j, "failed")
  /\ UNCHANGED << project, script, projectLock, scriptLock, stale >>

\* The script is in its file; its lock is held on.
WriteScript(j) ==
  /\ At(j, "write script") /\ ScriptFree(job[j].e)
  /\ scriptLock' = [scriptLock EXCEPT ![job[j].e] = j]
  /\ script' = [script EXCEPT ![job[j].e] = job[j].copy]
  /\ job' = [job EXCEPT ![j].pc = "load index"]
  /\ UNCHANGED << project, projectLock, stale >>

\* sync_episode_from_script
Synced(doc, e, text) == IF Title(e) \in text THEN doc \union {Title(e)} ELSE doc \ {Title(e)}

LoadIndex(j) ==
  /\ At(j, "load index") /\ ProjectFree
  /\ project' = Migrated(project)
  /\ job' = [job EXCEPT ![j].pc = "save index",
                        ![j].index = Synced(Migrated(project), job[j].e, job[j].copy)]
  /\ UNCHANGED << script, projectLock, scriptLock, stale >>

\* What a save of doc changes beside the facts it means to change.
StaleAfter(doc, meant) ==
  (stale \union ((doc \ project) \union (project \ doc))) \ meant

\* A scan, which makes no edit, holds no lock of a script either.
SaveIndex(j) ==
  LET e == job[j].e IN
  /\ At(j, "save index") /\ ProjectFree
  /\ project' = job[j].index
  /\ stale' = StaleAfter(job[j].index, IF job[j].edit = NoEdit THEN {} ELSE {Title(e)})
  /\ scriptLock' = IF scriptLock[e] = j THEN [scriptLock EXCEPT ![e] = Nobody] ELSE scriptLock
  /\ End(j, "done")
  /\ UNCHANGED << script, projectLock >>

-----------------------------------------------------------------------------
(* load_project, the change, save_project *)

LoadProject(j) ==
  /\ At(j, "load project") /\ ProjectFree
  /\ project' = Migrated(project)
  /\ IF job[j].edit.needs \subseteq project
     THEN job' = [job EXCEPT ![j].pc = "save project",
                             ![j].copy = Apply(job[j].edit, Migrated(project))]
     ELSE End(j, "failed")
  /\ UNCHANGED << script, projectLock, scriptLock, stale >>

SaveProject(j) ==
  /\ At(j, "save project") /\ ProjectFree
  /\ project' = job[j].copy
  /\ stale' = StaleAfter(job[j].copy, job[j].edit.add \union job[j].edit.del)
  /\ End(j, "done")
  /\ UNCHANGED << script, projectLock, scriptLock >>

-----------------------------------------------------------------------------
(* update_project *)

BeginUpdate(j) ==
  /\ At(j, "begin update") /\ ProjectFree
  /\ IF job[j].edit.needs \subseteq project
     THEN /\ projectLock' = j
          /\ job' = [job EXCEPT ![j].pc = "end update", ![j].copy = Apply(job[j].edit, project)]
     ELSE End(j, "failed") /\ UNCHANGED projectLock
  /\ UNCHANGED << project, script, scriptLock, stale >>

EndUpdate(j) ==
  /\ At(j, "end update")
  /\ project' = job[j].copy
  /\ projectLock' = Nobody
  /\ stale' = stale \ (job[j].edit.add \union job[j].edit.del)
  /\ End(j, "done")
  /\ UNCHANGED << script, scriptLock >>

-----------------------------------------------------------------------------
(* The scan of the event service brings the index up to date where it differs; *)
(* it takes no lock of a script.                                               *)

Scan(j, e) ==
  /\ At(j, "rest") /\ ProjectFree
  /\ project' = Migrated(project)
  /\ (Title(e) \in script[e]) # (Title(e) \in project)
  /\ job' = [job EXCEPT ![j] = [Resting EXCEPT !.pc = "load index", !.e = e, !.copy = script[e]]]
  /\ UNCHANGED << script, projectLock, scriptLock, stale >>

JobStep(j) ==
  \/ LoadScript(j) \/ WriteScript(j) \/ LoadIndex(j) \/ SaveIndex(j)
  \/ LoadProject(j) \/ SaveProject(j)
  \/ BeginUpdate(j) \/ EndUpdate(j)

=================================================================================
