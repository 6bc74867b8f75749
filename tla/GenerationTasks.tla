----------------------------- MODULE GenerationTasks -----------------------------
(***************************************************************************)
(* What the executors of the generation tasks do to the files of a project *)
(* and to its documents, together with the requests that touch the same    *)
(* files: restoring a version, uploading, editing, deleting.               *)
(*                                                                         *)
(* An executor awaits the provider without any lock; only the history      *)
(* (VersionManager) and the documents (ProjectStore) have locks.  A task   *)
(* is named by the resource it makes, << kind, name >>.                    *)
(***************************************************************************)
EXTENDS ProjectStore, VersionManager

CONSTANTS
  EpisodeOf,  \* the script of a scene, grid or unit
  User,       \* threads that serve requests
  Scanner,    \* the thread of the event service
  MaxRuns,    \* runs of tasks
  MaxAsked,   \* requests
  MaxFaults   \* crashes and failures

\* Five kinds of tasks, all but sheets on a script; and a thread of its own for each task,
\* each request and the event service.
ASSUME TasksAssumption ==
  /\ \A t \in Resource : t[1] \in {"storyboard", "video", "sheet", "grid", "unit"}
  /\ \A t \in Resource : t[1] # "sheet" => EpisodeOf[t[2]] \in Episode
  /\ Job = Resource \union User \union {Scanner}
  /\ Resource \intersect User = {} /\ Scanner \notin Resource \union User
  /\ Nobody \notin Job /\ Absent \notin Nat

VARIABLES
  run,     \* the execution of each task
  asking,  \* the request of each user thread
  thumb,   \* what a film's thumbnail shows
  made,    \* contents made so far
  strays,  \* contents put in a current file with no version of their own
  runs, asked, faults

files == << store, history, run, asking, thumb, made, strays, runs, asked, faults >>

Of(kinds) == {t \in Resource : t[1] \in kinds}
Film == Of({"video", "unit"})
Storyboard(s) == << "storyboard", s >>
Entry(a) == << "entry", a >>
Sheet(a) == << "sheet", a >>

Waiting == [pc |-> "idle", version |-> 0, content |-> Absent, robbed |-> FALSE, anew |-> FALSE]

Init ==
  /\ \E assets \in {{}, {t[2] : t \in Of({"sheet"})}} : StoreInit({Entry(a) : a \in assets})
  /\ HistoryInit
  /\ run = [t \in Resource |-> Waiting]
  /\ asking = [u \in User |-> [pc |-> "idle", r |-> Nobody]]
  /\ thumb = [t \in Film |-> Absent]
  /\ made = 0 /\ strays = {Older}
  /\ runs = 0 /\ asked = 0 /\ faults = 0

Is(t, pc) == run[t].pc = pc
Step(t, pc) == run' = [run EXCEPT ![t].pc = pc]
Settled(t) == run[t].pc \in {"idle", "done", "failed"}

\* A content that is new takes the place of the current file of r, and the run
\* of r, if there is one, no longer has the file to itself.
Robbed(r) == [run EXCEPT ![r].robbed = TRUE]

-----------------------------------------------------------------------------
(* The executors *)

\* load_project migrates what it finds.  The asset of a sheet must be there, and
\* the storyboard of a video.  The worker has one task of a name at a time.
Prepare(t) ==
  /\ ProjectFree
  /\ Settled(t) /\ runs < MaxRuns /\ runs' = runs + 1
  /\ project' = Migrated(project)
  /\ run' = [run EXCEPT ![t] = [Waiting EXCEPT !.pc =
       IF \/ t[1] = "sheet" /\ Entry(t[2]) \notin project
          \/ t[1] = "video" /\ file[Storyboard(t[2])] = Absent
       THEN "failed" ELSE "prepared"]]
  /\ UNCHANGED << script, projectLock, scriptLock, job, stale, history, asking, thumb, made,
                  strays, asked, faults >>

Track(t) ==
  /\ Is(t, "prepared")
  /\ EnsureCurrentTracked(t)
  /\ Step(t, "generating")
  /\ UNCHANGED << store, file, asking, thumb, made, strays, runs, asked, faults >>

\* The provider's answer goes straight into the current file.
Generate(t) ==
  /\ Is(t, "generating")
  /\ made' = made + 1
  /\ file' = [file EXCEPT ![t] = made + 1]
  /\ run' = [run EXCEPT ![t].pc = "generated", ![t].content = made + 1, ![t].robbed = FALSE]
  /\ UNCHANGED << store, versions, current, asking, thumb, strays, runs, asked, faults >>

\* The call of the provider, the accounting of it or the reading of a file fails.
Fails(t) ==
  /\ run[t].pc \in {"prepared", "generating", "generated", "recorded", "extracted"}
  /\ faults < MaxFaults /\ faults' = faults + 1
  /\ Step(t, "failed")
  /\ strays' = IF Is(t, "generated") THEN strays \union {run[t].content} ELSE strays
  /\ UNCHANGED << store, history, asking, thumb, made, runs, asked >>

\* What the end of a run says about the scene or unit in its script.
Shown(t) ==
  CASE t[1] = "storyboard" -> {<< "image", t[2] >>}
    [] t[1] = "video" -> {<< "clip", t[2] >>}
    [] t[1] = "unit" -> {<< "unit clip", t[2] >>}

Finalize(t) ==
  IF t[1] = "sheet" THEN UpdateProjectJob(t, Edit({Sheet(t[2])}, {}, {Entry(t[2])}))
  ELSE SaveScriptJob(t, EpisodeOf[t[2]], Edit(Shown(t), {}, {}))

\* A storyboard, a video and a sheet are entered in their document at once; a
\* unit gets its thumbnail first; a grid is cut up.
Record(t) ==
  /\ Is(t, "generated")
  /\ AddVersion(t)
  /\ run' = [run EXCEPT ![t].version = NextNumber(t),
                        ![t].pc = CASE t[1] \in {"storyboard", "video", "sheet"} -> "finalizing"
                                    [] t[1] = "unit" -> "recorded"
                                    [] t[1] = "grid" -> "splitting"]
  /\ job' = IF t[1] \in {"storyboard", "video", "sheet"} THEN Finalize(t) ELSE job
  /\ UNCHANGED << project, script, projectLock, scriptLock, stale, file, asking, thumb, made,
                  strays, runs, asked, faults >>

Finalized(t) ==
  /\ Is(t, "finalizing") /\ Ended(t)
  /\ Step(t, IF At(t, "failed") THEN "failed" ELSE IF t[1] = "video" THEN "recorded" ELSE "done")
  /\ job' = [job EXCEPT ![t] = Resting]
  /\ UNCHANGED << project, script, projectLock, scriptLock, stale, history, asking, thumb, made,
                  strays, runs, asked, faults >>

\* extract_video_thumbnail: ffmpeg reads the film and writes the picture later.
ReadFilm(t) ==
  /\ Is(t, "recorded")
  /\ run' = [run EXCEPT ![t].pc = "extracted", ![t].content = file[t]]
  /\ UNCHANGED << store, history, asking, thumb, made, strays, runs, asked, faults >>

ThumbnailJob(t) ==
  IF t[1] = "unit" THEN Finalize(t)
  ELSE SaveScriptJob(t, EpisodeOf[t[2]], Edit({<< "thumb", t[2] >>}, {}, {}))

WriteThumbnail(t) ==
  /\ Is(t, "extracted")
  /\ thumb' = [thumb EXCEPT ![t] = run[t].content]
  /\ job' = ThumbnailJob(t)
  /\ Step(t, "entering")
  /\ UNCHANGED << project, script, projectLock, scriptLock, stale, history, asking, made, strays,
                  runs, asked, faults >>

NoThumbnail(t) == thumb' = [thumb EXCEPT ![t] = Absent]

\* ffmpeg fails: the picture is removed.
DropThumbnail(t) ==
  /\ Is(t, "extracted") /\ faults < MaxFaults /\ faults' = faults + 1
  /\ NoThumbnail(t)
  /\ IF t[1] = "unit" THEN job' = Finalize(t) /\ Step(t, "entering")
     ELSE Step(t, "done") /\ UNCHANGED job
  /\ UNCHANGED << project, script, projectLock, scriptLock, stale, history, asking, made, strays,
                  runs, asked >>

Entered(t) ==
  /\ Is(t, "entering") /\ Ended(t)
  /\ Step(t, IF At(t, "failed") THEN "failed" ELSE "done")
  /\ job' = [job EXCEPT ![t] = Resting]
  /\ UNCHANGED << project, script, projectLock, scriptLock, stale, history, asking, thumb, made,
                  strays, runs, asked, faults >>

\* The cells of a grid become the storyboards of the scenes of its script, and
\* one pass over the script says so.
Cells(t) == {r \in Of({"storyboard"}) : EpisodeOf[r[2]] = EpisodeOf[t[2]]}

Split(t) ==
  /\ Is(t, "splitting")
  /\ made' = made + 1 /\ strays' = strays \union {made + 1}
  /\ file' = [r \in Resource |-> IF r \in Cells(t) THEN made + 1 ELSE file[r]]
  /\ run' = [r \in Resource |-> IF r = t THEN [run[t] EXCEPT !.pc = "entering"]
                                ELSE IF r \in Cells(t) THEN [run[r] EXCEPT !.robbed = TRUE]
                                ELSE run[r]]
  /\ job' = SaveScriptJob(t, EpisodeOf[t[2]],
       Edit({<< "image", r[2] >> : r \in Cells(t)} \union {<< "cell", r[2] >> : r \in Cells(t)}, {}, {}))
  /\ UNCHANGED << project, script, projectLock, scriptLock, stale, versions, current, asking, thumb,
                  runs, asked, faults >>

\* The worker's process dies; its tasks are queued again at the next start.  Files stay,
\* the operating system lets go of the locks.  An index not yet saved is left behind.
Crash ==
  /\ faults < MaxFaults /\ faults' = faults + 1
  /\ run' = [t \in Resource |-> IF Settled(t) THEN run[t] ELSE Waiting]
  /\ strays' = strays \union {run[t].content : t \in {x \in Resource : Is(x, "generated")}}
  /\ asking' = [u \in User |-> [pc |-> "idle", r |-> Nobody]]
  /\ job' = [j \in Job |-> Resting]
  /\ projectLock' = Nobody /\ scriptLock' = [e \in Episode |-> Nobody]
  /\ stale' = stale \union {Title(e) : e \in {x \in Episode : scriptLock[x] # Nobody}}
  /\ UNCHANGED << project, script, history, thumb, made, runs, asked >>

-----------------------------------------------------------------------------
(* Requests *)

Ask(u) == asking[u].pc = "idle" /\ At(u, "rest") /\ asked < MaxAsked /\ asked' = asked + 1

Serve(u, pc, r) == asking' = [asking EXCEPT ![u] = [pc |-> pc, r |-> r]]

\* restore_version, then the document: the sheet of an asset, the image of a scene; a
\* video has a thumbnail to remove.
Restore(u, r, n) ==
  /\ r[1] \in {"storyboard", "video", "sheet"}
  /\ Ask(u)
  /\ RestoreVersion(r, n)
  /\ run' = Robbed(r)
  /\ Serve(u, IF r[1] = "video" THEN "unlink" ELSE "saving", r)
  /\ job' = CASE r[1] = "sheet" -> UpdateProjectJob(u, Edit({Sheet(r[2])}, {}, {Entry(r[2])}))
              [] r[1] = "storyboard" -> SaveScriptJob(u, EpisodeOf[r[2]], Edit(Shown(r), {}, {}))
              [] r[1] = "video" -> job
  /\ UNCHANGED << project, script, projectLock, scriptLock, stale, thumb, made, strays, runs, faults >>

RemoveThumbnail(u) ==
  /\ asking[u].pc = "unlink"
  /\ NoThumbnail(asking[u].r)
  /\ Serve(u, "idle", Nobody)
  /\ UNCHANGED << store, history, run, made, strays, runs, asked, faults >>

\* An uploaded picture of another format is saved beside the current file.
Upload(u, r) ==
  /\ r[1] \in {"storyboard", "sheet"}
  /\ Ask(u)
  /\ made' = made + 1 /\ strays' = strays \union {made + 1}
  /\ \/ file' = [file EXCEPT ![r] = made + 1] /\ run' = Robbed(r)
     \/ UNCHANGED << file, run >>
  /\ Serve(u, "saving", r)
  /\ job' = IF r[1] = "sheet"
            THEN UpdateProjectJob(u, Edit({Sheet(r[2])}, {}, {Entry(r[2])}))
            ELSE [job EXCEPT ![u].pc = "done"]
  /\ UNCHANGED << project, script, projectLock, scriptLock, stale, versions, current, thumb, runs, faults >>

Edits(u, work) ==
  /\ Ask(u)
  /\ Serve(u, "saving", Nobody)
  /\ job' = work
  /\ UNCHANGED << project, script, projectLock, scriptLock, stale, history, run, thumb, made, strays,
                  runs, faults >>

\* PATCH of a scene or segment, of the project and of an asset, DELETE and POST of one.
EditScript(u, e) == Edits(u, SaveScriptJob(u, e, Edit({Title(e)}, {}, {})))
EditProject(u) == Edits(u, SaveProjectJob(u, Edit({<< "setting", Nobody >>}, {}, {})))
EditAsset(u, a) == Edits(u, UpdateProjectJob(u, Edit({}, {}, {Entry(a)})))
DeleteAsset(u, a) == Edits(u, UpdateProjectJob(u, Edit({}, {Entry(a), Sheet(a)}, {Entry(a)})))
AddAsset(u, a) == Edits(u, UpdateProjectJob(u, Edit({Entry(a)}, {}, {})))

Answer(u) ==
  /\ asking[u].pc = "saving" /\ Ended(u)
  /\ Serve(u, "idle", Nobody)
  /\ job' = [job EXCEPT ![u] = Resting]
  /\ UNCHANGED << project, script, projectLock, scriptLock, stale, history, run, thumb, made, strays,
                  runs, asked, faults >>

-----------------------------------------------------------------------------
Executor(t) ==
  \/ Prepare(t) \/ Track(t) \/ Generate(t) \/ Fails(t) \/ Record(t) \/ Finalized(t)
  \/ (t \in Film /\ (ReadFilm(t) \/ WriteThumbnail(t) \/ DropThumbnail(t)))
  \/ Entered(t) \/ Split(t)

Request(u) ==
  \/ \E r \in Resource : (\E n \in Numbers(r) : Restore(u, r, n)) \/ Upload(u, r)
  \/ RemoveThumbnail(u)
  \/ \E e \in Episode : EditScript(u, e)
  \/ EditProject(u)
  \/ \E t \in Of({"sheet"}) : EditAsset(u, t[2]) \/ DeleteAsset(u, t[2]) \/ AddAsset(u, t[2])
  \/ Answer(u)

\* An asset that comes, or comes back, is not the one whose sheet an earlier run made.
Come == {t \in Of({"sheet"}) : Entry(t[2]) \in project' \ project}

Documents ==
  /\ \/ \E j \in Job : JobStep(j)
     \/ \E e \in Episode : Scan(Scanner, e)
     \/ Ended(Scanner) /\ job' = [job EXCEPT ![Scanner] = Resting]
                       /\ UNCHANGED << project, script, projectLock, scriptLock, stale >>
  /\ run' = [t \in Resource |-> IF t \in Come THEN [run[t] EXCEPT !.anew = TRUE] ELSE run[t]]
  /\ UNCHANGED << history, asking, thumb, made, strays, runs, asked, faults >>

Next ==
  \/ \E t \in Resource : Executor(t)
  \/ \E u \in User : Request(u)
  \/ Documents
  \/ Crash

Spec == Init /\ [][Next]_files

-----------------------------------------------------------------------------
(* Properties *)

\* Every history is numbered without a gap and its pointer points into it or is 0; a lock
\* of project.json belongs to a thread that is changing it.
TypeOK ==
  /\ \A r \in Resource : /\ Numbers(r) = 1 .. Len(versions[r])
                         /\ current[r] \in {0} \union Numbers(r)
                         /\ file[r] \in {Absent} \union (0 .. made)
                         /\ Recorded(r) \subseteq 0 .. made
  /\ \A t \in Film : thumb[t] \in {Absent} \union (0 .. made)
  /\ projectLock # Nobody => At(projectLock, "end update")
  /\ \A e \in Episode : scriptLock[e] # Nobody => job[scriptLock[e]].pc \in {"load index", "save index"}

\* While no run is between the provider's answer and its version, the current file of a
\* resource is the current version, or a content that never got a version of its own: an
\* upload, a cell of a grid, a file whose recording failed.
CurrentShown ==
  \A r \in Resource :
    \/ Is(r, "generated") \/ file[r] = Absent \/ file[r] \in strays
    \/ current[r] # 0 /\ file[r] = Content(r, current[r])

\* The version a run answers with holds what the provider gave it, unless somebody wrote
\* the file between the answer and the recording of it.
ResultKept ==
  \A t \in Resource :
    (run[t].version # 0 /\ ~run[t].robbed /\ run[t].pc \notin {"failed", "idle"})
      => Content(t, run[t].version) = run[t].content

\* The current file is in no version, and came neither from an upload nor a grid nor a
\* recording that failed.
NoCopy(t) == file[t] \notin {Absent} \union Recorded(t) \union (strays \ {Older})

\* A provider's answer overwrites no file of which the history has no copy, other than
\* one that came from an upload, a grid or a failed recording.
OldFileKept == [][\A t \in Resource : NoCopy(t) => ~Generate(t)]_files

\* A run has made a sheet, and its asset is there ever since.
Sheeted(t) == Is(t, "done") /\ ~run[t].anew /\ Entry(t[2]) \in project

\* A sheet that was made is in project.json while its asset is there: the concurrent
\* finalizers of other assets do not lose it, only a save of a document loaded earlier does.
SheetsKept == \A t \in Of({"sheet"}) : Sheeted(t) => Sheet(t[2]) \in project \union stale

\* The same with no exception made.
SheetsShown == \A t \in Of({"sheet"}) : Sheeted(t) => Sheet(t[2]) \in project

\* When nobody holds the lock of a script, the index knows the title of the script as it
\* is, unless a save of an index loaded earlier, or without the lock, or a crash between
\* the two files came in.
IndexFollows ==
  \A e \in Episode :
    scriptLock[e] = Nobody
      => (Title(e) \in script[e] <=> Title(e) \in project) \/ Title(e) \in stale

\* What project.json says of the other files.
DocumentsKept == SheetsKept /\ IndexFollows

\* After a video's run is over and no request is taking its thumbnail away, the thumbnail
\* shows the film that is there, unless that film was replaced while the run went on.
ThumbnailFits ==
  \A t \in Film :
    (Is(t, "done") /\ ~run[t].robbed) => thumb[t] \in {Absent, file[t]}

\* What is shown of a resource, whichever tasks, uploads and restorations overlapped.
ShownTrue == CurrentShown /\ ResultKept /\ ThumbnailFits

=================================================================================
