------------------------------ MODULE GridRequests ------------------------------
(***************************************************************************)
(* The requests that generate the grids of an episode and generate one     *)
(* again (server/routers/grids.py), the records they keep of them          *)
(* (lib/grid_manager.py), and what a run of a grid's task does to its      *)
(* record (execute_grid_task).  GenerationTasks has what the run does to   *)
(* the other files.                                                        *)
(*                                                                         *)
(* Requests and runs share an event loop: what they do between two awaits  *)
(* is one step.  All grids are of one script and episode.  A task is       *)
(* reduced to its state, for a row of a grid is unique while it is active. *)
(***************************************************************************)
EXTENDS Integers, Sequences, FiniteSets, SequencesExt

CONSTANTS
  Scenes,      \* how many scenes the script has
  BreakSets,   \* the sets of scenes that may begin a new segment
  Wanted,      \* the scene_ids that may be asked for; {} for none given
  OldGrids,    \* the records there may be at the start, each with its image
  MaxGrids,    \* how many grids there may be
  Generation, Regeneration,  \* requests of the two kinds
  MaxLoops     \* restarts, cancellations and failures to enqueue (bounds the model)

ASSUME GridAssumption ==
  /\ Scenes \in Nat \ {0} /\ MaxGrids \in Nat \ {0} /\ MaxLoops \in Nat
  /\ Generation \cap Regeneration = {}
  /\ BreakSets \subseteq SUBSET (1 .. Scenes)
  /\ OldGrids \subseteq [scenes : SUBSET (1 .. Scenes), status : {"generating", "splitting", "completed", "failed"}]

VARIABLES
  segments,  \* the scenes that begin a segment
  grids,     \* the records
  pictured,  \* the grids whose image is there
  queue,     \* the task of each grid, and where its run is
  orders,    \* the requests
  uprooted,  \* grids deleted on the word of an old list, or whose record spoke of no task to come
  adrift,    \* grids whose task did not come, was cancelled or was ending when shared
  loops

gridding == << segments, grids, pictured, queue, orders, uprooted, adrift, loops >>

Grid == 1 .. MaxGrids
NoGrid == [scenes |-> {}, status |-> "missing"]
GridRecord(scenes, status) == [scenes |-> scenes, status |-> status]

-----------------------------------------------------------------------------
(* Groups and layouts *)

\* calculate_grid_layout.
CellCount(n) == IF n <= 4 THEN 4 ELSE IF n <= 6 THEN 6 ELSE 9

\* build_frame_chain: the scene that each cell is for; 0 in a placeholder.
FrameChain(scenes) ==
  LET n == Cardinality(scenes)
      first == CHOOSE s \in scenes : \A u \in scenes : s <= u
  IN [cell \in 0 .. CellCount(n) - 1 |-> IF cell < n THEN first + cell ELSE 0]

GroupEnd(first) == CHOOSE last \in first .. Scenes :
  /\ last + 1 \in segments \union {Scenes + 1}
  /\ \A s \in first + 1 .. last : s \notin segments

\* group_scenes_by_segment_break: each group by its first scene.
Groups(wanted) ==
  {first \in {1} \union segments : wanted = {} \/ wanted \cap (first .. GroupEnd(first)) # {}}

\* A group of more scenes than the largest grid has cells is cut into chunks.
Starts(first) ==
  LET n == GroupEnd(first) - first + 1
  IN {first + k * CellCount(n) : k \in 0 .. (n - 1) \div CellCount(n)}

Chunk(first, start) ==
  LET end == start + CellCount(GroupEnd(first) - first + 1) - 1
  IN start .. IF end < GroupEnd(first) THEN end ELSE GroupEnd(first)

\* The chunks of all groups in order, each with the old grids' scenes it clears.
Plan(wanted) ==
  LET chunks == UNION {Starts(g) \X {g} : g \in Groups(wanted)}
      nth(i) == CHOOSE c \in chunks : Cardinality({d \in chunks : d[1] <= c[1]}) = i
  IN [i \in 1 .. Cardinality(chunks) |->
        LET start == nth(i)[1]
            first == nth(i)[2]
        IN [scenes |-> Chunk(first, start), clears |-> IF start = first THEN first .. GroupEnd(first) ELSE {}]]

-----------------------------------------------------------------------------
(* Requests *)

NoRun == [task |-> "none", pc |-> "none", scenes |-> {}]
NotAsked == [pc |-> "away", listed |-> << >>, plan |-> << >>, grid |-> 0, made |-> << >>, wanted |-> {}]

GridInit ==
  /\ segments \in BreakSets
  /\ \E old \in OldGrids : grids = [g \in Grid |-> IF g = 1 THEN old ELSE NoGrid]
  /\ pictured = {1}
  /\ queue = [g \in Grid |-> NoRun]
  /\ orders = [r \in Generation \union Regeneration |-> NotAsked]
  /\ uprooted = {} /\ adrift = {} /\ loops = 0

Unused == {g \in Grid : \A h \in Grid : h >= g => grids[h] = NoGrid /\ queue[h] = NoRun}

\* Mutant: the status is not looked at.
Removable_Any(old) == old.status # "missing"

\* Old grids the worker may still be about to read stay.
Removable(old) == old.status \notin {"missing", "pending", "generating"}

\* Until the next await: the old grids of a group that has its first chunk now are deleted,
\* as they were listed when the request began, and the next record is saved.  Numbers of
\* deleted grids are not used again.
Place(r, listed, plan, made, wanted) ==
  LET next == Head(plan)
      gone == {g \in DOMAIN listed : /\ Removable(listed[g])
                                     /\ listed[g].scenes \subseteq next.clears}
      new == CHOOSE g \in Unused : \A h \in Unused : g <= h
  IN /\ Unused # {}
     /\ grids' = [g \in Grid |-> IF g = new THEN GridRecord(next.scenes, "pending")
                                 ELSE IF g \in gone THEN NoGrid ELSE grids[g]]
     /\ pictured' = pictured \ gone
     /\ uprooted' = uprooted \union
          {g \in gone : grids[g] # listed[g] \/ grids[g].status \notin {"pending", "generating"}}
     /\ orders' = [orders EXCEPT ![r] = [pc |-> "enqueue", listed |-> listed, plan |-> Tail(plan),
                                       grid |-> new, made |-> Append(made, next.scenes), wanted |-> wanted]]

GenerateGrids(r, wanted) ==
  /\ orders[r].pc = "away"
  /\ Groups(wanted) # {}
  /\ Place(r, grids, Plan(wanted), << >>, wanted)
  /\ UNCHANGED << segments, queue, adrift, loops >>

\* The record is pending before its task is there.
RegenerateGrid(r, g) ==
  /\ orders[r].pc = "away" /\ grids[g] # NoGrid
  /\ grids' = [grids EXCEPT ![g].status = "pending"]
  /\ orders' = [orders EXCEPT ![r].pc = "enqueue", ![r].grid = g]
  /\ UNCHANGED << segments, pictured, queue, uprooted, adrift, loops >>

Enqueued(r) ==
  LET g == orders[r].grid
  IN /\ orders[r].pc = "enqueue"
     /\ queue' = IF queue[g].task = "none" THEN [queue EXCEPT ![g].task = "queued"] ELSE queue
     /\ adrift' = IF queue[g].pc = "over" THEN adrift \union {g} ELSE adrift \ {g}
     /\ IF orders[r].plan = << >>
        THEN orders' = [orders EXCEPT ![r].pc = "done"] /\ UNCHANGED << grids, pictured, uprooted >>
        ELSE Place(r, orders[r].listed, orders[r].plan, orders[r].made, orders[r].wanted)
     /\ UNCHANGED << segments, loops >>

\* The rest of the chunks is not made.
EnqueueRaises(r) ==
  /\ orders[r].pc = "enqueue" /\ loops < MaxLoops /\ loops' = loops + 1
  /\ orders' = [orders EXCEPT ![r].pc = "failed"]
  /\ adrift' = adrift \union {orders[r].grid}
  /\ UNCHANGED << segments, grids, pictured, queue, uprooted >>

-----------------------------------------------------------------------------
(* Runs *)

RunAt(g, pc) == queue[g].pc = pc

\* GridManager.save: what the run has loaded, whether or not the record is still there.
SaveGrid(g, status, pc) ==
  /\ grids' = [grids EXCEPT ![g] = GridRecord(queue[g].scenes, status)]
  /\ queue' = [queue EXCEPT ![g].pc = pc]

ClaimGrid(g) ==
  /\ queue[g].task = "queued"
  /\ queue' = [queue EXCEPT ![g].task = "running", ![g].pc = "begun"]
  /\ UNCHANGED << segments, grids, pictured, orders, uprooted, adrift, loops >>

LoadGrid(g) ==
  /\ RunAt(g, "begun") /\ grids[g] # NoGrid
  /\ grids' = [grids EXCEPT ![g].status = "generating"]
  /\ queue' = [queue EXCEPT ![g].pc = "loaded", ![g].scenes = grids[g].scenes]
  /\ UNCHANGED << segments, pictured, orders, uprooted, adrift, loops >>

\* grid not found: nothing is saved.
GridNotFound(g) ==
  /\ RunAt(g, "begun") /\ grids[g] = NoGrid
  /\ queue' = [queue EXCEPT ![g].pc = "over"]
  /\ UNCHANGED << segments, grids, pictured, orders, uprooted, adrift, loops >>

\* The references of the grid, then its provider and model.
SaveReferences(g) ==
  /\ RunAt(g, "loaded") /\ SaveGrid(g, "generating", "referring")
  /\ UNCHANGED << segments, pictured, orders, uprooted, adrift, loops >>
SaveBackend(g) ==
  /\ RunAt(g, "referring") /\ SaveGrid(g, "generating", "generating")
  /\ UNCHANGED << segments, pictured, orders, uprooted, adrift, loops >>

\* The provider's answer becomes the image; later its version is there and the run goes on.
ImageArrives(g) ==
  /\ RunAt(g, "generating")
  /\ pictured' = pictured \union {g}
  /\ queue' = [queue EXCEPT ![g].pc = "pictured"]
  /\ UNCHANGED << segments, grids, orders, uprooted, adrift, loops >>
SaveSplitting(g) ==
  /\ RunAt(g, "pictured") /\ SaveGrid(g, "splitting", "splitting")
  /\ UNCHANGED << segments, pictured, orders, uprooted, adrift, loops >>

\* The cells are in their scenes.
SaveCompleted(g) ==
  /\ RunAt(g, "splitting") /\ SaveGrid(g, "completed", "over")
  /\ UNCHANGED << segments, pictured, orders, uprooted, adrift, loops >>

\* Whatever raises, the record says so.
SaveFailed(g) ==
  /\ queue[g].pc \in {"loaded", "referring", "generating", "pictured", "splitting"}
  /\ SaveGrid(g, "failed", "over")
  /\ UNCHANGED << segments, pictured, orders, uprooted, adrift, loops >>

\* The worker settles the row.
SettleGrid(g) ==
  /\ RunAt(g, "over")
  /\ queue' = [queue EXCEPT ![g] = NoRun]
  /\ UNCHANGED << segments, grids, pictured, orders, uprooted, adrift, loops >>

CancelGrid(g) ==
  /\ queue[g].task = "queued" /\ loops < MaxLoops /\ loops' = loops + 1
  /\ queue' = [queue EXCEPT ![g] = NoRun]
  /\ adrift' = adrift \union {g}
  /\ UNCHANGED << segments, grids, pictured, orders, uprooted >>

\* The server stops and starts: running rows are queued again, requests are gone.
ServerRestarts ==
  /\ loops < MaxLoops /\ loops' = loops + 1
  /\ queue' = [g \in Grid |-> IF queue[g].task = "none" THEN NoRun ELSE [NoRun EXCEPT !.task = "queued"]]
  /\ orders' = [r \in DOMAIN orders |-> IF orders[r].pc = "enqueue" THEN [orders[r] EXCEPT !.pc = "failed"] ELSE orders[r]]
  /\ adrift' = adrift \union {orders[r].grid : r \in {r \in DOMAIN orders : orders[r].pc = "enqueue"}}
  /\ UNCHANGED << segments, grids, pictured, uprooted >>

GridNext ==
  \/ \E r \in Generation, wanted \in Wanted : GenerateGrids(r, wanted)
  \/ \E r \in Regeneration, g \in Grid : RegenerateGrid(r, g)
  \/ \E r \in Generation \union Regeneration : Enqueued(r) \/ EnqueueRaises(r)
  \/ \E g \in Grid :
       \/ ClaimGrid(g) \/ LoadGrid(g) \/ GridNotFound(g) \/ SaveReferences(g) \/ SaveBackend(g)
       \/ ImageArrives(g) \/ SaveSplitting(g) \/ SaveCompleted(g) \/ SaveFailed(g) \/ SettleGrid(g)
       \/ CancelGrid(g)
  \/ ServerRestarts

GridSpec == GridInit /\ [][GridNext]_gridding

-----------------------------------------------------------------------------
(* Properties *)

\* A request that ends well has made a grid for each scene of the segments it was asked
\* about, no scene is in two of them, and each has a cell for each of its scenes.
ScenesOnce ==
  \A r \in Generation : orders[r].pc = "done" =>
    LET made == orders[r].made
    IN /\ UNION ToSet(made) = UNION {g .. GroupEnd(g) : g \in Groups(orders[r].wanted)}
       /\ \A i, j \in DOMAIN made : i # j => made[i] \cap made[j] = {}
       /\ \A i \in DOMAIN made : {cell \in Range(FrameChain(made[i])) : cell # 0} = made[i]

\* A task finds its record, and a grid that is completed has its image, except where a
\* request deleted them on the word of a list it had made before, or while the record did
\* not say that a task was coming or at work: between the end of a run and that of its task,
\* after a restart then, and while the grid is cut up.
RecordThere ==
  \A g \in Grid \ uprooted :
    /\ queue[g].task # "none" /\ ~ RunAt(g, "over") => grids[g] # NoGrid
    /\ grids[g].status \in {"splitting", "completed"} => g \in pictured

\* A record is pending only while a task is coming for it.
PendingServed ==
  \A g \in Grid \ adrift :
    grids[g].status = "pending" =>
      queue[g].task # "none" \/ \E r \in DOMAIN orders : orders[r].pc = "enqueue" /\ orders[r].grid = g

\* What the requests leave behind, however they and the runs of the tasks interleave.
GridsHonest == ScenesOnce /\ RecordThere /\ PendingServed

=================================================================================
