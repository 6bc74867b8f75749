--------------------------------- MODULE MCFiles ---------------------------------
(***************************************************************************)
(* Small instances of the tasks' work on the files of a project and of the *)
(* client that enqueues batches of tasks.  They share nothing here: one    *)
(* behaviour has tasks of some kinds, beside requests of every kind and    *)
(* the scanner, or batches, which part says.                               *)
(***************************************************************************)
EXTENDS MCGenerationTasks, BatchClient, TLC

CONSTANTS batch1, batch2

VARIABLE part

-----------------------------------------------------------------------------
(* Instances *)

\* A script of three items, which may be cut at the second; a batch of all of them, and one
\* that tries the second again.
MCItem == 1 .. 3
MCMediaOf == [i \in MCItem |-> "image"]
MCProjectOf == [i \in MCItem |-> "drama"]
MCBreaks == {{}, {2}}
MCSelections == (batch1 :> {MCItem}) @@ (batch2 :> {{2}})

-----------------------------------------------------------------------------
(* One part at a time *)

\* A storyboard and what is made from it or becomes its cells; what else is in a script and in
\* the project.
Work == { {"storyboard", "video"}, {"storyboard", "grid"}, {"unit", "sheet"} }

Batches == {"batches"}

\* Each begins in several ways only in a behaviour of its own.
FilesInit ==
  /\ part \in Work \union {Batches}
  /\ Init /\ (part \notin Work => project = {} /\ file = [r \in Resource |-> Absent])
  /\ BatchInit /\ (part # Batches => breaks = {})

\* Two runs and a request or a fault, or a run and both; tasks of the kinds of the part.
Little ==
  /\ runs' + asked' + faults' <= 3
  /\ \A t \in Resource : t[1] \notin part => run'[t].pc = run[t].pc

\* Without the cut there is one batch.
OneBatch == breaks = {} => batch'[batch2].pc = "away"

FilesNext ==
  /\ UNCHANGED part
  /\ IF part \in Work THEN Next /\ Little ELSE UNCHANGED files
  /\ IF part = Batches THEN BatchNext /\ OneBatch ELSE UNCHANGED batching

FilesSpec == FilesInit /\ [][FilesNext]_<< files, batching, part >>
===================================================================================
