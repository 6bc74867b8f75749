------------------------------- MODULE MCServices -------------------------------
(***************************************************************************)
(* Small instances of the components that share nothing: one behaviour     *)
(* runs one of them, which part says, and leaves the others as they are    *)
(* at the start.                                                           *)
(***************************************************************************)
EXTENDS MCSessionActor, TurnProjection, AgentSessionStore, ProjectMigrations, ProjectArchive,
        ProjectInstall, SourceFiles

CONSTANTS
  append1, append2, append3,
  call1, call2,
  jade, jadecup,             \* resources: one's name begins the other's
  ep1,
  import1, import2, import3

VARIABLE part

services == << vars, turns, transcript, migration, archiving, installing, sourcing, part >>

-----------------------------------------------------------------------------
(* Instances *)

\* The third call repeats an entry of the first.
MCEntriesOf == (append1 :> << "x", "y" >>) @@ (append2 :> << "z" >>) @@ (append3 :> << "y", "w" >>)

MCNameOf == (call1 :> "Agent") @@ (call2 :> "Skill")

MCGlobbed == (jade :> {jade, jadecup}) @@ (jadecup :> {jadecup})

MCPolicy == (import1 :> "overwrite") @@ (import2 :> "overwrite") @@ (import3 :> "prompt")

MCPaths(r) == {<< r, "current", 0 >>, << r, "other", 0 >>, << r, "outside", 0 >>}
              \union {<< r, "version", n >> : n \in 1 .. 2}

MCEpisode == [ref |-> "scripts", place |-> "scripts", state |-> "good", mode |-> "narration",
              characters |-> {"ann"}, scenes |-> {"hall"}]

\* Projects with any files of jade, one version of jadecup and a field of one of the two; and
\* projects without pictures, with any script.
MCProject(files, field, listed, current, episode) ==
  [is |-> "project", tree |-> [path \in files |-> path], field |-> field,
   listed |-> (jade :> 1 .. listed) @@ (jadecup :> {1}),
   current |-> (jade :> current) @@ (jadecup :> 1),
   episode |-> (ep1 :> episode), characters |-> {"ann"}, scenes |-> {"hall"}]

MCFields ==
  {(jade :> path) @@ (jadecup :> << "none", "none", 0 >>) :
     path \in MCPaths(jade) \union {<< jadecup, "version", 1 >>}}
  \union {(jade :> << "none", "none", 0 >>) @@ (jadecup :> path) : path \in MCPaths(jade)}

MCProjects ==
  {MCProject(files, field, h[1], h[2], MCEpisode) :
     files \in SUBSET (MCPaths(jade) \union {<< jadecup, "version", 1 >>}),
     field \in MCFields, h \in {<< 0, 0 >>, << 1, 1 >>, << 2, 1 >>, << 2, 2 >>}}
  \union
  {MCProject({}, [r \in {jade, jadecup} |-> << "none", "none", 0 >>], 0, 0, episode) :
     episode \in [ref : {"scripts", "name", "none"},
                  place : {"scripts", "elsewhere", "outside", "missing"},
                  state : {"good", "unreadable", "malformed"},
                  mode : {"narration", "reference_video"},
                  characters : {{"ann"}, {"bob"}}, scenes : {{"hall"}, {"yard"}}]}

-----------------------------------------------------------------------------
(* One part at a time *)

Part == {"actor", "turns", "transcript", "migration", "archive", "install", "sources"}

\* The parts that begin in several ways do so only in a behaviour of their own.
ServicesInit ==
  /\ part \in Part
  /\ Init /\ TurnsInit /\ StoreRowsInit
  /\ MigrationInit
  /\ part # "migration" => /\ picture = [c \in Clue |-> NoFiles]
                           /\ history = picture
                           /\ script = [s \in Script |-> "clues"]
  /\ source \in IF part = "archive" THEN Projects ELSE {NoProject}
  /\ archive = NoProject /\ imported = NoProject /\ scope = "full" /\ diagnosed = {}
  /\ InstallInit
  /\ part # "install" => place = Nothing
  /\ SourceInit
  /\ part # "sources" => legacy = {} /\ \A s \in Stem : texts[s] = 0

\* Requests of a kind are alike: they come in the order of their numbers.
InOrder(requests) ==
  \A r \in DOMAIN requests \ {1} : requests[r].pc # "away" => requests[r - 1].pc # "away"

ServicesNext ==
  /\ UNCHANGED part
  /\ IF part = "actor" THEN QuietNext ELSE UNCHANGED vars
  /\ IF part = "turns" THEN TurnsNext ELSE UNCHANGED turns
  /\ IF part = "transcript" THEN StoreNext ELSE UNCHANGED transcript
  /\ IF part = "migration" THEN MigrationNext ELSE UNCHANGED migration
  /\ IF part = "archive" THEN ArchiveNext ELSE UNCHANGED archiving
  /\ IF part = "install" THEN InstallNext ELSE UNCHANGED installing
  /\ IF part = "sources" THEN SourceNext /\ InOrder(serving') ELSE UNCHANGED sourcing

ServicesSpec == ServicesInit /\ [][ServicesNext]_services /\ ActorFairness
=================================================================================
