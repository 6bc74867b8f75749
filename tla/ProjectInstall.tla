------------------------------ MODULE ProjectInstall ------------------------------
(***************************************************************************)
(* How imports put a project in its place, a directory of one name.  What  *)
(* was there is renamed to a hidden directory, the unpacked project is     *)
(* moved in, and the hidden directory is removed; if something raises, the *)
(* place is cleared and what was there is put back.  No lock is held:      *)
(* imports run in threads of their own, and a task of the old project that *)
(* ends meanwhile makes its directories again to write its result.  Every  *)
(* call on the file system may fail, and the server may stop.              *)
(***************************************************************************)
EXTENDS FiniteSets, Functions

CONSTANTS Importer, Policy  \* what each does about a project of the same name

ASSUME PolicyAssumption ==
  /\ Policy \in [Importer -> {"prompt", "rename", "overwrite"}]
  /\ Importer \cap {"old", "stray", "nobody"} = {}

VARIABLES
  place,    \* the directory of the project
  hidden,   \* the directory each import has renamed
  import,
  spoilt    \* an import met what it had not expected

installing == << place, hidden, import, spoilt >>

Old == "old"
Stray == "stray"
Nothing == [of |-> "nobody", whole |-> FALSE, within |-> {}]
Installed(of) == [of |-> of, whole |-> TRUE, within |-> {}]

InstallInit ==
  /\ place \in {Nothing, Installed(Old)}
  /\ hidden = [i \in Importer |-> Nothing]
  /\ import = [i \in Importer |-> [pc |-> "idle", got |-> "nobody"]]
  /\ spoilt = FALSE

Now(i, pc) == import[i].pc = pc
To(i, pc) == import' = [import EXCEPT ![i].pc = pc]

\* _resolve_conflict; an import that is renamed goes to a place of its own.
Resolve(i) ==
  /\ Now(i, "idle")
  /\ IF place = Nothing \/ Policy[i] = "overwrite" THEN To(i, "resolved") ELSE To(i, "out")
  /\ UNCHANGED << place, hidden, spoilt >>

Look(i) ==
  /\ Now(i, "resolved")
  /\ IF place # Nothing /\ Policy[i] = "overwrite" THEN To(i, "aside") ELSE To(i, "moving")
  /\ UNCHANGED << place, hidden, spoilt >>

SetAside(i) ==
  /\ Now(i, "aside") /\ place # Nothing
  /\ hidden' = [hidden EXCEPT ![i] = place]
  /\ place' = Nothing
  /\ To(i, "moving")
  /\ UNCHANGED spoilt

\* The rename raises, perhaps because another import was quicker; what is in the place is
\* then cleared as if it were the import's own.
SetAsideFails(i) ==
  /\ Now(i, "aside")
  /\ To(i, "clearing")
  /\ spoilt' = TRUE
  /\ UNCHANGED << place, hidden >>

Move(i) ==
  /\ Now(i, "moving") /\ place = Nothing
  /\ place' = Installed(i)
  /\ To(i, "installed")
  /\ UNCHANGED << hidden, spoilt >>

\* Into a directory that is there, a directory is moved as a directory of it, once.
MoveWithin(i) ==
  /\ Now(i, "moving") /\ place # Nothing
  /\ IF place.within = {} THEN place' = [place EXCEPT !.within = {i}] /\ To(i, "installed")
                          ELSE To(i, "clearing") /\ UNCHANGED place
  /\ spoilt' = TRUE
  /\ UNCHANGED hidden

MoveFails(i) ==
  /\ Now(i, "moving")
  /\ place' \in IF place = Nothing THEN {Nothing, [Installed(i) EXCEPT !.whole = FALSE]} ELSE {place}
  /\ To(i, "clearing")
  /\ UNCHANGED << hidden, spoilt >>

\* Errors of the removal are ignored, and leave what they leave.
ClearPlace(i) ==
  /\ Now(i, "clearing")
  /\ place' \in {Nothing, IF place = Nothing THEN Nothing ELSE [place EXCEPT !.whole = FALSE]}
  /\ spoilt' = (spoilt \/ (place # Nothing /\ place.of # i))
  /\ To(i, "restoring")
  /\ UNCHANGED hidden

\* Mutant: what was there is removed, whether or not it was put back.
Kept_Never(i) == Nothing

Kept(i) == IF place = Nothing THEN Nothing ELSE hidden[i]

\* A rename does not replace a directory that has something in it.
Restore(i) ==
  /\ Now(i, "restoring")
  /\ place' = IF place = Nothing THEN hidden[i] ELSE place
  /\ hidden' = [hidden EXCEPT ![i] = Kept(i)]
  /\ To(i, "out")
  /\ UNCHANGED spoilt

RemoveHidden(i) ==
  /\ Now(i, "installed")
  /\ hidden' = [hidden EXCEPT ![i] = Nothing]
  /\ To(i, "loading")
  /\ UNCHANGED << place, spoilt >>

RemoveHiddenFails(i) ==
  /\ Now(i, "installed") /\ hidden[i] # Nothing
  /\ hidden' = [hidden EXCEPT ![i].whole = FALSE]
  /\ To(i, "out")
  /\ UNCHANGED << place, spoilt >>

\* The answer shows the project that is now in the place.
Load(i) ==
  /\ Now(i, "loading")
  /\ import' = [import EXCEPT ![i] = [pc |-> "done", got |-> place.of]]
  /\ UNCHANGED << place, hidden, spoilt >>

TaskWrites ==
  /\ place = Nothing /\ \E i \in Importer : hidden[i].of = Old
  /\ place' = [Nothing EXCEPT !.of = Stray]
  /\ UNCHANGED << hidden, import, spoilt >>

Crash ==
  /\ \E i \in Importer : import[i].pc \notin {"idle", "out", "done"}
  /\ import' = [i \in Importer |-> [import[i] EXCEPT !.pc = IF @ = "done" THEN @ ELSE "out"]]
  /\ UNCHANGED << place, hidden, spoilt >>

InstallNext ==
  \/ \E i \in Importer :
       \/ Resolve(i) \/ Look(i) \/ SetAside(i) \/ SetAsideFails(i)
       \/ Move(i) \/ MoveWithin(i) \/ MoveFails(i) \/ ClearPlace(i) \/ Restore(i)
       \/ RemoveHidden(i) \/ RemoveHiddenFails(i) \/ Load(i)
  \/ TaskWrites \/ Crash

InstallSpec == InstallInit /\ [][InstallNext]_installing

-----------------------------------------------------------------------------
(* Properties *)

Whole(d) == d.whole /\ d.of \in {Old} \union Importer

\* Once there is a project, there is one, in its place or in a hidden directory, and it is
\* complete, whatever fails and wherever the server stops: unless a rename failed, an import
\* found somebody else's directory where it expected none, or removed it.  Overlapping
\* imports that do not meet in this way are covered.
ProjectKept ==
  [][ (\E d \in {place} \union Range(hidden) : Whole(d)) /\ ~spoilt'
      => (\E d \in {place'} \union Range(hidden') : Whole(d)) ]_installing

===============================================================================
