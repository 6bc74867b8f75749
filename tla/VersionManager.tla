----------------------------- MODULE VersionManager -----------------------------
(***************************************************************************)
(* The history of generated files: versions.json and the current file of   *)
(* each resource.  What a file contains is a number, in the order in which *)
(* contents were made; a version is a numbered copy of a content.  Every   *)
(* operation runs under the lock of versions.json, but who writes the      *)
(* current file, a provider, an upload or a grid that is cut up, does not  *)
(* take that lock.                                                         *)
(***************************************************************************)
EXTENDS Integers, Sequences, FiniteSets, SequencesExt, FiniteSetsExt

CONSTANTS
  Resource,
  Absent      \* the content of a file that is not there

VARIABLES
  file,      \* the current file of a resource
  versions,  \* its versions, the oldest first
  current    \* current_version, 0 if there is none

history == << file, versions, current >>

\* What a project from before versions were kept has on disk.
Older == 0

HistoryInit ==
  /\ \E content \in {Absent, Older} : file = [r \in Resource |-> content]
  /\ versions = [r \in Resource |-> << >>]
  /\ current = [r \in Resource |-> 0]

Numbers(r) == {v.n : v \in ToSet(versions[r])}

Recorded(r) == {v.content : v \in ToSet(versions[r])}

\* restore_version and get_versions take the first version with a number.
First(r, n) == CHOOSE i \in DOMAIN versions[r] :
  versions[r][i].n = n /\ \A k \in 1 .. i - 1 : versions[r][k].n # n

Content(r, n) == versions[r][First(r, n)].content

\* Mutant: the number after the current one, which is taken after a restore.
NextNumber_AfterCurrent(r) == current[r] + 1

NextNumber(r) == Max(Numbers(r) \union {0}) + 1

Pointed(r, n) == current' = [current EXCEPT ![r] = n]

AddVersion(r) ==
  /\ versions' = [versions EXCEPT ![r] = Append(@, [n |-> NextNumber(r), content |-> file[r]])]
  /\ Pointed(r, NextNumber(r))

\* Mutant: an old file is not recorded.
EnsureCurrentTracked_Never(r) == UNCHANGED << versions, current >>

\* A file from before is recorded, unless the resource has versions already.
EnsureCurrentTracked(r) ==
  IF file[r] # Absent /\ current[r] = 0 THEN AddVersion(r)
  ELSE UNCHANGED << versions, current >>

RestoreVersion(r, n) ==
  /\ n \in Numbers(r)
  /\ file' = [file EXCEPT ![r] = Content(r, n)]
  /\ Pointed(r, n)
  /\ UNCHANGED versions

=================================================================================
