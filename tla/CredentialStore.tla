------------------------------ MODULE CredentialStore ------------------------------
(***************************************************************************)
(* The credentials and the settings of one provider, the requests that     *)
(* change them (server/routers/providers.py, credential_repository.py) and *)
(* the backends that tasks build from them and keep                        *)
(* (_get_or_create_image_backend, _get_or_create_video_backend).           *)
(*                                                                         *)
(* A SELECT takes no lock: what a request has read may have changed by the *)
(* time it writes.  From its first INSERT, UPDATE or DELETE to its commit  *)
(* it is alone.  The loop runs others between the commit and the clearing  *)
(* of the cache.  SQLite gives the id of a deleted newest row again.       *)
(* A key or setting is the number of the write that made it.               *)
(***************************************************************************)
EXTENDS Integers, FiniteSets

CONSTANTS
  Change,    \* requests that change something, each once
  Builder,   \* tasks that want a backend
  MaxIds,    \* credentials there may be at once
  MaxBuilds  \* how often tasks may begin to build (bounds the model)

ASSUME CredentialAssumption == MaxIds \in Nat \ {0} /\ MaxBuilds \in Nat

VARIABLES
  creds,     \* provider_credential: the rows by id
  config,    \* provider_config: the write that set it
  keyfiles,  \* vertex_keys/: the credentials whose file is there
  cached,    \* _backend_cache: what the kept backend was built from
  change,    \* the requests
  builder,   \* the tasks
  writes,    \* how many keys and settings have been written
  builds,
  torn,      \* the kept backend was built while its provider changed, or outlived a misread
  misread,   \* a request has written on the word of a table that had changed since
  swept      \* credentials whose file an earlier one of the same id took with it

crediting == << creds, config, keyfiles, cached, change, builder, writes, builds, torn, misread, swept >>

NoBackend == [config |-> -1, key |-> -1]
Untried == [op |-> "none", pc |-> "away", id |-> 0, active |-> FALSE, file |-> FALSE]
IdleBuilder == [pc |-> "idle", config |-> 0, key |-> 0]

InUse == {id \in DOMAIN creds : creds[id].active}
ActiveKey == IF InUse = {} THEN 0 ELSE creds[CHOOSE id \in InUse : TRUE].key
InForce == [config |-> config, key |-> ActiveKey]

\* One or two credentials, the first in use, with their files.
CredentialInit ==
  /\ creds \in {[id \in 1 .. n |-> [active |-> id = 1, key |-> id, file |-> TRUE]] : n \in 1 .. 2}
  /\ config = 0 /\ keyfiles = DOMAIN creds /\ cached = NoBackend
  /\ change = [r \in Change |-> Untried]
  /\ builder = [b \in Builder |-> IdleBuilder]
  /\ writes = Cardinality(DOMAIN creds) /\ builds = 0
  /\ torn = FALSE /\ misread = FALSE /\ swept = {}

-----------------------------------------------------------------------------
(* Requests *)

AtWrite(r, op) == change[r].pc = "write" /\ change[r].op = op
Goes(r, pc) == change' = [change EXCEPT ![r].pc = pc]

\* has_active_credential.
LookForActive(r) ==
  /\ change[r].pc = "away"
  /\ \E file \in BOOLEAN :
       change' = [change EXCEPT ![r] =
         [op |-> "create", pc |-> "write", id |-> 0, active |-> InUse = {}, file |-> file]]
  /\ UNCHANGED << creds, config, keyfiles, cached, builder, writes, builds, torn, misread, swept >>

\* _get_credential_or_404.
LoadCredential(r) ==
  /\ change[r].pc = "away"
  /\ \E id \in DOMAIN creds, op \in {"update", "delete", "activate"} :
       change' = [change EXCEPT ![r] =
         [op |-> op, pc |-> "write", id |-> id, active |-> creds[id].active, file |-> creds[id].file]]
  /\ UNCHANGED << creds, config, keyfiles, cached, builder, writes, builds, torn, misread, swept >>

NextId == 1 + Cardinality({n \in 1 .. MaxIds : \E id \in DOMAIN creds : id >= n})

\* Create, or upload: the file is in place when the row is committed.  Of two requests that
\* both saw no active row the index admits one; the other fails before it writes a file.
Insert(r) ==
  LET c == change[r] IN
  /\ AtWrite(r, "create") /\ NextId <= MaxIds
  /\ IF c.active /\ InUse # {}
     THEN /\ Goes(r, "done")
          /\ UNCHANGED << creds, keyfiles, writes, misread, swept >>
     ELSE /\ creds' = [id \in DOMAIN creds \union {NextId} |->
            IF id = NextId THEN [active |-> c.active, key |-> writes + 1, file |-> c.file] ELSE creds[id]]
          /\ writes' = writes + 1
          /\ keyfiles' = IF c.file THEN keyfiles \union {NextId} ELSE keyfiles
          /\ swept' = swept \ {NextId}
          /\ misread' = (misread \/ c.active # (InUse = {}))
          /\ Goes(r, "clear")
  /\ UNCHANGED << config, cached, builder, builds, torn >>

\* Only the credential in use, as it was read, has the cache cleared.
Update(r) ==
  LET c == change[r] IN
  /\ AtWrite(r, "update") /\ c.id \in DOMAIN creds
  /\ creds' = [creds EXCEPT ![c.id].key = writes + 1]
  /\ writes' = writes + 1
  /\ torn' = (torn \/ (~c.active /\ creds[c.id].active /\ cached # NoBackend))
  /\ Goes(r, IF c.active THEN "clear" ELSE "done")
  /\ UNCHANGED << config, keyfiles, cached, builder, builds, misread, swept >>

\* The second SELECT, or the UPDATE itself, finds the row gone.
UpdateGone(r) ==
  /\ AtWrite(r, "update") /\ change[r].id \notin DOMAIN creds
  /\ \/ Goes(r, IF change[r].active THEN "clear" ELSE "done")
     \/ Goes(r, "done")
  /\ UNCHANGED << creds, config, keyfiles, cached, builder, writes, builds, torn, misread, swept >>

Rest(id) == DOMAIN creds \ {id}

\* Mutant: nothing takes the place of the deleted credential.
Promoted_None(id, wasActive) == {}

\* The oldest of the rest is promoted when the deleted one was in use.
Promoted(id, wasActive) ==
  IF wasActive THEN {n \in Rest(id) : \A m \in Rest(id) : n <= m} ELSE {}

InUseAfter(id, wasActive) == (InUse \ {id}) \union Promoted(id, wasActive)

\* The index refuses a second active row, and nothing is deleted.
Delete(r) ==
  LET c == change[r] IN
  /\ AtWrite(r, "delete")
  /\ IF Cardinality(InUseAfter(c.id, c.active)) > 1
     THEN Goes(r, "done") /\ UNCHANGED << creds, misread >>
     ELSE /\ creds' = [id \in Rest(c.id) |->
            [creds[id] EXCEPT !.active = id \in InUseAfter(c.id, c.active)]]
          /\ misread' = (misread \/ (c.id \in InUse /\ ~c.active))
          /\ Goes(r, "clear")
  /\ UNCHANGED << config, keyfiles, cached, builder, writes, builds, torn, swept >>

\* All rows are put out of use and the given one in use, if it is still there.
Activate(r) ==
  LET c == change[r] IN
  /\ AtWrite(r, "activate")
  /\ creds' = [id \in DOMAIN creds |-> [creds[id] EXCEPT !.active = id = c.id]]
  /\ misread' = (misread \/ c.id \notin DOMAIN creds)
  /\ Goes(r, "clear")
  /\ UNCHANGED << config, keyfiles, cached, builder, writes, builds, torn, swept >>

\* patch_provider_config.
PatchConfig(r) ==
  /\ change[r].pc = "away"
  /\ config' = writes + 1 /\ writes' = writes + 1
  /\ change' = [change EXCEPT ![r] = [Untried EXCEPT !.op = "config", !.pc = "clear"]]
  /\ UNCHANGED << creds, keyfiles, cached, builder, builds, torn, misread, swept >>

\* _invalidate_caches.
ClearCache(r) ==
  /\ change[r].pc = "clear"
  /\ cached' = NoBackend /\ torn' = FALSE
  /\ Goes(r, IF change[r].op = "delete" /\ change[r].file THEN "unlink" ELSE "done")
  /\ UNCHANGED << creds, config, keyfiles, builder, writes, builds, misread, swept >>

\* The file of the deleted credential goes last.
Unlink(r) ==
  /\ change[r].pc = "unlink"
  /\ keyfiles' = keyfiles \ {change[r].id}
  /\ swept' = swept \union ({change[r].id} \cap DOMAIN creds)
  /\ Goes(r, "done")
  /\ UNCHANGED << creds, config, cached, builder, writes, builds, torn, misread >>

-----------------------------------------------------------------------------
(* Tasks *)

BuilderGoes(b, pc) == builder' = [builder EXCEPT ![b].pc = pc]

\* A task that finds the cache filled uses what is there and is not seen here.
ReadConfig(b) ==
  /\ builder[b].pc = "idle" /\ cached = NoBackend /\ builds < MaxBuilds
  /\ builds' = builds + 1
  /\ builder' = [builder EXCEPT ![b] = [pc |-> "credential", config |-> config, key |-> 0]]
  /\ UNCHANGED << creds, config, keyfiles, cached, change, writes, torn, misread, swept >>

\* get_active: overlay_config.
ReadCredential(b) ==
  /\ builder[b].pc = "credential"
  /\ builder' = [builder EXCEPT ![b].pc = "store", ![b].key = ActiveKey]
  /\ UNCHANGED << creds, config, keyfiles, cached, change, writes, builds, torn, misread, swept >>

StoreBackend(b) ==
  /\ builder[b].pc = "store"
  /\ cached' = [config |-> builder[b].config, key |-> builder[b].key]
  /\ torn' = (cached' # InForce)
  /\ builder' = [builder EXCEPT ![b] = IdleBuilder]
  /\ UNCHANGED << creds, config, keyfiles, change, writes, builds, misread, swept >>

-----------------------------------------------------------------------------

CredentialNext ==
  \/ \E r \in Change :
       \/ LookForActive(r) \/ LoadCredential(r) \/ Insert(r) \/ Update(r) \/ UpdateGone(r)
       \/ Delete(r) \/ Activate(r) \/ PatchConfig(r) \/ ClearCache(r) \/ Unlink(r)
  \/ \E b \in Builder : ReadConfig(b) \/ ReadCredential(b) \/ StoreBackend(b)

CredentialSpec == CredentialInit /\ [][CredentialNext]_crediting

-----------------------------------------------------------------------------
(* Properties *)

\* A kept backend was built from the settings and the credential in force, but for the time
\* between a commit and the clearing that follows it, a task that was building during a change,
\* and an update that took a credential for unused.
BackendCurrent ==
  cached \in {NoBackend, InForce} \/ torn \/ \E r \in Change : change[r].pc = "clear"

\* A provider with credentials is without one in use only after a request wrote on the word of
\* a table that had changed since; it never has two.
OneInUse ==
  /\ Cardinality(InUse) <= 1
  /\ DOMAIN creds # {} /\ InUse = {} => misread

\* An uploaded credential has its file, unless a deletion of an earlier credential of its id
\* was still to remove that one's.
KeyFileThere == \A id \in DOMAIN creds : creds[id].file => id \in keyfiles \union swept

\* Whatever the order of the requests and of the tasks that build backends in between.
CredentialsHonest == BackendCurrent /\ OneInUse /\ KeyFileThere

====================================================================================
