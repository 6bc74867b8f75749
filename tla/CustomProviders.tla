------------------------------ MODULE CustomProviders ------------------------------
(***************************************************************************)
(* The providers that users add, with their models                         *)
(* (server/routers/custom_providers.py, custom_provider_repo.py), the      *)
(* settings that refer to them, of the system and of a project, and how a  *)
(* task finds its backend (lib/config/resolver.py, _create_custom_backend, *)
(* lib/text_backends/factory.py).                                          *)
(*                                                                         *)
(* A request reads its provider, then changes it in a transaction alone.   *)
(* SQLite gives the id of a deleted newest row again.  A task resolves a   *)
(* reference and then builds; the reads of either are taken together.      *)
(***************************************************************************)
EXTENDS Integers, FiniteSets

CONSTANTS
  Admin,     \* requests about providers, each once
  Runner,    \* tasks that want a backend, each once
  Lists,     \* the model lists that may be sent
  Referred,  \* the << provider, model >> that settings may be given
  ReadyMedia,     \* the media that a built-in provider with a credential serves
  MaxWrites  \* how many settings are written (bounds the model)

ASSUME ProviderAssumption == ReadyMedia \subseteq {"text", "video", "image"} /\ MaxWrites \in Nat

VARIABLES
  born,      \* custom_provider: which creation each id stands for
  models,    \* custom_provider_model: the rows of each provider
  settings,  \* system_setting
  project,   \* the keys of project.json
  admin,     \* the requests
  runner,    \* the tasks
  births, written,
  littered   \* a project could not be cleaned

provisioning == << born, models, settings, project, admin, runner, births, written, littered >>

\* _BACKEND_SETTING_KEYS: "script" is one of the three for text tasks.
SettingKey == {"video", "image", "t2i", "i2i", "text", "script"}
Kind == {"text", "video", "t2i", "i2i"}

\* A reference remembers which creation of its provider it was made for; 0 for none.
Unset == [provider |-> -1, model |-> "none", born |-> 0]
Automatic == [provider |-> -1, model |-> "auto", born |-> 0]
RegistryRef == [provider |-> 0, model |-> "registry", born |-> 0]

Idle == [op |-> "none", pc |-> "away", id |-> 0, list |-> {}, gone |-> {}]
Unasked == [kind |-> "none", pc |-> "away", ref |-> Unset, row |-> "none"]

ProvidersInit ==
  /\ born = [id \in {} |-> 0] /\ models = [id \in {} |-> {}]
  /\ settings = [k \in SettingKey |-> Unset] /\ project = [k \in SettingKey |-> Unset]
  /\ admin = [r \in Admin |-> Idle] /\ runner = [t \in Runner |-> Unasked]
  /\ births = 0 /\ written = 0 /\ littered = FALSE

-----------------------------------------------------------------------------
(* Endpoints and model lists *)

\* ENDPOINT_REGISTRY.
EndpointMedia(endpoint) ==
  CASE endpoint \in {"openai-chat", "gemini-generate"} -> "text"
    [] endpoint \in {"openai-video", "newapi-video"} -> "video"
    [] OTHER -> "image"

Capabilities(endpoint) ==
  CASE endpoint = "openai-images-generations" -> {"t2i"}
    [] endpoint = "openai-images-edits" -> {"i2i"}
    [] OTHER -> {"t2i", "i2i"}

\* Two rows of one name and two defaults for one use are refused.
Accepted(list) ==
  \A m, n \in list : m # n =>
    /\ m.name # n.name
    /\ ~ (/\ m.default /\ n.default /\ EndpointMedia(m.endpoint) = EndpointMedia(n.endpoint)
          /\ EndpointMedia(m.endpoint) = "image" =>
               Capabilities(m.endpoint) \cap Capabilities(n.endpoint) # {})

Names(rows) == {m.name : m \in rows}

-----------------------------------------------------------------------------
(* Requests *)

AdminGoes(r, pc) == admin' = [admin EXCEPT ![r].pc = pc]

NextProvider == 1 + Cardinality({n \in 1 .. births : \E id \in DOMAIN born : id >= n})

CreateProvider(r) ==
  /\ admin[r].pc = "away"
  /\ \E list \in Lists :
       /\ Accepted(list)
       /\ models' = [id \in DOMAIN born \union {NextProvider} |->
            IF id = NextProvider THEN list ELSE models[id]]
       /\ born' = [id \in DOMAIN born \union {NextProvider} |->
            IF id = NextProvider THEN births + 1 ELSE born[id]]
  /\ births' = births + 1
  /\ AdminGoes(r, "done")
  /\ UNCHANGED << settings, project, runner, written, littered >>

\* A request that replaces the models notes those that will be gone.
LoadProvider(r) ==
  /\ admin[r].pc = "away"
  /\ \E id \in DOMAIN born, list \in Lists \union {{}}, op \in {"put", "replace", "delete"} :
       /\ IF op = "delete" THEN list = {} ELSE list \in Lists /\ Accepted(list)
       /\ admin' = [admin EXCEPT ![r] = [op |-> op, pc |-> "write", id |-> id, list |-> list,
                      gone |-> IF op = "replace" THEN Names(models[id]) \ Names(list) ELSE {}]]
  /\ UNCHANGED << born, models, settings, project, runner, births, written, littered >>

\* A foreign key keeps rows from a provider that is gone.
ReplaceModels(r) ==
  LET a == admin[r] IN
  /\ a.pc = "write" /\ a.op \in {"put", "replace"}
  /\ a.id \in DOMAIN born
  /\ models' = [models EXCEPT ![a.id] = a.list]
  /\ settings' = [k \in SettingKey |->
       IF settings[k].provider = a.id /\ settings[k].model \in a.gone THEN Automatic ELSE settings[k]]
  /\ AdminGoes(r, "done")
  /\ UNCHANGED << born, project, runner, births, written, littered >>

ReplaceFails(r) ==
  /\ admin[r].pc = "write" /\ admin[r].op \in {"put", "replace"}
  /\ admin[r].id \notin DOMAIN born
  /\ AdminGoes(r, "done")
  /\ UNCHANGED << born, models, settings, project, runner, births, written, littered >>

\* Mutant: the settings are left to the clean-up of the projects.
ClearedSettings_None(id) == settings

ClearedSettings(id) ==
  [k \in SettingKey |-> IF settings[k].provider = id THEN Automatic ELSE settings[k]]

DeleteProvider(r) ==
  LET id == admin[r].id IN
  /\ admin[r].pc = "write" /\ admin[r].op = "delete"
  /\ born' = [n \in DOMAIN born \ {id} |-> born[n]]
  /\ models' = [n \in DOMAIN born \ {id} |-> models[n]]
  /\ settings' = ClearedSettings(id)
  /\ AdminGoes(r, "clean")
  /\ UNCHANGED << project, runner, births, written, littered >>

\* _cleanup_project_refs, in a thread.
CleanProject(r) ==
  /\ admin[r].pc = "clean"
  /\ project' = [k \in SettingKey |-> IF project[k].provider = admin[r].id THEN Unset ELSE project[k]]
  /\ AdminGoes(r, "done")
  /\ UNCHANGED << born, models, settings, runner, births, written, littered >>

\* An error is passed over, and a server that stops does not come back to it.
CleanFails(r) ==
  /\ admin[r].pc = "clean" /\ littered' = TRUE
  /\ AdminGoes(r, "done")
  /\ UNCHANGED << born, models, settings, project, runner, births, written >>

\* validate_backend_value: a custom provider need not be there.
ReferenceTo(ref) ==
  [provider |-> ref[1], model |-> ref[2], born |-> IF ref[1] \in DOMAIN born THEN born[ref[1]] ELSE 0]

\* patch_system_config.
PatchSettings ==
  /\ written < MaxWrites /\ written' = written + 1
  /\ \E k \in SettingKey, value \in {ReferenceTo(ref) : ref \in Referred} \union {Automatic} :
       settings' = [settings EXCEPT ![k] = value]
  /\ UNCHANGED << born, models, project, admin, runner, births, littered >>

\* The update of a project.
PatchProject ==
  /\ written < MaxWrites /\ written' = written + 1
  /\ \E k \in SettingKey, value \in {ReferenceTo(ref) : ref \in Referred} \union {Unset} :
       project' = [project EXCEPT ![k] = value]
  /\ UNCHANGED << born, models, settings, admin, runner, births, littered >>

-----------------------------------------------------------------------------
(* Tasks *)

MediaNeeded(kind) == IF kind \in {"t2i", "i2i"} THEN "image" ELSE kind

Defaults(rows, media) == {m \in rows : m.default /\ m.enabled /\ EndpointMedia(m.endpoint) = media}

\* _auto_resolve_backend: a built-in provider, else the default model of the oldest row.
AutoResolved(media) ==
  IF media \in ReadyMedia THEN {RegistryRef}
  ELSE UNION {{[provider |-> id, model |-> m.name, born |-> born[id]] : m \in Defaults(models[id], media)} :
                id \in DOMAIN born}

IsReference(value) == value \notin {Unset, Automatic}

\* A setting of the system, else what is chosen automatically.
Otherwise(value, media) == IF IsReference(value) THEN {value} ELSE AutoResolved(media)

\* The old key stands in only where the new one was never set.
SystemDefault(kind) ==
  CASE kind = "text" -> Otherwise(IF IsReference(settings["script"]) THEN settings["script"] ELSE settings["text"], "text")
    [] kind = "video" -> Otherwise(settings["video"], "video")
    [] OTHER -> Otherwise(IF settings[kind] # Unset THEN settings[kind] ELSE settings["image"], "image")

\* The project comes first, its new key before its old.
Resolved(kind) ==
  LET keys == CASE kind = "text" -> << "script", "script" >>
                [] kind = "video" -> << "video", "video" >>
                [] OTHER -> << kind, "image" >>
  IN IF IsReference(project[keys[1]]) THEN {project[keys[1]]}
     ELSE IF IsReference(project[keys[2]]) THEN {project[keys[2]]}
     ELSE SystemDefault(kind)

\* Whatever the task makes, the system's video default is looked up for it.
CanResolve(kind) ==
  /\ Resolved(kind) # {}
  /\ kind # "text" => SystemDefault("video") # {}

Resolve(t) ==
  /\ runner[t].pc = "away"
  /\ \E kind \in Kind :
       /\ CanResolve(kind)
       /\ \E ref \in Resolved(kind) :
            runner' = [runner EXCEPT ![t] = [kind |-> kind, pc |-> "build", ref |-> ref, row |-> "none"]]
  /\ UNCHANGED << born, models, settings, project, admin, births, written, littered >>

\* No provider is found, and the task fails.
ResolveFails(t) ==
  /\ runner[t].pc = "away"
  /\ \E kind \in Kind :
       /\ ~CanResolve(kind)
       /\ runner' = [runner EXCEPT ![t] = [kind |-> kind, pc |-> "raised", ref |-> Unset, row |-> "none"]]
  /\ UNCHANGED << born, models, settings, project, admin, births, written, littered >>

Candidates(rows, name, media) == {m \in rows : m.name = name /\ m.enabled /\ EndpointMedia(m.endpoint) = media}

BuildWanted(t) ==
  LET ref == runner[t].ref
      media == MediaNeeded(runner[t].kind)
  IN
  /\ runner[t].pc = "build"
  /\ \/ /\ ref.provider = 0
        /\ runner' = [runner EXCEPT ![t].pc = "built"]
     \/ /\ ref.provider \in DOMAIN born
        /\ \E m \in Candidates(models[ref.provider], ref.model, media) :
             runner' = [runner EXCEPT ![t].pc = "built", ![t].row = m.endpoint]
  /\ UNCHANGED << born, models, settings, project, admin, births, written, littered >>

Found(t) ==
  LET ref == runner[t].ref IN
  ref.provider = 0 \/ (ref.provider \in DOMAIN born
    /\ Candidates(models[ref.provider], ref.model, MediaNeeded(runner[t].kind)) # {})

\* The model is gone, disabled or makes something else: the provider's default is taken.
BuildDefault(t) ==
  LET ref == runner[t].ref
      media == MediaNeeded(runner[t].kind)
  IN
  /\ runner[t].pc = "build" /\ ~Found(t) /\ ref.provider \in DOMAIN born
  /\ Cardinality(Defaults(models[ref.provider], media)) = 1
  /\ \E m \in Defaults(models[ref.provider], media) :
       runner' = [runner EXCEPT ![t].pc = "built", ![t].row = m.endpoint]
  /\ UNCHANGED << born, models, settings, project, admin, births, written, littered >>

\* The provider is gone, or has no default, or has two for images.
BuildFails(t) ==
  LET ref == runner[t].ref
      defaults == Defaults(models[ref.provider], MediaNeeded(runner[t].kind))
  IN
  /\ runner[t].pc = "build" /\ ~Found(t)
  /\ ref.provider \in DOMAIN born => Cardinality(defaults) # 1
  /\ runner' = [runner EXCEPT ![t].pc = "raised", ![t].row =
       IF ref.provider \notin DOMAIN born THEN "no provider"
       ELSE IF defaults = {} THEN "no default" ELSE "two defaults"]
  /\ UNCHANGED << born, models, settings, project, admin, births, written, littered >>

-----------------------------------------------------------------------------

ProvidersNext ==
  \/ \E r \in Admin :
       \/ CreateProvider(r) \/ LoadProvider(r) \/ ReplaceModels(r) \/ ReplaceFails(r)
       \/ DeleteProvider(r) \/ CleanProject(r) \/ CleanFails(r)
  \/ PatchSettings \/ PatchProject
  \/ \E t \in Runner :
       \/ Resolve(t) \/ ResolveFails(t) \/ BuildWanted(t) \/ BuildDefault(t) \/ BuildFails(t)

ProvidersSpec == ProvidersInit /\ [][ProvidersNext]_provisioning

-----------------------------------------------------------------------------
(* Properties *)

\* A reference to nothing but the provider it was made for, or made when there was none.
MeansItsProvider(value) ==
  value.born # 0 => value.provider \in DOMAIN born /\ born[value.provider] = value.born

\* A setting of the system never outlives its provider, nor comes to mean another that was
\* given its id; a project's does only until the clean-up, if that did not fail.
NoneDangling ==
  /\ \A k \in SettingKey : MeansItsProvider(settings[k])
  /\ \A k \in SettingKey : MeansItsProvider(project[k])
       \/ littered \/ \E r \in Admin : admin[r].pc = "clean" /\ admin[r].id = project[k].provider

\* A task gets a backend that makes what it is for.  It fails over a default it could take only
\* where a provider has one for images from text and one for images from images.
BackendFits ==
  \A t \in Runner :
    /\ runner[t].pc = "built" /\ runner[t].ref.provider # 0 =>
         EndpointMedia(runner[t].row) = MediaNeeded(runner[t].kind)
    /\ runner[t].row = "two defaults" => MediaNeeded(runner[t].kind) = "image"

\* Whatever the order in which providers, models, settings and tasks come and go.
ProvidersHonest == NoneDangling /\ BackendFits

====================================================================================
