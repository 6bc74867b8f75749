------------------------------ MODULE MCBackends ------------------------------
(***************************************************************************)
(* Small instances of what is around the worker: the requests for grids,   *)
(* the calls of providers, the limiter that paces them, the stores a       *)
(* backend is found in, and the library of assets.  They share nothing     *)
(* here: one behaviour runs one of them, which part says, and leaves the   *)
(* others as they are at the start.                                        *)
(***************************************************************************)
EXTENDS RateLimiter, ProviderCalls, GridRequests, CredentialStore,
        CustomProviders, AssetLibrary

VARIABLE part

backends == << pacing, calls, gridding, crediting, provisioning, shelving, part >>

-----------------------------------------------------------------------------
(* Instances *)

\* Eleven scenes are a grid of nine and one of two, or, cut at the third, two and nine.
MCBreakSets == {{}, {3}}
MCWantedScenes == {{}, {1}}
MCOldGrids == [scenes : {{1, 2}}, status : {"completed", "failed", "splitting"}]

Model(name, endpoint) == [name |-> name, endpoint |-> endpoint, default |-> TRUE, enabled |-> TRUE]

\* With a default for each use, with one default for all pictures and a disabled one for text,
\* and with two defaults for one use.
MCLists ==
  { {Model("m", "openai-video"), Model("n", "openai-images-generations"), Model("o", "openai-images-edits")},
    {[Model("n", "openai-chat") EXCEPT !.enabled = FALSE], Model("m", "openai-images")},
    {Model("m", "openai-images"), Model("n", "openai-images-edits")} }
MCReferred == {<< 1, "n" >>}

\* One asset with a picture, and two of which one or both have one.
Asset(name, p) == [name |-> name, picture |-> p]
MCShelves ==
  { << Asset("ann", 1) >>, << Asset("ann", 1), Asset("bob", 2) >>, << Asset("ann", 0), Asset("bob", 1) >> }

-----------------------------------------------------------------------------
(* One part at a time *)

Part == {"pace", "call", "grid", "credential", "provider", "library"}

\* The parts that begin in several ways do so only in a behaviour of their own.
BackendsInit ==
  /\ part \in Part
  /\ ProvidersInit
  /\ CredentialInit /\ (part # "credential" => DOMAIN creds = {1})
  /\ PaceInit /\ (part # "pace" => rpm = 1 /\ gap = 0)
  /\ CallInit /\ (part # "call" => call.backend = GrokVideo /\ call.pictures = "there")
  /\ LibraryInit /\ (part # "library" => DOMAIN rows = {1} /\ DOMAIN entries = {})
  /\ GridInit /\ (part # "grid" => segments = {} /\ grids[1].status = "completed")

\* Requests of a kind are alike: they come in the order of their numbers.
InOrder(requests) ==
  \A r \in DOMAIN requests \ {1} : requests[r].pc # "away" => requests[r - 1].pc # "away"

BackendsNext ==
  /\ UNCHANGED part
  /\ IF part = "pace" THEN PaceNext /\ InOrder(asker') ELSE UNCHANGED pacing
  /\ IF part = "call" THEN CallNext ELSE UNCHANGED calls
  /\ IF part = "grid" THEN GridNext ELSE UNCHANGED gridding
  /\ IF part = "credential" THEN CredentialNext /\ InOrder(change') ELSE UNCHANGED crediting
  /\ IF part = "provider" THEN ProvidersNext /\ InOrder(admin') ELSE UNCHANGED provisioning
  /\ IF part = "library" THEN LibraryNext /\ InOrder(handling') ELSE UNCHANGED shelving

BackendsSpec == BackendsInit /\ [][BackendsNext]_backends
=================================================================================
