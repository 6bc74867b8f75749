-------------------------- MODULE MCGenerationWorker --------------------------
(***************************************************************************)
(* Small instances of GenerationWorker: a project with two image resources *)
(* and a video, another one with an image, a provider that does both media *)
(* with one slot each, and one that does images only.                      *)
(***************************************************************************)
EXTENDS GenerationWorker, TLC

CONSTANTS
  cover, clip, scene, poster,  \* resources
  multi, still                 \* providers

MCMediaOf == [k \in Key |-> IF k = clip THEN "video" ELSE "image"]
MCProjectOf == [k \in Key |-> IF k = poster THEN "other" ELSE "drama"]

\* The workers differ in name only.
Interchangeable == Permutations(Worker)

Slots1(i, v) == [m \in Media |-> IF m = "image" THEN i ELSE v]

MCBuiltIn == [p \in Provider |-> IF p = still THEN Slots1(1, 0) ELSE Slots1(1, 1)]

\* The operator removes the provider that others can stand in for.
MCConfigs == { [p \in Provider |-> IF p = multi THEN Slots1(1, 1) ELSE NoPool] }

\* A crash or shutdown, with or without a removal, or an escaping exception.  As a
\* constraint it stops requests, crashes, faults and reloads, none of which is fair:
\* what is fair can always go on.
Little ==
  /\ restarts' + faults' <= 1
  /\ faults' = 1 => \A w \in Worker : limit'[w] = BuiltIn
================================================================================
