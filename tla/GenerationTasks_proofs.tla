-------------------------- MODULE GenerationTasks_proofs --------------------------
(***************************************************************************)
(* What holds of the files and documents of a project for any tasks,       *)
(* episodes, users and bounds.                                             *)
(***************************************************************************)
EXTENDS GenerationTasks, Numbers_proofs

--------------------------------------------------------------------------------
(* The files.                                                                *)

RunPc == {"idle", "prepared", "generating", "generated", "recorded", "extracted", "finalizing",
          "splitting", "entering", "done", "failed"}
Contents == {Absent} \union Nat
Run == [pc : RunPc, version : Nat, content : Contents, robbed : BOOLEAN, anew : BOOLEAN]
Version == [n : Nat, content : Contents]

FilesTyped ==
  /\ run \in [Resource -> Run]
  /\ file \in [Resource -> Contents]
  /\ versions \in [Resource -> Seq(Version)]
  /\ current \in [Resource -> Nat]
  /\ thumb \in [Film -> Contents]
  /\ made \in Nat

\* Versions are numbered from 1 on without a gap.
InSequence(r) ==
  /\ \A i \in 1 .. Len(versions[r]) : versions[r][i].n = i
  /\ current[r] \in 0 .. Len(versions[r])

\* Which tasks come to which point.
OfKind(t) ==
  /\ Is(t, "finalizing") => t[1] \in {"storyboard", "video", "sheet"}
  /\ run[t].pc \in {"recorded", "extracted"} => t \in Film
  /\ Is(t, "splitting") => t[1] = "grid"
  /\ Is(t, "entering") => t[1] # "sheet"

\* What the provider gave is in the current file until somebody else writes it, and it is in
\* the version of the run once there is one.
Mine(t) ==
  /\ run[t].pc \in {"prepared", "generating", "generated"} => run[t].version = 0
  /\ Is(t, "generated") => run[t].content \in Nat \ {0}
  /\ run[t].pc \notin {"idle", "failed", "prepared", "generating"} /\ ~run[t].robbed =>
       file[t] = run[t].content
  /\ run[t].version # 0 /\ run[t].pc \notin {"idle", "failed"} =>
       /\ run[t].version \in 1 .. Len(versions[t])
       /\ ~run[t].robbed => versions[t][run[t].version].content = run[t].content

\* Where the current file comes from.
Copied(t) ==
  \/ file[t] = Absent
  \/ file[t] \in strays \ {Older}
  \/ Is(t, "generated") /\ file[t] = run[t].content
  \/ current[t] # 0 /\ file[t] = versions[t][current[t]].content
  \/ current[t] = 0 /\ file[t] = Older

\* There is a copy of what the provider will overwrite.
Spared(t) ==
  Is(t, "generating") =>
    \/ file[t] = Absent
    \/ file[t] \in strays \ {Older}
    \/ \E i \in 1 .. Len(versions[t]) : versions[t][i].content = file[t]

Framed(t) ==
  t \in Film /\ run[t].pc \in {"entering", "done"} /\ ~run[t].robbed => thumb[t] \in {Absent, run[t].content}

FileKept(t) == InSequence(t) /\ OfKind(t) /\ Mine(t) /\ Copied(t) /\ Spared(t) /\ Framed(t)

FilesInv == FilesTyped /\ Older \in strays /\ \A t \in Resource : FileKept(t)

--------------------------------------------------------------------------------
LEMMA HistoryIs ==
  ASSUME FilesTyped, NEW r \in Resource, InSequence(r)
  PROVE  /\ Len(versions[r]) \in Nat /\ DOMAIN versions[r] = 1 .. Len(versions[r])
         /\ Numbers(r) = 1 .. Len(versions[r])
         /\ Recorded(r) = {versions[r][i].content : i \in 1 .. Len(versions[r])}
         /\ NextNumber(r) = Len(versions[r]) + 1
         /\ \A n \in 1 .. Len(versions[r]) : Content(r, n) = versions[r][n].content
<1>1. PICK h \in Seq(Version) : h = versions[r]
  BY DEF FilesTyped
<1>2. Len(h) \in Nat /\ DOMAIN h = 1 .. Len(h)
  OBVIOUS
<1>3. \A i \in 1 .. Len(h) : h[i].n = i
  BY <1>1 DEF InSequence
<1>4. Numbers(r) = 1 .. Len(h)
  BY <1>1, <1>2, <1>3 DEF Numbers, ToSet
<1>5. Recorded(r) = {h[i].content : i \in 1 .. Len(h)}
  BY <1>1, <1>2 DEF Recorded, ToSet
<1>6. NextNumber(r) = Len(h) + 1
  <2>1. PICK S : S = (1 .. Len(h)) \union {0}
    OBVIOUS
  <2>2. S = 0 .. Len(h) /\ S \in SUBSET (0 .. Len(h)) /\ S # {}
    BY <2>1, <1>2
  <2>3. Max(S) \in S /\ \A s \in S : s <= Max(S)
    BY <2>2, <1>2, MaxIsGreatest
  <2>4. Max(S) = Len(h)
    BY <2>2, <2>3, <1>2
  <2>. QED BY <2>1, <2>4, <1>4 DEF NextNumber
<1>7. ASSUME NEW n \in 1 .. Len(h) PROVE Content(r, n) = h[n].content
  <2>1. n \in DOMAIN h /\ h[n].n = n /\ \A k \in 1 .. n - 1 : h[k].n # n
    BY <1>2, <1>3
  <2>2. \A i \in DOMAIN h : h[i].n = n => i = n
    BY <1>2, <1>3
  <2>3. First(r, n) = n
    BY <2>1, <2>2, <1>1 DEF First
  <2>. QED BY <2>3, <1>1 DEF Content
<1>. QED BY <1>1, <1>2, <1>4, <1>5, <1>6, <1>7

\* A version is added to the end, and is the current one.
LEMMA VersionAdded ==
  ASSUME FilesTyped, NEW r \in Resource, InSequence(r), AddVersion(r)
  PROVE  /\ versions' \in [Resource -> Seq(Version)] /\ current' \in [Resource -> Nat]
         /\ \A x \in Resource : x # r => versions'[x] = versions[x] /\ current'[x] = current[x]
         /\ Len(versions'[r]) = Len(versions[r]) + 1 /\ current'[r] = Len(versions[r]) + 1
         /\ versions'[r][Len(versions[r]) + 1].content = file[r]
         /\ \A i \in 1 .. Len(versions[r]) : versions'[r][i] = versions[r][i]
         /\ InSequence(r)'
<1>1. PICK h \in Seq(Version) : h = versions[r]
  BY DEF FilesTyped
<1>2. Len(h) \in Nat /\ NextNumber(r) = Len(h) + 1
  BY <1>1, HistoryIs
<1>3. PICK v : v = [n |-> Len(h) + 1, content |-> file[r]]
  OBVIOUS
<1>4. v \in Version /\ v.n = Len(h) + 1 /\ v.content = file[r]
  BY <1>2, <1>3 DEF Version, FilesTyped
<1>5. PICK g : g = Append(h, v)
  OBVIOUS
<1>6. g \in Seq(Version) /\ Len(g) = Len(h) + 1 /\ g[Len(h) + 1] = v
      /\ \A i \in 1 .. Len(h) : g[i] = h[i]
  BY <1>4, <1>5
<1>7. versions' = [versions EXCEPT ![r] = g] /\ current' = [current EXCEPT ![r] = Len(h) + 1]
  BY <1>1, <1>2, <1>3, <1>5 DEF AddVersion, Pointed
<1>8. versions'[r] = g /\ current'[r] = Len(h) + 1
  BY <1>7 DEF FilesTyped
<1>9. versions' \in [Resource -> Seq(Version)] /\ current' \in [Resource -> Nat]
      /\ \A x \in Resource : x # r => versions'[x] = versions[x] /\ current'[x] = current[x]
  BY <1>2, <1>6, <1>7 DEF FilesTyped
<1>10. InSequence(r)'
  <2>1. \A i \in 1 .. Len(h) + 1 : g[i].n = i
    <3>1. \A i \in 1 .. Len(h) : g[i].n = i
      BY <1>1, <1>6 DEF InSequence
    <3>. QED BY <3>1, <1>2, <1>4, <1>6
  <2>. QED BY <2>1, <1>2, <1>6, <1>8 DEF InSequence
<1>. QED BY <1>1, <1>4, <1>6, <1>8, <1>9, <1>10

\* Nobody writes the file, and the run is where it was; it may be robbed all the same.
LEMMA FileStays ==
  ASSUME NEW t \in Resource, FileKept(t),
         run'[t].pc = run[t].pc, run'[t].version = run[t].version, run'[t].content = run[t].content,
         run[t].robbed => run'[t].robbed, run[t].robbed \in BOOLEAN, run'[t].robbed \in BOOLEAN,
         file'[t] = file[t], versions'[t] = versions[t], current'[t] = current[t],
         strays \subseteq strays', t \in Film => thumb'[t] \in {Absent, thumb[t]}
  PROVE  FileKept(t)'
<1>1. InSequence(t)' /\ OfKind(t)'
  BY DEF FileKept, InSequence, OfKind, Is
<1>2. Mine(t)'
  BY DEF FileKept, Mine, Is
<1>3. Copied(t)'
  BY DEF FileKept, Copied, Is, Older
<1>4. Spared(t)'
  BY DEF FileKept, Spared, Is, Older
<1>5. Framed(t)'
  BY DEF FileKept, Framed
<1>. QED BY <1>1, <1>2, <1>3, <1>4, <1>5 DEF FileKept

\* Somebody else writes the file: something of its own, or an old version.
LEMMA FileTaken ==
  ASSUME FilesTyped, NEW t \in Resource, FileKept(t),
         run'[t].pc = run[t].pc, run'[t].version = run[t].version, run'[t].content = run[t].content,
         run'[t].robbed, versions'[t] = versions[t], strays \subseteq strays',
         \/ file'[t] \in strays' \ {Older} /\ current'[t] = current[t]
         \/ current'[t] \in 1 .. Len(versions[t]) /\ file'[t] = versions[t][current'[t]].content
  PROVE  FileKept(t)'
<1>0. Len(versions[t]) \in Nat
  BY HistoryIs DEF FileKept
<1>1. InSequence(t)' /\ OfKind(t)'
  BY <1>0 DEF FileKept, InSequence, OfKind, Is
<1>2. Mine(t)'
  BY DEF FileKept, Mine, Is
<1>3. Copied(t)'
  BY <1>0 DEF FileKept, Copied, Is, Older
<1>4. Spared(t)'
  BY DEF FileKept, Spared, Is, Older
<1>5. Framed(t)'
  BY DEF FileKept, Framed
<1>. QED BY <1>1, <1>2, <1>3, <1>4, <1>5 DEF FileKept

LEMMA InitFiles == Init => FilesInv
<1>. SUFFICES ASSUME Init PROVE FilesInv
  OBVIOUS
<1>1. PICK content \in {Absent, Older} : file = [r \in Resource |-> content]
  BY DEF Init, HistoryInit
<1>2. /\ versions = [r \in Resource |-> << >>] /\ current = [r \in Resource |-> 0]
      /\ run = [t \in Resource |-> Waiting] /\ thumb = [t \in Film |-> Absent]
      /\ made = 0 /\ strays = {Older}
  BY DEF Init, HistoryInit
<1>3. << >> \in Seq(Version) /\ Len(<< >>) = 0
  OBVIOUS
<1>4. Waiting \in Run /\ Waiting.pc = "idle" /\ Waiting.version = 0
  BY DEF Waiting, Run, RunPc, Contents
<1>5. FilesTyped
  BY <1>1, <1>2, <1>3, <1>4 DEF FilesTyped, Contents, Older
<1>6. ASSUME NEW t \in Resource PROVE FileKept(t)
  <2>1. run[t].pc = "idle" /\ run[t].version = 0 /\ versions[t] = << >> /\ current[t] = 0 /\ file[t] \in {Absent, Older}
    BY <1>1, <1>2, <1>4
  <2>2. InSequence(t)
    BY <2>1, <1>3 DEF InSequence
  <2>. QED BY <2>1, <2>2 DEF FileKept, OfKind, Mine, Copied, Spared, Framed, Is
<1>. QED BY <1>2, <1>5, <1>6 DEF FilesInv

\* The run of t goes on by itself: nothing else changes but its place and its thumbnail.
LEMMA RunGoes ==
  ASSUME FilesTyped, NEW t \in Resource, FileKept(t), NEW pc \in RunPc \ {"prepared", "generated", "generating"},
         run'[t].pc = pc, run'[t].version = run[t].version, run'[t].content = run[t].content,
         run'[t].robbed = run[t].robbed,
         file'[t] = file[t], versions'[t] = versions[t], current'[t] = current[t],
         strays \subseteq strays',
         pc \in {"idle", "failed"} \/ run[t].pc \notin {"idle", "failed", "prepared", "generating", "generated"},
         Is(t, "generated") => run[t].content \in strays',
         OfKind(t)', Framed(t)'
  PROVE  FileKept(t)'
<1>1. InSequence(t)'
  BY DEF FileKept, InSequence
<1>2. Mine(t)'
  BY DEF FileKept, Mine, Is
<1>3. Copied(t)'
  BY DEF FileKept, Copied, Is, Older, Mine
<1>4. Spared(t)'
  BY DEF FileKept, Spared, Is
<1>. QED BY <1>1, <1>2, <1>3, <1>4 DEF FileKept

LEMMA PrepareStep ==
  ASSUME FilesInv, NEW t \in Resource, Prepare(t)
  PROVE  FilesInv'
<1>t. FilesTyped /\ Older \in strays /\ \A x \in Resource : FileKept(x)
  BY DEF FilesInv
<1>1. PICK pc \in {"failed", "prepared"} : run' = [run EXCEPT ![t] = [Waiting EXCEPT !.pc = pc]]
  BY DEF Prepare
<1>2. PICK w : w = [Waiting EXCEPT !.pc = pc]
  OBVIOUS
<1>3. w \in Run /\ w.pc = pc /\ w.version = 0
  BY <1>2 DEF Waiting, Run, RunPc, Contents
<1>4. run' \in [Resource -> Run] /\ run'[t] = w /\ \A x \in Resource : x # t => run'[x] = run[x]
  BY <1>1, <1>2, <1>3, <1>t DEF FilesTyped
<1>5. UNCHANGED file /\ UNCHANGED versions /\ UNCHANGED current /\ UNCHANGED thumb /\ UNCHANGED made /\ UNCHANGED strays
  BY DEF Prepare, history
<1>6. FilesTyped'
  BY <1>4, <1>5, <1>t DEF FilesTyped
<1>7. ASSUME NEW x \in Resource, x # t PROVE FileKept(x)'
  <2>1. run'[x] = run[x] /\ run[x].robbed \in BOOLEAN
    BY <1>4, <1>7, <1>t DEF FilesTyped, Run
  <2>. QED BY <2>1, <1>5, <1>t, FileStays
<1>8. FileKept(t)'
  <2>0. FileKept(t) /\ Settled(t)
    BY <1>t DEF Prepare
  <2>1. InSequence(t)' /\ OfKind(t)' /\ Mine(t)' /\ Spared(t)' /\ Framed(t)'
    BY <2>0, <1>3, <1>4, <1>5 DEF FileKept, InSequence, OfKind, Mine, Spared, Framed, Is
  <2>2. Copied(t)'
    BY <2>0, <1>3, <1>4, <1>5 DEF FileKept, Copied, Is, Settled
  <2>. QED BY <2>1, <2>2 DEF FileKept
<1>. QED BY <1>5, <1>6, <1>7, <1>8, <1>t DEF FilesInv

\* A step that only moves the run of t, and what its thumbnail shows.
LEMMA RunStep ==
  ASSUME FilesInv, NEW t \in Resource, NEW w \in Run, run' = [run EXCEPT ![t] = w],
         UNCHANGED file, UNCHANGED versions, UNCHANGED current, UNCHANGED made,
         strays \subseteq strays', thumb' \in [Film -> Contents],
         \A x \in Film : x # t => thumb'[x] = thumb[x],
         w.version = run[t].version, w.content = run[t].content, w.robbed = run[t].robbed,
         w.pc \notin {"prepared", "generated", "generating"},
         Is(t, "generated") => run[t].content \in strays',
         w.pc \in {"idle", "failed"} \/ run[t].pc \notin {"idle", "failed", "prepared", "generating", "generated"},
         OfKind(t)', Framed(t)'
  PROVE  FilesInv'
<1>t. FilesTyped /\ Older \in strays /\ \A x \in Resource : FileKept(x)
  BY DEF FilesInv
<1>4. run' \in [Resource -> Run] /\ run'[t] = w /\ \A x \in Resource : x # t => run'[x] = run[x]
  BY <1>t DEF FilesTyped
<1>6. FilesTyped'
  BY <1>4, <1>t DEF FilesTyped
<1>7. ASSUME NEW x \in Resource, x # t PROVE FileKept(x)'
  <2>1. run'[x] = run[x] /\ run[x].robbed \in BOOLEAN
    BY <1>4, <1>7, <1>t DEF FilesTyped, Run
  <2>2. x \in Film => thumb'[x] \in {Absent, thumb[x]}
    BY <1>7
  <2>. QED BY <2>1, <2>2, <1>t, FileStays
<1>8. FileKept(t)'
  <2>1. FileKept(t) /\ w.pc \in RunPc \ {"prepared", "generated", "generating"}
    BY <1>t DEF Run
  <2>. QED BY <2>1, <1>4, <1>t, RunGoes
<1>. QED BY <1>6, <1>7, <1>8, <1>t DEF FilesInv

\* The record of a run that is somewhere else.
LEMMA RunAt ==
  ASSUME FilesTyped, NEW t \in Resource, NEW pc \in RunPc
  PROVE  \E w \in Run : /\ w = [run[t] EXCEPT !.pc = pc] /\ w.pc = pc /\ w.version = run[t].version
                        /\ w.content = run[t].content /\ w.robbed = run[t].robbed
                        /\ [run EXCEPT ![t].pc = pc] = [run EXCEPT ![t] = w]
<1>1. run[t] \in Run
  BY DEF FilesTyped
<1>2. PICK w : w = [run[t] EXCEPT !.pc = pc]
  OBVIOUS
<1>3. w \in Run /\ w.pc = pc /\ w.version = run[t].version /\ w.content = run[t].content /\ w.robbed = run[t].robbed
  BY <1>1, <1>2 DEF Run
<1>4. [run EXCEPT ![t].pc = pc] = [run EXCEPT ![t] = w]
  BY <1>2 DEF FilesTyped
<1>. QED BY <1>2, <1>3, <1>4

LEMMA StepsOn ==
  ASSUME FilesInv, NEW t \in Resource,
         Fails(t) \/ Finalized(t) \/ Entered(t) \/ (t \in Film /\ (WriteThumbnail(t) \/ DropThumbnail(t)))
  PROVE  FilesInv'
<1>t. FilesTyped /\ Older \in strays /\ FileKept(t)
  BY DEF FilesInv
<1>o. OfKind(t) /\ Mine(t) /\ Framed(t)
  BY <1>t DEF FileKept
<1>s. \A pc \in RunPc : Step(t, pc) <=> run' = [run EXCEPT ![t].pc = pc]
  BY DEF Step
<1>p. {"failed", "recorded", "done", "entering"} \subseteq RunPc
  BY DEF RunPc
<1>k. t \in Resource /\ (t \in Film => t[1] \in {"video", "unit"})
  BY DEF Film, Of
<1>1. CASE Fails(t)
  <2>1. UNCHANGED file /\ UNCHANGED versions /\ UNCHANGED current /\ UNCHANGED made /\ UNCHANGED thumb
        /\ run' = [run EXCEPT ![t].pc = "failed"]
    BY <1>1 DEF Fails, history, Step
  <2>2. strays \subseteq strays' /\ (Is(t, "generated") => run[t].content \in strays')
    BY <1>1 DEF Fails
  <2>f. PICK pc \in RunPc : pc = "failed"
    BY <1>p
  <2>0. PICK w \in Run : /\ w = [run[t] EXCEPT !.pc = pc] /\ w.pc = pc /\ w.version = run[t].version
                         /\ w.content = run[t].content /\ w.robbed = run[t].robbed
                         /\ [run EXCEPT ![t].pc = pc] = [run EXCEPT ![t] = w]
    BY ZenonT(50), <1>t, RunAt
  <2>3. /\ w.pc = "failed" /\ w.version = run[t].version /\ w.content = run[t].content /\ w.robbed = run[t].robbed
        /\ [run EXCEPT ![t].pc = "failed"] = [run EXCEPT ![t] = w]
    BY <2>f, <2>0
  <2>4. run'[t] = w
    BY <2>1, <2>3, <1>t DEF FilesTyped
  <2>5. OfKind(t)' /\ Framed(t)'
    BY <2>3, <2>4 DEF OfKind, Framed, Is
  <2>6. thumb' \in [Film -> Contents] /\ \A x \in Film : x # t => thumb'[x] = thumb[x]
    BY <2>1, <1>t DEF FilesTyped
  <2>. QED BY <2>1, <2>2, <2>3, <2>5, <2>6, RunStep
<1>2. CASE Finalized(t) \/ Entered(t)
  <2>1. UNCHANGED file /\ UNCHANGED versions /\ UNCHANGED current /\ UNCHANGED made /\ UNCHANGED thumb
        /\ UNCHANGED strays
    BY <1>2 DEF Finalized, Entered, history
  <2>2. PICK pc \in {"failed", "recorded", "done"} :
          /\ run' = [run EXCEPT ![t].pc = pc]
          /\ pc = "recorded" => Is(t, "finalizing") /\ t[1] = "video"
          /\ pc = "done" => Is(t, "entering") \/ (Is(t, "finalizing") /\ t[1] # "video")
          /\ Is(t, "finalizing") \/ Is(t, "entering")
    BY <1>2 DEF Finalized, Entered, Step
  <2>r. pc \in RunPc
    BY <1>p
  <2>3. PICK w \in Run : /\ w = [run[t] EXCEPT !.pc = pc] /\ w.pc = pc /\ w.version = run[t].version
                         /\ w.content = run[t].content /\ w.robbed = run[t].robbed
                         /\ [run EXCEPT ![t].pc = pc] = [run EXCEPT ![t] = w]
    BY ZenonT(50), <1>t, <2>r, RunAt
  <2>4. run'[t] = w
    BY <2>2, <2>3, <1>t DEF FilesTyped
  <2>5. OfKind(t)'
    BY <2>2, <2>3, <2>4, <1>o DEF OfKind, Is, Film, Of
  <2>6. Framed(t)'
    <3>. SUFFICES ASSUME t \in Film, w.pc = "done", ~w.robbed PROVE thumb[t] \in {Absent, w.content}
      BY <2>1, <2>2, <2>3, <2>4 DEF Framed
    <3>1. Is(t, "entering")
      BY <2>2, <2>3, <1>k, <1>o DEF OfKind
    <3>. QED BY <3>1, <2>3, <1>o DEF Framed, Is
  <2>7. thumb' \in [Film -> Contents] /\ \A x \in Film : x # t => thumb'[x] = thumb[x]
    BY <2>1, <1>t DEF FilesTyped
  <2>8. ~Is(t, "generated") /\ run[t].pc \notin {"idle", "failed", "prepared", "generating", "generated"}
    BY <2>2 DEF Is
  <2>. QED BY <2>1, <2>2, <2>3, <2>5, <2>6, <2>7, <2>8, RunStep
<1>3. CASE t \in Film /\ (WriteThumbnail(t) \/ DropThumbnail(t))
  <2>1. UNCHANGED file /\ UNCHANGED versions /\ UNCHANGED current /\ UNCHANGED made
        /\ UNCHANGED strays /\ Is(t, "extracted")
    BY <1>3 DEF WriteThumbnail, DropThumbnail, history
  <2>2. PICK pc \in {"entering", "done"} : run' = [run EXCEPT ![t].pc = pc]
    BY <1>3 DEF WriteThumbnail, DropThumbnail, Step
  <2>r. pc \in RunPc
    BY <1>p
  <2>3. PICK w \in Run : /\ w = [run[t] EXCEPT !.pc = pc] /\ w.pc = pc /\ w.version = run[t].version
                         /\ w.content = run[t].content /\ w.robbed = run[t].robbed
                         /\ [run EXCEPT ![t].pc = pc] = [run EXCEPT ![t] = w]
    BY ZenonT(50), <1>t, <2>r, RunAt
  <2>4. run'[t] = w
    BY <2>2, <2>3, <1>t DEF FilesTyped
  <2>5. PICK c \in {Absent, run[t].content} : thumb' = [thumb EXCEPT ![t] = c]
    BY <1>3 DEF WriteThumbnail, DropThumbnail, NoThumbnail
  <2>6. thumb' \in [Film -> Contents] /\ \A x \in Film : x # t => thumb'[x] = thumb[x]
    BY <2>5, <1>t DEF FilesTyped, Run, Contents
  <2>7. Framed(t)'
    BY <2>3, <2>4, <2>5, <1>t, <1>3 DEF Framed, FilesTyped
  <2>8. OfKind(t)'
    BY <2>3, <2>4, <1>3, <1>k DEF OfKind, Is
  <2>9. ~Is(t, "generated") /\ run[t].pc \notin {"idle", "failed", "prepared", "generating", "generated"}
    BY <2>1 DEF Is
  <2>. QED BY <2>1, <2>2, <2>3, <2>6, <2>7, <2>8, <2>9, RunStep
<1>. QED BY <1>1, <1>2, <1>3

\* The other files and runs are as they were.
LEMMA OthersStay ==
  ASSUME FilesInv, NEW t \in Resource,
         \A x \in Resource : x # t => /\ run'[x] = run[x] /\ file'[x] = file[x]
                                      /\ versions'[x] = versions[x] /\ current'[x] = current[x],
         strays \subseteq strays', UNCHANGED thumb
  PROVE  \A x \in Resource : x # t => FileKept(x)'
<1>. SUFFICES ASSUME NEW x \in Resource, x # t PROVE FileKept(x)'
  OBVIOUS
<1>1. FileKept(x) /\ run[x].robbed \in BOOLEAN
  BY DEF FilesInv, FilesTyped, Run
<1>. QED BY <1>1, FileStays

LEMMA TrackStep ==
  ASSUME FilesInv, NEW t \in Resource, Track(t)
  PROVE  FilesInv'
<1>t. FilesTyped /\ Older \in strays /\ FileKept(t)
  BY DEF FilesInv
<1>h. InSequence(t) /\ Copied(t) /\ Mine(t)
  BY <1>t DEF FileKept
<1>1. /\ UNCHANGED file /\ UNCHANGED made /\ UNCHANGED thumb /\ UNCHANGED strays /\ Is(t, "prepared")
      /\ run' = [run EXCEPT ![t].pc = "generating"] /\ EnsureCurrentTracked(t)
  BY DEF Track, Step
<1>2. "generating" \in RunPc
  BY DEF RunPc
<1>3. PICK w \in Run : /\ w = [run[t] EXCEPT !.pc = "generating"] /\ w.pc = "generating" /\ w.version = run[t].version
                       /\ w.content = run[t].content /\ w.robbed = run[t].robbed
                       /\ [run EXCEPT ![t].pc = "generating"] = [run EXCEPT ![t] = w]
  BY ZenonT(50), <1>2, <1>t, RunAt
<1>4. run' \in [Resource -> Run] /\ run'[t] = w /\ \A x \in Resource : x # t => run'[x] = run[x]
  BY <1>1, <1>3, <1>t DEF FilesTyped
<1>l. Len(versions[t]) \in Nat
  BY <1>t, <1>h, HistoryIs
<1>5. /\ versions' \in [Resource -> Seq(Version)] /\ current' \in [Resource -> Nat]
      /\ \A x \in Resource : x # t => versions'[x] = versions[x] /\ current'[x] = current[x]
      /\ InSequence(t)' /\ Copied(t)' /\ Spared(t)'
  <2>1. CASE file[t] # Absent /\ current[t] = 0
    <3>1. AddVersion(t)
      BY <2>1, <1>1 DEF EnsureCurrentTracked
    <3>2. /\ versions' \in [Resource -> Seq(Version)] /\ current' \in [Resource -> Nat]
          /\ \A x \in Resource : x # t => versions'[x] = versions[x] /\ current'[x] = current[x]
          /\ Len(versions'[t]) = Len(versions[t]) + 1 /\ current'[t] = Len(versions[t]) + 1
          /\ versions'[t][Len(versions[t]) + 1].content = file[t]
          /\ InSequence(t)'
      BY <3>1, <1>t, <1>h, VersionAdded
    <3>3. Copied(t)'
      BY <3>2, <1>1, <1>l DEF Copied
    <3>4. Len(versions[t]) + 1 \in 1 .. Len(versions'[t])
      BY <3>2, <1>l
    <3>5. Spared(t)'
      BY <3>2, <3>4, <1>1 DEF Spared
    <3>. QED BY <3>2, <3>3, <3>5
  <2>2. CASE ~ (file[t] # Absent /\ current[t] = 0)
    <3>1. UNCHANGED versions /\ UNCHANGED current
      BY <2>2, <1>1 DEF EnsureCurrentTracked
    <3>2. InSequence(t)' /\ Copied(t)'
      BY <3>1, <1>1, <1>h, <2>2 DEF InSequence, Copied, Is
    <3>3. Spared(t)'
      BY <3>1, <1>1, <1>h, <1>l, <2>2 DEF InSequence, Copied, Is, Spared
    <3>. QED BY <3>1, <3>2, <3>3, <1>t DEF FilesTyped
  <2>. QED BY <2>1, <2>2
<1>6. FilesTyped'
  BY <1>1, <1>4, <1>5, <1>t DEF FilesTyped
<1>7. OfKind(t)' /\ Mine(t)' /\ Framed(t)'
  BY <1>1, <1>3, <1>4, <1>h DEF OfKind, Mine, Framed, Is
<1>8. \A x \in Resource : x # t => FileKept(x)'
  BY <1>1, <1>4, <1>5, OthersStay
<1>. QED BY <1>1, <1>5, <1>6, <1>7, <1>8, <1>t DEF FilesInv, FileKept

LEMMA GenerateStep ==
  ASSUME FilesInv, NEW t \in Resource, Generate(t)
  PROVE  FilesInv'
<1>t. FilesTyped /\ Older \in strays /\ FileKept(t) /\ made \in Nat
  BY DEF FilesInv, FilesTyped
<1>h. InSequence(t) /\ Mine(t)
  BY <1>t DEF FileKept
<1>1. /\ UNCHANGED versions /\ UNCHANGED current /\ UNCHANGED thumb /\ UNCHANGED strays /\ Is(t, "generating")
      /\ made' = made + 1 /\ file' = [file EXCEPT ![t] = made + 1]
  BY DEF Generate
<1>c. PICK c \in Nat : c = made + 1
  BY <1>t
<1>2. PICK w : w = [run[t] EXCEPT !.pc = "generated", !.content = c, !.robbed = FALSE]
  OBVIOUS
<1>3. run[t] \in Run /\ c \in Contents
  BY <1>t DEF FilesTyped, Contents
<1>p. "generated" \in RunPc
  BY DEF RunPc
<1>4. w \in Run /\ w.pc = "generated" /\ w.content = made + 1 /\ ~w.robbed /\ w.version = run[t].version
  <2>1. w \in Run /\ w.pc = "generated" /\ w.content = c /\ w.robbed = FALSE /\ w.version = run[t].version
    BY <1>2, <1>3, <1>p DEF Run
  <2>. QED BY <2>1, <1>c
<1>5. run' = [run EXCEPT ![t] = w]
  BY <1>2, <1>c DEF Generate
<1>6. run' \in [Resource -> Run] /\ run'[t] = w /\ \A x \in Resource : x # t => run'[x] = run[x]
  BY <1>4, <1>5, <1>t DEF FilesTyped
<1>7. FilesTyped' /\ file'[t] = made + 1 /\ \A x \in Resource : x # t => file'[x] = file[x]
  BY <1>1, <1>6, <1>t DEF FilesTyped, Contents
<1>8. InSequence(t)' /\ OfKind(t)' /\ Copied(t)' /\ Spared(t)' /\ Framed(t)'
  BY <1>1, <1>4, <1>6, <1>7, <1>h DEF InSequence, OfKind, Copied, Spared, Framed, Is
<1>9. Mine(t)'
  BY <1>1, <1>4, <1>6, <1>7, <1>h, <1>t DEF Mine, Is
<1>10. \A x \in Resource : x # t => FileKept(x)'
  BY <1>1, <1>6, <1>7, OthersStay
<1>. QED BY <1>1, <1>7, <1>8, <1>9, <1>10, <1>t DEF FilesInv, FileKept

LEMMA RecordStep ==
  ASSUME FilesInv, NEW t \in Resource, Record(t)
  PROVE  FilesInv'
<1>t. FilesTyped /\ Older \in strays /\ FileKept(t)
  BY DEF FilesInv
<1>h. InSequence(t) /\ Mine(t)
  BY <1>t DEF FileKept
<1>1. /\ UNCHANGED file /\ UNCHANGED made /\ UNCHANGED thumb /\ UNCHANGED strays /\ Is(t, "generated")
      /\ AddVersion(t)
  BY DEF Record
<1>l. Len(versions[t]) \in Nat /\ NextNumber(t) = Len(versions[t]) + 1
  BY <1>t, <1>h, HistoryIs
<1>2. PICK pc : pc = CASE t[1] \in {"storyboard", "video", "sheet"} -> "finalizing"
                       [] t[1] = "unit" -> "recorded"
                       [] t[1] = "grid" -> "splitting"
  OBVIOUS
<1>3. /\ \/ t[1] \in {"storyboard", "video", "sheet"} /\ pc = "finalizing"
         \/ t[1] = "unit" /\ pc = "recorded"
         \/ t[1] = "grid" /\ pc = "splitting"
      /\ pc \in RunPc
  BY <1>2, TasksAssumption DEF RunPc
<1>n. PICK n \in Nat : n = NextNumber(t)
  BY <1>l
<1>4. PICK w : w = [run[t] EXCEPT !.version = n, !.pc = pc]
  OBVIOUS
<1>5. run[t] \in Run
  BY <1>t DEF FilesTyped
<1>6. w \in Run /\ w.pc = pc /\ w.content = run[t].content /\ w.robbed = run[t].robbed
      /\ w.version = Len(versions[t]) + 1
  <2>1. w \in Run /\ w.pc = pc /\ w.content = run[t].content /\ w.robbed = run[t].robbed /\ w.version = n
    BY <1>3, <1>4, <1>5 DEF Run
  <2>. QED BY <2>1, <1>n, <1>l
<1>7. run' = [run EXCEPT ![t] = w]
  <2>1. run' = [run EXCEPT ![t].version = n, ![t].pc = pc]
    BY <1>2, <1>n DEF Record
  <2>. QED BY <2>1, <1>4
<1>8. run' \in [Resource -> Run] /\ run'[t] = w /\ \A x \in Resource : x # t => run'[x] = run[x]
  BY <1>6, <1>7, <1>t DEF FilesTyped
<1>9. /\ versions' \in [Resource -> Seq(Version)] /\ current' \in [Resource -> Nat]
      /\ \A x \in Resource : x # t => versions'[x] = versions[x] /\ current'[x] = current[x]
      /\ Len(versions'[t]) = Len(versions[t]) + 1 /\ current'[t] = Len(versions[t]) + 1
      /\ versions'[t][Len(versions[t]) + 1].content = file[t]
      /\ InSequence(t)'
  BY <1>1, <1>t, <1>h, VersionAdded
<1>10. FilesTyped'
  BY <1>1, <1>8, <1>9, <1>t DEF FilesTyped
<1>11. OfKind(t)' /\ Spared(t)' /\ Framed(t)'
  BY <1>3, <1>6, <1>8 DEF OfKind, Spared, Framed, Is, Film, Of
<1>12. Copied(t)'
  BY <1>1, <1>9, <1>l DEF Copied
<1>13. Mine(t)'
  BY <1>1, <1>3, <1>6, <1>8, <1>9, <1>l, <1>h DEF Mine, Is
<1>14. \A x \in Resource : x # t => FileKept(x)'
  BY <1>1, <1>8, <1>9, OthersStay
<1>. QED BY <1>1, <1>9, <1>10, <1>11, <1>12, <1>13, <1>14, <1>t DEF FilesInv, FileKept

LEMMA ReadFilmStep ==
  ASSUME FilesInv, NEW t \in Film, ReadFilm(t)
  PROVE  FilesInv'
<1>k. t \in Resource
  BY DEF Film, Of
<1>t. FilesTyped /\ Older \in strays /\ FileKept(t)
  BY <1>k DEF FilesInv
<1>h. InSequence(t) /\ Mine(t) /\ Copied(t)
  BY <1>t DEF FileKept
<1>1. /\ UNCHANGED file /\ UNCHANGED made /\ UNCHANGED thumb /\ UNCHANGED strays /\ Is(t, "recorded")
      /\ UNCHANGED versions /\ UNCHANGED current
  BY DEF ReadFilm, history
<1>2. PICK w : w = [run[t] EXCEPT !.pc = "extracted", !.content = file[t]]
  OBVIOUS
<1>3. run[t] \in Run /\ file[t] \in Contents
  BY <1>t, <1>k DEF FilesTyped
<1>4. w \in Run /\ w.pc = "extracted" /\ w.content = file[t] /\ w.robbed = run[t].robbed /\ w.version = run[t].version
  BY <1>2, <1>3, <1>t DEF Run, RunPc, Contents
<1>5. run' = [run EXCEPT ![t] = w]
  BY <1>2 DEF ReadFilm
<1>6. run' \in [Resource -> Run] /\ run'[t] = w /\ \A x \in Resource : x # t => run'[x] = run[x]
  BY <1>4, <1>5, <1>k, <1>t DEF FilesTyped
<1>7. FilesTyped'
  BY <1>1, <1>6, <1>t DEF FilesTyped
<1>8. InSequence(t)' /\ OfKind(t)' /\ Copied(t)' /\ Spared(t)' /\ Framed(t)'
  BY <1>1, <1>4, <1>6, <1>h DEF InSequence, OfKind, Copied, Spared, Framed, Is
<1>9. Mine(t)'
  BY <1>1, <1>4, <1>6, <1>h, <1>t DEF Mine, Is
<1>10. \A x \in Resource : x # t => FileKept(x)'
  BY <1>1, <1>6, <1>k, OthersStay
<1>. QED BY <1>1, <1>7, <1>8, <1>9, <1>10, <1>k, <1>t DEF FilesInv, FileKept

LEMMA SplitStep ==
  ASSUME FilesInv, NEW t \in Resource, Split(t)
  PROVE  FilesInv'
<1>t. FilesTyped /\ Older \in strays /\ made \in Nat /\ \A x \in Resource : FileKept(x)
  BY DEF FilesInv, FilesTyped
<1>1. /\ UNCHANGED versions /\ UNCHANGED current /\ UNCHANGED thumb /\ Is(t, "splitting")
      /\ made' = made + 1 /\ strays' = strays \union {made + 1}
      /\ file' = [r \in Resource |-> IF r \in Cells(t) THEN made + 1 ELSE file[r]]
  BY DEF Split
<1>2. t \notin Cells(t) /\ t[1] = "grid" /\ Cells(t) \subseteq Resource
  BY <1>1, <1>t DEF FileKept, OfKind, Cells, Of
<1>3. PICK w : w = [run[t] EXCEPT !.pc = "entering"]
  OBVIOUS
<1>4. run' = [r \in Resource |-> IF r = t THEN w
                                 ELSE IF r \in Cells(t) THEN [run[r] EXCEPT !.robbed = TRUE]
                                 ELSE run[r]]
  BY <1>3 DEF Split
<1>5. \A r \in Resource : run[r] \in Run
  BY <1>t DEF FilesTyped
<1>6. w \in Run /\ w.pc = "entering" /\ w.content = run[t].content /\ w.robbed = run[t].robbed
      /\ w.version = run[t].version
  BY <1>3, <1>5 DEF Run, RunPc
<1>7. ASSUME NEW x \in Cells(t)
      PROVE  /\ run'[x] \in Run /\ run'[x].pc = run[x].pc /\ run'[x].version = run[x].version
             /\ run'[x].content = run[x].content /\ run'[x].robbed = TRUE
  <2>1. PICK v : v = [run[x] EXCEPT !.robbed = TRUE]
    OBVIOUS
  <2>2. run[x] \in Run /\ run'[x] = v
    BY <2>1, <1>2, <1>4, <1>5
  <2>. QED BY <2>1, <2>2 DEF Run
<1>8. run'[t] = w /\ \A x \in Resource : x # t /\ x \notin Cells(t) => run'[x] = run[x]
  BY <1>4
<1>9. run' \in [Resource -> Run]
  <2>1. \A x \in Resource : run'[x] \in Run
    BY <1>5, <1>6, <1>7, <1>8
  <2>. QED BY <2>1, <1>4
<1>10. FilesTyped'
  BY <1>1, <1>9, <1>t DEF FilesTyped, Contents
<1>11. ASSUME NEW x \in Resource PROVE FileKept(x)'
  <2>1. CASE x \in Cells(t)
    <3>1. file'[x] \in strays' \ {Older} /\ current'[x] = current[x]
      BY <2>1, <1>1, <1>t DEF Older
    <3>2. versions'[x] = versions[x] /\ strays \subseteq strays'
      BY <1>1
    <3>. QED BY <2>1, <3>1, <3>2, <1>7, <1>t, FileTaken
  <2>2. CASE x = t
    <3>1. FileKept(t) /\ file'[t] = file[t] /\ versions'[t] = versions[t] /\ current'[t] = current[t]
          /\ strays \subseteq strays'
      BY <1>1, <1>2, <1>t
    <3>2. OfKind(t)' /\ Framed(t)'
      BY <1>2, <1>6, <1>8 DEF OfKind, Framed, Is, Film, Of
    <3>3. w.pc \in RunPc \ {"prepared", "generated", "generating"} /\ ~Is(t, "generated")
          /\ run[t].pc \notin {"idle", "failed", "prepared", "generating", "generated"}
      BY <1>1, <1>6 DEF Is, RunPc
    <3>. QED BY <2>2, <3>1, <3>2, <3>3, <1>6, <1>8, <1>t, RunGoes
  <2>3. CASE x # t /\ x \notin Cells(t)
    <3>1. /\ run'[x] = run[x] /\ run[x].robbed \in BOOLEAN /\ file'[x] = file[x] /\ versions'[x] = versions[x]
          /\ current'[x] = current[x] /\ strays \subseteq strays'
      BY <2>3, <1>1, <1>5, <1>8 DEF Run
    <3>2. x \in Film => thumb'[x] \in {Absent, thumb[x]}
      BY <1>1
    <3>. QED BY <3>1, <3>2, <1>t, FileStays
  <2>. QED BY <2>1, <2>2, <2>3
<1>. QED BY <1>1, <1>10, <1>11, <1>t DEF FilesInv

LEMMA CrashStep ==
  ASSUME FilesInv, Crash
  PROVE  FilesInv'
<1>t. FilesTyped /\ Older \in strays /\ \A x \in Resource : FileKept(x)
  BY DEF FilesInv
<1>1. /\ UNCHANGED file /\ UNCHANGED versions /\ UNCHANGED current /\ UNCHANGED made /\ UNCHANGED thumb
      /\ run' = [t \in Resource |-> IF Settled(t) THEN run[t] ELSE Waiting]
  BY DEF Crash, history
<1>2. strays' = strays \union {run[t].content : t \in {x \in Resource : Is(x, "generated")}}
  BY DEF Crash
<1>3. Waiting \in Run /\ Waiting.pc = "idle" /\ Waiting.version = 0
  BY DEF Waiting, Run, RunPc, Contents
<1>4. FilesTyped'
  <2>1. run' \in [Resource -> Run]
    BY <1>1, <1>3, <1>t DEF FilesTyped
  <2>. QED BY <2>1, <1>1, <1>t DEF FilesTyped
<1>5. strays \subseteq strays' /\ \A t \in Resource : Is(t, "generated") => run[t].content \in strays'
  BY <1>2
<1>6. ASSUME NEW t \in Resource PROVE FileKept(t)'
  <2>1. CASE Settled(t)
    <3>1. run'[t] = run[t] /\ run[t].robbed \in BOOLEAN
      BY <2>1, <1>1, <1>t DEF FilesTyped, Run
    <3>2. t \in Film => thumb'[t] \in {Absent, thumb[t]}
      BY <1>1
    <3>. QED BY <3>1, <3>2, <1>1, <1>5, <1>t, FileStays
  <2>2. CASE ~Settled(t)
    <3>1. run'[t] = Waiting
      BY <2>2, <1>1
    <3>2. FileKept(t)
      BY <1>t
    <3>3. InSequence(t)' /\ OfKind(t)' /\ Mine(t)' /\ Spared(t)' /\ Framed(t)'
      BY <3>1, <3>2, <1>1, <1>3 DEF FileKept, InSequence, OfKind, Mine, Spared, Framed, Is
    <3>4. Copied(t)'
      BY <3>1, <3>2, <1>1, <1>3, <1>5 DEF FileKept, Copied, Mine, Is, Older
    <3>. QED BY <3>3, <3>4 DEF FileKept
  <2>. QED BY <2>1, <2>2
<1>. QED BY <1>4, <1>5, <1>6, <1>t DEF FilesInv

\* A request writes the file of r: what it made, or an old version.
LEMMA Takes ==
  ASSUME FilesInv, NEW r \in Resource, run' = Robbed(r), made' \in Nat, strays \subseteq strays',
         UNCHANGED versions, UNCHANGED thumb, NEW c \in Contents, file' = [file EXCEPT ![r] = c],
         current' \in [Resource -> Nat], \A x \in Resource : x # r => current'[x] = current[x],
         \/ c \in strays' \ {Older} /\ current'[r] = current[r]
         \/ current'[r] \in 1 .. Len(versions[r]) /\ c = versions[r][current'[r]].content
  PROVE  FilesInv'
<1>t. FilesTyped /\ Older \in strays /\ FileKept(r)
  BY DEF FilesInv
<1>1. PICK w : w = [run[r] EXCEPT !.robbed = TRUE]
  OBVIOUS
<1>2. run[r] \in Run
  BY <1>t DEF FilesTyped
<1>3. /\ w \in Run /\ w.robbed = TRUE /\ w.pc = run[r].pc /\ w.version = run[r].version
      /\ w.content = run[r].content
  BY <1>1, <1>2 DEF Run
<1>4. run' = [run EXCEPT ![r] = w]
  BY <1>1 DEF Robbed
<1>5. run' \in [Resource -> Run] /\ run'[r] = w /\ \A x \in Resource : x # r => run'[x] = run[x]
  BY <1>3, <1>4, <1>t DEF FilesTyped
<1>6. FilesTyped' /\ file'[r] = c /\ \A x \in Resource : x # r => file'[x] = file[x]
  BY <1>5, <1>t DEF FilesTyped
<1>7. FileKept(r)'
  <2>1. \/ file'[r] \in strays' \ {Older} /\ current'[r] = current[r]
        \/ current'[r] \in 1 .. Len(versions[r]) /\ file'[r] = versions[r][current'[r]].content
    BY <1>6
  <2>2. run'[r].robbed /\ versions'[r] = versions[r]
    BY <1>3, <1>5
  <2>. QED BY <2>1, <2>2, <1>3, <1>5, <1>t, FileTaken
<1>8. \A x \in Resource : x # r => FileKept(x)'
  BY <1>5, <1>6, OthersStay
<1>. QED BY <1>6, <1>7, <1>8, <1>t DEF FilesInv

\* Neither files nor runs, but for whether an asset is the same.
LEMMA FilesApart ==
  ASSUME FilesInv, UNCHANGED file, UNCHANGED versions, UNCHANGED current, made' \in Nat, strays \subseteq strays',
         thumb' \in [Film -> Contents], \A t \in Film : thumb'[t] \in {Absent, thumb[t]},
         run' \in [Resource -> Run],
         \A t \in Resource : /\ run'[t].pc = run[t].pc /\ run'[t].version = run[t].version
                             /\ run'[t].content = run[t].content /\ run'[t].robbed = run[t].robbed
  PROVE  FilesInv'
<1>t. FilesTyped /\ Older \in strays /\ \A x \in Resource : FileKept(x)
  BY DEF FilesInv
<1>1. FilesTyped'
  BY <1>t DEF FilesTyped
<1>2. ASSUME NEW t \in Resource PROVE FileKept(t)'
  <2>1. run[t].robbed \in BOOLEAN /\ run'[t].robbed \in BOOLEAN
    BY <1>t DEF FilesTyped, Run
  <2>. QED BY <2>1, <1>t, FileStays
<1>. QED BY <1>1, <1>2, <1>t DEF FilesInv

LEMMA RequestSteps ==
  ASSUME FilesInv, NEW u \in User, Request(u)
  PROVE  FilesInv'
<1>t. FilesTyped /\ made \in Nat /\ \A x \in Resource : InSequence(x)
  BY DEF FilesInv, FilesTyped, FileKept
<1>same. ASSUME UNCHANGED run
         PROVE  run' \in [Resource -> Run] /\ \A t \in Resource : run'[t] = run[t]
  BY <1>same, <1>t DEF FilesTyped
<1>1. ASSUME NEW r \in Resource, NEW n \in Numbers(r), Restore(u, r, n) PROVE FilesInv'
  <2>1. RestoreVersion(r, n) /\ run' = Robbed(r) /\ UNCHANGED thumb /\ UNCHANGED made /\ UNCHANGED strays
    BY <1>1 DEF Restore
  <2>2. Len(versions[r]) \in Nat /\ n \in 1 .. Len(versions[r]) /\ Content(r, n) = versions[r][n].content
    BY <1>t, HistoryIs
  <2>3. PICK c : c = versions[r][n].content
    OBVIOUS
  <2>4. versions[r][n] \in Version
    BY <2>2, <1>t DEF FilesTyped
  <2>5. c \in Contents /\ file' = [file EXCEPT ![r] = c] /\ current' = [current EXCEPT ![r] = n] /\ UNCHANGED versions
    BY <2>1, <2>2, <2>3, <2>4 DEF RestoreVersion, Pointed, Version
  <2>6. current' \in [Resource -> Nat] /\ current'[r] = n /\ \A x \in Resource : x # r => current'[x] = current[x]
    BY <2>2, <2>5, <1>t DEF FilesTyped
  <2>. QED BY <2>1, <2>2, <2>3, <2>5, <2>6, <1>t, Takes
<1>2. ASSUME NEW r \in Resource, Upload(u, r) PROVE FilesInv'
  <2>1. /\ UNCHANGED versions /\ UNCHANGED current /\ UNCHANGED thumb
        /\ made' = made + 1 /\ strays' = strays \union {made + 1}
        /\ (file' = [file EXCEPT ![r] = made + 1] /\ run' = Robbed(r)) \/ (UNCHANGED file /\ UNCHANGED run)
    BY <1>2 DEF Upload
  <2>2. current' \in [Resource -> Nat] /\ \A x \in Resource : current'[x] = current[x]
    BY <2>1, <1>t DEF FilesTyped
  <2>3. made + 1 \in Contents /\ made + 1 \in strays' \ {Older} /\ made' \in Nat /\ strays \subseteq strays'
    BY <2>1, <1>t DEF Contents, Older
  <2>4. CASE file' = [file EXCEPT ![r] = made + 1] /\ run' = Robbed(r)
    BY <2>1, <2>2, <2>3, <2>4, Takes
  <2>5. CASE UNCHANGED file /\ UNCHANGED run
    <3>1. thumb' \in [Film -> Contents] /\ \A t \in Film : thumb'[t] \in {Absent, thumb[t]}
      BY <2>1, <1>t DEF FilesTyped
    <3>. QED BY <2>1, <2>3, <2>5, <3>1, <1>same, FilesApart
  <2>. QED BY <2>1, <2>4, <2>5
<1>3. CASE RemoveThumbnail(u)
  <2>1. /\ UNCHANGED file /\ UNCHANGED versions /\ UNCHANGED current /\ UNCHANGED run /\ UNCHANGED made
        /\ UNCHANGED strays /\ thumb' = [thumb EXCEPT ![asking[u].r] = Absent]
    BY <1>3 DEF RemoveThumbnail, history, NoThumbnail
  <2>2. thumb' \in [Film -> Contents] /\ \A t \in Film : thumb'[t] \in {Absent, thumb[t]}
    BY <2>1, <1>t DEF FilesTyped, Contents
  <2>. QED BY <2>1, <2>2, <1>t, <1>same, FilesApart
<1>4. ASSUME UNCHANGED history, UNCHANGED run, UNCHANGED thumb, UNCHANGED made, UNCHANGED strays
      PROVE  FilesInv'
  <2>1. UNCHANGED file /\ UNCHANGED versions /\ UNCHANGED current
    BY <1>4 DEF history
  <2>2. thumb' \in [Film -> Contents] /\ \A t \in Film : thumb'[t] \in {Absent, thumb[t]}
    BY <1>4, <1>t DEF FilesTyped
  <2>. QED BY <2>1, <2>2, <1>4, <1>t, <1>same, FilesApart
<1>5. ASSUME NEW work, Edits(u, work) PROVE FilesInv'
  BY <1>4, <1>5 DEF Edits
<1>6. CASE Answer(u)
  BY <1>4, <1>6 DEF Answer
<1>7. ASSUME NEW e \in Episode, EditScript(u, e) PROVE FilesInv'
  BY <1>5, <1>7 DEF EditScript
<1>8. CASE EditProject(u)
  BY <1>5, <1>8 DEF EditProject
<1>9. ASSUME NEW t \in Of({"sheet"}), EditAsset(u, t[2]) \/ DeleteAsset(u, t[2]) \/ AddAsset(u, t[2])
      PROVE FilesInv'
  BY <1>5, <1>9 DEF EditAsset, DeleteAsset, AddAsset
<1>. QED BY <1>1, <1>2, <1>3, <1>6, <1>7, <1>8, <1>9 DEF Request

\* What the step of a document does to the runs.
LEMMA RunsMarked ==
  ASSUME FilesTyped, NEW S, run' = [t \in Resource |-> IF t \in S THEN [run[t] EXCEPT !.anew = TRUE] ELSE run[t]]
  PROVE  /\ run' \in [Resource -> Run]
         /\ \A t \in Resource : /\ run'[t].pc = run[t].pc /\ run'[t].version = run[t].version
                                /\ run'[t].content = run[t].content /\ run'[t].robbed = run[t].robbed
                                /\ run'[t].anew = (run[t].anew \/ t \in S)
<1>1. ASSUME NEW t \in Resource
      PROVE  /\ run'[t] \in Run
             /\ run'[t].pc = run[t].pc /\ run'[t].version = run[t].version
             /\ run'[t].content = run[t].content /\ run'[t].robbed = run[t].robbed
             /\ run'[t].anew = (run[t].anew \/ t \in S)
  <2>0. run[t] \in Run
    BY DEF FilesTyped
  <2>1. CASE t \in S
    <3>1. PICK v : v = [run[t] EXCEPT !.anew = TRUE]
      OBVIOUS
    <3>2. run'[t] = v
      BY <2>1, <3>1
    <3>3. v \in Run /\ v.pc = run[t].pc /\ v.version = run[t].version /\ v.content = run[t].content
          /\ v.robbed = run[t].robbed /\ v.anew = TRUE
      BY <2>0, <3>1 DEF Run
    <3>. QED BY <2>1, <3>2, <3>3
  <2>2. CASE t \notin S
    <3>1. run'[t] = run[t] /\ run[t].anew \in BOOLEAN
      BY <2>0, <2>2 DEF Run
    <3>. QED BY <2>0, <2>2, <3>1
  <2>. QED BY <2>1, <2>2
<1>. QED BY <1>1

LEMMA DocumentStep ==
  ASSUME FilesInv, Documents
  PROVE  FilesInv'
<1>t. FilesTyped
  BY DEF FilesInv
<1>1. UNCHANGED file /\ UNCHANGED versions /\ UNCHANGED current /\ UNCHANGED thumb /\ UNCHANGED made /\ UNCHANGED strays
  BY DEF Documents, history
<1>2. PICK S : run' = [t \in Resource |-> IF t \in S THEN [run[t] EXCEPT !.anew = TRUE] ELSE run[t]]
  BY DEF Documents
<1>3. thumb' \in [Film -> Contents] /\ (\A t \in Film : thumb'[t] \in {Absent, thumb[t]}) /\ made' \in Nat
  BY <1>1, <1>t DEF FilesTyped
<1>. QED BY <1>1, <1>2, <1>3, <1>t, RunsMarked, FilesApart

LEMMA FilesStep == FilesInv /\ [Next]_files => FilesInv'
<1>. SUFFICES ASSUME FilesInv, [Next]_files PROVE FilesInv'
  OBVIOUS
<1>t. FilesTyped
  BY DEF FilesInv
<1>1. ASSUME NEW t \in Resource, Executor(t) PROVE FilesInv'
  BY <1>1, PrepareStep, TrackStep, GenerateStep, RecordStep, ReadFilmStep, SplitStep, StepsOn DEF Executor
<1>2. ASSUME NEW u \in User, Request(u) PROVE FilesInv'
  BY <1>2, RequestSteps
<1>3. CASE UNCHANGED files
  <2>1. /\ UNCHANGED file /\ UNCHANGED versions /\ UNCHANGED current /\ UNCHANGED thumb /\ UNCHANGED made
        /\ UNCHANGED strays /\ UNCHANGED run
    BY <1>3 DEF files, history
  <2>2. /\ thumb' \in [Film -> Contents] /\ (\A t \in Film : thumb'[t] \in {Absent, thumb[t]}) /\ made' \in Nat
        /\ run' \in [Resource -> Run]
    BY <2>1, <1>t DEF FilesTyped
  <2>. QED BY <2>1, <2>2, FilesApart
<1>. QED BY <1>1, <1>2, <1>3, DocumentStep, CrashStep DEF Next

LEMMA FilesShown == FilesInv => ShownTrue
<1>. SUFFICES ASSUME FilesInv PROVE ShownTrue
  OBVIOUS
<1>t. FilesTyped /\ Older \in strays /\ \A x \in Resource : FileKept(x)
  BY DEF FilesInv
<1>1. CurrentShown
  <2>. SUFFICES ASSUME NEW r \in Resource, ~Is(r, "generated"), file[r] # Absent, file[r] \notin strays
                PROVE  current[r] # 0 /\ file[r] = Content(r, current[r])
    BY DEF CurrentShown
  <2>1. current[r] # 0 /\ file[r] = versions[r][current[r]].content /\ InSequence(r)
    BY <1>t DEF FileKept, Copied
  <2>2. current[r] \in 1 .. Len(versions[r])
    BY <2>1, <1>t, HistoryIs DEF InSequence
  <2>. QED BY <2>1, <2>2, <1>t, HistoryIs
<1>2. ResultKept
  <2>. SUFFICES ASSUME NEW t \in Resource, run[t].version # 0, ~run[t].robbed, run[t].pc \notin {"failed", "idle"}
                PROVE  Content(t, run[t].version) = run[t].content
    BY DEF ResultKept
  <2>. QED BY <1>t, HistoryIs DEF FileKept, Mine
<1>3. ThumbnailFits
  <2>. SUFFICES ASSUME NEW t \in Film, Is(t, "done"), ~run[t].robbed PROVE thumb[t] \in {Absent, file[t]}
    BY DEF ThumbnailFits
  <2>1. t \in Resource
    BY DEF Film, Of
  <2>. QED BY <2>1, <1>t DEF FileKept, Framed, Mine, Is
<1>. QED BY <1>1, <1>2, <1>3 DEF ShownTrue

LEMMA FilesSpared == FilesInv /\ [Next]_files => [\A t \in Resource : NoCopy(t) => ~Generate(t)]_files
<1>. SUFFICES ASSUME FilesInv, NEW t \in Resource, NoCopy(t), Generate(t) PROVE FALSE
  OBVIOUS
<1>t. FilesTyped /\ FileKept(t)
  BY DEF FilesInv
<1>1. Is(t, "generating")
  BY DEF Generate
<1>2. Recorded(t) = {versions[t][i].content : i \in 1 .. Len(versions[t])}
  BY <1>t, HistoryIs DEF FileKept
<1>. QED BY <1>1, <1>2, <1>t DEF FileKept, Spared, NoCopy

\* However many tasks of whichever kinds, uploads, restorations and crashes: a current file
\* is its current version or a content that never got one, the version a run answers with
\* is what the provider gave it, and a thumbnail is of the film that is there
\* (media_generator.py:190-232, version_manager.py:180-330, versions.py:144-216).
THEOREM FilesStayTrue == Spec => []ShownTrue
<1>1. Spec => []FilesInv
  BY InitFiles, FilesStep, PTL DEF Spec
<1>. QED BY <1>1, FilesShown, PTL

\* A provider never writes over a file that has no copy (media_generator.py:167-189).
THEOREM OldFilesAreKept == Spec => OldFileKept
<1>1. Spec => []FilesInv
  BY InitFiles, FilesStep, PTL DEF Spec
<1>. QED BY <1>1, FilesSpared, PTL DEF OldFileKept, Spec

--------------------------------------------------------------------------------
(* The documents.                                                            *)

Named == Episode \union {Nobody} \union {t[2] : t \in Resource}
Fact == {"title", "legacy style", "entry", "sheet", "setting", "image", "clip", "unit clip", "thumb", "cell"} \X Named
EditIs == [add : SUBSET Fact, del : SUBSET Fact, needs : SUBSET Fact]
StorePc == {"rest", "load script", "write script", "load index", "save index", "load project", "save project",
            "begin update", "end update", "done", "failed"}
JobIs == [pc : StorePc, e : Episode \union {Nobody}, edit : EditIs, copy : SUBSET Fact, index : SUBSET Fact]

StoreTyped ==
  /\ project \in SUBSET Fact
  /\ script \in [Episode -> SUBSET Fact]
  /\ scriptLock \in [Episode -> Job \union {Nobody}]
  /\ job \in [Job -> JobIs]

\* An edit of the project is not about titles, and takes no sheet away but with its asset.
MeansProject(edit) ==
  /\ \A e \in Episode : Title(e) \notin edit.add \union edit.del
  /\ \A a \in Named : Sheet(a) \in edit.del => Entry(a) \in edit.del \ edit.add
NoSheets(edit) == \A a \in Named : Sheet(a) \notin edit.add \union edit.del

\* What a thread is about.
WellMeant(j) ==
  /\ job[j].pc \in {"load script", "write script", "load index", "save index"} => job[j].e \in Episode
  /\ job[j].pc \in {"load project", "save project", "begin update", "end update"} => MeansProject(job[j].edit)
  /\ job[j].pc \in {"load project", "save project"} => NoSheets(job[j].edit)

\* Who changes the project under its lock will write what is there with the change.
HoldsProject(j) == At(j, "end update") => projectLock = j /\ job[j].copy = Apply(job[j].edit, project)

\* Who holds the lock of a script has written it, and is bringing the index up to date.
HoldsScript(e) ==
  scriptLock[e] # Nobody =>
    /\ job[scriptLock[e]].e = e /\ job[scriptLock[e]].pc \in {"load index", "save index"}
    /\ job[scriptLock[e]].copy = script[e]

\* The index to be saved knows the title of the copy; only a scan has no lock for it.
Indexes(j) ==
  /\ job[j].pc \in {"load index", "save index"} => job[j].edit = NoEdit \/ scriptLock[job[j].e] = j
  /\ At(j, "save index") => (Title(job[j].e) \in job[j].index <=> Title(job[j].e) \in job[j].copy)

StoreInv ==
  /\ StoreTyped
  /\ \A j \in Job : WellMeant(j) /\ HoldsProject(j) /\ Indexes(j)
  /\ \A e \in Episode : HoldsScript(e)
  /\ IndexFollows

--------------------------------------------------------------------------------
LEMMA FactsDiffer ==
  /\ \A e, f \in Named : Title(e) = Title(f) => e = f
  /\ \A e, a \in Named : Title(e) # Legacy /\ Title(e) # Sheet(a) /\ Title(e) # Entry(a)
                         /\ Title(e) # << "setting", Nobody >>
  /\ \A a \in Named : Sheet(a) # Legacy /\ Entry(a) # Legacy /\ Sheet(a) # << "setting", Nobody >>
  /\ \A a, b \in Named : Sheet(a) # Entry(b) /\ (Sheet(a) = Sheet(b) => a = b) /\ (Entry(a) = Entry(b) => a = b)
  /\ \A a \in Named : Sheet(a) \in Fact /\ Entry(a) \in Fact /\ Title(a) \in Fact
  /\ << "setting", Nobody >> \in Fact /\ Legacy \in Fact
  /\ Episode \subseteq Named /\ \A t \in Resource : t[2] \in Named
BY DEF Title, Legacy, Sheet, Entry, Fact, Named

LEMMA RestingIs ==
  /\ Resting \in JobIs /\ Resting.pc = "rest" /\ NoEdit \in EditIs
  /\ NoEdit.add = {} /\ NoEdit.del = {}
BY DEF Resting, JobIs, NoEdit, Edit, EditIs, StorePc

LEMMA EndIs ==
  ASSUME StoreTyped, NEW j \in Job, NEW pc \in StorePc, End(j, pc)
  PROVE  \E p \in JobIs : p.pc = pc /\ p.edit = NoEdit /\ job' = [job EXCEPT ![j] = p]
<1>1. PICK p : p = [Resting EXCEPT !.pc = pc]
  OBVIOUS
<1>2. p \in JobIs /\ p.pc = pc /\ p.edit = NoEdit
  BY <1>1, RestingIs DEF JobIs, Resting
<1>3. job' = [job EXCEPT ![j] = p]
  BY <1>1 DEF End
<1>. QED BY <1>2, <1>3

\* What a step of one thread leaves alone.
LEMMA JobTaken ==
  ASSUME StoreInv, NEW j \in Job, NEW p \in JobIs, job' = [job EXCEPT ![j] = p],
         UNCHANGED project, UNCHANGED script, UNCHANGED projectLock, UNCHANGED scriptLock, UNCHANGED stale,
         job[j].pc \notin {"load index", "save index"},
         p.pc \in {"rest", "done", "failed", "load script", "write script", "load project", "begin update"},
         p.pc \in {"load script", "write script"} => p.e \in Episode,
         p.pc \in {"load project", "begin update"} => MeansProject(p.edit),
         p.pc = "load project" => NoSheets(p.edit)
  PROVE  StoreInv'
<1>t. /\ StoreTyped /\ IndexFollows /\ \A i \in Job : WellMeant(i) /\ HoldsProject(i) /\ Indexes(i)
      /\ \A e \in Episode : HoldsScript(e)
  BY DEF StoreInv
<1>1. job' \in [Job -> JobIs] /\ job'[j] = p /\ \A i \in Job : i # j => job'[i] = job[i]
  BY <1>t DEF StoreTyped
<1>2. StoreTyped'
  BY <1>1, <1>t DEF StoreTyped
<1>3. ASSUME NEW i \in Job PROVE WellMeant(i)' /\ HoldsProject(i)' /\ Indexes(i)'
  <2>1. CASE i = j
    BY <2>1, <1>1 DEF WellMeant, HoldsProject, Indexes, At
  <2>2. CASE i # j
    <3>1. job'[i] = job[i] /\ WellMeant(i) /\ HoldsProject(i) /\ Indexes(i)
      BY <2>2, <1>1, <1>t
    <3>2. WellMeant(i)'
      BY <3>1 DEF WellMeant
    <3>3. HoldsProject(i)'
      BY <3>1 DEF HoldsProject, At
    <3>4. Indexes(i)'
      BY <3>1 DEF Indexes, At
    <3>. QED BY <3>2, <3>3, <3>4
  <2>. QED BY <2>1, <2>2
<1>4. ASSUME NEW e \in Episode PROVE HoldsScript(e)'
  <2>1. HoldsScript(e) /\ scriptLock[e] \in Job \union {Nobody}
    BY <1>t DEF StoreTyped
  <2>2. scriptLock[e] # Nobody => scriptLock[e] # j /\ job'[scriptLock[e]] = job[scriptLock[e]]
    BY <2>1, <1>1 DEF HoldsScript
  <2>. QED BY <2>1, <2>2 DEF HoldsScript
<1>5. IndexFollows'
  BY <1>t DEF IndexFollows
<1>. QED BY <1>2, <1>3, <1>4, <1>5 DEF StoreInv

LEMMA ProjectMigrated ==
  ASSUME StoreInv, ProjectFree, project' = Migrated(project),
         UNCHANGED job, UNCHANGED script, UNCHANGED projectLock, UNCHANGED scriptLock, UNCHANGED stale
  PROVE  StoreInv'
<1>t. /\ StoreTyped /\ IndexFollows /\ \A i \in Job : WellMeant(i) /\ HoldsProject(i) /\ Indexes(i)
      /\ \A e \in Episode : HoldsScript(e)
  BY DEF StoreInv
<1>1. StoreTyped'
  BY <1>t DEF StoreTyped, Migrated
<1>2. \A i \in Job : WellMeant(i)' /\ Indexes(i)'
  BY <1>t DEF WellMeant, Indexes, At
<1>3. \A i \in Job : HoldsProject(i)'
  BY <1>t, TasksAssumption DEF HoldsProject, ProjectFree, At
<1>4. \A e \in Episode : HoldsScript(e)'
  BY <1>t DEF HoldsScript
<1>5. IndexFollows'
  BY <1>t, FactsDiffer DEF IndexFollows, Migrated
<1>. QED BY <1>1, <1>2, <1>3, <1>4, <1>5 DEF StoreInv

LEMMA StoreCrash ==
  ASSUME StoreInv, Crash
  PROVE  StoreInv'
<1>t. StoreTyped /\ IndexFollows
  BY DEF StoreInv
<1>1. /\ job' = [j \in Job |-> Resting] /\ scriptLock' = [e \in Episode |-> Nobody]
      /\ stale' = stale \union {Title(e) : e \in {x \in Episode : scriptLock[x] # Nobody}}
      /\ UNCHANGED project /\ UNCHANGED script
  BY DEF Crash
<1>2. StoreTyped'
  BY <1>1, <1>t, RestingIs DEF StoreTyped
<1>3. \A j \in Job : job'[j] = Resting
  BY <1>1
<1>4. \A j \in Job : WellMeant(j)' /\ HoldsProject(j)' /\ Indexes(j)'
  BY <1>3, RestingIs DEF WellMeant, HoldsProject, Indexes, At
<1>5. \A e \in Episode : HoldsScript(e)'
  BY <1>1 DEF HoldsScript
<1>6. IndexFollows'
  BY <1>1, <1>t DEF IndexFollows
<1>. QED BY <1>2, <1>4, <1>5, <1>6 DEF StoreInv

LEMMA InitStore == Init => StoreInv
<1>. SUFFICES ASSUME Init PROVE StoreInv
  OBVIOUS
<1>1. PICK assets \in {{}, {t[2] : t \in Of({"sheet"})}} : StoreInit({Entry(a) : a \in assets})
  BY DEF Init
<1>2. /\ project \subseteq {Entry(a) : a \in assets} \union {Legacy}
      /\ script = [e \in Episode |-> {}] /\ scriptLock = [e \in Episode |-> Nobody]
      /\ job = [j \in Job |-> Resting]
  BY <1>1 DEF StoreInit
<1>3. assets \subseteq Named
  BY DEF Of, Named
<1>4. Legacy \in Fact /\ \A a \in Named : Entry(a) \in Fact
  BY FactsDiffer
<1>5. StoreTyped
  <2>1. ASSUME NEW f \in project PROVE f \in Fact
    <3>1. CASE f = Legacy
      BY <3>1, <1>4
    <3>2. CASE f # Legacy
      <4>1. PICK a \in assets : f = Entry(a)
        BY <3>2, <1>2
      <4>. QED BY <4>1, <1>3, <1>4
    <3>. QED BY <3>1, <3>2
  <2>. QED BY <2>1, <1>2, RestingIs DEF StoreTyped
<1>6. \A j \in Job : WellMeant(j) /\ HoldsProject(j) /\ Indexes(j)
  BY <1>2, RestingIs DEF WellMeant, HoldsProject, Indexes, At
<1>7. \A e \in Episode : HoldsScript(e)
  BY <1>2 DEF HoldsScript
<1>8. IndexFollows
  <2>1. \A e \in Episode : Title(e) \notin project
    BY <1>2, <1>3, FactsDiffer
  <2>. QED BY <2>1, <1>2 DEF IndexFollows
<1>. QED BY <1>5, <1>6, <1>7, <1>8 DEF StoreInv

\* A step that changes the project: nobody else is between the two halves of an update.
LEMMA JobMoves ==
  ASSUME StoreInv, NEW j \in Job, NEW p \in JobIs, job' = [job EXCEPT ![j] = p],
         project' \in SUBSET Fact, UNCHANGED script, UNCHANGED projectLock, UNCHANGED scriptLock,
         ProjectFree \/ UNCHANGED project,
         WellMeant(j)', HoldsProject(j)', Indexes(j)',
         \A e \in Episode : scriptLock[e] = j =>
           p.e = e /\ p.pc \in {"load index", "save index"} /\ p.copy = script[e],
         IndexFollows'
  PROVE  StoreInv'
<1>t. /\ StoreTyped /\ \A i \in Job : WellMeant(i) /\ HoldsProject(i) /\ Indexes(i)
      /\ \A e \in Episode : HoldsScript(e)
  BY DEF StoreInv
<1>1. job' \in [Job -> JobIs] /\ job'[j] = p /\ \A i \in Job : i # j => job'[i] = job[i]
  BY <1>t DEF StoreTyped
<1>2. StoreTyped'
  BY <1>1, <1>t DEF StoreTyped
<1>3. ASSUME NEW i \in Job, i # j PROVE WellMeant(i)' /\ HoldsProject(i)' /\ Indexes(i)'
  <2>1. job'[i] = job[i] /\ WellMeant(i) /\ HoldsProject(i) /\ Indexes(i)
    BY <1>1, <1>3, <1>t
  <2>2. WellMeant(i)'
    BY <2>1 DEF WellMeant
  <2>3. HoldsProject(i)'
    <3>1. ProjectFree => projectLock # i
      BY TasksAssumption DEF ProjectFree
    <3>. QED BY <2>1, <3>1 DEF HoldsProject, At
  <2>4. Indexes(i)'
    BY <2>1 DEF Indexes, At
  <2>. QED BY <2>2, <2>3, <2>4
<1>4. ASSUME NEW e \in Episode PROVE HoldsScript(e)'
  <2>1. HoldsScript(e) /\ scriptLock[e] \in Job \union {Nobody}
    BY <1>t DEF StoreTyped
  <2>2. scriptLock[e] # j /\ scriptLock[e] # Nobody => job'[scriptLock[e]] = job[scriptLock[e]]
    BY <2>1, <1>1
  <2>. QED BY <2>1, <2>2, <1>1 DEF HoldsScript
<1>. QED BY <1>2, <1>3, <1>4 DEF StoreInv

\* Only who brings the index up to date holds the lock of a script.
LEMMA NoScript ==
  ASSUME StoreInv, NEW j \in Job, job[j].pc \notin {"load index", "save index"}
  PROVE  \A e \in Episode : scriptLock[e] # j
<1>. SUFFICES ASSUME NEW e \in Episode, scriptLock[e] = j PROVE FALSE
  OBVIOUS
<1>1. HoldsScript(e)
  BY DEF StoreInv
<1>. QED BY <1>1, TasksAssumption DEF HoldsScript

LEMMA LoadScriptStep ==
  ASSUME StoreInv, NEW j \in Job, LoadScript(j)
  PROVE  StoreInv'
<1>t. StoreTyped /\ WellMeant(j)
  BY DEF StoreInv
<1>1. /\ job[j].pc = "load script" /\ UNCHANGED project /\ UNCHANGED script /\ UNCHANGED projectLock
      /\ UNCHANGED scriptLock /\ UNCHANGED stale
  BY DEF LoadScript, At
<1>e. job[j] \in JobIs /\ job[j].e \in Episode /\ script[job[j].e] \in SUBSET Fact
  BY <1>1, <1>t DEF StoreTyped, WellMeant
<1>2. CASE End(j, "failed")
  <2>1. "failed" \in StorePc
    BY DEF StorePc
  <2>2. PICK p \in JobIs : p.pc = "failed" /\ p.edit = NoEdit /\ job' = [job EXCEPT ![j] = p]
    BY <2>1, <1>2, <1>t, EndIs
  <2>. QED BY <2>2, <1>1, JobTaken
<1>3. CASE ~End(j, "failed")
  <2>1. PICK c : c = Apply(job[j].edit, script[job[j].e])
    OBVIOUS
  <2>2. c \in SUBSET Fact
    BY <2>1, <1>e DEF Apply, JobIs, EditIs
  <2>3. PICK p : p = [job[j] EXCEPT !.pc = "write script", !.copy = c]
    OBVIOUS
  <2>4. p \in JobIs /\ p.pc = "write script" /\ p.e = job[j].e
    BY <2>2, <2>3, <1>e DEF JobIs, StorePc
  <2>5. job' = [job EXCEPT ![j] = p]
    <3>1. job' = [job EXCEPT ![j].pc = "write script", ![j].copy = c]
      BY <2>1, <1>3 DEF LoadScript
    <3>. QED BY <3>1, <2>3
  <2>. QED BY <2>4, <2>5, <1>1, <1>e, JobTaken
<1>. QED BY <1>2, <1>3

LEMMA WriteScriptStep ==
  ASSUME StoreInv, NEW j \in Job, WriteScript(j)
  PROVE  StoreInv'
<1>t. /\ StoreTyped /\ IndexFollows /\ \A i \in Job : WellMeant(i) /\ HoldsProject(i) /\ Indexes(i)
      /\ \A e \in Episode : HoldsScript(e)
  BY DEF StoreInv
<1>0. PICK e : e = job[j].e
  OBVIOUS
<1>1. /\ job[j].pc = "write script" /\ scriptLock[e] = Nobody /\ UNCHANGED project /\ UNCHANGED projectLock /\ UNCHANGED stale
      /\ scriptLock' = [scriptLock EXCEPT ![e] = j] /\ script' = [script EXCEPT ![e] = job[j].copy]
      /\ job' = [job EXCEPT ![j].pc = "load index"]
  BY <1>0 DEF WriteScript, At, ScriptFree
<1>e. job[j] \in JobIs /\ e \in Episode /\ job[j].copy \in SUBSET Fact
  BY <1>0, <1>1, <1>t DEF StoreTyped, WellMeant, JobIs
<1>2. PICK p : p = [job[j] EXCEPT !.pc = "load index"]
  OBVIOUS
<1>3. p \in JobIs /\ p.pc = "load index" /\ p.e = e /\ p.copy = job[j].copy /\ p.edit = job[j].edit
  BY <1>0, <1>2, <1>e DEF JobIs, StorePc
<1>4. job' = [job EXCEPT ![j] = p]
  BY <1>1, <1>2
<1>5. job' \in [Job -> JobIs] /\ job'[j] = p /\ \A i \in Job : i # j => job'[i] = job[i]
  BY <1>3, <1>4, <1>t DEF StoreTyped
<1>6. /\ scriptLock'[e] = j /\ script'[e] = p.copy
      /\ \A f \in Episode : f # e => scriptLock'[f] = scriptLock[f] /\ script'[f] = script[f]
  BY <1>1, <1>3, <1>e, <1>t DEF StoreTyped
<1>7. StoreTyped'
  BY <1>1, <1>5, <1>e, <1>t DEF StoreTyped
<1>8. ASSUME NEW i \in Job PROVE WellMeant(i)' /\ HoldsProject(i)' /\ Indexes(i)'
  <2>1. CASE i = j
    BY <2>1, <1>3, <1>5, <1>6, <1>e DEF WellMeant, HoldsProject, Indexes, At
  <2>2. CASE i # j
    <3>1. job'[i] = job[i] /\ WellMeant(i) /\ HoldsProject(i) /\ Indexes(i)
      BY <2>2, <1>5, <1>t
    <3>2. WellMeant(i)'
      BY <3>1 DEF WellMeant
    <3>3. HoldsProject(i)'
      BY <3>1, <1>1 DEF HoldsProject, At
    <3>4. Indexes(i)'
      <4>1. job[i].pc \in {"load index", "save index"} => job[i].edit = NoEdit \/ scriptLock'[job[i].e] = i
        <5>. SUFFICES ASSUME job[i].pc \in {"load index", "save index"}, scriptLock[job[i].e] = i
                      PROVE  scriptLock'[job[i].e] = i
          BY <3>1 DEF Indexes
        <5>1. job[i].e \in Episode
          BY <3>1 DEF WellMeant
        <5>2. job[i].e # e
          BY <1>1, TasksAssumption
        <5>. QED BY <5>1, <5>2, <1>6
      <4>. QED BY <3>1, <4>1 DEF Indexes, At
    <3>. QED BY <3>2, <3>3, <3>4
  <2>. QED BY <2>1, <2>2
<1>9. ASSUME NEW f \in Episode PROVE HoldsScript(f)'
  <2>1. CASE f = e
    BY <2>1, <1>3, <1>5, <1>6 DEF HoldsScript
  <2>2. CASE f # e
    <3>1. HoldsScript(f) /\ scriptLock[f] \in Job \union {Nobody}
      BY <1>t DEF StoreTyped
    <3>2. scriptLock[f] # j
      BY <1>1, NoScript
    <3>3. scriptLock[f] # Nobody => job'[scriptLock[f]] = job[scriptLock[f]]
      BY <3>1, <3>2, <1>5
    <3>. QED BY <2>2, <3>1, <3>3, <1>6 DEF HoldsScript
  <2>. QED BY <2>1, <2>2
<1>10. IndexFollows'
  <2>. SUFFICES ASSUME NEW f \in Episode, scriptLock'[f] = Nobody
                PROVE  (Title(f) \in script'[f] <=> Title(f) \in project) \/ Title(f) \in stale
    BY <1>1 DEF IndexFollows
  <2>1. f # e
    BY <1>6, TasksAssumption
  <2>. QED BY <2>1, <1>6, <1>t DEF IndexFollows
<1>. QED BY <1>7, <1>8, <1>9, <1>10 DEF StoreInv

LEMMA LoadIndexStep ==
  ASSUME StoreInv, NEW j \in Job, LoadIndex(j)
  PROVE  StoreInv'
<1>t. StoreTyped /\ IndexFollows /\ WellMeant(j) /\ Indexes(j) /\ \A e \in Episode : HoldsScript(e)
  BY DEF StoreInv
<1>1. /\ job[j].pc = "load index" /\ ProjectFree /\ project' = Migrated(project)
      /\ UNCHANGED script /\ UNCHANGED projectLock /\ UNCHANGED scriptLock /\ UNCHANGED stale
  BY DEF LoadIndex, At
<1>2. PICK doc : doc = Synced(Migrated(project), job[j].e, job[j].copy)
  OBVIOUS
<1>3. job[j] \in JobIs /\ job[j].e \in Episode
  BY <1>1, <1>t DEF StoreTyped, WellMeant
<1>4. Title(job[j].e) \in Fact
  BY <1>3, FactsDiffer
<1>5. doc \in SUBSET Fact /\ (Title(job[j].e) \in doc <=> Title(job[j].e) \in job[j].copy)
  BY <1>2, <1>4, <1>t DEF Synced, Migrated, StoreTyped
<1>6. PICK p : p = [job[j] EXCEPT !.pc = "save index", !.index = doc]
  OBVIOUS
<1>7. p \in JobIs /\ p.pc = "save index" /\ p.e = job[j].e /\ p.copy = job[j].copy /\ p.edit = job[j].edit /\ p.index = doc
  BY <1>3, <1>5, <1>6 DEF JobIs, StorePc
<1>8. job' = [job EXCEPT ![j] = p]
  <2>1. job' = [job EXCEPT ![j].pc = "save index", ![j].index = doc]
    BY <1>2 DEF LoadIndex
  <2>. QED BY <2>1, <1>6
<1>9. job'[j] = p
  BY <1>8, <1>t DEF StoreTyped
<1>10. WellMeant(j)' /\ HoldsProject(j)'
  BY <1>3, <1>7, <1>9 DEF WellMeant, HoldsProject, At
<1>11. Indexes(j)'
  BY <1>1, <1>5, <1>7, <1>9, <1>t DEF Indexes, At
<1>12. \A e \in Episode : scriptLock[e] = j =>
           p.e = e /\ p.pc \in {"load index", "save index"} /\ p.copy = script[e]
  BY <1>7, <1>t, TasksAssumption DEF HoldsScript
<1>13. project' \in SUBSET Fact
  BY <1>1, <1>t DEF Migrated, StoreTyped
<1>14. IndexFollows'
  BY <1>1, <1>t, FactsDiffer DEF IndexFollows, Migrated
<1>. QED BY <1>1, <1>7, <1>8, <1>10, <1>11, <1>12, <1>13, <1>14, JobMoves

LEMMA SaveIndexStep ==
  ASSUME StoreInv, NEW j \in Job, SaveIndex(j)
  PROVE  StoreInv'
<1>t. /\ StoreTyped /\ IndexFollows /\ \A i \in Job : WellMeant(i) /\ HoldsProject(i) /\ Indexes(i)
      /\ \A e \in Episode : HoldsScript(e)
  BY DEF StoreInv
<1>0. PICK e : e = job[j].e
  OBVIOUS
<1>d. PICK doc : doc = job[j].index
  OBVIOUS
<1>m. PICK meant \in {{}, {Title(e)}} : stale' = StaleAfter(doc, meant) /\ (job[j].edit = NoEdit => meant = {})
  BY <1>0, <1>d DEF SaveIndex
<1>1. /\ job[j].pc = "save index" /\ ProjectFree /\ project' = doc /\ End(j, "done")
      /\ UNCHANGED script /\ UNCHANGED projectLock
      /\ scriptLock' = IF scriptLock[e] = j THEN [scriptLock EXCEPT ![e] = Nobody] ELSE scriptLock
  BY <1>0, <1>d DEF SaveIndex, At
<1>2. job[j] \in JobIs /\ e \in Episode /\ doc \in SUBSET Fact
  BY <1>0, <1>d, <1>1, <1>t DEF StoreTyped, WellMeant, JobIs
<1>3. "done" \in StorePc
  BY DEF StorePc
<1>4. PICK p \in JobIs : p.pc = "done" /\ p.edit = NoEdit /\ job' = [job EXCEPT ![j] = p]
  BY <1>1, <1>3, <1>t, EndIs
<1>5. job' \in [Job -> JobIs] /\ job'[j] = p /\ \A i \in Job : i # j => job'[i] = job[i]
  BY <1>4, <1>t DEF StoreTyped
<1>6. /\ scriptLock' \in [Episode -> Job \union {Nobody}]
      /\ \A f \in Episode : f # e => scriptLock'[f] = scriptLock[f]
      /\ scriptLock'[e] = IF scriptLock[e] = j THEN Nobody ELSE scriptLock[e]
  BY <1>1, <1>2, <1>t DEF StoreTyped
<1>7. StoreTyped'
  BY <1>1, <1>2, <1>5, <1>6, <1>t DEF StoreTyped
<1>n. \A i \in Job : i # Nobody
  BY TasksAssumption
<1>8. ASSUME NEW i \in Job PROVE WellMeant(i)' /\ HoldsProject(i)' /\ Indexes(i)'
  <2>1. CASE i = j
    BY <2>1, <1>4, <1>5 DEF WellMeant, HoldsProject, Indexes, At
  <2>2. CASE i # j
    <3>1. job'[i] = job[i] /\ WellMeant(i) /\ HoldsProject(i) /\ Indexes(i)
      BY <2>2, <1>5, <1>t
    <3>2. WellMeant(i)'
      BY <3>1 DEF WellMeant
    <3>3. HoldsProject(i)'
      BY <3>1, <1>1, <1>n DEF HoldsProject, At, ProjectFree
    <3>4. job[i].pc \in {"load index", "save index"} => (scriptLock[job[i].e] = i => scriptLock'[job[i].e] = i)
      BY <2>2, <3>1, <1>6 DEF WellMeant
    <3>5. Indexes(i)'
      BY <3>1, <3>4 DEF Indexes, At
    <3>. QED BY <3>2, <3>3, <3>5
  <2>. QED BY <2>1, <2>2
<1>9. ASSUME NEW f \in Episode PROVE HoldsScript(f)'
  <2>1. HoldsScript(f) /\ scriptLock[f] \in Job \union {Nobody}
    BY <1>t DEF StoreTyped
  <2>2. CASE scriptLock[f] = j
    <3>1. f = e
      BY <2>1, <2>2, <1>0, <1>n DEF HoldsScript
    <3>. QED BY <3>1, <2>2, <1>6 DEF HoldsScript
  <2>3. CASE scriptLock[f] # j
    <3>1. scriptLock'[f] = scriptLock[f]
      BY <2>3, <1>6
    <3>2. scriptLock[f] # Nobody => job'[scriptLock[f]] = job[scriptLock[f]]
      BY <2>1, <2>3, <1>5
    <3>. QED BY <2>1, <3>1, <3>2, <1>1 DEF HoldsScript
  <2>. QED BY <2>2, <2>3
<1>10. IndexFollows'
  <2>. SUFFICES ASSUME NEW f \in Episode, scriptLock'[f] = Nobody
                PROVE  (Title(f) \in script[f] <=> Title(f) \in doc) \/ Title(f) \in stale'
    BY <1>1 DEF IndexFollows
  <2>1. CASE scriptLock[f] = Nobody
    <3>1. (Title(f) \in script[f] <=> Title(f) \in project) \/ Title(f) \in stale
      BY <2>1, <1>t DEF IndexFollows
    <3>2. Title(f) \notin meant
      <4>1. CASE job[j].edit = NoEdit
        BY <4>1, <1>m
      <4>2. CASE job[j].edit # NoEdit
        <5>1. scriptLock[e] = j
          BY <4>2, <1>0, <1>1, <1>t DEF Indexes
        <5>2. f # e /\ Title(f) # Title(e)
          BY <5>1, <2>1, <1>2, <1>n, FactsDiffer
        <5>. QED BY <5>2, <1>m
      <4>. QED BY <4>1, <4>2
    <3>. QED BY <3>1, <3>2, <1>m DEF StaleAfter
  <2>2. CASE scriptLock[f] # Nobody
    <3>1. f = e /\ scriptLock[e] = j
      BY <2>2, <1>6
    <3>2. job[j].copy = script[e]
      BY <3>1, <1>2, <1>n, <1>t DEF HoldsScript
    <3>3. Title(e) \in doc <=> Title(e) \in job[j].copy
      BY <1>0, <1>d, <1>1, <1>t DEF Indexes, At
    <3>. QED BY <3>1, <3>2, <3>3
  <2>. QED BY <2>1, <2>2
<1>. QED BY <1>7, <1>8, <1>9, <1>10 DEF StoreInv

LEMMA LoadProjectStep ==
  ASSUME StoreInv, NEW j \in Job, LoadProject(j)
  PROVE  StoreInv'
<1>t. StoreTyped /\ IndexFollows /\ WellMeant(j)
  BY DEF StoreInv
<1>1. /\ job[j].pc = "load project" /\ ProjectFree /\ project' = Migrated(project)
      /\ UNCHANGED script /\ UNCHANGED projectLock /\ UNCHANGED scriptLock /\ UNCHANGED stale
  BY DEF LoadProject, At
<1>2. job[j] \in JobIs /\ MeansProject(job[j].edit) /\ NoSheets(job[j].edit) /\ project' \in SUBSET Fact
  BY <1>1, <1>t DEF StoreTyped, WellMeant, Migrated
<1>3. \E p \in JobIs : /\ p.pc \in {"failed", "save project"} /\ (p.pc = "save project" => p.edit = job[j].edit)
                       /\ job' = [job EXCEPT ![j] = p]
  <2>1. CASE End(j, "failed")
    <3>1. "failed" \in StorePc
      BY DEF StorePc
    <3>2. PICK p \in JobIs : p.pc = "failed" /\ p.edit = NoEdit /\ job' = [job EXCEPT ![j] = p]
      BY <3>1, <2>1, <1>t, EndIs
    <3>. QED BY <3>2
  <2>2. CASE ~End(j, "failed")
    <3>1. PICK c : c = Apply(job[j].edit, Migrated(project))
      OBVIOUS
    <3>2. c \in SUBSET Fact
      BY <3>1, <1>2, <1>t DEF Apply, JobIs, EditIs, Migrated, StoreTyped
    <3>3. PICK p : p = [job[j] EXCEPT !.pc = "save project", !.copy = c]
      OBVIOUS
    <3>4. p \in JobIs /\ p.pc = "save project" /\ p.edit = job[j].edit
      BY <1>2, <3>2, <3>3 DEF JobIs, StorePc
    <3>5. job' = [job EXCEPT ![j] = p]
      <4>1. job' = [job EXCEPT ![j].pc = "save project", ![j].copy = c]
        BY <2>2, <3>1 DEF LoadProject
      <4>. QED BY <4>1, <3>3
    <3>. QED BY <3>4, <3>5
  <2>. QED BY <2>1, <2>2
<1>4. PICK p \in JobIs : /\ p.pc \in {"failed", "save project"} /\ (p.pc = "save project" => p.edit = job[j].edit)
                         /\ job' = [job EXCEPT ![j] = p]
  BY <1>3
<1>5. job'[j] = p
  BY <1>4, <1>t DEF StoreTyped
<1>6. WellMeant(j)' /\ HoldsProject(j)' /\ Indexes(j)'
  BY <1>2, <1>4, <1>5 DEF WellMeant, HoldsProject, Indexes, At
<1>7. \A e \in Episode : scriptLock[e] # j
  BY <1>1, NoScript
<1>8. IndexFollows'
  BY <1>1, <1>t, FactsDiffer DEF IndexFollows, Migrated
<1>. QED BY <1>1, <1>2, <1>4, <1>6, <1>7, <1>8, JobMoves

LEMMA SaveProjectStep ==
  ASSUME StoreInv, NEW j \in Job, SaveProject(j)
  PROVE  StoreInv'
<1>t. StoreTyped /\ IndexFollows /\ WellMeant(j)
  BY DEF StoreInv
<1>1. /\ job[j].pc = "save project" /\ ProjectFree /\ project' = job[j].copy /\ End(j, "done")
      /\ stale' = StaleAfter(job[j].copy, job[j].edit.add \union job[j].edit.del)
      /\ UNCHANGED script /\ UNCHANGED projectLock /\ UNCHANGED scriptLock
  BY DEF SaveProject, At
<1>2. project' \in SUBSET Fact /\ MeansProject(job[j].edit) /\ "done" \in StorePc
  BY <1>1, <1>t DEF StoreTyped, JobIs, WellMeant, StorePc
<1>3. PICK p \in JobIs : p.pc = "done" /\ p.edit = NoEdit /\ job' = [job EXCEPT ![j] = p]
  BY <1>1, <1>2, <1>t, EndIs
<1>4. job'[j] = p
  BY <1>3, <1>t DEF StoreTyped
<1>5. WellMeant(j)' /\ HoldsProject(j)' /\ Indexes(j)'
  BY <1>3, <1>4 DEF WellMeant, HoldsProject, Indexes, At
<1>6. \A e \in Episode : scriptLock[e] # j
  BY <1>1, NoScript
<1>7. IndexFollows'
  BY <1>1, <1>2, <1>t DEF IndexFollows, StaleAfter, MeansProject
<1>. QED BY <1>1, <1>2, <1>3, <1>5, <1>6, <1>7, JobMoves

LEMMA BeginUpdateStep ==
  ASSUME StoreInv, NEW j \in Job, BeginUpdate(j)
  PROVE  StoreInv'
<1>t. /\ StoreTyped /\ IndexFollows /\ \A i \in Job : WellMeant(i) /\ HoldsProject(i) /\ Indexes(i)
      /\ \A e \in Episode : HoldsScript(e)
  BY DEF StoreInv
<1>1. /\ job[j].pc = "begin update" /\ ProjectFree /\ UNCHANGED project /\ UNCHANGED script
      /\ UNCHANGED scriptLock /\ UNCHANGED stale
  BY DEF BeginUpdate, At
<1>2. CASE job[j].edit.needs \subseteq project
  <2>1. PICK c : c = Apply(job[j].edit, project)
    OBVIOUS
  <2>2. job[j] \in JobIs /\ MeansProject(job[j].edit)
    BY <1>1, <1>t DEF StoreTyped, WellMeant
  <2>3. c \in SUBSET Fact
    BY <2>1, <2>2, <1>t DEF Apply, JobIs, EditIs, StoreTyped
  <2>4. PICK p : p = [job[j] EXCEPT !.pc = "end update", !.copy = c]
    OBVIOUS
  <2>5. p \in JobIs /\ p.pc = "end update" /\ p.edit = job[j].edit /\ p.copy = c
    BY <2>2, <2>3, <2>4 DEF JobIs, StorePc
  <2>6. projectLock' = j /\ job' = [job EXCEPT ![j].pc = "end update", ![j].copy = c]
    BY <1>2, <2>1 DEF BeginUpdate
  <2>7. job' = [job EXCEPT ![j] = p]
    BY <2>4, <2>6
  <2>8. job' \in [Job -> JobIs] /\ job'[j] = p /\ \A i \in Job : i # j => job'[i] = job[i]
    BY <2>5, <2>7, <1>t DEF StoreTyped
  <2>9. StoreTyped'
    BY <2>8, <1>1, <1>t DEF StoreTyped
  <2>10. ASSUME NEW i \in Job PROVE WellMeant(i)' /\ HoldsProject(i)' /\ Indexes(i)'
    <3>1. CASE i = j
      BY <3>1, <2>1, <2>2, <2>5, <2>6, <2>8, <1>1 DEF WellMeant, HoldsProject, Indexes, At
    <3>2. CASE i # j
      <4>1. job'[i] = job[i] /\ WellMeant(i) /\ HoldsProject(i) /\ Indexes(i)
        BY <3>2, <2>8, <1>t
      <4>2. WellMeant(i)'
        BY <4>1 DEF WellMeant
      <4>3. HoldsProject(i)'
        BY <4>1, <1>1, TasksAssumption DEF HoldsProject, At, ProjectFree
      <4>4. Indexes(i)'
        BY <4>1, <1>1 DEF Indexes, At
      <4>. QED BY <4>2, <4>3, <4>4
    <3>. QED BY <3>1, <3>2
  <2>11. ASSUME NEW e \in Episode PROVE HoldsScript(e)'
    <3>1. HoldsScript(e) /\ scriptLock[e] \in Job \union {Nobody} /\ scriptLock[e] # j
      BY <1>1, <1>t, NoScript DEF StoreTyped
    <3>2. scriptLock[e] # Nobody => job'[scriptLock[e]] = job[scriptLock[e]]
      BY <3>1, <2>8
    <3>. QED BY <3>1, <3>2, <1>1 DEF HoldsScript
  <2>12. IndexFollows'
    BY <1>1, <1>t DEF IndexFollows
  <2>. QED BY <2>9, <2>10, <2>11, <2>12 DEF StoreInv
<1>3. CASE ~(job[j].edit.needs \subseteq project)
  <2>1. End(j, "failed") /\ UNCHANGED projectLock /\ "failed" \in StorePc
    BY <1>3 DEF BeginUpdate, StorePc
  <2>2. PICK p \in JobIs : p.pc = "failed" /\ p.edit = NoEdit /\ job' = [job EXCEPT ![j] = p]
    BY <2>1, <1>t, EndIs
  <2>. QED BY <2>1, <2>2, <1>1, JobTaken
<1>. QED BY <1>2, <1>3

LEMMA EndUpdateStep ==
  ASSUME StoreInv, NEW j \in Job, EndUpdate(j)
  PROVE  StoreInv'
<1>t. /\ StoreTyped /\ IndexFollows /\ \A i \in Job : WellMeant(i) /\ HoldsProject(i) /\ Indexes(i)
      /\ \A e \in Episode : HoldsScript(e)
  BY DEF StoreInv
<1>1. /\ job[j].pc = "end update" /\ project' = job[j].copy /\ projectLock' = Nobody /\ End(j, "done")
      /\ stale' = stale \ (job[j].edit.add \union job[j].edit.del) /\ UNCHANGED script /\ UNCHANGED scriptLock
  BY DEF EndUpdate, At
<1>2. "done" \in StorePc
  BY DEF StorePc
<1>3. PICK p \in JobIs : p.pc = "done" /\ p.edit = NoEdit /\ job' = [job EXCEPT ![j] = p]
  BY <1>1, <1>2, <1>t, EndIs
<1>4. job' \in [Job -> JobIs] /\ job'[j] = p /\ \A i \in Job : i # j => job'[i] = job[i]
  BY <1>3, <1>t DEF StoreTyped
<1>5. projectLock = j /\ project' = Apply(job[j].edit, project) /\ MeansProject(job[j].edit)
  BY <1>1, <1>t DEF HoldsProject, WellMeant, At
<1>6. StoreTyped'
  BY <1>1, <1>4, <1>t DEF StoreTyped, JobIs
<1>7. ASSUME NEW i \in Job PROVE WellMeant(i)' /\ HoldsProject(i)' /\ Indexes(i)'
  <2>1. CASE i = j
    BY <2>1, <1>3, <1>4 DEF WellMeant, HoldsProject, Indexes, At
  <2>2. CASE i # j
    <3>1. job'[i] = job[i] /\ WellMeant(i) /\ HoldsProject(i) /\ Indexes(i)
      BY <2>2, <1>4, <1>t
    <3>2. WellMeant(i)'
      BY <3>1 DEF WellMeant
    <3>3. HoldsProject(i)'
      BY <3>1, <2>2, <1>5 DEF HoldsProject, At
    <3>4. Indexes(i)'
      BY <3>1, <1>1 DEF Indexes, At
    <3>. QED BY <3>2, <3>3, <3>4
  <2>. QED BY <2>1, <2>2
<1>8. ASSUME NEW e \in Episode PROVE HoldsScript(e)'
  <2>1. HoldsScript(e) /\ scriptLock[e] \in Job \union {Nobody} /\ scriptLock[e] # j
    BY <1>1, <1>t, NoScript DEF StoreTyped
  <2>2. scriptLock[e] # Nobody => job'[scriptLock[e]] = job[scriptLock[e]]
    BY <2>1, <1>4
  <2>. QED BY <2>1, <2>2, <1>1 DEF HoldsScript
<1>9. IndexFollows'
  BY <1>1, <1>5, <1>t DEF IndexFollows, Apply, MeansProject
<1>. QED BY <1>6, <1>7, <1>8, <1>9 DEF StoreInv

LEMMA ScanStep ==
  ASSUME StoreInv, NEW j \in Job, NEW e \in Episode, Scan(j, e)
  PROVE  StoreInv'
<1>t. StoreTyped /\ IndexFollows
  BY DEF StoreInv
<1>1. /\ job[j].pc = "rest" /\ ProjectFree /\ project' = Migrated(project)
      /\ UNCHANGED script /\ UNCHANGED projectLock /\ UNCHANGED scriptLock /\ UNCHANGED stale
      /\ job' = [job EXCEPT ![j] = [Resting EXCEPT !.pc = "load index", !.e = e, !.copy = script[e]]]
  BY DEF Scan, At
<1>2. PICK c \in SUBSET Fact : c = script[e]
  BY <1>t DEF StoreTyped
<1>3. PICK p : p = [Resting EXCEPT !.pc = "load index", !.e = e, !.copy = c]
  OBVIOUS
<1>4. p \in JobIs /\ p.pc = "load index" /\ p.e = e /\ p.edit = NoEdit /\ job' = [job EXCEPT ![j] = p]
  <2>1. p \in JobIs /\ p.pc = "load index" /\ p.e = e /\ p.edit = NoEdit
    BY <1>3, RestingIs DEF JobIs, StorePc, Resting
  <2>. QED BY <2>1, <1>1, <1>2, <1>3
<1>5. job'[j] = p
  BY <1>4, <1>t DEF StoreTyped
<1>6. WellMeant(j)' /\ HoldsProject(j)' /\ Indexes(j)'
  BY <1>4, <1>5 DEF WellMeant, HoldsProject, Indexes, At
<1>7. \A f \in Episode : scriptLock[f] # j
  BY <1>1, NoScript
<1>8. project' \in SUBSET Fact /\ IndexFollows'
  BY <1>1, <1>t, FactsDiffer DEF IndexFollows, Migrated, StoreTyped
<1>. QED BY <1>1, <1>4, <1>6, <1>7, <1>8, JobMoves

--------------------------------------------------------------------------------
(* A thread is given one of the three programs, or has ended with it.          *)

Left == << project, script, projectLock, scriptLock, stale >>

LEMMA SavesScript ==
  ASSUME StoreInv, NEW j \in Job, job[j].pc \notin {"load index", "save index"}, UNCHANGED Left,
         NEW e \in Episode, NEW edit \in EditIs, job' = SaveScriptJob(j, e, edit)
  PROVE  StoreInv' /\ job'[j].pc = "load script" /\ \A i \in Job : i # j => job'[i] = job[i]
<1>t. StoreTyped
  BY DEF StoreInv
<1>1. PICK p : p = [Resting EXCEPT !.pc = "load script", !.e = e, !.edit = edit]
  OBVIOUS
<1>2. p \in JobIs /\ p.pc = "load script" /\ p.e = e /\ p.edit = edit /\ job' = [job EXCEPT ![j] = p]
  <2>1. p \in JobIs /\ p.pc = "load script" /\ p.e = e /\ p.edit = edit
    BY <1>1, RestingIs DEF JobIs, StorePc
  <2>. QED BY <2>1, <1>1 DEF SaveScriptJob, Program
<1>3. job'[j] = p /\ \A i \in Job : i # j => job'[i] = job[i]
  BY <1>2, <1>t DEF StoreTyped
<1>4. UNCHANGED project /\ UNCHANGED script /\ UNCHANGED projectLock /\ UNCHANGED scriptLock /\ UNCHANGED stale
  BY DEF Left
<1>. QED BY <1>2, <1>3, <1>4, JobTaken

LEMMA UpdatesProject ==
  ASSUME StoreInv, NEW j \in Job, job[j].pc \notin {"load index", "save index"}, UNCHANGED Left,
         NEW edit \in EditIs, MeansProject(edit), job' = UpdateProjectJob(j, edit)
  PROVE  StoreInv' /\ job'[j].pc = "begin update" /\ job'[j].edit = edit
         /\ \A i \in Job : i # j => job'[i] = job[i]
<1>t. StoreTyped
  BY DEF StoreInv
<1>1. PICK p : p = [Resting EXCEPT !.pc = "begin update", !.e = Nobody, !.edit = edit]
  OBVIOUS
<1>2. p \in JobIs /\ p.pc = "begin update" /\ p.e = Nobody /\ p.edit = edit /\ job' = [job EXCEPT ![j] = p]
  <2>1. p \in JobIs /\ p.pc = "begin update" /\ p.e = Nobody /\ p.edit = edit
    BY <1>1, RestingIs DEF JobIs, StorePc
  <2>. QED BY <2>1, <1>1 DEF UpdateProjectJob, Program
<1>3. job'[j] = p /\ \A i \in Job : i # j => job'[i] = job[i]
  BY <1>2, <1>t DEF StoreTyped
<1>4. UNCHANGED project /\ UNCHANGED script /\ UNCHANGED projectLock /\ UNCHANGED scriptLock /\ UNCHANGED stale
  BY DEF Left
<1>. QED BY <1>2, <1>3, <1>4, JobTaken

LEMMA SavesProject ==
  ASSUME StoreInv, NEW j \in Job, job[j].pc \notin {"load index", "save index"}, UNCHANGED Left,
         NEW edit \in EditIs, MeansProject(edit), NoSheets(edit), job' = SaveProjectJob(j, edit)
  PROVE  StoreInv' /\ \A i \in Job : i # j => job'[i] = job[i]
<1>t. StoreTyped
  BY DEF StoreInv
<1>1. PICK p : p = [Resting EXCEPT !.pc = "load project", !.e = Nobody, !.edit = edit]
  OBVIOUS
<1>2. p \in JobIs /\ p.pc = "load project" /\ p.e = Nobody /\ p.edit = edit /\ job' = [job EXCEPT ![j] = p]
  <2>1. p \in JobIs /\ p.pc = "load project" /\ p.e = Nobody /\ p.edit = edit
    BY <1>1, RestingIs DEF JobIs, StorePc
  <2>. QED BY <2>1, <1>1 DEF SaveProjectJob, Program
<1>3. job'[j] = p /\ \A i \in Job : i # j => job'[i] = job[i]
  BY <1>2, <1>t DEF StoreTyped
<1>4. UNCHANGED project /\ UNCHANGED script /\ UNCHANGED projectLock /\ UNCHANGED scriptLock /\ UNCHANGED stale
  BY DEF Left
<1>. QED BY <1>2, <1>3, <1>4, JobTaken

LEMMA Rests ==
  ASSUME StoreInv, NEW j \in Job, job[j].pc \notin {"load index", "save index"}, UNCHANGED Left,
         job' = [job EXCEPT ![j] = Resting]
  PROVE  StoreInv' /\ job'[j].pc = "rest" /\ \A i \in Job : i # j => job'[i] = job[i]
<1>t. StoreTyped
  BY DEF StoreInv
<1>2. PICK p \in JobIs : p.pc = "rest" /\ job' = [job EXCEPT ![j] = p]
  BY RestingIs
<1>3. job'[j] = p /\ \A i \in Job : i # j => job'[i] = job[i]
  BY <1>2, <1>t DEF StoreTyped
<1>4. UNCHANGED project /\ UNCHANGED script /\ UNCHANGED projectLock /\ UNCHANGED scriptLock /\ UNCHANGED stale
  BY DEF Left
<1>. QED BY <1>2, <1>3, <1>4, JobTaken

LEMMA StoreStays ==
  ASSUME StoreInv, UNCHANGED Left, UNCHANGED job
  PROVE  StoreInv'
<1>1. UNCHANGED project /\ UNCHANGED script /\ UNCHANGED projectLock /\ UNCHANGED scriptLock /\ UNCHANGED stale
  BY DEF Left
<1>2. StoreTyped' /\ IndexFollows'
  BY <1>1 DEF StoreInv, StoreTyped, IndexFollows
<1>3. \A i \in Job : WellMeant(i)' /\ HoldsProject(i)' /\ Indexes(i)'
  <2>. SUFFICES ASSUME NEW i \in Job PROVE WellMeant(i)' /\ HoldsProject(i)' /\ Indexes(i)'
    OBVIOUS
  <2>0. WellMeant(i) /\ HoldsProject(i) /\ Indexes(i)
    BY DEF StoreInv
  <2>1. WellMeant(i)'
    BY <2>0 DEF WellMeant
  <2>2. HoldsProject(i)'
    BY <2>0, <1>1 DEF HoldsProject, At
  <2>3. Indexes(i)'
    BY <2>0, <1>1 DEF Indexes, At
  <2>. QED BY <2>1, <2>2, <2>3
<1>4. \A e \in Episode : HoldsScript(e)'
  BY <1>1 DEF StoreInv, HoldsScript
<1>. QED BY <1>2, <1>3, <1>4 DEF StoreInv

--------------------------------------------------------------------------------
(* The edits.                                                                  *)

LEMMA ShownIs ==
  ASSUME NEW t \in Resource, t[1] \in {"storyboard", "video", "unit"}
  PROVE  Edit(Shown(t), {}, {}) \in EditIs
<1>1. t[2] \in Named
  BY FactsDiffer
<1>2. << "image", t[2] >> \in Fact /\ << "clip", t[2] >> \in Fact /\ << "unit clip", t[2] >> \in Fact
  BY <1>1 DEF Fact
<1>3. Shown(t) \in {{<< "image", t[2] >>}, {<< "clip", t[2] >>}, {<< "unit clip", t[2] >>}}
  <2>1. CASE t[1] = "storyboard"
    BY <2>1 DEF Shown
  <2>2. CASE t[1] = "video"
    BY <2>2 DEF Shown
  <2>3. CASE t[1] = "unit"
    BY <2>3 DEF Shown
  <2>. QED BY <2>1, <2>2, <2>3
<1>. QED BY <1>2, <1>3 DEF Edit, EditIs

LEMMA FactsOf ==
  ASSUME NEW a \in Named
  PROVE  << "thumb", a >> \in Fact /\ << "image", a >> \in Fact /\ << "cell", a >> \in Fact
BY DEF Fact

\* The edits of the project that are about an asset.
LEMMA AssetEdits ==
  ASSUME NEW a \in Named
  PROVE  /\ \A edit \in {Edit({Sheet(a)}, {}, {Entry(a)}), Edit({}, {}, {Entry(a)}),
                         Edit({}, {Entry(a), Sheet(a)}, {Entry(a)}), Edit({Entry(a)}, {}, {})} :
              edit \in EditIs /\ MeansProject(edit)
         /\ Edit({Sheet(a)}, {}, {Entry(a)}).add = {Sheet(a)}
<1>1. Sheet(a) \in Fact /\ Entry(a) \in Fact /\ Episode \subseteq Named
  BY FactsDiffer
<1>2. /\ Edit({Sheet(a)}, {}, {Entry(a)}) \in EditIs /\ Edit({}, {}, {Entry(a)}) \in EditIs
      /\ Edit({}, {Entry(a), Sheet(a)}, {Entry(a)}) \in EditIs /\ Edit({Entry(a)}, {}, {}) \in EditIs
  BY <1>1 DEF Edit, EditIs
<1>3. /\ \A e \in Named : Title(e) # Sheet(a) /\ Title(e) # Entry(a)
      /\ \A b \in Named : (Sheet(a) = Sheet(b) => a = b) /\ Sheet(b) # Entry(a)
  BY FactsDiffer
<1>4. MeansProject(Edit({Sheet(a)}, {}, {Entry(a)})) /\ MeansProject(Edit({}, {}, {Entry(a)}))
  BY <1>1, <1>3 DEF MeansProject, Edit
<1>5. MeansProject(Edit({}, {Entry(a), Sheet(a)}, {Entry(a)}))
  BY <1>1, <1>3 DEF MeansProject, Edit
<1>6. MeansProject(Edit({Entry(a)}, {}, {}))
  BY <1>1, <1>3 DEF MeansProject, Edit
<1>. QED BY <1>2, <1>4, <1>5, <1>6 DEF Edit

LEMMA SettingEdit ==
  /\ Edit({<< "setting", Nobody >>}, {}, {}) \in EditIs
  /\ MeansProject(Edit({<< "setting", Nobody >>}, {}, {})) /\ NoSheets(Edit({<< "setting", Nobody >>}, {}, {}))
<1>1. << "setting", Nobody >> \in Fact /\ Episode \subseteq Named
  BY FactsDiffer
<1>2. \A a \in Named : Title(a) # << "setting", Nobody >> /\ Sheet(a) # << "setting", Nobody >>
  BY FactsDiffer
<1>. QED BY <1>1, <1>2 DEF Edit, EditIs, MeansProject, NoSheets

--------------------------------------------------------------------------------
(* What a run and its thread have to do with each other.                       *)

Settles(t) == run[t].pc \notin {"finalizing", "entering"} => job[t].pc = "rest"

\* The run of a sheet enters the sheet in the project, and nothing else.
Enters(t) ==
  t[1] = "sheet" /\ Is(t, "finalizing") =>
    /\ job[t].pc \in {"begin update", "end update", "done", "failed"}
    /\ job[t].pc \in {"begin update", "end update"} => Sheet(t[2]) \in job[t].edit.add

Over(t) == Is(t, "done") \/ (Is(t, "finalizing") /\ job[t].pc = "done")

SheetIn(t) ==
  t[1] = "sheet" /\ Over(t) /\ ~run[t].anew /\ Entry(t[2]) \in project => Sheet(t[2]) \in project \union stale

TaskKept(t) == Settles(t) /\ Enters(t) /\ SheetIn(t)

DocumentsInv == StoreInv /\ \A t \in Resource : TaskKept(t)

LEMMA Threads ==
  /\ \A t \in Resource : t \in Job
  /\ \A u \in User : u \in Job /\ \A t \in Resource : u # t
  /\ Scanner \in Job /\ \A t \in Resource : Scanner # t
BY TasksAssumption

LEMMA TaskStays ==
  ASSUME NEW t \in Resource, TaskKept(t), run'[t].pc = run[t].pc, run[t].anew => run'[t].anew,
         run[t].anew \in BOOLEAN, run'[t].anew \in BOOLEAN, job'[t] = job[t],
         ~run'[t].anew /\ Entry(t[2]) \in project' => Entry(t[2]) \in project,
         Entry(t[2]) \in project' /\ Sheet(t[2]) \in project \union stale => Sheet(t[2]) \in project' \union stale'
  PROVE  TaskKept(t)'
<1>1. Settles(t)'
  BY DEF TaskKept, Settles
<1>2. Enters(t)'
  BY DEF TaskKept, Enters, Is
<1>3. SheetIn(t)'
  BY DEF TaskKept, SheetIn, Over, Is
<1>. QED BY <1>1, <1>2, <1>3 DEF TaskKept

\* The others, when t and its thread take a step that leaves the documents alone.
LEMMA OthersKeep ==
  ASSUME FilesTyped, FilesTyped', \A x \in Resource : TaskKept(x), NEW t, UNCHANGED Left,
         \A x \in Resource : x # t => /\ run'[x].pc = run[x].pc /\ run'[x].anew = run[x].anew /\ job'[x] = job[x]
  PROVE  \A x \in Resource : x # t => TaskKept(x)'
<1>. SUFFICES ASSUME NEW x \in Resource, x # t PROVE TaskKept(x)'
  OBVIOUS
<1>1. UNCHANGED project /\ UNCHANGED stale
  BY DEF Left
<1>2. run[x].anew \in BOOLEAN /\ run'[x].anew \in BOOLEAN
  BY DEF FilesTyped, Run
<1>. QED BY <1>1, <1>2, TaskStays

\* A run goes on without its document.
LEMMA GoesOn ==
  ASSUME FilesTyped, FilesTyped', DocumentsInv, NEW t \in Resource, UNCHANGED Left, UNCHANGED job,
         run[t].pc \notin {"finalizing", "entering"}, run'[t].pc \notin {"done", "finalizing", "entering"},
         \A x \in Resource : x # t => run'[x] = run[x]
  PROVE  DocumentsInv'
<1>1. StoreInv'
  BY StoreStays DEF DocumentsInv
<1>2. \A x \in Resource : x # t => TaskKept(x)'
  BY OthersKeep DEF DocumentsInv
<1>3. TaskKept(t)'
  BY DEF DocumentsInv, TaskKept, Settles, Enters, SheetIn, Over, Is
<1>. QED BY <1>1, <1>2, <1>3 DEF DocumentsInv

LEMMA StepTo ==
  ASSUME FilesTyped, NEW t \in Resource, NEW pc, Step(t, pc)
  PROVE  run'[t].pc = pc /\ run'[t].anew = run[t].anew /\ \A x \in Resource : x # t => run'[x] = run[x]
<1>0. run[t] \in Run
  BY DEF FilesTyped
<1>1. PICK v : v = [run[t] EXCEPT !.pc = pc]
  OBVIOUS
<1>2. v.pc = pc /\ v.anew = run[t].anew
  BY <1>0, <1>1 DEF Run
<1>3. run' = [run EXCEPT ![t] = v]
  BY <1>1 DEF Step
<1>. QED BY <1>2, <1>3 DEF FilesTyped

LEMMA QuietSteps ==
  ASSUME FilesTyped, FilesTyped', DocumentsInv, NEW t \in Resource,
         Track(t) \/ Generate(t) \/ Fails(t) \/ ReadFilm(t)
  PROVE  DocumentsInv'
<1>0. run[t] \in Run
  BY DEF FilesTyped
<1>1. UNCHANGED Left /\ UNCHANGED job
  <2>1. UNCHANGED store
    BY DEF Track, Generate, Fails, ReadFilm
  <2>. QED BY <2>1 DEF store, Left
<1>2. run[t].pc \notin {"finalizing", "entering"}
  BY DEF Track, Generate, Fails, ReadFilm, Is
<1>3. run'[t].pc \notin {"done", "finalizing", "entering"} /\ \A x \in Resource : x # t => run'[x] = run[x]
  <2>1. CASE Track(t)
    <3>1. Step(t, "generating")
      BY <2>1 DEF Track
    <3>. QED BY <3>1, StepTo
  <2>2. CASE Generate(t)
    <3>1. PICK v : v = [run[t] EXCEPT !.pc = "generated", !.content = made + 1, !.robbed = FALSE]
      OBVIOUS
    <3>2. run' = [run EXCEPT ![t] = v] /\ v.pc = "generated"
      <4>1. v.pc = "generated"
        BY <1>0, <3>1 DEF Run
      <4>. QED BY <4>1, <2>2, <3>1 DEF Generate
    <3>. QED BY <3>2 DEF FilesTyped
  <2>3. CASE Fails(t)
    <3>1. Step(t, "failed")
      BY <2>3 DEF Fails
    <3>. QED BY <3>1, StepTo
  <2>4. CASE ReadFilm(t)
    <3>1. PICK v : v = [run[t] EXCEPT !.pc = "extracted", !.content = file[t]]
      OBVIOUS
    <3>2. run' = [run EXCEPT ![t] = v] /\ v.pc = "extracted"
      <4>1. v.pc = "extracted"
        BY <1>0, <3>1 DEF Run
      <4>. QED BY <4>1, <2>4, <3>1 DEF ReadFilm
    <3>. QED BY <3>2 DEF FilesTyped
  <2>. QED BY <2>1, <2>2, <2>3, <2>4
<1>. QED BY <1>1, <1>2, <1>3, GoesOn

LEMMA PreparedKeeps ==
  ASSUME FilesTyped, FilesTyped', DocumentsInv, NEW t \in Resource, Prepare(t)
  PROVE  DocumentsInv'
<1>1. /\ ProjectFree /\ Settled(t) /\ project' = Migrated(project)
      /\ UNCHANGED script /\ UNCHANGED projectLock /\ UNCHANGED scriptLock /\ UNCHANGED job /\ UNCHANGED stale
  BY DEF Prepare
<1>2. StoreInv'
  BY <1>1, ProjectMigrated DEF DocumentsInv
<1>3. PICK pc \in {"failed", "prepared"} : run' = [run EXCEPT ![t] = [Waiting EXCEPT !.pc = pc]]
  BY DEF Prepare
<1>4. run'[t].pc = pc /\ \A x \in Resource : x # t => run'[x] = run[x]
  BY <1>3 DEF FilesTyped, Waiting
<1>5. TaskKept(t)'
  BY <1>1, <1>4 DEF DocumentsInv, TaskKept, Settles, Enters, SheetIn, Over, Is, Settled
<1>6. ASSUME NEW x \in Resource, x # t PROVE TaskKept(x)'
  <2>1. Sheet(x[2]) # Legacy
    BY FactsDiffer
  <2>2. run'[x] = run[x] /\ run[x].anew \in BOOLEAN /\ job'[x] = job[x] /\ TaskKept(x)
    BY <1>1, <1>4, <1>6 DEF FilesTyped, Run, DocumentsInv
  <2>3. Entry(x[2]) \in project' => Entry(x[2]) \in project
    BY <1>1 DEF Migrated
  <2>4. Sheet(x[2]) \in project \union stale => Sheet(x[2]) \in project' \union stale'
    BY <1>1, <2>1 DEF Migrated
  <2>. QED BY <2>2, <2>3, <2>4, TaskStays
<1>. QED BY <1>2, <1>5, <1>6 DEF DocumentsInv

LEMMA Finalizes ==
  ASSUME StoreInv, NEW t \in Resource, t[1] \in {"storyboard", "video", "sheet", "unit"}, job[t].pc = "rest",
         UNCHANGED Left, job' = Finalize(t)
  PROVE  /\ StoreInv' /\ \A i \in Job : i # t => job'[i] = job[i]
         /\ t[1] = "sheet" => job'[t].pc = "begin update" /\ Sheet(t[2]) \in job'[t].edit.add
<1>1. t \in Job /\ t[2] \in Named
  BY Threads, FactsDiffer
<1>2. CASE t[1] = "sheet"
  <2>1. PICK edit : edit = Edit({Sheet(t[2])}, {}, {Entry(t[2])})
    OBVIOUS
  <2>2. edit \in EditIs /\ MeansProject(edit) /\ edit.add = {Sheet(t[2])}
    BY <2>1, <1>1, AssetEdits
  <2>3. job' = UpdateProjectJob(t, edit)
    BY <2>1, <1>2 DEF Finalize
  <2>. QED BY <2>2, <2>3, <1>1, UpdatesProject
<1>3. CASE t[1] # "sheet"
  <2>1. PICK edit : edit = Edit(Shown(t), {}, {})
    OBVIOUS
  <2>2. PICK e : e = EpisodeOf[t[2]]
    OBVIOUS
  <2>3. edit \in EditIs /\ e \in Episode
    BY <2>1, <2>2, <1>3, ShownIs, TasksAssumption
  <2>4. job' = SaveScriptJob(t, e, edit)
    BY <2>1, <2>2, <1>3 DEF Finalize
  <2>. QED BY <2>3, <2>4, <1>1, <1>3, SavesScript
<1>. QED BY <1>2, <1>3

LEMMA RecordKeeps ==
  ASSUME FilesTyped, FilesTyped', DocumentsInv, NEW t \in Resource, Record(t)
  PROVE  DocumentsInv'
<1>0. run[t] \in Run /\ StoreInv /\ TaskKept(t)
  BY DEF FilesTyped, DocumentsInv
<1>1. PICK pc : pc = CASE t[1] \in {"storyboard", "video", "sheet"} -> "finalizing"
                       [] t[1] = "unit" -> "recorded"
                       [] t[1] = "grid" -> "splitting"
  OBVIOUS
<1>2. /\ t[1] \in {"storyboard", "video", "sheet"} => pc = "finalizing"
      /\ t[1] \notin {"storyboard", "video", "sheet"} => pc \in {"recorded", "splitting"}
  BY <1>1, TasksAssumption
<1>n. PICK n : n = NextNumber(t)
  OBVIOUS
<1>3. PICK v : v = [run[t] EXCEPT !.version = n, !.pc = pc]
  OBVIOUS
<1>4. v.pc = pc /\ v.anew = run[t].anew
  BY <1>0, <1>3 DEF Run
<1>5. run' = [run EXCEPT ![t] = v]
  <2>1. run' = [run EXCEPT ![t].version = n, ![t].pc = pc]
    BY <1>1, <1>n DEF Record
  <2>. QED BY <2>1, <1>3
<1>6. run'[t] = v /\ \A x \in Resource : x # t => run'[x] = run[x]
  BY <1>5 DEF FilesTyped
<1>7. job[t].pc = "rest" /\ UNCHANGED Left
  BY <1>0 DEF Record, Is, TaskKept, Settles, Left
<1>8. CASE t[1] \in {"storyboard", "video", "sheet"}
  <2>1. job' = Finalize(t)
    BY <1>8 DEF Record
  <2>2. /\ StoreInv' /\ \A i \in Job : i # t => job'[i] = job[i]
        /\ t[1] = "sheet" => job'[t].pc = "begin update" /\ Sheet(t[2]) \in job'[t].edit.add
    BY <2>1, <1>0, <1>7, <1>8, Finalizes
  <2>3. \A x \in Resource : x # t => TaskKept(x)'
    BY <2>2, <1>6, <1>7, Threads, OthersKeep DEF DocumentsInv
  <2>4. run'[t].pc = "finalizing"
    BY <1>2, <1>4, <1>6, <1>8
  <2>5. TaskKept(t)'
    BY <2>2, <2>4 DEF TaskKept, Settles, Enters, SheetIn, Over, Is
  <2>. QED BY <2>2, <2>3, <2>5 DEF DocumentsInv
<1>9. CASE t[1] \notin {"storyboard", "video", "sheet"}
  <2>1. UNCHANGED job
    BY <1>9 DEF Record
  <2>2. run[t].pc \notin {"finalizing", "entering"} /\ run'[t].pc \notin {"done", "finalizing", "entering"}
    BY <1>2, <1>4, <1>6, <1>9 DEF Record, Is
  <2>. QED BY <2>1, <2>2, <1>6, <1>7, GoesOn
<1>. QED BY <1>8, <1>9

LEMMA EndsKeep ==
  ASSUME FilesTyped, FilesTyped', DocumentsInv, NEW t \in Resource, OfKind(t), Finalized(t) \/ Entered(t)
  PROVE  DocumentsInv'
<1>0. StoreInv /\ TaskKept(t) /\ t \in Job /\ \A x \in Resource : x \in Job
  BY Threads DEF DocumentsInv
<1>1. job' = [job EXCEPT ![t] = Resting] /\ UNCHANGED Left /\ job[t].pc \in {"done", "failed"}
  BY DEF Finalized, Entered, Left, Ended
<1>2. StoreInv' /\ job'[t].pc = "rest" /\ \A i \in Job : i # t => job'[i] = job[i]
  BY <1>0, <1>1, Rests
<1>3. PICK pc : /\ Step(t, pc) /\ pc \notin {"finalizing", "entering"}
                /\ pc = "done" /\ t[1] = "sheet" => Over(t)
  <2>1. CASE Finalized(t)
    <3>1. PICK pc : pc = IF At(t, "failed") THEN "failed" ELSE IF t[1] = "video" THEN "recorded" ELSE "done"
      OBVIOUS
    <3>2. Step(t, pc) /\ Is(t, "finalizing")
      BY <2>1, <3>1 DEF Finalized
    <3>3. pc \in {"failed", "recorded", "done"} /\ (pc = "done" => job[t].pc = "done")
      BY <3>1, <1>1 DEF At
    <3>. QED BY <3>2, <3>3 DEF Over
  <2>2. CASE Entered(t)
    <3>1. PICK pc : pc = IF At(t, "failed") THEN "failed" ELSE "done"
      OBVIOUS
    <3>2. Step(t, pc) /\ t[1] # "sheet"
      BY <2>2, <3>1 DEF Entered, OfKind
    <3>. QED BY <3>1, <3>2
  <2>. QED BY <2>1, <2>2
<1>4. run'[t].pc = pc /\ run'[t].anew = run[t].anew /\ \A x \in Resource : x # t => run'[x] = run[x]
  BY <1>3, StepTo
<1>5. \A x \in Resource : x # t => TaskKept(x)'
  BY <1>0, <1>1, <1>2, <1>4, OthersKeep DEF DocumentsInv
<1>6. Settles(t)' /\ Enters(t)'
  BY <1>2, <1>3, <1>4 DEF Settles, Enters, Is
<1>7. SheetIn(t)'
  <2>1. UNCHANGED project /\ UNCHANGED stale
    BY <1>1 DEF Left
  <2>2. Over(t)' /\ t[1] = "sheet" => Over(t)
    BY <1>3, <1>4 DEF Over, Is
  <2>. QED BY <2>1, <2>2, <1>0, <1>4 DEF TaskKept, SheetIn
<1>. QED BY <1>2, <1>5, <1>6, <1>7 DEF DocumentsInv, TaskKept

\* A film is given its thumbnail, and its document is to say so.
LEMMA ThumbnailsKeep ==
  ASSUME FilesTyped, FilesTyped', DocumentsInv, NEW t \in Film, WriteThumbnail(t) \/ DropThumbnail(t)
  PROVE  DocumentsInv'
<1>0. t \in Resource /\ t[1] \in {"video", "unit"} /\ StoreInv /\ TaskKept(t) /\ t \in Job /\ t[2] \in Named
  BY Threads, FactsDiffer DEF DocumentsInv, Film, Of
<1>1. job[t].pc = "rest" /\ UNCHANGED Left
  BY <1>0 DEF WriteThumbnail, DropThumbnail, Is, TaskKept, Settles, Left
<1>2. PICK pc \in {"entering", "done"} : Step(t, pc) /\ (pc = "done" => UNCHANGED job)
  <2>1. CASE WriteThumbnail(t)
    BY <2>1 DEF WriteThumbnail
  <2>2. CASE DropThumbnail(t)
    BY <2>2 DEF DropThumbnail
  <2>. QED BY <2>1, <2>2
<1>3. run'[t].pc = pc /\ \A x \in Resource : x # t => run'[x] = run[x]
  BY <1>0, <1>2, StepTo
<1>4. StoreInv' /\ \A i \in Job : i # t => job'[i] = job[i]
  <2>1. CASE job' = Finalize(t)
    BY <2>1, <1>0, <1>1, Finalizes
  <2>2. CASE UNCHANGED job
    BY <2>2, <1>0, <1>1, StoreStays
  <2>3. CASE WriteThumbnail(t) /\ t[1] = "video"
    <3>1. PICK edit : edit = Edit({<< "thumb", t[2] >>}, {}, {})
      OBVIOUS
    <3>2. PICK e : e = EpisodeOf[t[2]]
      OBVIOUS
    <3>3. edit \in EditIs
      BY <3>1, <1>0, FactsOf DEF Edit, EditIs
    <3>4. e \in Episode
      BY <3>2, <2>3, <1>0, TasksAssumption
    <3>5. job' = SaveScriptJob(t, e, edit)
      BY <3>1, <3>2, <2>3 DEF WriteThumbnail, ThumbnailJob
    <3>. QED BY <3>3, <3>4, <3>5, <1>0, <1>1, SavesScript
  <2>. QED BY <2>1, <2>2, <2>3, <1>0 DEF WriteThumbnail, ThumbnailJob, DropThumbnail
<1>5. \A x \in Resource : x # t => TaskKept(x)'
  BY <1>1, <1>3, <1>4, Threads, OthersKeep DEF DocumentsInv
<1>6. TaskKept(t)'
  BY <1>0, <1>1, <1>2, <1>3 DEF TaskKept, Settles, Enters, SheetIn, Over, Is
<1>. QED BY <1>4, <1>5, <1>6 DEF DocumentsInv

LEMMA SplitKeeps ==
  ASSUME FilesTyped, FilesTyped', DocumentsInv, NEW t \in Resource, OfKind(t), Split(t)
  PROVE  DocumentsInv'
<1>0. StoreInv /\ TaskKept(t) /\ t \in Job /\ t[1] = "grid" /\ run[t] \in Run
  BY Threads DEF DocumentsInv, OfKind, Split, FilesTyped
<1>1. job[t].pc = "rest" /\ UNCHANGED Left
  BY <1>0 DEF Split, Is, TaskKept, Settles, Left
<1>2. ASSUME NEW x \in Resource, x # t PROVE run'[x].pc = run[x].pc /\ run'[x].anew = run[x].anew
  <2>0. run[x] \in Run
    BY DEF FilesTyped
  <2>1. run'[x] = IF x \in Cells(t) THEN [run[x] EXCEPT !.robbed = TRUE] ELSE run[x]
    BY <1>2 DEF Split
  <2>2. PICK v : v = [run[x] EXCEPT !.robbed = TRUE]
    OBVIOUS
  <2>3. v.pc = run[x].pc /\ v.anew = run[x].anew
    BY <2>0, <2>2 DEF Run
  <2>. QED BY <2>1, <2>2, <2>3
<1>3. run'[t].pc = "entering"
  <2>1. PICK v : v = [run[t] EXCEPT !.pc = "entering"]
    OBVIOUS
  <2>2. v.pc = "entering"
    BY <2>1, <1>0 DEF Run
  <2>. QED BY <2>1, <2>2 DEF Split
<1>4. StoreInv' /\ \A i \in Job : i # t => job'[i] = job[i]
  <2>1. PICK shown : shown = {<< "image", r[2] >> : r \in Cells(t)} \union {<< "cell", r[2] >> : r \in Cells(t)}
    OBVIOUS
  <2>2. shown \in SUBSET Fact
    <3>1. \A r \in Cells(t) : r[2] \in Named
      BY FactsDiffer DEF Cells, Of
    <3>. QED BY <2>1, <3>1, FactsOf
  <2>3. PICK edit : edit = Edit(shown, {}, {})
    OBVIOUS
  <2>4. edit \in EditIs
    BY <2>2, <2>3 DEF Edit, EditIs
  <2>5. PICK e : e = EpisodeOf[t[2]]
    OBVIOUS
  <2>6. e \in Episode
    BY <2>5, <1>0, TasksAssumption
  <2>7. job' = SaveScriptJob(t, e, edit)
    BY <2>1, <2>3, <2>5 DEF Split
  <2>. QED BY <2>4, <2>6, <2>7, <1>0, <1>1, SavesScript
<1>5. \A x \in Resource : x # t => TaskKept(x)'
  BY <1>1, <1>2, <1>4, Threads, OthersKeep DEF DocumentsInv
<1>6. TaskKept(t)'
  BY <1>0, <1>3 DEF TaskKept, Settles, Enters, SheetIn, Over, Is
<1>. QED BY <1>4, <1>5, <1>6 DEF DocumentsInv

LEMMA CrashKeeps ==
  ASSUME FilesTyped, FilesTyped', DocumentsInv, Crash
  PROVE  DocumentsInv'
<1>1. StoreInv'
  BY StoreCrash DEF DocumentsInv
<1>2. /\ job' = [j \in Job |-> Resting] /\ UNCHANGED project /\ stale \subseteq stale'
      /\ run' = [t \in Resource |-> IF Settled(t) THEN run[t] ELSE Waiting]
  BY DEF Crash
<1>3. ASSUME NEW t \in Resource PROVE TaskKept(t)'
  <2>1. job'[t].pc = "rest"
    BY <1>2, Threads, RestingIs
  <2>2. (run'[t] = run[t] /\ Settled(t)) \/ run'[t].pc = "idle"
    BY <1>2 DEF Waiting
  <2>3. SheetIn(t)'
    BY <2>1, <2>2, <1>2 DEF SheetIn, Over, Is, DocumentsInv, TaskKept
  <2>. QED BY <2>1, <2>2, <2>3 DEF TaskKept, Settles, Enters, Is, Settled
<1>. QED BY <1>1, <1>3 DEF DocumentsInv

--------------------------------------------------------------------------------
(* Requests, and the threads that go on.                                       *)

\* A step of a user's thread that leaves the documents and what the runs have come to alone.
LEMMA UsersKeep ==
  ASSUME FilesTyped, FilesTyped', DocumentsInv, StoreInv', NEW u \in User, UNCHANGED Left,
         \A i \in Job : i # u => job'[i] = job[i],
         \A x \in Resource : run'[x].pc = run[x].pc /\ run'[x].anew = run[x].anew
  PROVE  DocumentsInv'
<1>1. ASSUME NEW x \in Resource PROVE x # u /\ job'[x] = job[x]
  BY Threads
<1>2. \A x \in Resource : TaskKept(x)'
  BY <1>1, OthersKeep DEF DocumentsInv
<1>. QED BY <1>2 DEF DocumentsInv

LEMMA RobbedIs ==
  ASSUME FilesTyped, NEW r \in Resource, run' = Robbed(r)
  PROVE  \A x \in Resource : run'[x].pc = run[x].pc /\ run'[x].anew = run[x].anew
<1>1. PICK v : v = [run[r] EXCEPT !.robbed = TRUE]
  OBVIOUS
<1>2. run[r] \in Run
  BY DEF FilesTyped
<1>3. v.pc = run[r].pc /\ v.anew = run[r].anew
  BY <1>1, <1>2 DEF Run
<1>4. run' = [run EXCEPT ![r] = v]
  BY <1>1 DEF Robbed
<1>. QED BY <1>3, <1>4 DEF FilesTyped

\* A user's thread enters a sheet, or says in a script what is shown.
LEMMA RestoreKeeps ==
  ASSUME FilesTyped, FilesTyped', DocumentsInv, NEW u \in User, NEW r \in Resource, NEW n, Restore(u, r, n)
  PROVE  DocumentsInv'
<1>0. StoreInv /\ u \in Job /\ r[2] \in Named
  BY Threads, FactsDiffer DEF DocumentsInv
<1>1. job[u].pc = "rest" /\ UNCHANGED Left /\ run' = Robbed(r) /\ r[1] \in {"storyboard", "video", "sheet"}
  BY DEF Restore, Ask, At, Left
<1>2. StoreInv' /\ \A i \in Job : i # u => job'[i] = job[i]
  <2>1. CASE r[1] = "sheet"
    <3>1. PICK edit : edit = Edit({Sheet(r[2])}, {}, {Entry(r[2])})
      OBVIOUS
    <3>2. edit \in EditIs /\ MeansProject(edit)
      BY <3>1, <1>0, AssetEdits
    <3>3. job' = UpdateProjectJob(u, edit)
      BY <3>1, <2>1 DEF Restore
    <3>. QED BY <3>2, <3>3, <1>0, <1>1, UpdatesProject
  <2>2. CASE r[1] = "storyboard"
    <3>1. PICK edit : edit = Edit(Shown(r), {}, {})
      OBVIOUS
    <3>2. PICK e : e = EpisodeOf[r[2]]
      OBVIOUS
    <3>3. edit \in EditIs /\ e \in Episode
      BY <3>1, <3>2, <2>2, ShownIs, TasksAssumption
    <3>4. job' = SaveScriptJob(u, e, edit)
      BY <3>1, <3>2, <2>2 DEF Restore
    <3>. QED BY <3>3, <3>4, <1>0, <1>1, SavesScript
  <2>3. CASE r[1] = "video"
    <3>1. UNCHANGED job
      BY <2>3 DEF Restore
    <3>. QED BY <3>1, <1>0, <1>1, StoreStays
  <2>. QED BY <2>1, <2>2, <2>3, <1>1
<1>. QED BY <1>1, <1>2, RobbedIs, UsersKeep

LEMMA UploadKeeps ==
  ASSUME FilesTyped, FilesTyped', DocumentsInv, NEW u \in User, NEW r \in Resource, Upload(u, r)
  PROVE  DocumentsInv'
<1>0. StoreInv /\ u \in Job /\ r[2] \in Named /\ job[u] \in JobIs
  BY Threads, FactsDiffer DEF DocumentsInv, StoreInv, StoreTyped
<1>1. job[u].pc = "rest" /\ UNCHANGED Left /\ (run' = Robbed(r) \/ UNCHANGED run)
  BY DEF Upload, Ask, At, Left
<1>2. StoreInv' /\ \A i \in Job : i # u => job'[i] = job[i]
  <2>1. CASE r[1] = "sheet"
    <3>1. PICK edit : edit = Edit({Sheet(r[2])}, {}, {Entry(r[2])})
      OBVIOUS
    <3>2. edit \in EditIs /\ MeansProject(edit)
      BY <3>1, <1>0, AssetEdits
    <3>3. job' = UpdateProjectJob(u, edit)
      BY <3>1, <2>1 DEF Upload
    <3>. QED BY <3>2, <3>3, <1>0, <1>1, UpdatesProject
  <2>2. CASE r[1] # "sheet"
    <3>1. PICK p : p = [job[u] EXCEPT !.pc = "done"]
      OBVIOUS
    <3>2. p \in JobIs /\ p.pc = "done"
      BY <3>1, <1>0 DEF JobIs, StorePc
    <3>3. job' = [job EXCEPT ![u] = p]
      <4>1. job' = [job EXCEPT ![u].pc = "done"]
        BY <2>2 DEF Upload
      <4>. QED BY <4>1, <3>1
    <3>4. /\ UNCHANGED project /\ UNCHANGED script /\ UNCHANGED projectLock /\ UNCHANGED scriptLock
          /\ UNCHANGED stale
      BY <1>1 DEF Left
    <3>5. \A i \in Job : i # u => job'[i] = job[i]
      BY <3>3, <1>0 DEF StoreInv, StoreTyped
    <3>. QED BY <3>2, <3>3, <3>4, <3>5, <1>0, <1>1, JobTaken
  <2>. QED BY <2>1, <2>2
<1>3. \A x \in Resource : run'[x].pc = run[x].pc /\ run'[x].anew = run[x].anew
  BY <1>1, RobbedIs
<1>. QED BY <1>1, <1>2, <1>3, UsersKeep

LEMMA EditsKeep ==
  ASSUME FilesTyped, FilesTyped', DocumentsInv, NEW u \in User, NEW work, Edits(u, work)
  PROVE  /\ StoreInv /\ u \in Job /\ job[u].pc = "rest" /\ UNCHANGED Left /\ job' = work
         /\ StoreInv' /\ (\A i \in Job : i # u => job'[i] = job[i]) => DocumentsInv'
<1>1. StoreInv /\ u \in Job /\ job[u].pc = "rest" /\ UNCHANGED Left /\ job' = work /\ UNCHANGED run
  BY Threads DEF Edits, Ask, At, Left, DocumentsInv
<1>. QED BY <1>1, UsersKeep

LEMMA RequestKeeps ==
  ASSUME FilesTyped, FilesTyped', DocumentsInv, NEW u \in User, Request(u)
  PROVE  DocumentsInv'
<1>1. ASSUME NEW r \in Resource, (\E n \in Numbers(r) : Restore(u, r, n)) \/ Upload(u, r) PROVE DocumentsInv'
  BY <1>1, RestoreKeeps, UploadKeeps
<1>2. ASSUME UNCHANGED store, UNCHANGED run PROVE DocumentsInv'
  <2>1. UNCHANGED Left /\ UNCHANGED job
    BY <1>2 DEF store, Left
  <2>2. StoreInv'
    BY <2>1, StoreStays DEF DocumentsInv
  <2>. QED BY <1>2, <2>1, <2>2, UsersKeep
<1>3. CASE RemoveThumbnail(u)
  BY <1>2, <1>3 DEF RemoveThumbnail
<1>4. ASSUME NEW e \in Episode, EditScript(u, e) PROVE DocumentsInv'
  <2>1. PICK edit : edit = Edit({Title(e)}, {}, {})
    OBVIOUS
  <2>2. edit \in EditIs
    BY <2>1, FactsDiffer DEF Edit, EditIs
  <2>3. Edits(u, SaveScriptJob(u, e, edit))
    BY <1>4, <2>1 DEF EditScript
  <2>4. /\ StoreInv /\ u \in Job /\ job[u].pc = "rest" /\ UNCHANGED Left /\ job' = SaveScriptJob(u, e, edit)
        /\ StoreInv' /\ (\A i \in Job : i # u => job'[i] = job[i]) => DocumentsInv'
    BY <2>3, EditsKeep
  <2>. QED BY <2>2, <2>4, SavesScript
<1>5. CASE EditProject(u)
  <2>1. PICK edit : edit = Edit({<< "setting", Nobody >>}, {}, {})
    OBVIOUS
  <2>2. edit \in EditIs /\ MeansProject(edit) /\ NoSheets(edit)
    BY <2>1, SettingEdit
  <2>3. Edits(u, SaveProjectJob(u, edit))
    BY <1>5, <2>1 DEF EditProject
  <2>4. /\ StoreInv /\ u \in Job /\ job[u].pc = "rest" /\ UNCHANGED Left /\ job' = SaveProjectJob(u, edit)
        /\ StoreInv' /\ (\A i \in Job : i # u => job'[i] = job[i]) => DocumentsInv'
    BY <2>3, EditsKeep
  <2>. QED BY <2>2, <2>4, SavesProject
<1>6. ASSUME NEW t \in Of({"sheet"}), EditAsset(u, t[2]) \/ DeleteAsset(u, t[2]) \/ AddAsset(u, t[2])
      PROVE  DocumentsInv'
  <2>1. t[2] \in Named
    BY FactsDiffer DEF Of
  <2>2. PICK edit \in {Edit({}, {}, {Entry(t[2])}), Edit({}, {Entry(t[2]), Sheet(t[2])}, {Entry(t[2])}),
                       Edit({Entry(t[2])}, {}, {})} : Edits(u, UpdateProjectJob(u, edit))
    BY <1>6 DEF EditAsset, DeleteAsset, AddAsset
  <2>3. edit \in EditIs /\ MeansProject(edit)
    BY <2>1, <2>2, AssetEdits
  <2>4. /\ StoreInv /\ u \in Job /\ job[u].pc = "rest" /\ UNCHANGED Left /\ job' = UpdateProjectJob(u, edit)
        /\ StoreInv' /\ (\A i \in Job : i # u => job'[i] = job[i]) => DocumentsInv'
    BY <2>2, EditsKeep
  <2>. QED BY <2>3, <2>4, UpdatesProject
<1>7. CASE Answer(u)
  <2>1. /\ job[u].pc \in {"done", "failed"} /\ job' = [job EXCEPT ![u] = Resting] /\ UNCHANGED Left
        /\ UNCHANGED run
    BY <1>7 DEF Answer, Ended, Left
  <2>2. StoreInv' /\ \A i \in Job : i # u => job'[i] = job[i]
    BY <2>1, Threads, Rests DEF DocumentsInv
  <2>. QED BY <2>1, <2>2, UsersKeep
<1>. QED BY <1>1, <1>3, <1>4, <1>5, <1>6, <1>7 DEF Request

\* The programs, step by step.
LEMMA JobSteps ==
  ASSUME StoreInv, NEW j \in Job, JobStep(j)
  PROVE  StoreInv'
BY LoadScriptStep, WriteScriptStep, LoadIndexStep, SaveIndexStep, LoadProjectStep, SaveProjectStep,
   BeginUpdateStep, EndUpdateStep DEF JobStep

\* A step of a program is one of a thread that has one, and it is the thread that moves.
LEMMA OneMoves ==
  ASSUME StoreTyped, NEW j \in Job, JobStep(j)
  PROVE  job[j].pc \notin {"rest", "done", "failed"} /\ \A i \in Job : i # j => job'[i] = job[i]
<1>1. job[j].pc \notin {"rest", "done", "failed"}
  BY DEF JobStep, LoadScript, WriteScript, LoadIndex, SaveIndex, LoadProject, SaveProject, BeginUpdate, EndUpdate, At
<1>2. \E p : job' = [job EXCEPT ![j] = p]
  <2>1. ASSUME NEW pc, End(j, pc) PROVE \E p : job' = [job EXCEPT ![j] = p]
    BY <2>1 DEF End
  <2>2. ASSUME NEW pc, NEW c, job' = [job EXCEPT ![j].pc = pc, ![j].copy = c]
        PROVE  \E p : job' = [job EXCEPT ![j] = p]
    <3>1. PICK p : p = [job[j] EXCEPT !.pc = pc, !.copy = c]
      OBVIOUS
    <3>2. job' = [job EXCEPT ![j] = p]
      BY <2>2, <3>1
    <3>. QED BY <3>2
  <2>3. CASE LoadScript(j)
    BY <2>1, <2>2, <2>3 DEF LoadScript
  <2>4. CASE WriteScript(j)
    BY <2>4 DEF WriteScript
  <2>5. CASE LoadIndex(j)
    <3>1. PICK c : job' = [job EXCEPT ![j].pc = "save index", ![j].index = c]
      BY <2>5 DEF LoadIndex
    <3>2. PICK p : p = [job[j] EXCEPT !.pc = "save index", !.index = c]
      OBVIOUS
    <3>3. job' = [job EXCEPT ![j] = p]
      BY <3>1, <3>2
    <3>. QED BY <3>3
  <2>6. CASE SaveIndex(j)
    BY <2>1, <2>6 DEF SaveIndex
  <2>7. CASE LoadProject(j)
    BY <2>1, <2>2, <2>7 DEF LoadProject
  <2>8. CASE SaveProject(j)
    BY <2>1, <2>8 DEF SaveProject
  <2>9. CASE BeginUpdate(j)
    BY <2>1, <2>2, <2>9 DEF BeginUpdate
  <2>10. CASE EndUpdate(j)
    BY <2>1, <2>10 DEF EndUpdate
  <2>. QED BY <2>3, <2>4, <2>5, <2>6, <2>7, <2>8, <2>9, <2>10 DEF JobStep
<1>3. PICK p : job' = [job EXCEPT ![j] = p]
  BY <1>2
<1>. QED BY <1>1, <1>3 DEF StoreTyped

\* No step takes a sheet away but with its asset, or else it is said to be lost.
LEMMA SheetStays ==
  ASSUME StoreInv, NEW j \in Job, JobStep(j), NEW a \in Named,
         Entry(a) \in project', Sheet(a) \in project \union stale
  PROVE  Sheet(a) \in project' \union stale'
<1>t. StoreTyped /\ WellMeant(j) /\ HoldsProject(j)
  BY DEF StoreInv
<1>0. Sheet(a) # Legacy /\ \A e \in Named : Title(e) # Sheet(a)
  BY FactsDiffer
<1>1. CASE LoadScript(j) \/ WriteScript(j) \/ BeginUpdate(j)
  BY <1>1 DEF LoadScript, WriteScript, BeginUpdate
<1>2. CASE LoadIndex(j) \/ LoadProject(j)
  BY <1>0, <1>2 DEF LoadIndex, LoadProject, Migrated
<1>3. CASE SaveIndex(j)
  <2>1. job[j].e \in Named
    BY <1>3, <1>t, FactsDiffer DEF SaveIndex, WellMeant, At
  <2>2. Sheet(a) # Title(job[j].e)
    BY <2>1, <1>0
  <2>. QED BY <2>2, <1>3 DEF SaveIndex, StaleAfter
<1>4. CASE SaveProject(j)
  <2>1. Sheet(a) \notin job[j].edit.add \union job[j].edit.del
    BY <1>4, <1>t DEF SaveProject, WellMeant, NoSheets, At
  <2>. QED BY <2>1, <1>4 DEF SaveProject, StaleAfter
<1>5. CASE EndUpdate(j)
  <2>1. /\ project' = Apply(job[j].edit, project) /\ stale' = stale \ (job[j].edit.add \union job[j].edit.del)
        /\ (Sheet(a) \in job[j].edit.del => Entry(a) \in job[j].edit.del \ job[j].edit.add)
    BY <1>5, <1>t DEF EndUpdate, HoldsProject, WellMeant, MeansProject, At
  <2>. QED BY <2>1 DEF Apply
<1>. QED BY <1>1, <1>2, <1>3, <1>4, <1>5 DEF JobStep

\* The thread of a run enters what the run has made.
LEMMA RunEnters ==
  ASSUME StoreInv, StoreInv', FilesTyped, NEW t \in Resource, TaskKept(t), OfKind(t), JobStep(t),
         run'[t].pc = run[t].pc
  PROVE  TaskKept(t)'
<1>0. t \in Job /\ StoreTyped /\ HoldsProject(t) /\ HoldsProject(t)' /\ job[t] \in JobIs
  BY Threads DEF StoreInv, StoreTyped
<1>1. job[t].pc \notin {"rest", "done", "failed"}
  BY <1>0, OneMoves
<1>2. run[t].pc \in {"finalizing", "entering"} /\ (Is(t, "entering") => t[1] # "sheet")
  BY <1>1 DEF TaskKept, Settles, OfKind
<1>3. CASE t[1] # "sheet"
  BY <1>2, <1>3 DEF TaskKept, Settles, Enters, SheetIn, Is
<1>4. CASE t[1] = "sheet"
  <2>1. Is(t, "finalizing") /\ job[t].pc \in {"begin update", "end update"} /\ Sheet(t[2]) \in job[t].edit.add
    BY <1>1, <1>2, <1>4 DEF Is, TaskKept, Enters
  <2>2. CASE BeginUpdate(t)
    <3>1. job'[t].pc \in {"end update", "failed"} /\ (job'[t].pc = "end update" => job'[t].edit = job[t].edit)
      <4>1. CASE job[t].edit.needs \subseteq project
        <5>1. PICK c : c = Apply(job[t].edit, project)
          OBVIOUS
        <5>2. PICK p : p = [job[t] EXCEPT !.pc = "end update", !.copy = c]
          OBVIOUS
        <5>3. p.pc = "end update" /\ p.edit = job[t].edit
          BY <5>2, <1>0 DEF JobIs
        <5>4. job' = [job EXCEPT ![t] = p]
          <6>1. job' = [job EXCEPT ![t].pc = "end update", ![t].copy = c]
            BY <4>1, <5>1, <2>2 DEF BeginUpdate
          <6>. QED BY <6>1, <5>2
        <5>. QED BY <5>3, <5>4, <1>0 DEF StoreTyped
      <4>2. CASE ~(job[t].edit.needs \subseteq project)
        <5>1. End(t, "failed") /\ "failed" \in StorePc
          BY <4>2, <2>2 DEF BeginUpdate, StorePc
        <5>2. PICK p \in JobIs : p.pc = "failed" /\ p.edit = NoEdit /\ job' = [job EXCEPT ![t] = p]
          BY <5>1, <1>0, EndIs
        <5>. QED BY <5>2, <1>0 DEF StoreTyped
      <4>. QED BY <4>1, <4>2
    <3>. QED BY <3>1, <2>1, <1>2 DEF TaskKept, Settles, Enters, SheetIn, Over, Is
  <2>3. CASE EndUpdate(t)
    <3>1. End(t, "done") /\ "done" \in StorePc
      BY <2>3 DEF EndUpdate, StorePc
    <3>2. PICK p \in JobIs : p.pc = "done" /\ p.edit = NoEdit /\ job' = [job EXCEPT ![t] = p]
      BY <3>1, <1>0, EndIs
    <3>3. job'[t].pc = "done"
      BY <3>2, <1>0 DEF StoreTyped
    <3>4. Sheet(t[2]) \in project'
      <4>1. project' = Apply(job[t].edit, project)
        BY <2>3, <1>0 DEF EndUpdate, HoldsProject
      <4>. QED BY <4>1, <2>1 DEF Apply
    <3>. QED BY <3>3, <3>4, <2>1, <1>2 DEF TaskKept, Settles, Enters, SheetIn, Is
  <2>. QED BY <2>1, <2>2, <2>3 DEF JobStep, LoadScript, WriteScript, LoadIndex, SaveIndex, LoadProject,
         SaveProject, At
<1>. QED BY <1>3, <1>4

LEMMA DocumentKeeps ==
  ASSUME FilesInv, FilesTyped', DocumentsInv, Documents
  PROVE  DocumentsInv'
<1>t. FilesTyped /\ StoreInv /\ StoreTyped /\ \A t \in Resource : OfKind(t) /\ TaskKept(t)
  BY DEF FilesInv, FileKept, DocumentsInv, StoreInv
<1>r. \A t \in Resource : /\ run'[t].pc = run[t].pc /\ run'[t].anew = (run[t].anew \/ t \in Come)
                          /\ run[t].anew \in BOOLEAN /\ run'[t].anew \in BOOLEAN
  <2>0. PICK S : S = Come
    OBVIOUS
  <2>1. run' = [t \in Resource |-> IF t \in S THEN [run[t] EXCEPT !.anew = TRUE] ELSE run[t]]
    BY <2>0 DEF Documents
  <2>2. \A t \in Resource : run'[t].pc = run[t].pc /\ run'[t].anew = (run[t].anew \/ t \in S)
    BY <2>1, <1>t, RunsMarked
  <2>. QED BY <2>0, <2>2, <1>t DEF FilesTyped, Run
<1>1. ASSUME StoreInv', NEW t \in Resource, job'[t] = job[t],
             Entry(t[2]) \in project' /\ Sheet(t[2]) \in project \union stale =>
               Sheet(t[2]) \in project' \union stale'
      PROVE  TaskKept(t)'
  <2>1. t[1] # "sheet" \/ (~run'[t].anew /\ Entry(t[2]) \in project' => Entry(t[2]) \in project)
    <3>1. t[1] = "sheet" /\ Entry(t[2]) \in project' \ project => t \in Come
      BY DEF Come, Of
    <3>. QED BY <3>1, <1>r
  <2>2. CASE t[1] = "sheet"
    <3>1. ~run'[t].anew /\ Entry(t[2]) \in project' => Entry(t[2]) \in project
      BY <2>1, <2>2
    <3>2. /\ TaskKept(t) /\ run'[t].pc = run[t].pc /\ (run[t].anew => run'[t].anew)
          /\ run[t].anew \in BOOLEAN /\ run'[t].anew \in BOOLEAN
      BY <1>r, <1>t
    <3>. QED BY <3>1, <3>2, <1>1, TaskStays
  <2>3. CASE t[1] # "sheet"
    BY <2>3, <1>1, <1>r, <1>t DEF TaskKept, Settles, Enters, SheetIn
  <2>. QED BY <2>2, <2>3
<1>2. ASSUME NEW j \in Job, JobStep(j) PROVE DocumentsInv'
  <2>1. StoreInv' /\ \A i \in Job : i # j => job'[i] = job[i]
    BY <1>2, <1>t, JobSteps, OneMoves
  <2>2. ASSUME NEW t \in Resource PROVE TaskKept(t)'
    <3>1. CASE t = j
      BY <3>1, <2>1, <1>2, <1>t, <1>r, RunEnters
    <3>2. CASE t # j
      <4>1. t \in Job /\ t[2] \in Named
        BY Threads, FactsDiffer
      <4>2. Entry(t[2]) \in project' /\ Sheet(t[2]) \in project \union stale =>
              Sheet(t[2]) \in project' \union stale'
        BY <4>1, <1>2, <1>t, SheetStays
      <4>. QED BY <3>2, <4>1, <4>2, <2>1, <1>1
    <3>. QED BY <3>1, <3>2
  <2>. QED BY <2>1, <2>2 DEF DocumentsInv
<1>3. ASSUME NEW e \in Episode, Scan(Scanner, e) PROVE DocumentsInv'
  <2>1. StoreInv'
    BY <1>3, <1>t, Threads, ScanStep
  <2>2. /\ project' = Migrated(project) /\ UNCHANGED stale
        /\ job' = [job EXCEPT ![Scanner] = [Resting EXCEPT !.pc = "load index", !.e = e, !.copy = script[e]]]
    BY <1>3 DEF Scan
  <2>3. ASSUME NEW t \in Resource PROVE TaskKept(t)'
    <3>1. t \in Job /\ t # Scanner /\ Sheet(t[2]) # Legacy
      BY Threads, FactsDiffer
    <3>2. job'[t] = job[t]
      BY <3>1, <2>2, <1>t DEF StoreTyped
    <3>3. Sheet(t[2]) \in project \union stale => Sheet(t[2]) \in project' \union stale'
      BY <3>1, <2>2 DEF Migrated
    <3>. QED BY <3>2, <3>3, <2>1, <1>1
  <2>. QED BY <2>1, <2>3 DEF DocumentsInv
<1>4. ASSUME Ended(Scanner), job' = [job EXCEPT ![Scanner] = Resting],
             UNCHANGED << project, script, projectLock, scriptLock, stale >>
      PROVE  DocumentsInv'
  <2>1. UNCHANGED Left /\ UNCHANGED project /\ UNCHANGED stale /\ job[Scanner].pc \in {"done", "failed"}
    BY <1>4 DEF Left, Ended
  <2>2. StoreInv' /\ \A i \in Job : i # Scanner => job'[i] = job[i]
    BY <2>1, <1>4, <1>t, Threads, Rests
  <2>3. ASSUME NEW t \in Resource PROVE TaskKept(t)'
    <3>1. t \in Job /\ t # Scanner
      BY Threads
    <3>. QED BY <3>1, <2>1, <2>2, <1>1
  <2>. QED BY <2>2, <2>3 DEF DocumentsInv
<1>. QED BY <1>2, <1>3, <1>4 DEF Documents

LEMMA DocumentsStep == FilesInv /\ DocumentsInv /\ [Next]_files => DocumentsInv'
<1>. SUFFICES ASSUME FilesInv, DocumentsInv, [Next]_files PROVE DocumentsInv'
  OBVIOUS
<1>t. FilesTyped /\ FilesTyped' /\ \A t \in Resource : OfKind(t)
  BY FilesStep DEF FilesInv, FileKept
<1>1. ASSUME NEW t \in Resource, Executor(t) PROVE DocumentsInv'
  BY <1>1, <1>t, PreparedKeeps, QuietSteps, RecordKeeps, EndsKeep, ThumbnailsKeep, SplitKeeps DEF Executor
<1>2. ASSUME NEW u \in User, Request(u) PROVE DocumentsInv'
  BY <1>2, <1>t, RequestKeeps
<1>3. CASE Documents
  BY <1>3, <1>t, DocumentKeeps
<1>4. CASE Crash
  BY <1>4, <1>t, CrashKeeps
<1>5. CASE UNCHANGED files
  <2>1. UNCHANGED Left /\ UNCHANGED job /\ UNCHANGED run
    BY <1>5 DEF files, store, Left
  <2>2. StoreInv'
    BY <2>1, StoreStays DEF DocumentsInv
  <2>3. UNCHANGED project /\ UNCHANGED stale
    BY <2>1 DEF Left
  <2>4. ASSUME NEW t \in Resource PROVE TaskKept(t)'
    <3>1. run[t].anew \in BOOLEAN /\ TaskKept(t)
      BY <1>t DEF FilesTyped, Run, DocumentsInv
    <3>2. /\ run'[t].pc = run[t].pc /\ (run[t].anew => run'[t].anew) /\ run'[t].anew \in BOOLEAN
          /\ job'[t] = job[t]
      BY <2>1, <3>1
    <3>. QED BY <2>3, <3>1, <3>2, TaskStays
  <2>. QED BY <2>2, <2>4 DEF DocumentsInv
<1>. QED BY <1>1, <1>2, <1>3, <1>4, <1>5 DEF Next

LEMMA InitDocuments == Init => DocumentsInv
<1>. SUFFICES ASSUME Init PROVE DocumentsInv
  OBVIOUS
<1>1. run = [t \in Resource |-> Waiting] /\ job = [j \in Job |-> Resting]
  BY DEF Init, StoreInit
<1>2. \A t \in Resource : run[t].pc = "idle" /\ job[t].pc = "rest"
  BY <1>1, Threads, RestingIs DEF Waiting
<1>3. \A t \in Resource : TaskKept(t)
  BY <1>2 DEF TaskKept, Settles, Enters, SheetIn, Over, Is
<1>. QED BY <1>3, InitStore DEF DocumentsInv

LEMMA DocumentsTrue == DocumentsInv => DocumentsKept
<1>. SUFFICES ASSUME DocumentsInv PROVE DocumentsKept
  OBVIOUS
<1>1. IndexFollows
  BY DEF DocumentsInv, StoreInv
<1>2. ASSUME NEW t \in Of({"sheet"}), Sheeted(t) PROVE Sheet(t[2]) \in project \union stale
  <2>1. t \in Resource /\ t[1] = "sheet"
    BY DEF Of
  <2>. QED BY <2>1, <1>2 DEF DocumentsInv, TaskKept, SheetIn, Over, Sheeted
<1>. QED BY <1>1, <1>2 DEF DocumentsKept, SheetsKept

\* What project.json says of sheets and of scripts is what was made and written, but for
\* what a save of a document loaded earlier took back (project_manager.py:650-700, 1155-1228).
THEOREM DocumentsStayKept == Spec => []DocumentsKept
<1>1. Init => FilesInv /\ DocumentsInv
  BY InitFiles, InitDocuments
<1>2. (FilesInv /\ DocumentsInv) /\ [Next]_files => (FilesInv /\ DocumentsInv)'
  BY FilesStep, DocumentsStep
<1>3. FilesInv /\ DocumentsInv => DocumentsKept
  BY DocumentsTrue
<1>. QED BY <1>1, <1>2, <1>3, PTL DEF Spec
===================================================================================
