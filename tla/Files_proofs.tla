------------------------------ MODULE Files_proofs ------------------------------
(***************************************************************************)
(* What holds of the files of a project for any stems, resources, requests *)
(* and bounds.                                                             *)
(***************************************************************************)
EXTENDS SourceFiles, AssetLibrary, BatchClient, TaskQueue_proofs, Numbers_proofs

--------------------------------------------------------------------------------
(* Source texts.                                                             *)

JobPc == {"away", "done", "purge", "open", "text", "backup", "original", "originals"}
Job == [pc : JobPc, op : {"none", "upload", "replace", "edit", "delete"}, stem : Stem \union {NotAt},
        ext : Ext, keeps : BOOLEAN, content : Nat]

SourceTyped ==
  /\ texts \in [Stem -> Int]
  /\ raw \in [Stem -> [Ext -> Int]]
  /\ legacy \subseteq Stem
  /\ boot \in [pc : {"look", "copy", "text", "convert", "open"}, stem : Stem \union {NotAt}]
  /\ serving \in [SourceRequest -> Job]
  /\ contents \in Nat
  /\ lossy \subseteq 1 .. contents

\* The conversion has a text in hand between two of them, and no request runs before its end.
BootInOrder ==
  /\ boot.pc \in {"copy", "text", "convert"} <=> boot.stem # NotAt
  /\ ~ Booted => \A r \in SourceRequest : ~ Working(r)
  /\ \A r \in SourceRequest : Working(r) => serving[r].stem \in Stem

\* Overlapping requests make a stem mixed.
OneAtStem ==
  \A q, r \in SourceRequest :
    Working(q) /\ Working(r) /\ serving[q].stem = serving[r].stem /\ serving[r].stem \notin mixed => q = r

\* A content belongs to one stem, whose text has it or whose requests are about to write it.
Carries(s, k) ==
  k # 0 /\ (texts[s] \in {k, -k} \/ \E r \in SourceRequest : serving[r].stem = s /\ serving[r].content = k)
ContentsOwned ==
  \A s \in Stem, k \in Nat : Carries(s, k) => k <= contents /\ \A t \in Stem : Carries(t, k) => s = t

FitsTo(s, k) == Listed(s) = IF k \in lossy THEN k ELSE 0

AtRest(s) == ~ \E r \in SourceRequest : Working(r) /\ serving[r].stem = s
Resting(s) ==
  IF texts[s] = 0 THEN raw[s] = NoOriginal
  ELSE texts[s] > 0 /\ FitsTo(s, texts[s]) /\ (~ Booted /\ s \in legacy => raw[s] = NoOriginal)

\* How far each request, and the conversion, has come with its stem.
Uploading(r) ==
  LET j == serving[r]
      s == j.stem IN
  /\ j.content # 0 /\ (j.keeps <=> j.content \in lossy)
  /\ j.pc \in {"purge", "open", "text", "backup", "original"}
  /\ j.pc = "purge" => j.op = "replace" /\ texts[s] >= 0
  /\ j.pc \in {"open", "text", "backup"} => raw[s] = NoOriginal
  /\ j.pc = "open" => texts[s] >= 0 /\ (j.op = "upload" => texts[s] = 0)
  /\ j.pc = "text" => texts[s] = -j.content
  /\ j.pc \in {"backup", "original"} => texts[s] = j.content /\ j.keeps
  /\ j.pc = "original" => raw[s] = [NoOriginal EXCEPT ![j.ext] = -j.content]

Editing(r) ==
  LET j == serving[r]
      s == j.stem IN
  /\ j.content # 0 /\ j.pc \in {"open", "text"} /\ FitsTo(s, j.content)
  /\ j.pc = "open" => texts[s] \in {0, j.content}
  /\ j.pc = "text" => texts[s] = -j.content

Deleting(r) == serving[r].pc = "originals" /\ texts[serving[r].stem] = 0

Converting(s) ==
  /\ boot.pc \in {"copy", "text"} => texts[s] > 0 /\ texts[s] \notin lossy
  /\ boot.pc = "copy" => raw[s] = [NoOriginal EXCEPT !["txt"] = -texts[s]]
  /\ boot.pc = "text" => raw[s] = [NoOriginal EXCEPT !["txt"] = texts[s]]
  /\ boot.pc = "convert" => texts[s] < 0 /\ raw[s] = [NoOriginal EXCEPT !["txt"] = -texts[s]]

StemsFollowed ==
  \A s \in Stem \ mixed :
    /\ AtRest(s) /\ boot.stem # s => Resting(s)
    /\ boot.stem = s => Converting(s)
    /\ \A r \in SourceRequest : Working(r) /\ serving[r].stem = s =>
         /\ serving[r].op \in {"upload", "replace"} => Uploading(r)
         /\ serving[r].op = "edit" => Editing(r)
         /\ serving[r].op = "delete" => Deleting(r)
         /\ serving[r].op # "none"

SourceInv ==
  /\ SourceTyped /\ BootInOrder /\ OneAtStem /\ ContentsOwned /\ StemsFollowed /\ AskedToReplace

LEMMA NotAtApart == NotAt \notin Stem
<1>1. ASSUME NotAt \in Stem PROVE FALSE
  <2>1. PICK b \in Base, n \in 0 .. MaxSuffix : NotAt = << b, n >>
    BY <1>1 DEF Stem
  <2>2. Len(<< b, n >>) = 2 /\ Len(<< >>) = 0
    OBVIOUS
  <2>. QED BY <2>1, <2>2 DEF NotAt
<1>. QED BY <1>1

LEMMA OwnContents ==
  ASSUME SourceInv, NEW s \in Stem
  PROVE  /\ texts[s] \in Int /\ texts[s] <= contents /\ -texts[s] <= contents
         /\ \A r \in SourceRequest : serving[r].stem = s => serving[r].content <= contents
<1>1. SourceTyped /\ ContentsOwned /\ contents \in Nat
  BY DEF SourceInv, SourceTyped
<1>2. texts[s] \in Int
  BY <1>1 DEF SourceTyped
<1>3. texts[s] <= contents
  <2>1. CASE texts[s] > 0
    BY <1>1, <1>2, <2>1 DEF ContentsOwned, Carries
  <2>. QED BY <1>1, <1>2, <2>1
<1>4. -texts[s] <= contents
  <2>1. CASE texts[s] < 0
    <3>1. -texts[s] \in Nat /\ -texts[s] # 0 /\ texts[s] = -(-texts[s])
      BY <1>2, <2>1
    <3>. QED BY <1>1, <3>1 DEF ContentsOwned, Carries
  <2>. QED BY <1>1, <1>2, <2>1
<1>5. ASSUME NEW r \in SourceRequest, serving[r].stem = s PROVE serving[r].content <= contents
  <2>1. serving[r].content \in Nat
    BY <1>1 DEF SourceTyped, Job
  <2>. QED BY <1>1, <1>5, <2>1 DEF ContentsOwned, Carries
<1>. QED BY <1>2, <1>3, <1>4, <1>5

\* What a request does to its stem leaves the other stems alone.
Shaped(r) ==
  /\ serving[r].op \in {"upload", "replace"} => Uploading(r)
  /\ serving[r].op = "edit" => Editing(r)
  /\ serving[r].op = "delete" => Deleting(r)
  /\ serving[r].op # "none"

LEMMA OneRequest ==
  ASSUME SourceInv, SourceTyped', Booted, UNCHANGED boot, NEW r \in SourceRequest, NEW s \in Stem,
         serving'[r].stem = s, \A q \in SourceRequest : q # r => serving'[q] = serving[q],
         \A t \in Stem : t # s => texts'[t] = texts[t] /\ raw'[t] = raw[t],
         contents' >= contents, \A k \in Int : k <= contents => (k \in lossy' <=> k \in lossy),
         mixed \subseteq mixed',
         \/ Working(r) /\ serving[r].stem = s
         \/ ~ Working(r) /\ mixed \union Overlap(s) \subseteq mixed',
         \/ serving'[r].content = 0 \/ Carries(s, serving'[r].content)
         \/ serving'[r].content > contents /\ serving'[r].content <= contents',
         texts'[s] \in {0, texts[s], serving'[r].content, -serving'[r].content},
         s \notin mixed' /\ Working(r)' => Shaped(r)',
         s \notin mixed' /\ ~ Working(r)' => Resting(s)',
         overrun' \subseteq mixed'
  PROVE  SourceInv'
<1>t. SourceTyped /\ SourceTyped' /\ BootInOrder /\ ContentsOwned
  BY DEF SourceInv
<1>b. Booted' /\ boot.stem = NotAt /\ boot'.stem = NotAt
  BY DEF Booted, SourceInv, BootInOrder
<1>w. \A q \in SourceRequest : q # r => Working(q)' = Working(q)
  BY DEF Working
<1>1. BootInOrder'
  BY <1>t, <1>b, <1>w DEF SourceInv, BootInOrder
<1>2. \A q \in SourceRequest : q # r /\ Working(q) /\ serving[q].stem = s => s \in mixed'
  BY DEF SourceInv, OneAtStem, Overlap
<1>3. OneAtStem'
  BY <1>w, <1>2 DEF SourceInv, OneAtStem
<1>4. ContentsOwned'
  <2>1. ASSUME NEW t \in Stem, t # s, NEW k \in Nat, Carries(t, k)' PROVE Carries(t, k)
    <3>1. k # 0 /\ (texts'[t] \in {k, -k} \/ \E q \in SourceRequest : serving'[q].stem = t /\ serving'[q].content = k)
      BY <2>1 DEF Carries
    <3>. QED BY <2>1, <3>1 DEF Carries
  <2>2. ASSUME NEW k \in Nat, Carries(s, k)'
        PROVE  Carries(s, k) \/ (k > contents /\ k <= contents')
    <3>1. k # 0 /\ (texts'[s] \in {k, -k} \/ \E q \in SourceRequest : serving'[q].stem = s /\ serving'[q].content = k)
      BY <2>2 DEF Carries
    <3>t. texts[s] \in Int /\ serving'[r].content \in Nat /\ contents \in Nat /\ contents' \in Nat
      BY <1>t DEF SourceTyped, Job
    <3>2. CASE k = serving'[r].content
      BY <3>1, <3>2
    <3>3. CASE \E q \in SourceRequest : q # r /\ serving'[q].stem = s /\ serving'[q].content = k
      BY <3>1, <3>3 DEF Carries
    <3>4. CASE texts'[s] \in {k, -k} /\ k # serving'[r].content
      <4>1. texts'[s] = texts[s]
        BY <3>1, <3>4, <3>t
      <4>. QED BY <3>1, <3>4, <4>1 DEF Carries
    <3>. QED BY <3>1, <3>2, <3>3, <3>4
  <2>3. \A t \in Stem, k \in Nat : Carries(t, k) => k <= contents
    BY <1>t DEF ContentsOwned
  <2>4. ASSUME NEW t \in Stem, NEW u \in Stem, NEW k \in Nat, Carries(t, k)', Carries(u, k)' PROVE t = u
    <3>t. contents \in Nat
      BY <1>t DEF SourceTyped
    <3>1. CASE t # s /\ u # s
      BY <2>1, <2>4, <3>1, <1>t DEF ContentsOwned
    <3>2. CASE t = s /\ u # s
      <4>1. Carries(u, k) /\ k <= contents
        BY <2>1, <2>3, <2>4, <3>2
      <4>2. Carries(s, k)
        BY <2>2, <2>4, <3>2, <4>1, <3>t
      <4>. QED BY <4>1, <4>2, <3>2, <1>t DEF ContentsOwned
    <3>3. CASE t # s /\ u = s
      <4>1. Carries(t, k) /\ k <= contents
        BY <2>1, <2>3, <2>4, <3>3
      <4>2. Carries(s, k)
        BY <2>2, <2>4, <3>3, <4>1, <3>t
      <4>. QED BY <4>1, <4>2, <3>3, <1>t DEF ContentsOwned
    <3>. QED BY <3>1, <3>2, <3>3
  <2>5. ASSUME NEW t \in Stem, NEW k \in Nat, Carries(t, k)' PROVE k <= contents'
    <3>t. contents \in Nat /\ contents' \in Nat
      BY <1>t DEF SourceTyped
    <3>1. Carries(t, k) \/ k <= contents'
      BY <2>1, <2>2, <2>5
    <3>2. Carries(t, k) => k <= contents
      BY <2>3
    <3>. QED BY <3>1, <3>2, <3>t
  <2>. QED BY <2>4, <2>5 DEF ContentsOwned
<1>5. StemsFollowed'
  <2>1. ASSUME NEW t \in Stem, t # s, t \notin mixed'
        PROVE  /\ AtRest(t)' => Resting(t)'
               /\ \A q \in SourceRequest : Working(q)' /\ serving'[q].stem = t => Shaped(q)'
    <3>t. texts'[t] = texts[t] /\ raw'[t] = raw[t] /\ texts[t] \in Int /\ texts[t] <= contents /\ t \notin mixed
      BY <2>1, OwnContents
    <3>l. Listed(t)' = Listed(t) /\ (texts[t] \in lossy' <=> texts[t] \in lossy)
      BY <3>t DEF Listed
    <3>1. AtRest(t)' => AtRest(t)
      BY <2>1, <1>w DEF AtRest, Working
    <3>2. AtRest(t)' => Resting(t)'
      <4>1. AtRest(t)' => Resting(t)
        BY <3>1, <3>t, <1>b, NotAtApart DEF SourceInv, StemsFollowed
      <4>. QED BY <4>1, <3>t, <3>l, <1>b DEF Resting, FitsTo
    <3>3. ASSUME NEW q \in SourceRequest, Working(q)', serving'[q].stem = t PROVE Shaped(q)'
      <4>1. q # r /\ serving'[q] = serving[q] /\ Working(q) /\ serving[q].stem = t
        BY <2>1, <3>3, <1>w
      <4>2. Shaped(q)
        BY <3>t, <4>1 DEF SourceInv, StemsFollowed, Shaped
      <4>3. serving[q].content \in lossy' <=> serving[q].content \in lossy
        BY <4>1, <1>t, OwnContents DEF SourceTyped, Job
      <4>. QED BY <4>1, <4>2, <4>3, <3>t, <3>l DEF Shaped, Uploading, Editing, Deleting, FitsTo
    <3>. QED BY <3>2, <3>3
  <2>2. ASSUME s \notin mixed'
        PROVE  /\ AtRest(s)' => Resting(s)'
               /\ \A q \in SourceRequest : Working(q)' /\ serving'[q].stem = s => Shaped(q)'
    <3>1. \A q \in SourceRequest : Working(q)' /\ serving'[q].stem = s => q = r
      BY <2>2, <1>2, <1>w
    <3>2. AtRest(s)' => ~ Working(r)'
      BY DEF AtRest
    <3>. QED BY <2>2, <3>1, <3>2
  <2>. QED BY <2>1, <2>2, <1>b, NotAtApart DEF StemsFollowed, Shaped
<1>. QED BY <1>t, <1>1, <1>3, <1>4, <1>5 DEF SourceInv, AskedToReplace

LEMMA StemSettled ==
  ASSUME SourceInv, Booted, NEW s \in Stem, s \notin mixed, AtRest(s)
  PROVE  Resting(s)
BY NotAtApart DEF SourceInv, StemsFollowed, BootInOrder, Booted

LEMMA AtWork ==
  ASSUME SourceInv, NEW r \in SourceRequest, Working(r)
  PROVE  /\ Booted /\ serving[r].stem \in Stem /\ serving[r] \in Job
         /\ (serving[r].stem \notin mixed => Shaped(r))
BY DEF SourceInv, BootInOrder, StemsFollowed, Shaped, SourceTyped

LEMMA BeginUploadStep == ASSUME SourceInv, NEW r \in SourceRequest, BeginUpload(r) PROVE SourceInv'
<1>t. SourceTyped /\ contents \in Nat /\ serving[r].pc = "away" /\ ~ Working(r) /\ Booted
  BY DEF SourceInv, SourceTyped, BeginUpload, InJob, Working
<1>0. PICK b \in Base, ext \in Ext, keeps \in BOOLEAN, policy \in {"fail", "replace", "rename"} :
        /\ \E target \in Targets(<< b, 0 >>, ext, policy) :
             /\ serving' = [serving EXCEPT ![r] = UploadJob(target, ext, keeps, policy)]
             /\ mixed' = mixed \union Overlap(target)
        /\ lossy' = IF keeps THEN lossy \union {contents + 1} ELSE lossy
  BY DEF BeginUpload
<1>1. PICK target \in Targets(<< b, 0 >>, ext, policy) :
        /\ serving' = [serving EXCEPT ![r] = UploadJob(target, ext, keeps, policy)]
        /\ mixed' = mixed \union Overlap(target)
  BY <1>0
<1>2. PICK s \in Stem : s = << b, 0 >>
  <2>1. 0 \in 0 .. MaxSuffix
    BY SourceAssumption
  <2>. QED BY <2>1 DEF Stem
<1>3. mixed' = mixed \union Overlap(target)
  BY <1>1
<1>4. target \in Stem /\ (policy # "replace" => ~ Conflict(target, ext))
  <2>1. target \in Targets(s, ext, policy)
    BY <1>1, <1>2
  <2>2. \A t \in Suggested(s, ext) : t \in Stem /\ ~ Conflict(t, ext)
    <3>1. s[1] \in Base
      BY <1>2
    <3>2. \A n \in 1 .. MaxSuffix : n \in 0 .. MaxSuffix
      BY SourceAssumption
    <3>3. \A n \in 1 .. MaxSuffix : << s[1], n >> \in Stem
      BY <3>1, <3>2 DEF Stem
    <3>. QED BY <3>3 DEF Suggested
  <2>. QED BY <2>1, <2>2, <1>2 DEF Targets
<1>. DEFINE j == UploadJob(target, ext, keeps, policy)
<1>5. /\ j \in Job /\ j.stem = target /\ j.content = contents + 1 /\ j.keeps = keeps
      /\ j.op = (IF policy = "replace" THEN "replace" ELSE "upload")
      /\ j.pc = (IF policy = "replace" /\ Conflict(target, ext) THEN "purge" ELSE "open")
  BY <1>t, <1>4 DEF Job, JobPc, UploadJob
<1>6. serving' = [serving EXCEPT ![r] = j]
  BY <1>1
<1>. HIDE DEF j
<1>7. serving' \in [SourceRequest -> Job] /\ serving'[r] = j /\ \A q \in SourceRequest : q # r => serving'[q] = serving[q]
  BY <1>t, <1>5, <1>6 DEF SourceTyped
<1>8. /\ UNCHANGED << texts, raw, legacy, boot, overrun >> /\ contents' = contents + 1
      /\ lossy' = IF keeps THEN lossy \union {contents + 1} ELSE lossy
  BY <1>0 DEF BeginUpload
<1>9. SourceTyped'
  BY <1>t, <1>7, <1>8 DEF SourceTyped
<1>10. /\ \A k \in Int : k <= contents => (k \in lossy' <=> k \in lossy)
       /\ keeps <=> contents + 1 \in lossy'
  BY <1>t, <1>8 DEF SourceTyped
<1>11. ASSUME target \notin mixed' PROVE Shaped(r)'
  <2>1. target \notin mixed /\ AtRest(target)
    BY <1>3, <1>11 DEF Overlap, AtRest
  <2>2. Resting(target) /\ texts[target] \in Int /\ raw[target] \in [Ext -> Int]
    BY <1>t, <1>4, <2>1, StemSettled DEF SourceTyped
  <2>3. texts[target] = 0 => raw[target] = NoOriginal
    BY <2>2 DEF Resting
  <2>4. texts[target] >= 0
    BY <2>2 DEF Resting
  <2>5. j.pc = "open" => texts[target] = 0
    BY <1>4, <1>5, <2>2 DEF Conflict
  <2>6. Uploading(r)'
    BY <1>t, <1>5, <1>7, <1>8, <1>10, <2>3, <2>4, <2>5 DEF Uploading
  <2>. QED BY <1>5, <1>7, <2>6 DEF Shaped
<1>12. Working(r)'
  BY <1>5, <1>7 DEF Working
<1>13. overrun' \subseteq mixed'
  BY <1>3, <1>8 DEF SourceInv, AskedToReplace
<1>. QED BY <1>t, <1>3, <1>4, <1>5, <1>7, <1>8, <1>9, <1>10, <1>11, <1>12, <1>13, OneRequest

--------------------------------------------------------------------------------

LEMMA JobMoves ==
  ASSUME SourceTyped, NEW r \in SourceRequest, NEW pc \in JobPc, serving' = Serves(r, pc)
  PROVE  /\ serving' \in [SourceRequest -> Job] /\ serving'[r].pc = pc
         /\ serving'[r].op = serving[r].op /\ serving'[r].stem = serving[r].stem
         /\ serving'[r].ext = serving[r].ext /\ serving'[r].keeps = serving[r].keeps
         /\ serving'[r].content = serving[r].content
         /\ \A q \in SourceRequest : q # r => serving'[q] = serving[q]
<1>. PICK j \in Job : j = serving[r]
  BY DEF SourceTyped
<1>. DEFINE n == [j EXCEPT !.pc = pc]
<1>1. n \in Job /\ n.pc = pc /\ n.op = j.op /\ n.stem = j.stem /\ n.ext = j.ext /\ n.keeps = j.keeps
      /\ n.content = j.content
  BY DEF Job
<1>. HIDE DEF n
<1>2. serving' = [serving EXCEPT ![r] = n]
  BY DEF Serves, SourceTyped, n
<1>. QED BY <1>1, <1>2 DEF SourceTyped

\* A request that is under way goes on, or ends.
LEMMA GoesOn ==
  ASSUME SourceInv, NEW r \in SourceRequest, Working(r), NEW pc \in JobPc, serving' = Serves(r, pc),
         texts' \in [Stem -> Int], raw' \in [Stem -> [Ext -> Int]], legacy' \subseteq legacy,
         \A t \in Stem : t # serving[r].stem => texts'[t] = texts[t] /\ raw'[t] = raw[t],
         texts'[serving[r].stem] \in {0, texts[serving[r].stem], serving[r].content, -serving[r].content},
         UNCHANGED << boot, contents, lossy >>, mixed \subseteq mixed', overrun' \subseteq mixed',
         serving[r].stem \notin mixed' /\ Working(r)' => Shaped(r)',
         serving[r].stem \notin mixed' /\ ~ Working(r)' => Resting(serving[r].stem)'
  PROVE  SourceInv'
<1>. PICK s \in Stem : s = serving[r].stem
  BY AtWork
<1>t. SourceTyped /\ Booted /\ serving[r].content \in Nat /\ contents \in Nat
  BY AtWork DEF SourceInv, SourceTyped, Job
<1>1. SourceTyped'
  BY <1>t, JobMoves DEF SourceTyped
<1>2. serving'[r].content = 0 \/ Carries(s, serving'[r].content)
  BY <1>t, JobMoves DEF Carries
<1>3. /\ serving'[r].stem = s /\ serving'[r].content = serving[r].content
      /\ \A q \in SourceRequest : q # r => serving'[q] = serving[q]
  BY <1>t, JobMoves
<1>. QED BY <1>t, <1>1, <1>2, <1>3, OneRequest

LEMMA Began ==
  ASSUME SourceInv, NEW r \in SourceRequest, Working(r), serving[r].stem \notin mixed
  PROVE  Shaped(r)
BY AtWork

LEMMA PurgeOriginalsStep == ASSUME SourceInv, NEW r \in SourceRequest, PurgeOriginals(r) PROVE SourceInv'
<1>t. SourceTyped /\ serving[r].pc = "purge" /\ Working(r) /\ serving[r].stem \in Stem
  BY AtWork DEF SourceInv, PurgeOriginals, InJob, Working
<1>1. /\ serving' = Serves(r, "open") /\ raw' = [raw EXCEPT ![serving[r].stem] = NoOriginal]
      /\ UNCHANGED << texts, legacy, boot, contents, lossy, overrun, mixed, trouble >>
  BY DEF PurgeOriginals, Stripped
<1>2. raw' \in [Stem -> [Ext -> Int]] /\ raw'[serving[r].stem] = NoOriginal
      /\ \A t \in Stem : t # serving[r].stem => raw'[t] = raw[t]
  BY <1>t, <1>1 DEF SourceTyped, NoOriginal
<1>j. /\ serving'[r].pc = "open" /\ serving'[r].stem = serving[r].stem /\ serving'[r].op = serving[r].op
      /\ serving'[r].keeps = serving[r].keeps /\ serving'[r].content = serving[r].content
  BY <1>t, <1>1, JobMoves DEF JobPc
<1>3. ASSUME serving[r].stem \notin mixed PROVE Shaped(r)'
  <2>1. Shaped(r)
    BY <1>t, <1>3, Began
  <2>2. serving[r].op = "replace" /\ Uploading(r)
    BY <1>t, <2>1, AtWork DEF Shaped, Uploading, Editing, Deleting, Job
  <2>3. Uploading(r)'
    BY <1>t, <1>1, <1>2, <1>j, <2>2 DEF Uploading
  <2>. QED BY <1>j, <2>2, <2>3 DEF Shaped
<1>4. Working(r)'
  BY <1>j DEF Working
<1>. QED BY <1>t, <1>1, <1>2, <1>3, <1>4, GoesOn DEF SourceTyped, JobPc, SourceInv, AskedToReplace

LEMMA OpenTextStep == ASSUME SourceInv, NEW r \in SourceRequest, OpenText(r) PROVE SourceInv'
<1>t. SourceTyped /\ serving[r].pc = "open" /\ Working(r) /\ serving[r].stem \in Stem
      /\ serving[r].op \in {"none", "upload", "replace", "edit", "delete"} /\ serving[r].content \in Nat
  BY AtWork DEF SourceInv, OpenText, InJob, Working, Job
<1>1. /\ serving' = Serves(r, "text") /\ texts' = [texts EXCEPT ![serving[r].stem] = -serving[r].content]
      /\ legacy' \subseteq legacy
      /\ UNCHANGED << raw, boot, contents, lossy, mixed, trouble >>
      /\ overrun' \subseteq overrun \union {serving[r].stem}
      /\ overrun' # overrun => serving[r].op = "upload" /\ texts[serving[r].stem] # 0
  BY DEF OpenText
<1>2. texts' \in [Stem -> Int] /\ texts'[serving[r].stem] = -serving[r].content
      /\ \A t \in Stem : t # serving[r].stem => texts'[t] = texts[t]
  BY <1>t, <1>1 DEF SourceTyped
<1>j. /\ serving'[r].pc = "text" /\ serving'[r].stem = serving[r].stem /\ serving'[r].op = serving[r].op
      /\ serving'[r].keeps = serving[r].keeps /\ serving'[r].content = serving[r].content
  BY <1>t, <1>1, JobMoves DEF JobPc
<1>3. ASSUME serving[r].stem \notin mixed
      PROVE  Shaped(r)' /\ (serving[r].op = "upload" => texts[serving[r].stem] = 0)
  <2>1. Shaped(r)
    BY <1>t, <1>3, Began
  <2>2. CASE serving[r].op \in {"upload", "replace"}
    <3>1. Uploading(r)
      BY <2>1, <2>2 DEF Shaped
    <3>2. Uploading(r)'
      BY <1>t, <1>1, <1>2, <1>j, <3>1 DEF Uploading
    <3>. QED BY <1>t, <1>j, <2>2, <3>1, <3>2 DEF Shaped, Uploading
  <2>3. CASE serving[r].op = "edit"
    <3>1. Editing(r)
      BY <2>1, <2>3 DEF Shaped
    <3>2. Editing(r)'
      BY <1>t, <1>1, <1>2, <1>j, <3>1 DEF Editing, FitsTo, Listed
    <3>. QED BY <1>j, <2>3, <3>2 DEF Shaped
  <2>. QED BY <1>t, <2>1, <2>2, <2>3 DEF Shaped, Deleting
<1>4. Working(r)'
  BY <1>j DEF Working
<1>5. overrun' \subseteq mixed'
  BY <1>1, <1>3 DEF SourceInv, AskedToReplace
<1>. QED BY <1>t, <1>1, <1>2, <1>3, <1>4, <1>5, GoesOn DEF SourceTyped, JobPc

LEMMA WriteTextStep == ASSUME SourceInv, NEW r \in SourceRequest, WriteText(r) PROVE SourceInv'
<1>t. SourceTyped /\ serving[r].pc = "text" /\ Working(r) /\ serving[r].stem \in Stem
      /\ serving[r].op \in {"none", "upload", "replace", "edit", "delete"} /\ serving[r].content \in Nat
      /\ serving[r].keeps \in BOOLEAN
  BY AtWork DEF SourceInv, WriteText, InJob, Working, Job
<1>. PICK pc : pc = IF serving[r].op # "edit" /\ serving[r].keeps THEN "backup" ELSE "done"
  OBVIOUS
<1>1. /\ serving' = Serves(r, pc) /\ texts' = [texts EXCEPT ![serving[r].stem] = serving[r].content]
      /\ UNCHANGED << raw, legacy, boot, contents, lossy, overrun, mixed, trouble >>
      /\ pc \in JobPc
  BY DEF WriteText, JobPc
<1>2. texts' \in [Stem -> Int] /\ texts'[serving[r].stem] = serving[r].content
      /\ \A t \in Stem : t # serving[r].stem => texts'[t] = texts[t]
  BY <1>t, <1>1 DEF SourceTyped
<1>j. /\ serving'[r].pc = pc /\ serving'[r].stem = serving[r].stem /\ serving'[r].op = serving[r].op
      /\ serving'[r].keeps = serving[r].keeps /\ serving'[r].content = serving[r].content
  BY <1>t, <1>1, JobMoves DEF JobPc
<1>3. ASSUME serving[r].stem \notin mixed
      PROVE  (Working(r)' => Shaped(r)') /\ (~ Working(r)' => Resting(serving[r].stem)')
  <2>1. Shaped(r) /\ Booted
    BY <1>t, <1>3, Began, AtWork
  <2>2. CASE serving[r].op \in {"upload", "replace"}
    <3>1. Uploading(r)
      BY <2>1, <2>2 DEF Shaped
    <3>2. CASE serving[r].keeps
      <4>1. pc = "backup" /\ Uploading(r)'
        BY <1>t, <1>1, <1>2, <1>j, <2>2, <3>1, <3>2 DEF Uploading
      <4>. QED BY <1>j, <2>2, <4>1 DEF Shaped, Working
    <3>3. CASE ~ serving[r].keeps
      <4>1. pc = "done" /\ ~ Working(r)'
        BY <1>j, <3>3 DEF Working
      <4>2. raw'[serving[r].stem] = NoOriginal /\ serving[r].content \notin lossy' /\ serving[r].content > 0
        BY <1>t, <1>1, <3>1, <3>3 DEF Uploading
      <4>3. Listed(serving[r].stem)' = 0
        BY <1>j, <4>2 DEF Listed, NoOriginal, Ext
      <4>4. Resting(serving[r].stem)'
        BY <1>1, <1>2, <1>j, <2>1, <4>2, <4>3 DEF Resting, FitsTo, Booted
      <4>. QED BY <4>1, <4>4
    <3>. QED BY <1>t, <3>2, <3>3
  <2>3. CASE serving[r].op = "edit"
    <3>1. Editing(r)
      BY <2>1, <2>3 DEF Shaped
    <3>2. pc = "done" /\ ~ Working(r)'
      BY <1>j, <2>3 DEF Working
    <3>3. Resting(serving[r].stem)'
      <4>1. serving[r].content # 0 /\ FitsTo(serving[r].stem, serving[r].content)
        BY <3>1 DEF Editing
      <4>2. texts'[serving[r].stem] > 0 /\ texts'[serving[r].stem] = serving[r].content
        BY <1>t, <1>2, <4>1
      <4>3. FitsTo(serving[r].stem, serving[r].content)'
        BY <1>1, <1>j, <4>1 DEF FitsTo, Listed
      <4>4. Booted'
        BY <1>1, <2>1 DEF Booted
      <4>. QED BY <1>j, <4>2, <4>3, <4>4 DEF Resting, FitsTo
    <3>. QED BY <3>2, <3>3
  <2>. QED BY <1>t, <2>1, <2>2, <2>3 DEF Shaped, Deleting
<1>. QED BY <1>t, <1>1, <1>2, <1>3, GoesOn DEF SourceTyped, SourceInv, AskedToReplace

LEMMA OpenOriginalStep == ASSUME SourceInv, NEW r \in SourceRequest, OpenOriginal(r) PROVE SourceInv'
<1>t. SourceTyped /\ serving[r].pc = "backup" /\ Working(r) /\ serving[r].stem \in Stem
      /\ serving[r].content \in Nat /\ serving[r].ext \in Ext
  BY AtWork DEF SourceInv, OpenOriginal, InJob, Working, Job
<1>1. /\ serving' = Serves(r, "original")
      /\ raw' = [raw EXCEPT ![serving[r].stem][serving[r].ext] = -serving[r].content]
      /\ UNCHANGED << texts, legacy, boot, contents, lossy, overrun, mixed, trouble >>
  BY DEF OpenOriginal
<1>2. raw' \in [Stem -> [Ext -> Int]]
      /\ raw'[serving[r].stem] = [raw[serving[r].stem] EXCEPT ![serving[r].ext] = -serving[r].content]
      /\ \A t \in Stem : t # serving[r].stem => raw'[t] = raw[t]
  <2>1. -serving[r].content \in Int /\ raw[serving[r].stem] \in [Ext -> Int]
    BY <1>t DEF SourceTyped
  <2>. QED BY <1>t, <1>1, <2>1 DEF SourceTyped
<1>j. /\ serving'[r].pc = "original" /\ serving'[r].stem = serving[r].stem /\ serving'[r].op = serving[r].op
      /\ serving'[r].keeps = serving[r].keeps /\ serving'[r].content = serving[r].content
      /\ serving'[r].ext = serving[r].ext
  BY <1>t, <1>1, JobMoves DEF JobPc
<1>3. ASSUME serving[r].stem \notin mixed PROVE Shaped(r)'
  <2>1. Shaped(r)
    BY <1>t, <1>3, Began
  <2>2. serving[r].op \in {"upload", "replace"} /\ Uploading(r)
    BY <1>t, <2>1, AtWork DEF Shaped, Uploading, Editing, Deleting, Job
  <2>3. Uploading(r)'
    BY <1>t, <1>1, <1>2, <1>j, <2>2 DEF Uploading
  <2>. QED BY <1>j, <2>2, <2>3 DEF Shaped
<1>4. Working(r)'
  BY <1>j DEF Working
<1>. QED BY <1>t, <1>1, <1>2, <1>3, <1>4, GoesOn DEF SourceTyped, JobPc, SourceInv, AskedToReplace

LEMMA CopyOriginalStep == ASSUME SourceInv, NEW r \in SourceRequest, CopyOriginal(r) PROVE SourceInv'
<1>t. SourceTyped /\ serving[r].pc = "original" /\ Working(r) /\ serving[r].stem \in Stem
      /\ serving[r].content \in Nat /\ serving[r].ext \in Ext
  BY AtWork DEF SourceInv, CopyOriginal, InJob, Working, Job
<1>1. /\ serving' = Serves(r, "done")
      /\ raw' = [raw EXCEPT ![serving[r].stem][serving[r].ext] = serving[r].content]
      /\ UNCHANGED << texts, legacy, boot, contents, lossy, overrun, mixed, trouble >>
  BY DEF CopyOriginal
<1>2. raw' \in [Stem -> [Ext -> Int]]
      /\ raw'[serving[r].stem] = [raw[serving[r].stem] EXCEPT ![serving[r].ext] = serving[r].content]
      /\ \A t \in Stem : t # serving[r].stem => raw'[t] = raw[t]
  BY <1>t, <1>1 DEF SourceTyped
<1>j. serving'[r].pc = "done" /\ serving'[r].stem = serving[r].stem
  BY <1>t, <1>1, JobMoves DEF JobPc
<1>3. ASSUME serving[r].stem \notin mixed PROVE Resting(serving[r].stem)'
  <2>1. Shaped(r) /\ Booted
    BY <1>t, <1>3, Began, AtWork
  <2>2. Uploading(r)
    BY <1>t, <2>1, AtWork DEF Shaped, Uploading, Editing, Deleting, Job
  <2>3. /\ texts[serving[r].stem] = serving[r].content /\ serving[r].content \in lossy /\ serving[r].content > 0
        /\ raw[serving[r].stem] = [NoOriginal EXCEPT ![serving[r].ext] = -serving[r].content]
    BY <1>t, <2>2 DEF Uploading
  <2>4. Listed(serving[r].stem)' = serving[r].content
    BY <1>t, <1>2, <1>j, <2>3 DEF Listed, NoOriginal, Ext
  <2>. QED BY <1>1, <1>j, <2>1, <2>3, <2>4 DEF Resting, FitsTo, Booted
<1>4. ~ Working(r)'
  BY <1>j DEF Working
<1>. QED BY <1>t, <1>1, <1>2, <1>3, <1>4, GoesOn DEF SourceTyped, JobPc, SourceInv, AskedToReplace

LEMMA BackupRaisesStep == ASSUME SourceInv, NEW r \in SourceRequest, BackupRaises(r) PROVE SourceInv'
<1>t. SourceTyped /\ Working(r) /\ serving[r].stem \in Stem
  BY AtWork DEF SourceInv, BackupRaises, Working
<1>1. /\ serving' = Serves(r, "done") /\ texts' = [texts EXCEPT ![serving[r].stem] = 0]
      /\ mixed' = mixed \union {serving[r].stem}
      /\ UNCHANGED << raw, legacy, boot, contents, lossy, overrun >>
  BY DEF BackupRaises
<1>2. texts' \in [Stem -> Int] /\ texts'[serving[r].stem] = 0
      /\ \A t \in Stem : t # serving[r].stem => texts'[t] = texts[t]
  BY <1>t, <1>1 DEF SourceTyped
<1>. QED BY <1>t, <1>1, <1>2, GoesOn DEF SourceTyped, JobPc, SourceInv, AskedToReplace

LEMMA RequestRaisesStep == ASSUME SourceInv, NEW r \in SourceRequest, RequestRaises(r) PROVE SourceInv'
<1>t. SourceTyped /\ Working(r) /\ serving[r].stem \in Stem
  BY AtWork DEF SourceInv, RequestRaises, Working
<1>1. /\ serving' = Serves(r, "done") /\ mixed' = mixed \union {serving[r].stem}
      /\ UNCHANGED << texts, raw, legacy, boot, contents, lossy, overrun >>
  BY DEF RequestRaises
<1>. QED BY <1>t, <1>1, GoesOn DEF SourceTyped, JobPc, SourceInv, AskedToReplace

LEMMA DeleteOriginalsStep == ASSUME SourceInv, NEW r \in SourceRequest, DeleteOriginals(r) PROVE SourceInv'
<1>t. SourceTyped /\ serving[r].pc = "originals" /\ Working(r) /\ serving[r].stem \in Stem
  BY AtWork DEF SourceInv, DeleteOriginals, InJob, Working
<1>1. /\ serving' = Serves(r, "done") /\ raw' = [raw EXCEPT ![serving[r].stem] = NoOriginal]
      /\ UNCHANGED << texts, legacy, boot, contents, lossy, overrun, mixed, trouble >>
  BY DEF DeleteOriginals
<1>2. raw' \in [Stem -> [Ext -> Int]] /\ raw'[serving[r].stem] = NoOriginal
      /\ \A t \in Stem : t # serving[r].stem => raw'[t] = raw[t]
  BY <1>t, <1>1 DEF SourceTyped, NoOriginal
<1>j. serving'[r].pc = "done" /\ serving'[r].stem = serving[r].stem
  BY <1>t, <1>1, JobMoves DEF JobPc
<1>3. ASSUME serving[r].stem \notin mixed PROVE Resting(serving[r].stem)'
  <2>1. Shaped(r)
    BY <1>t, <1>3, Began
  <2>2. Deleting(r)
    BY <1>t, <2>1, AtWork DEF Shaped, Uploading, Editing, Deleting, Job
  <2>. QED BY <1>1, <1>2, <1>j, <2>2 DEF Resting, Deleting
<1>4. ~ Working(r)'
  BY <1>j DEF Working
<1>. QED BY <1>t, <1>1, <1>2, <1>3, <1>4, GoesOn DEF SourceTyped, JobPc, SourceInv, AskedToReplace

--------------------------------------------------------------------------------

EditJob(s, k) == [NoJob EXCEPT !.pc = "open", !.op = "edit", !.stem = s, !.content = k]
DeleteJob(s) == [NoJob EXCEPT !.pc = "originals", !.op = "delete", !.stem = s]

LEMMA JobsMade ==
  /\ \A s \in Stem, k \in Nat :
       /\ EditJob(s, k) \in Job /\ EditJob(s, k).pc = "open" /\ EditJob(s, k).op = "edit"
       /\ EditJob(s, k).stem = s /\ EditJob(s, k).content = k
  /\ \A s \in Stem :
       /\ DeleteJob(s) \in Job /\ DeleteJob(s).pc = "originals" /\ DeleteJob(s).op = "delete"
       /\ DeleteJob(s).stem = s /\ DeleteJob(s).content = 0
BY DEF EditJob, DeleteJob, NoJob, Job, JobPc, Ext

LEMMA BeginEditStep == ASSUME SourceInv, NEW r \in SourceRequest, BeginEdit(r) PROVE SourceInv'
<1>t. SourceTyped /\ contents \in Nat /\ Booted /\ ~ Working(r)
  BY DEF SourceInv, SourceTyped, BeginEdit, InJob, Working
<1>0. PICK s \in Stem :
       /\ serving' = [serving EXCEPT ![r] = [NoJob EXCEPT !.pc = "open", !.op = "edit", !.stem = s,
            !.content = IF texts[s] = 0 THEN contents + 1 ELSE IF texts[s] < 0 THEN -texts[s] ELSE texts[s]]]
       /\ contents' = IF texts[s] = 0 THEN contents + 1 ELSE contents
       /\ mixed' = mixed \union Overlap(s)
  BY DEF BeginEdit
<1>k. PICK k : k = IF texts[s] = 0 THEN contents + 1 ELSE IF texts[s] < 0 THEN -texts[s] ELSE texts[s]
  OBVIOUS
<1>1. /\ serving' = [serving EXCEPT ![r] = EditJob(s, k)]
      /\ contents' = IF texts[s] = 0 THEN contents + 1 ELSE contents
      /\ mixed' = mixed \union Overlap(s)
      /\ UNCHANGED << texts, raw, legacy, boot, lossy, overrun, trouble >>
  BY <1>0, <1>k DEF BeginEdit, EditJob
<1>2. texts[s] \in Int /\ k \in Nat /\ k # 0 /\ k <= contents'
      /\ (texts[s] # 0 => texts[s] \in {k, -k}) /\ (texts[s] = 0 => k > contents)
  BY <1>t, <1>k, <1>1, OwnContents DEF SourceTyped
<1>3. /\ serving' \in [SourceRequest -> Job] /\ serving'[r] = EditJob(s, k)
      /\ \A q \in SourceRequest : q # r => serving'[q] = serving[q]
  BY <1>t, <1>1, <1>2, JobsMade DEF SourceTyped
<1>4. SourceTyped'
  BY <1>t, <1>1, <1>3 DEF SourceTyped
<1>j. /\ serving'[r].pc = "open" /\ serving'[r].op = "edit" /\ serving'[r].stem = s /\ serving'[r].content = k
      /\ Working(r)'
  BY <1>2, <1>3, JobsMade DEF Working
<1>5. k = 0 \/ Carries(s, k) \/ (k > contents /\ k <= contents')
  BY <1>2 DEF Carries
<1>6. ASSUME s \notin mixed' PROVE Shaped(r)'
  <2>1. Resting(s)
    BY <1>t, <1>1, <1>6, StemSettled DEF Overlap, AtRest
  <2>2. texts[s] \in {0, k} /\ FitsTo(s, k)
    <3>1. CASE texts[s] = 0
      <4>1. k \notin lossy
        BY <1>t, <1>2, <3>1 DEF SourceTyped
      <4>. QED BY <2>1, <3>1, <4>1 DEF Resting, FitsTo, Listed, NoOriginal, Ext
    <3>2. CASE texts[s] # 0
      <4>1. texts[s] = k
        BY <2>1, <3>2, <1>2 DEF Resting
      <4>. QED BY <2>1, <3>2, <4>1 DEF Resting
    <3>. QED BY <3>1, <3>2
  <2>3. Editing(r)'
    BY <1>1, <1>2, <1>j, <2>2 DEF Editing, FitsTo, Listed
  <2>. QED BY <1>j, <2>3 DEF Shaped
<1>7. contents' >= contents
  BY <1>t, <1>1
<1>8. overrun' \subseteq mixed'
  BY <1>1 DEF SourceInv, AskedToReplace
<1>. QED BY <1>t, <1>1, <1>3, <1>4, <1>j, <1>5, <1>6, <1>7, <1>8, OneRequest

LEMMA DeleteTextStep == ASSUME SourceInv, NEW r \in SourceRequest, DeleteText(r) PROVE SourceInv'
<1>t. SourceTyped /\ contents \in Nat /\ Booted /\ ~ Working(r)
  BY DEF SourceInv, SourceTyped, DeleteText, InJob, Working
<1>1. PICK s \in Stem :
       /\ texts[s] # 0
       /\ texts' = [texts EXCEPT ![s] = 0] /\ legacy' = legacy \ {s}
       /\ serving' = [serving EXCEPT ![r] = DeleteJob(s)]
       /\ mixed' = mixed \union Overlap(s)
       /\ UNCHANGED << raw, boot, contents, lossy, overrun, trouble >>
  BY DEF DeleteText, DeleteJob
<1>2. texts' \in [Stem -> Int] /\ texts'[s] = 0 /\ \A t \in Stem : t # s => texts'[t] = texts[t]
  BY <1>t, <1>1 DEF SourceTyped
<1>3. /\ serving' \in [SourceRequest -> Job] /\ serving'[r] = DeleteJob(s)
      /\ \A q \in SourceRequest : q # r => serving'[q] = serving[q]
  BY <1>t, <1>1, JobsMade DEF SourceTyped
<1>4. SourceTyped'
  BY <1>t, <1>1, <1>2, <1>3 DEF SourceTyped
<1>j. /\ serving'[r].pc = "originals" /\ serving'[r].op = "delete" /\ serving'[r].stem = s
      /\ serving'[r].content = 0 /\ Working(r)'
  BY <1>3, JobsMade DEF Working
<1>6. Shaped(r)'
  BY <1>2, <1>j DEF Shaped, Deleting
<1>7. contents' >= contents
  BY <1>t, <1>1
<1>8. overrun' \subseteq mixed'
  BY <1>1 DEF SourceInv, AskedToReplace
<1>. QED BY <1>t, <1>1, <1>2, <1>3, <1>4, <1>j, <1>6, <1>7, <1>8, OneRequest

--------------------------------------------------------------------------------
(* The conversion works on one stem at a time.                               *)

LEMMA OneConverted ==
  ASSUME SourceInv, SourceTyped', BootInOrder', ~ Booted, NEW s \in Stem,
         UNCHANGED << serving, contents, overrun >>,
         \A t \in Stem : t # s => texts'[t] = texts[t] /\ raw'[t] = raw[t],
         texts'[s] \in {texts[s], -texts[s]}, legacy' \subseteq legacy,
         \A k \in Int : k \in lossy' <=> k \in lossy \/ (k \in lossy' /\ k \in {texts[s], -texts[s]}),
         mixed \subseteq mixed', boot.stem \in {s, NotAt}, boot'.stem \in {s, NotAt},
         s \notin mixed' => (boot'.stem = s => Converting(s)') /\ (boot'.stem # s => Resting(s)')
  PROVE  SourceInv'
<1>t. SourceTyped /\ SourceTyped' /\ BootInOrder /\ ContentsOwned /\ NotAt \notin Stem
  BY NotAtApart DEF SourceInv
<1>w. \A q \in SourceRequest : ~ Working(q) /\ ~ Working(q)'
  BY <1>t DEF BootInOrder, Working
<1>1. OneAtStem'
  BY <1>w DEF OneAtStem
<1>2. ContentsOwned'
  <2>1. ASSUME NEW t \in Stem, NEW k \in Nat, Carries(t, k)' PROVE Carries(t, k)
    <3>0. texts[t] \in Int /\ texts'[t] \in {texts[t], -texts[t]}
      BY <1>t DEF SourceTyped
    <3>1. k # 0 /\ (texts'[t] \in {k, -k} \/ \E q \in SourceRequest : serving[q].stem = t /\ serving[q].content = k)
      BY <2>1 DEF Carries
    <3>2. texts'[t] \in {k, -k} => texts[t] \in {k, -k}
      BY <3>0
    <3>. QED BY <3>1, <3>2 DEF Carries
  <2>. QED BY <1>t, <2>1 DEF ContentsOwned
<1>3. StemsFollowed'
  <2>1. ASSUME NEW t \in Stem, t # s, t \notin mixed' PROVE Resting(t)'
    <3>1. Resting(t)
      BY <2>1, <1>t, <1>w DEF SourceInv, StemsFollowed, AtRest
    <3>2. texts[t] > 0 => (texts[t] \in lossy' <=> texts[t] \in lossy)
      <4>1. ASSUME texts[t] > 0, texts[t] \in {texts[s], -texts[s]} PROVE FALSE
        <5>1. texts[t] \in Nat /\ texts[s] \in Int /\ texts[s] \in {texts[t], -texts[t]}
          <6>1. texts[t] \in Int /\ texts[s] \in Int
            BY <1>t DEF SourceTyped
          <6>. QED BY <4>1, <6>1
        <5>2. Carries(t, texts[t]) /\ Carries(s, texts[t])
          BY <4>1, <5>1 DEF Carries
        <5>. QED BY <2>1, <1>t, <5>1, <5>2 DEF ContentsOwned
      <4>2. texts[t] \in Int
        BY <1>t DEF SourceTyped
      <4>. QED BY <4>1, <4>2
    <3>. QED BY <2>1, <3>1, <3>2 DEF Resting, FitsTo, Listed, Booted
  <2>. QED BY <2>1, <1>t, <1>w DEF StemsFollowed
<1>. QED BY <1>t, <1>1, <1>2, <1>3 DEF SourceInv, AskedToReplace

\* A text that is yet to be converted is all there, and nobody has opened it since.
LegacyInv ==
  /\ \A s \in legacy : texts[s] > 0
  /\ \A r \in SourceRequest : serving[r].pc \in {"text", "backup", "original"} => serving[r].stem \notin legacy
  /\ boot.pc \in {"copy", "text"} => boot.stem \in legacy
  /\ boot.pc = "convert" => texts[boot.stem] < 0

LEMMA ConvertNextStep == ASSUME SourceInv, LegacyInv, ConvertNext PROVE SourceInv'
<1>t. SourceTyped /\ boot.pc = "look" /\ boot.stem = NotAt /\ ~ Booted /\ NotAt \notin Stem
      /\ \A r \in SourceRequest : ~ Working(r)
  BY NotAtApart DEF SourceInv, BootInOrder, ConvertNext, BootAt, Booted
<1>1. PICK s \in legacy :
        IF raw[s]["txt"] = 0
        THEN Boot("copy", s) /\ raw' = [raw EXCEPT ![s]["txt"] = -texts[s]]
        ELSE Boot("text", s) /\ UNCHANGED raw
  BY DEF ConvertNext
<1>2. /\ s \in Stem /\ texts[s] \in Int /\ raw[s] \in [Ext -> Int]
      /\ UNCHANGED << serving, contents, overrun, texts, legacy, lossy, mixed, trouble >>
  BY <1>t, <1>1 DEF SourceTyped, ConvertNext, Requests
<1>3. s \notin mixed => Resting(s)
  BY <1>t, <1>2 DEF SourceInv, StemsFollowed, AtRest
<1>r. Requests /\ "txt" \in Ext
  BY DEF ConvertNext, Ext
<1>4. CASE raw[s]["txt"] = 0
  <2>1. boot' = [pc |-> "copy", stem |-> s] /\ raw' = [raw EXCEPT ![s]["txt"] = -texts[s]]
    BY <1>1, <1>4 DEF Boot
  <2>2. raw' \in [Stem -> [Ext -> Int]] /\ raw'[s] = [raw[s] EXCEPT !["txt"] = -texts[s]]
        /\ \A t \in Stem : t # s => raw'[t] = raw[t]
    <3>1. -texts[s] \in Int
      BY <1>2
    <3>. QED BY <1>t, <1>2, <1>r, <2>1, <3>1 DEF SourceTyped
  <2>3. SourceTyped' /\ BootInOrder'
    <3>1. SourceTyped'
      BY <1>t, <1>2, <2>1, <2>2 DEF SourceTyped
    <3>2. BootInOrder'
      BY <1>t, <1>2, <2>1 DEF BootInOrder, Working
    <3>. QED BY <3>1, <3>2
  <2>4. ASSUME s \notin mixed PROVE Converting(s)'
    <3>1. Resting(s)
      BY <1>3, <2>4
    <3>2. texts[s] # 0 => (texts[s] > 0 /\ raw[s] = NoOriginal /\ texts[s] \notin lossy)
      BY <1>t, <1>1, <3>1 DEF Resting, FitsTo, Listed, NoOriginal, Ext
    <3>3. texts[s] # 0
      BY <1>1 DEF LegacyInv
    <3>. QED BY <1>2, <2>1, <2>2, <3>2, <3>3 DEF Converting
  <2>. QED BY <1>t, <1>2, <2>1, <2>2, <2>3, <2>4, OneConverted
<1>5. CASE raw[s]["txt"] # 0
  <2>1. boot' = [pc |-> "text", stem |-> s] /\ raw' = raw
    BY <1>1, <1>5 DEF Boot
  <2>2. SourceTyped' /\ BootInOrder'
    <3>1. SourceTyped'
      BY <1>t, <1>2, <2>1 DEF SourceTyped
    <3>2. BootInOrder'
      BY <1>t, <1>2, <2>1 DEF BootInOrder, Working
    <3>. QED BY <3>1, <3>2
  <2>3. s \in mixed
    <3>1. raw[s] # NoOriginal
      BY <1>5, <1>r DEF NoOriginal
    <3>. QED BY <1>t, <1>1, <1>3, <3>1 DEF Resting
  <2>. QED BY <1>t, <1>2, <2>1, <2>2, <2>3, OneConverted
<1>. QED BY <1>4, <1>5

LEMMA BackUpStep == ASSUME SourceInv, BackUp PROVE SourceInv'
<1>t. SourceTyped /\ boot.pc = "copy" /\ boot.stem # NotAt /\ ~ Booted /\ NotAt \notin Stem
      /\ \A r \in SourceRequest : ~ Working(r)
  BY NotAtApart DEF SourceInv, BootInOrder, BackUp, BootAt, Booted
<1>. PICK s \in Stem : s = boot.stem
  BY <1>t DEF SourceTyped
<1>1. /\ raw' = [raw EXCEPT ![s]["txt"] = texts[s]] /\ boot' = [pc |-> "text", stem |-> s]
      /\ UNCHANGED << serving, contents, overrun, texts, legacy, lossy, mixed, trouble >>
  BY DEF BackUp, Boot, Requests
<1>2. texts[s] \in Int /\ raw[s] \in [Ext -> Int] /\ "txt" \in Ext
  BY <1>t DEF SourceTyped, Ext
<1>3. raw' \in [Stem -> [Ext -> Int]] /\ raw'[s] = [raw[s] EXCEPT !["txt"] = texts[s]]
      /\ \A t \in Stem : t # s => raw'[t] = raw[t]
  BY <1>t, <1>1, <1>2 DEF SourceTyped
<1>4. SourceTyped' /\ BootInOrder'
  <2>1. SourceTyped'
    BY <1>t, <1>1, <1>3 DEF SourceTyped
  <2>2. BootInOrder'
    BY <1>t, <1>1 DEF BootInOrder, Working
  <2>. QED BY <2>1, <2>2
<1>5. ASSUME s \notin mixed PROVE Converting(s)'
  <2>1. Converting(s)
    BY <1>5 DEF SourceInv, StemsFollowed
  <2>2. texts[s] > 0 /\ texts[s] \notin lossy /\ raw[s] = [NoOriginal EXCEPT !["txt"] = -texts[s]]
    BY <1>t, <2>1 DEF Converting
  <2>3. raw'[s] = [NoOriginal EXCEPT !["txt"] = texts[s]]
    BY <1>3, <2>2 DEF NoOriginal, Ext
  <2>. QED BY <1>1, <2>2, <2>3 DEF Converting
<1>. QED BY <1>t, <1>1, <1>3, <1>4, <1>5, OneConverted

LEMMA EmptyTextStep == ASSUME SourceInv, EmptyText PROVE SourceInv'
<1>t. SourceTyped /\ boot.pc = "text" /\ boot.stem # NotAt /\ ~ Booted /\ NotAt \notin Stem
      /\ \A r \in SourceRequest : ~ Working(r)
  BY NotAtApart DEF SourceInv, BootInOrder, EmptyText, BootAt, Booted
<1>. PICK s \in Stem : s = boot.stem
  BY <1>t DEF SourceTyped
<1>1. /\ texts' = [texts EXCEPT ![s] = -texts[s]] /\ boot' = [pc |-> "convert", stem |-> s]
      /\ legacy' = legacy \ {s}
      /\ UNCHANGED << serving, contents, overrun, raw, lossy, mixed, trouble >>
  BY DEF EmptyText, Boot, Requests
<1>2. texts[s] \in Int
  BY <1>t DEF SourceTyped
<1>3. texts' \in [Stem -> Int] /\ texts'[s] = -texts[s] /\ \A t \in Stem : t # s => texts'[t] = texts[t]
  <2>1. -texts[s] \in Int
    BY <1>2
  <2>. QED BY <1>t, <1>1, <2>1 DEF SourceTyped
<1>4. SourceTyped' /\ BootInOrder'
  <2>1. SourceTyped'
    BY <1>t, <1>1, <1>3 DEF SourceTyped
  <2>2. BootInOrder'
    BY <1>t, <1>1 DEF BootInOrder, Working
  <2>. QED BY <2>1, <2>2
<1>5. ASSUME s \notin mixed PROVE Converting(s)'
  <2>1. Converting(s)
    BY <1>5 DEF SourceInv, StemsFollowed
  <2>2. texts[s] > 0 /\ raw[s] = [NoOriginal EXCEPT !["txt"] = texts[s]]
    BY <1>t, <2>1 DEF Converting
  <2>3. texts'[s] < 0 /\ texts[s] = -texts'[s]
    BY <1>2, <1>3, <2>2
  <2>4. raw'[s] = [NoOriginal EXCEPT !["txt"] = -texts'[s]]
    BY <1>1, <2>2, <2>3
  <2>. QED BY <1>1, <2>3, <2>4 DEF Converting
<1>. QED BY <1>t, <1>1, <1>3, <1>4, <1>5, OneConverted

LEMMA ConvertStep == ASSUME SourceInv, LegacyInv, Convert PROVE SourceInv'
<1>t. SourceTyped /\ boot.pc = "convert" /\ boot.stem # NotAt /\ ~ Booted /\ NotAt \notin Stem
      /\ \A r \in SourceRequest : ~ Working(r)
  BY NotAtApart DEF SourceInv, BootInOrder, Convert, BootAt, Booted
<1>. PICK s \in Stem : s = boot.stem
  BY <1>t DEF SourceTyped
<1>1. /\ texts' = [texts EXCEPT ![s] = -texts[s]] /\ boot' = [pc |-> "look", stem |-> NotAt]
      /\ lossy' = lossy \union {-texts[s]}
      /\ UNCHANGED << serving, contents, overrun, raw, legacy, mixed, trouble >>
  BY DEF Convert, Boot, Requests
<1>2. texts[s] \in Int /\ texts[s] < 0 /\ contents \in Nat /\ -texts[s] <= contents
  BY <1>t, OwnContents DEF SourceTyped, LegacyInv
<1>3. texts' \in [Stem -> Int] /\ texts'[s] = -texts[s] /\ \A t \in Stem : t # s => texts'[t] = texts[t]
  <2>1. -texts[s] \in Int
    BY <1>2
  <2>. QED BY <1>t, <1>1, <2>1 DEF SourceTyped
<1>4. SourceTyped' /\ BootInOrder'
  <2>0. -texts[s] \in 1 .. contents
    BY <1>2
  <2>1. SourceTyped'
    BY <1>t, <1>1, <1>3, <2>0 DEF SourceTyped
  <2>2. BootInOrder'
    BY <1>t, <1>1 DEF BootInOrder, Working
  <2>. QED BY <2>1, <2>2
<1>5. ASSUME s \notin mixed PROVE Resting(s)'
  <2>1. Converting(s)
    BY <1>5 DEF SourceInv, StemsFollowed
  <2>2. raw'[s] = [NoOriginal EXCEPT !["txt"] = -texts[s]] /\ "txt" \in Ext
    BY <1>t, <1>1, <2>1 DEF Converting, Ext
  <2>3. -texts[s] > 0
    BY <1>2
  <2>4. Listed(s)' = -texts[s]
    BY <2>2, <2>3 DEF Listed, NoOriginal
  <2>5. texts'[s] \in lossy' /\ Listed(s)' = texts'[s] /\ texts'[s] > 0 /\ texts'[s] # 0 /\ s \notin legacy'
    BY <1>1, <1>2, <1>3, <2>3, <2>4 DEF LegacyInv
  <2>. QED BY <2>5 DEF Resting, FitsTo
<1>. QED BY <1>t, <1>1, <1>3, <1>4, <1>5, OneConverted

LEMMA EndConversionStep == ASSUME SourceInv, EndConversion PROVE SourceInv'
<1>t. SourceTyped /\ boot.pc = "look" /\ boot.stem = NotAt /\ ~ Booted /\ NotAt \notin Stem
      /\ \A r \in SourceRequest : ~ Working(r)
  BY NotAtApart DEF SourceInv, BootInOrder, EndConversion, BootAt, Booted
<1>1. /\ boot' = [pc |-> "open", stem |-> NotAt]
      /\ UNCHANGED << serving, contents, overrun, texts, raw, legacy, lossy, mixed, trouble >>
  BY DEF EndConversion, Boot, Requests
<1>2. SourceTyped'
  BY <1>t, <1>1 DEF SourceTyped
<1>3. BootInOrder' /\ OneAtStem' /\ AskedToReplace'
  BY <1>t, <1>1 DEF SourceInv, BootInOrder, OneAtStem, AskedToReplace, Working
<1>4. ContentsOwned'
  BY <1>1 DEF SourceInv, ContentsOwned, Carries
<1>5. StemsFollowed'
  <2>1. \A s \in Stem \ mixed : Resting(s)
    BY <1>t DEF SourceInv, StemsFollowed, AtRest
  <2>2. \A s \in Stem \ mixed : Resting(s)'
    BY <1>1, <2>1 DEF Resting, FitsTo, Listed, Booted
  <2>. QED BY <1>t, <1>1, <2>2 DEF StemsFollowed, Working
<1>. QED BY <1>2, <1>3, <1>4, <1>5 DEF SourceInv

LEMMA ConversionRaisesStep == ASSUME SourceInv, ConversionRaises PROVE SourceInv'
<1>t. SourceTyped /\ boot.pc # "open" /\ boot.stem # NotAt /\ ~ Booted /\ NotAt \notin Stem
      /\ \A r \in SourceRequest : ~ Working(r)
  BY NotAtApart DEF SourceInv, BootInOrder, ConversionRaises, Booted
<1>. PICK s \in Stem : s = boot.stem
  BY <1>t DEF SourceTyped
<1>1. /\ boot' = [pc |-> "open", stem |-> NotAt] /\ mixed' = mixed \union {s}
      /\ UNCHANGED << serving, contents, overrun, texts, raw, legacy, lossy >>
  BY DEF ConversionRaises, Boot, Requests
<1>2. SourceTyped'
  BY <1>t, <1>1 DEF SourceTyped
<1>3. BootInOrder'
  BY <1>t, <1>1 DEF BootInOrder, Working
<1>. QED BY <1>t, <1>1, <1>2, <1>3, OneConverted

LEMMA ServerStopsStep == ASSUME SourceInv, ServerStops PROVE SourceInv'
<1>t. SourceTyped /\ BootInOrder /\ NotAt \notin Stem
  BY NotAtApart DEF SourceInv
<1>1. /\ mixed' = mixed \union {serving[r].stem : r \in {q \in SourceRequest : Working(q)}}
                    \union (IF boot.stem = NotAt THEN {} ELSE {boot.stem})
      /\ serving' = [r \in SourceRequest |-> IF Working(r) THEN [serving[r] EXCEPT !.pc = "done"] ELSE serving[r]]
      /\ boot' = (IF Booted THEN boot ELSE [pc |-> "look", stem |-> NotAt])
      /\ UNCHANGED << texts, raw, legacy, contents, lossy, overrun >>
  BY DEF ServerStops
<1>2. ASSUME NEW r \in SourceRequest
      PROVE  /\ serving'[r] \in Job /\ serving'[r].stem = serving[r].stem /\ serving'[r].content = serving[r].content
             /\ ~ Working(r)'
  <2>1. PICK j \in Job : j = serving[r]
    BY <1>t DEF SourceTyped
  <2>2. [j EXCEPT !.pc = "done"] \in Job /\ [j EXCEPT !.pc = "done"].stem = j.stem
        /\ [j EXCEPT !.pc = "done"].content = j.content /\ [j EXCEPT !.pc = "done"].pc = "done"
    BY DEF Job, JobPc
  <2>3. CASE Working(r)
    <3>1. serving'[r] = [j EXCEPT !.pc = "done"]
      BY <1>1, <2>1, <2>3
    <3>. QED BY <2>1, <2>2, <3>1 DEF Working
  <2>4. CASE ~ Working(r)
    <3>1. serving'[r] = j
      BY <1>1, <2>1, <2>4
    <3>. QED BY <2>1, <2>4, <3>1 DEF Working
  <2>. QED BY <2>3, <2>4
<1>3. SourceTyped'
  <2>1. serving' \in [SourceRequest -> Job]
    BY <1>1, <1>2
  <2>. QED BY <1>t, <1>1, <2>1 DEF SourceTyped
<1>4. BootInOrder'
  BY <1>t, <1>1, <1>2 DEF BootInOrder, Booted
<1>5. OneAtStem' /\ AskedToReplace'
  BY <1>1, <1>2 DEF SourceInv, OneAtStem, AskedToReplace
<1>6. ContentsOwned'
  <2>1. \A s \in Stem, k \in Nat : Carries(s, k)' => Carries(s, k)
    BY <1>1, <1>2 DEF Carries
  <2>. QED BY <1>1, <2>1 DEF SourceInv, ContentsOwned
<1>7. StemsFollowed'
  <2>1. ASSUME NEW s \in Stem, s \notin mixed' PROVE Resting(s)' /\ boot'.stem # s
    <3>1. AtRest(s) /\ boot.stem # s /\ s \notin mixed
      BY <1>t, <1>1, <2>1 DEF AtRest
    <3>2. Resting(s)
      BY <3>1 DEF SourceInv, StemsFollowed
    <3>3. boot'.stem # s /\ (~ Booted' => ~ Booted)
      BY <1>t, <1>1, <3>1 DEF Booted
    <3>4. Resting(s)'
      BY <1>1, <3>2, <3>3 DEF Resting, FitsTo, Listed
    <3>. QED BY <3>3, <3>4
  <2>. QED BY <1>2, <2>1 DEF StemsFollowed
<1>. QED BY <1>3, <1>4, <1>5, <1>6, <1>7 DEF SourceInv

--------------------------------------------------------------------------------

LEMMA LegacyStep == ASSUME SourceInv, LegacyInv, SourceNext PROVE LegacyInv'
<1>t. SourceTyped /\ BootInOrder
  BY DEF SourceInv
<1>b. \A r \in SourceRequest : Working(r) => boot.pc = "open"
  BY <1>t DEF BootInOrder, Booted
<1>1. ASSUME NEW r \in SourceRequest, BeginUpload(r) PROVE LegacyInv'
  <2>1. /\ boot.pc = "open" /\ UNCHANGED << texts, legacy, boot >> /\ serving'[r].pc \in {"purge", "open"}
        /\ \A q \in SourceRequest : q # r => serving'[q] = serving[q]
    BY <1>t, <1>1 DEF BeginUpload, SourceTyped, UploadJob, Booted
  <2>. QED BY <2>1 DEF LegacyInv
<1>2. ASSUME NEW r \in SourceRequest, BeginEdit(r) PROVE LegacyInv'
  <2>1. PICK s \in Stem, k \in Int :
          serving' = [serving EXCEPT ![r] = [NoJob EXCEPT !.pc = "open", !.op = "edit", !.stem = s, !.content = k]]
    <3>1. PICK s \in Stem :
            serving' = [serving EXCEPT ![r] = [NoJob EXCEPT !.pc = "open", !.op = "edit", !.stem = s,
              !.content = IF texts[s] = 0 THEN contents + 1 ELSE IF texts[s] < 0 THEN -texts[s] ELSE texts[s]]]
      BY <1>2 DEF BeginEdit
    <3>2. texts[s] \in Int /\ contents \in Int
      BY <1>t DEF SourceTyped
    <3>3. (IF texts[s] = 0 THEN contents + 1 ELSE IF texts[s] < 0 THEN -texts[s] ELSE texts[s]) \in Int
      BY <3>2
    <3>. QED BY <3>1, <3>3
  <2>2. [NoJob EXCEPT !.pc = "open", !.op = "edit", !.stem = s, !.content = k].pc = "open"
    BY DEF NoJob
  <2>3. /\ UNCHANGED << texts, legacy, boot >> /\ serving'[r].pc = "open"
        /\ \A q \in SourceRequest : q # r => serving'[q] = serving[q]
    BY <1>t, <1>2, <2>1, <2>2 DEF BeginEdit, SourceTyped
  <2>. QED BY <2>3 DEF LegacyInv
<1>3. ASSUME NEW r \in SourceRequest, DeleteText(r) PROVE LegacyInv'
  <2>1. PICK s \in Stem :
          /\ texts' = [texts EXCEPT ![s] = 0] /\ legacy' = legacy \ {s} /\ boot.pc = "open" /\ UNCHANGED boot
          /\ serving' = [serving EXCEPT ![r] = DeleteJob(s)]
    BY <1>3 DEF DeleteText, DeleteJob, Booted
  <2>2. /\ serving'[r].pc = "originals" /\ \A q \in SourceRequest : q # r => serving'[q] = serving[q]
        /\ \A t \in legacy' : texts'[t] = texts[t] /\ t \in legacy
    BY <1>t, <2>1, JobsMade DEF SourceTyped
  <2>. QED BY <2>1, <2>2 DEF LegacyInv
<1>4. ASSUME NEW r \in SourceRequest,
             PurgeOriginals(r) \/ OpenText(r) \/ WriteText(r) \/ OpenOriginal(r) \/ CopyOriginal(r)
             \/ BackupRaises(r) \/ RequestRaises(r) \/ DeleteOriginals(r)
      PROVE  LegacyInv'
  <2>1. Working(r) /\ UNCHANGED boot /\ legacy' \subseteq legacy
    BY <1>4 DEF Working, InJob, PurgeOriginals, OpenText, WriteText, OpenOriginal, CopyOriginal, BackupRaises,
       RequestRaises, DeleteOriginals
  <2>2. PICK pc \in JobPc : serving' = Serves(r, pc)
    BY <1>4 DEF JobPc, PurgeOriginals, OpenText, WriteText, OpenOriginal, CopyOriginal, BackupRaises,
       RequestRaises, DeleteOriginals
  <2>3. /\ serving'[r].pc = pc /\ serving'[r].stem = serving[r].stem
        /\ \A q \in SourceRequest : q # r => serving'[q] = serving[q]
    BY <1>t, <2>2, JobMoves
  <2>4. serving[r].stem \in legacy' => pc \notin {"text", "backup", "original"} /\ texts' = texts
    <3>1. CASE PurgeOriginals(r) \/ RequestRaises(r) \/ DeleteOriginals(r)
      <4>1. (serving' = Serves(r, "open") \/ serving' = Serves(r, "done")) /\ texts' = texts
        BY <3>1 DEF PurgeOriginals, RequestRaises, DeleteOriginals
      <4>2. serving'[r].pc \in {"open", "done"}
        BY <1>t, <4>1, JobMoves DEF JobPc
      <4>. QED BY <2>3, <4>1, <4>2
    <3>2. CASE OpenText(r)
      BY <3>2 DEF OpenText
    <3>3. CASE WriteText(r) \/ OpenOriginal(r) \/ CopyOriginal(r) \/ BackupRaises(r)
      BY <2>1, <3>3 DEF LegacyInv, WriteText, OpenOriginal, CopyOriginal, BackupRaises, InJob
    <3>. QED BY <1>4, <3>1, <3>2, <3>3
  <2>5. \A t \in Stem : t # serving[r].stem => texts'[t] = texts[t]
    BY <1>4, <1>t, <2>1, AtWork DEF SourceTyped, PurgeOriginals, OpenText, WriteText, OpenOriginal, CopyOriginal,
       BackupRaises, RequestRaises, DeleteOriginals
  <2>6. \A t \in legacy' : t \in legacy /\ texts'[t] = texts[t]
    BY <1>t, <2>1, <2>4, <2>5 DEF SourceTyped
  <2>. QED BY <1>b, <2>1, <2>3, <2>4, <2>6 DEF LegacyInv
<1>5. CASE ConvertNext \/ BackUp \/ EmptyText \/ Convert \/ EndConversion \/ ConversionRaises
  <2>1. UNCHANGED serving
    BY <1>5 DEF ConvertNext, BackUp, EmptyText, Convert, EndConversion, ConversionRaises, Requests
  <2>2. \A r \in SourceRequest : serving[r].pc \notin {"text", "backup", "original"}
    BY <1>5, <1>b DEF ConvertNext, BackUp, EmptyText, Convert, EndConversion, ConversionRaises, BootAt, Working
  <2>3. CASE ConvertNext
    <3>1. UNCHANGED << texts, legacy >> /\ boot'.pc \in {"copy", "text"} /\ boot'.stem \in legacy
      BY <2>3 DEF ConvertNext, Boot
    <3>. QED BY <2>1, <2>2, <3>1 DEF LegacyInv
  <2>4. CASE BackUp
    <3>1. UNCHANGED << texts, legacy >> /\ boot'.pc = "text" /\ boot'.stem \in legacy
      BY <2>4 DEF BackUp, Boot, BootAt, LegacyInv
    <3>. QED BY <2>1, <2>2, <3>1 DEF LegacyInv
  <2>5. CASE EmptyText
    <3>1. /\ texts' = [texts EXCEPT ![boot.stem] = -texts[boot.stem]] /\ legacy' = legacy \ {boot.stem}
          /\ boot'.pc = "convert" /\ boot'.stem = boot.stem /\ boot.stem \in legacy
      BY <2>5 DEF EmptyText, Boot, BootAt, LegacyInv
    <3>2. boot.stem \in Stem /\ texts[boot.stem] \in Int /\ texts[boot.stem] > 0 /\ legacy \subseteq Stem
      BY <1>t, <3>1 DEF SourceTyped, LegacyInv
    <3>3. texts'[boot.stem] < 0 /\ \A t \in legacy' : texts'[t] = texts[t] /\ t \in legacy
      BY <1>t, <3>1, <3>2 DEF SourceTyped
    <3>. QED BY <2>1, <2>2, <3>1, <3>3 DEF LegacyInv
  <2>6. CASE Convert
    <3>1. /\ texts' = [texts EXCEPT ![boot.stem] = -texts[boot.stem]] /\ legacy' = legacy /\ boot'.pc = "look"
          /\ texts[boot.stem] < 0
      BY <2>6 DEF Convert, Boot, BootAt, LegacyInv
    <3>2. \A t \in legacy' : t # boot.stem /\ texts'[t] = texts[t]
      <4>1. ASSUME boot.stem \in legacy PROVE FALSE
        <5>1. texts[boot.stem] > 0 /\ texts[boot.stem] \in Int
          BY <4>1, <1>t DEF LegacyInv, SourceTyped
        <5>. QED BY <3>1, <5>1
      <4>. QED BY <1>t, <3>1, <4>1 DEF SourceTyped
    <3>. QED BY <2>1, <2>2, <3>1, <3>2 DEF LegacyInv
  <2>7. CASE EndConversion \/ ConversionRaises
    <3>1. UNCHANGED << texts, legacy >> /\ boot'.pc = "open"
      BY <2>7 DEF EndConversion, ConversionRaises, Boot
    <3>. QED BY <2>1, <2>2, <3>1 DEF LegacyInv
  <2>. QED BY <1>5, <2>3, <2>4, <2>5, <2>6, <2>7
<1>6. CASE ServerStops
  <2>1. /\ UNCHANGED << texts, legacy >> /\ boot'.pc \in {"open", "look"}
        /\ serving' = [r \in SourceRequest |-> IF Working(r) THEN [serving[r] EXCEPT !.pc = "done"] ELSE serving[r]]
    BY <1>6 DEF ServerStops, Booted
  <2>2. \A r \in SourceRequest : serving'[r].pc \notin {"text", "backup", "original"}
    <3>1. ASSUME NEW r \in SourceRequest PROVE serving'[r].pc \in {"away", "done"}
      <4>1. PICK j \in Job : j = serving[r]
        BY <1>t DEF SourceTyped
      <4>2. [j EXCEPT !.pc = "done"].pc = "done"
        BY DEF Job
      <4>. QED BY <2>1, <4>1, <4>2 DEF Working
    <3>. QED BY <3>1
  <2>. QED BY <2>1, <2>2 DEF LegacyInv
<1>. QED BY <1>1, <1>2, <1>3, <1>4, <1>5, <1>6 DEF SourceNext

LEMMA SourceInitInv == SourceInit => SourceInv /\ LegacyInv
<1>. SUFFICES ASSUME SourceInit PROVE SourceInv /\ LegacyInv
  OBVIOUS
<1>1. /\ contents = Cardinality(Base) /\ texts \in [Stem -> 0 .. contents]
      /\ \A s, t \in Stem : texts[s] = texts[t] /\ texts[s] # 0 => s = t
      /\ raw = [s \in Stem |-> NoOriginal] /\ legacy \in SUBSET {s \in Stem : texts[s] # 0}
      /\ boot = [pc |-> "look", stem |-> NotAt] /\ serving = [r \in SourceRequest |-> NoJob]
      /\ lossy = {} /\ overrun = {} /\ mixed = {}
  BY DEF SourceInit
<1>2. contents \in Nat
  BY <1>1, SourceAssumption, FS_CardinalityType
<1>3. \A r \in SourceRequest : serving[r] = NoJob /\ serving[r].pc = "away" /\ serving[r].stem = NotAt /\ ~ Working(r)
  BY <1>1 DEF NoJob, Working, NotAt
<1>4. NoJob \in Job /\ NoOriginal \in [Ext -> Int]
  BY DEF NoJob, Job, JobPc, Ext, NotAt, NoOriginal
<1>5. \A s \in Stem : texts[s] \in Nat /\ texts[s] <= contents
  BY <1>1, <1>2
<1>6. SourceTyped
  <2>1. texts \in [Stem -> Int]
    BY <1>1, <1>5
  <2>. QED BY <1>1, <1>2, <1>4, <2>1 DEF SourceTyped
<1>7. BootInOrder /\ OneAtStem /\ AskedToReplace
  BY <1>1, <1>3 DEF BootInOrder, OneAtStem, AskedToReplace
<1>8. ContentsOwned
  <2>1. ASSUME NEW s \in Stem, NEW k \in Nat, Carries(s, k) PROVE texts[s] = k /\ k # 0
    BY <1>3, <1>5, <2>1, NotAtApart DEF Carries
  <2>. QED BY <1>1, <1>5, <2>1 DEF ContentsOwned
<1>9. StemsFollowed
  <2>1. \A s \in Stem : Resting(s)
    BY <1>1, <1>5 DEF Resting, FitsTo, Listed, NoOriginal, Ext
  <2>. QED BY <1>1, <1>3, <2>1, NotAtApart DEF StemsFollowed
<1>10. LegacyInv
  BY <1>1, <1>3, <1>5 DEF LegacyInv
<1>. QED BY <1>6, <1>7, <1>8, <1>9, <1>10 DEF SourceInv

LEMMA SourceStep == SourceInv /\ LegacyInv /\ [SourceNext]_sourcing => SourceInv' /\ LegacyInv'
<1>. SUFFICES ASSUME SourceInv, LegacyInv, [SourceNext]_sourcing PROVE SourceInv' /\ LegacyInv'
  OBVIOUS
<1>1. CASE SourceNext
  <2>1. ASSUME NEW r \in SourceRequest,
               \/ BeginUpload(r) \/ PurgeOriginals(r) \/ OpenText(r) \/ WriteText(r) \/ OpenOriginal(r)
               \/ CopyOriginal(r) \/ BackupRaises(r) \/ RequestRaises(r)
               \/ BeginEdit(r) \/ DeleteText(r) \/ DeleteOriginals(r)
        PROVE  SourceInv'
    BY <2>1, BeginUploadStep, PurgeOriginalsStep, OpenTextStep, WriteTextStep, OpenOriginalStep, CopyOriginalStep,
       BackupRaisesStep, RequestRaisesStep, BeginEditStep, DeleteTextStep, DeleteOriginalsStep
  <2>2. SourceInv'
    BY <1>1, <2>1, ConvertNextStep, BackUpStep, EmptyTextStep, ConvertStep, EndConversionStep,
       ConversionRaisesStep, ServerStopsStep DEF SourceNext
  <2>. QED BY <1>1, <2>2, LegacyStep
<1>2. CASE UNCHANGED sourcing
  <2>1. UNCHANGED << texts, raw, legacy, boot, serving, contents, lossy, overrun, mixed >>
    BY <1>2 DEF sourcing
  <2>2. SourceTyped' /\ BootInOrder' /\ OneAtStem' /\ AskedToReplace'
    BY <2>1 DEF SourceInv, SourceTyped, BootInOrder, Booted, Working, OneAtStem, AskedToReplace
  <2>3. ContentsOwned'
    BY <2>1 DEF SourceInv, ContentsOwned, Carries
  <2>4. StemsFollowed'
    <3>1. \A s \in Stem : Resting(s)' = Resting(s) /\ AtRest(s)' = AtRest(s) /\ Converting(s)' = Converting(s)
      BY <2>1 DEF Resting, AtRest, Converting, FitsTo, Listed, Working, Booted
    <3>2. \A r \in SourceRequest : /\ Working(r)' = Working(r) /\ Uploading(r)' = Uploading(r)
                                   /\ Editing(r)' = Editing(r) /\ Deleting(r)' = Deleting(r)
      BY <2>1 DEF Working, Uploading, Editing, Deleting, FitsTo, Listed
    <3>. QED BY <2>1, <3>1, <3>2 DEF SourceInv, StemsFollowed
  <2>5. LegacyInv'
    BY <2>1 DEF LegacyInv
  <2>. QED BY <2>2, <2>3, <2>4, <2>5 DEF SourceInv
<1>. QED BY <1>1, <1>2

\* Whatever the order of uploads, edits, deletions and conversions, the original that is
\* listed with a text is the one it was made from, and no upload that was not to replace
\* anything writes over a text: except on stems where requests overlapped, failed or were
\* cut off.
THEOREM SourcesStayHonest == SourceSpec => []SourcesHonest
<1>1. SourceInv => SourcesHonest
  <2>. SUFFICES ASSUME SourceInv,
                       NEW s \in Stem, Booted, texts[s] > 0, s \notin mixed,
                       \A r \in SourceRequest : ~ (Working(r) /\ serving[r].stem = s)
                PROVE  Listed(s) = IF texts[s] \in lossy THEN texts[s] ELSE 0
    BY DEF SourceInv, SourcesHonest, OriginalFits
  <2>1. Resting(s) /\ texts[s] \in Int
    BY StemSettled DEF AtRest, SourceInv, SourceTyped
  <2>. QED BY <2>1 DEF Resting, FitsTo
<1>. QED BY <1>1, SourceInitInv, SourceStep, PTL DEF SourceSpec

--------------------------------------------------------------------------------
(* The library of assets.                                                   *)

Entry == Name \X Nat
AnyName == Name \union {""}
CopyType == [entry : Entry, picture : Nat]
AssetType == [name : Name, picture : Nat]

AssetJobType ==
  [op : {"none", "create", "replace", "overwrite", "delete", "apply"},
   pc : {"away", "save", "write", "refresh", "delete", "plan", "copy", "done"},
   id : Nat, name : AnyName, old : Nat, new : Nat,
   policy : {"skip", "overwrite", "rename"}, seen : SUBSET Entry, plan : Seq(CopyType), copied : Nat]

\* Which request waits where, and what it may have in hand there.
Shape(a) ==
  /\ a.pc \in {"save", "write", "refresh"} => a.op \in {"create", "replace", "overwrite"}
  /\ a.op = "create" => a.old = 0 /\ a.name \in Name
  /\ a.pc = "delete" => a.op = "delete"
  /\ a.pc \in {"plan", "copy"} => a.op = "apply"
  /\ a.pc = "away" => a.old = 0 /\ a.op = "none"
  /\ a.pc \in {"away", "save"} => a.new = 0
  /\ a.pc \in {"away", "plan"} => a.copied = 0
  /\ IsFiniteSet(a.seen)

LibraryTypeOK ==
  /\ pictures \in Nat /\ ids \in Nat
  /\ rows \in [DOMAIN rows -> AssetType] /\ DOMAIN rows \subseteq 1 .. ids
  /\ library \subseteq 1 .. pictures
  /\ entries \in [DOMAIN entries -> Nat] /\ DOMAIN entries \subseteq Entry /\ IsFiniteSet(DOMAIN entries)
  /\ handling \in [AssetRequest -> AssetJobType]
  /\ \A r \in AssetRequest : Shape(handling[r])

\* Two assets differ in their names and in their pictures.
AssetsDiffer ==
  \A i, j \in DOMAIN rows : i # j =>
    rows[i].name # rows[j].name /\ (rows[i].picture # rows[j].picture \/ rows[i].picture = 0)

\* A picture has been saved, once, and is nobody else's until the commit.
PicturesKnown ==
  /\ \A id \in DOMAIN rows : rows[id].picture <= pictures
  /\ \A r \in AssetRequest : handling[r].new <= pictures /\ handling[r].old <= pictures
  /\ \A r, q \in AssetRequest : r # q => handling[r].new # handling[q].new \/ handling[r].new = 0

NewIsOwn ==
  \A r \in AssetRequest : handling[r].pc = "write" /\ handling[r].new # 0 =>
    /\ handling[r].new \in library
    /\ \A id \in DOMAIN rows : rows[id].picture # handling[r].new
    /\ \A q \in AssetRequest : handling[q].old # handling[r].new

\* After the commit the new picture is the row's, if anybody's.
NewIsGiven ==
  \A r \in AssetRequest : handling[r].pc = "refresh" /\ handling[r].new # 0 =>
    \A id \in DOMAIN rows : rows[id].picture = handling[r].new => id = handling[r].id

\* The old one is the row's until the commit, and then nobody's.
OldIsOwn ==
  \A r \in AssetRequest : handling[r].old # 0 =>
    /\ handling[r].pc \in {"save", "write"} =>
         \A id \in DOMAIN rows : rows[id].picture = handling[r].old => id = handling[r].id
    /\ handling[r].pc = "refresh" => \A id \in DOMAIN rows : rows[id].picture # handling[r].old
    /\ handling[r].pc = "delete" => handling[r].old \notin library

\* PictureThere, with the picture that the deletion has removed.
PictureKept ==
  \A id \in DOMAIN rows :
    \/ rows[id].picture \in library \union {0} \union botched
    \/ \E r \in AssetRequest : /\ handling[r].pc = "delete" /\ handling[r].id = id
                               /\ handling[r].old = rows[id].picture

\* NoneLeft, with the picture that each request answers for.
PictureOwned ==
  \A p \in library :
    \/ p \in orphaned \/ \E id \in DOMAIN rows : rows[id].picture = p
    \/ \E r \in AssetRequest : \/ handling[r].pc = "write" /\ p = handling[r].new
                               \/ handling[r].pc = "refresh" /\ p = handling[r].old

PictureInv ==
  /\ AssetsDiffer /\ PicturesKnown /\ NewIsOwn /\ NewIsGiven /\ OldIsOwn /\ PictureKept /\ PictureOwned

\* A request copies to each entry once.
PlansDiffer ==
  \A r \in AssetRequest : Copying(r) =>
    /\ handling[r].copied <= Len(handling[r].plan)
    /\ \A i, j \in DOMAIN handling[r].plan :
         handling[r].plan[i].entry = handling[r].plan[j].entry => i = j

\* What it has copied is there, unless another one copies there too, or did.
CopiesThere ==
  \A r \in AssetRequest : Copying(r) =>
    \A i \in DOMAIN handling[r].plan : i <= handling[r].copied =>
      LET c == handling[r].plan[i] IN
      \/ c.picture = 0 \/ c.entry \in contested
      \/ c.entry \in DOMAIN sheets /\ sheets[c.entry] = c.picture
      \/ \E q \in AssetRequest \ {r} : Copying(q) /\ c.entry \in Planned(q)

CopyInv == PlansDiffer /\ CopiesThere /\ EntryShows

LibraryInv == LibraryTypeOK /\ PictureInv /\ CopyInv


LEMMA BeginLibrary == LibraryInit => LibraryInv
<1>. SUFFICES ASSUME LibraryInit PROVE LibraryInv
  OBVIOUS
<1>1. /\ rows \in Shelves /\ library = {rows[id].picture : id \in DOMAIN rows} \ {0}
      /\ pictures = Cardinality(library) /\ ids = Cardinality(DOMAIN rows)
      /\ handling = [r \in AssetRequest |-> NotAskedFor]
  BY DEF LibraryInit
<1>2. /\ rows \in Seq(AssetType)
      /\ \E k \in 0 .. Len(rows) : library = 1 .. k
      /\ AssetsDiffer
  BY <1>1, LibraryAssumption DEF AssetType, AssetsDiffer
<1>3. Len(rows) \in Nat /\ DOMAIN rows = 1 .. Len(rows) /\ ids = Len(rows)
      /\ rows \in [DOMAIN rows -> AssetType]
  <2>1. Len(rows) \in Nat /\ DOMAIN rows = 1 .. Len(rows) /\ rows \in [1 .. Len(rows) -> AssetType]
    BY <1>2, LenProperties
  <2>2. Cardinality(1 .. Len(rows)) = Len(rows)
    BY <2>1, FS_Interval
  <2>. QED BY <2>1, <2>2, <1>1
<1>4. PICK k \in 0 .. Len(rows) : library = 1 .. k
  BY <1>2
<1>5. pictures = k /\ k \in Nat
  <2>1. k \in Nat
    BY <1>3
  <2>2. Cardinality(1 .. k) = k
    BY <2>1, FS_Interval
  <2>. QED BY <2>1, <2>2, <1>1, <1>4
<1>6. NotAskedFor \in AssetJobType /\ Shape(NotAskedFor) /\ NotAskedFor.pc = "away"
      /\ NotAskedFor.old = 0 /\ NotAskedFor.new = 0
  BY EmptySeq, FS_EmptySet DEF NotAskedFor, AssetJobType, AnyName, Shape
<1>7. PICK given \in SUBSET {Plain(n) : n \in Name} : entries = [e \in given |-> 0]
  BY DEF LibraryInit
<1>8. IsFiniteSet(given) /\ given \subseteq Entry
  <2>1. IsFiniteSet({Plain(n) : n \in Name})
    <3>. DEFINE f == [n \in Name |-> Plain(n)]
    <3>1. f \in Surjection(Name, {Plain(n) : n \in Name})
      BY DEF Surjection
    <3>. QED BY <3>1, LibraryAssumption, FS_Surjection
  <2>. QED BY <2>1, FS_Subset DEF Plain, Entry
<1>9. LibraryTypeOK
  BY <1>1, <1>3, <1>4, <1>5, <1>6, <1>7, <1>8 DEF LibraryTypeOK
<1>10. \A id \in DOMAIN rows : rows[id].picture \in library \union {0}
  BY <1>1
<1>11. PictureInv
  <2>1. PicturesKnown
    <3>1. \A id \in DOMAIN rows : rows[id].picture <= pictures
      BY <1>4, <1>5, <1>10
    <3>2. \A r \in AssetRequest : handling[r].new = 0 /\ handling[r].old = 0
      BY <1>1, <1>6
    <3>. QED BY <3>1, <3>2, <1>5 DEF PicturesKnown
  <2>2. NewIsOwn /\ NewIsGiven /\ OldIsOwn
    BY <1>1, <1>6 DEF NewIsOwn, NewIsGiven, OldIsOwn
  <2>3. PictureKept
    BY <1>10 DEF PictureKept
  <2>4. PictureOwned
    BY <1>1 DEF PictureOwned
  <2>. QED BY <1>2, <2>1, <2>2, <2>3, <2>4 DEF PictureInv
<1>12. CopyInv
  <2>1. \A r \in AssetRequest : ~ Copying(r)
    BY <1>1, <1>6 DEF Copying, In
  <2>2. EntryShows
    BY <1>7 DEF EntryShows
  <2>. QED BY <2>1, <2>2 DEF CopyInv, PlansDiffer, CopiesThere
<1>. QED BY <1>9, <1>11, <1>12 DEF LibraryInv

\* A request that copies nothing, before or after, and leaves the project alone.
LEMMA ProjectAside ==
  ASSUME CopyInv, LibraryTypeOK, UNCHANGED << entries, sheets, contested >>,
         NEW r \in AssetRequest, NEW a, handling' = [handling EXCEPT ![r] = a],
         handling[r].pc # "copy", a.pc # "copy"
  PROVE  CopyInv'
<1>1. handling'[r] = a /\ \A q \in AssetRequest : q # r => handling'[q] = handling[q]
  BY DEF LibraryTypeOK
<1>2. ~ Copying(r) /\ ~ Copying(r)'
  BY <1>1 DEF Copying, In
<1>3. ASSUME NEW q \in AssetRequest
      PROVE  (Copying(q)' <=> Copying(q)) /\ (Copying(q) => handling'[q] = handling[q] /\ Planned(q)' = Planned(q))
  BY <1>1, <1>2 DEF Copying, In, Planned
<1>4. PlansDiffer'
  BY <1>3 DEF CopyInv, PlansDiffer
<1>5. CopiesThere'
  BY <1>3 DEF CopyInv, CopiesThere
<1>6. EntryShows'
  BY <1>3 DEF CopyInv, EntryShows
<1>. QED BY <1>4, <1>5, <1>6 DEF CopyInv

\* A request that has no picture in hand, before or after, and leaves the pictures alone.
LEMMA StoreAside ==
  ASSUME PictureInv, LibraryTypeOK, UNCHANGED << rows, library, pictures, ids, orphaned, botched >>,
         NEW r \in AssetRequest, NEW a, handling' = [handling EXCEPT ![r] = a],
         handling[r].pc \in {"away", "plan", "copy"}, a.pc \in {"plan", "copy", "done"},
         a.new = handling[r].new, a.old = handling[r].old
  PROVE  PictureInv'
<1>1. handling'[r] = a /\ \A q \in AssetRequest : q # r => handling'[q] = handling[q]
  BY DEF LibraryTypeOK
<1>2. \A q \in AssetRequest : handling'[q].new = handling[q].new /\ handling'[q].old = handling[q].old
  BY <1>1
<1>3. AssetsDiffer' /\ PicturesKnown'
  BY <1>1, <1>2 DEF PictureInv, AssetsDiffer, PicturesKnown
<1>4. NewIsOwn'
  BY <1>1, <1>2 DEF PictureInv, NewIsOwn
<1>5. NewIsGiven'
  BY <1>1, <1>2 DEF PictureInv, NewIsGiven
<1>6. OldIsOwn'
  BY <1>1, <1>2 DEF PictureInv, OldIsOwn
<1>7. PictureKept'
  BY <1>1 DEF PictureInv, PictureKept
<1>8. PictureOwned'
  BY <1>1 DEF PictureInv, PictureOwned
<1>. QED BY <1>3, <1>4, <1>5, <1>6, <1>7, <1>8 DEF PictureInv

LEMMA TurnIs ==
  ASSUME LibraryTypeOK, NEW r \in AssetRequest, Turn(r, "done") \/ Turn(r, "refresh")
  PROVE  \E a \in AssetJobType :
           /\ handling' = [handling EXCEPT ![r] = a]
           /\ Turn(r, "done") => a.pc = "done"
           /\ Turn(r, "refresh") => a.pc = "refresh"
           /\ a.op = handling[r].op /\ a.id = handling[r].id /\ a.name = handling[r].name
           /\ a.old = handling[r].old /\ a.new = handling[r].new /\ a.seen = handling[r].seen
<1>1. handling[r] \in AssetJobType
  BY DEF LibraryTypeOK
<1>2. ASSUME NEW pc \in {"done", "refresh"}, Turn(r, pc)
      PROVE  \E a \in AssetJobType :
               /\ handling' = [handling EXCEPT ![r] = a] /\ a.pc = pc
               /\ a.op = handling[r].op /\ a.id = handling[r].id /\ a.name = handling[r].name
               /\ a.old = handling[r].old /\ a.new = handling[r].new /\ a.seen = handling[r].seen
  <2>1. PICK a : a = [handling[r] EXCEPT !.pc = pc]
    OBVIOUS
  <2>2. a \in AssetJobType
    BY <2>1, <1>1 DEF AssetJobType
  <2>3. handling' = [handling EXCEPT ![r] = a]
    BY <2>1, <1>2 DEF Turn
  <2>4. /\ a.pc = pc
        /\ a.op = handling[r].op /\ a.id = handling[r].id /\ a.name = handling[r].name
        /\ a.old = handling[r].old /\ a.new = handling[r].new /\ a.seen = handling[r].seen
    BY <2>1, <1>1 DEF AssetJobType
  <2>. QED BY <2>2, <2>3, <2>4
<1>3. ~ (Turn(r, "done") /\ Turn(r, "refresh"))
  <2>. SUFFICES ASSUME Turn(r, "done"), Turn(r, "refresh") PROVE FALSE
    OBVIOUS
  <2>1. handling'[r].pc = "done"
    BY <1>1 DEF Turn, LibraryTypeOK, AssetJobType
  <2>2. handling'[r].pc = "refresh"
    BY <1>1 DEF Turn, LibraryTypeOK, AssetJobType
  <2>. QED BY <2>1, <2>2
<1>. QED BY <1>2, <1>3

LEMMA BegunIs ==
  ASSUME LibraryTypeOK, NEW r \in AssetRequest, handling[r].pc = "away",
         NEW op \in {"create", "replace", "overwrite", "delete"}, NEW pc \in {"save", "write", "delete"},
         NEW id \in Nat, NEW name \in AnyName, NEW old \in Nat,
         Begun(r, op, pc, id, name, old)
  PROVE  \E a \in AssetJobType :
           /\ handling' = [handling EXCEPT ![r] = a]
           /\ a.op = op /\ a.pc = pc /\ a.id = id /\ a.name = name /\ a.old = old /\ a.new = 0
           /\ IsFiniteSet(a.seen)
<1>1. handling[r] \in AssetJobType /\ Shape(handling[r])
  BY DEF LibraryTypeOK
<1>2. PICK a : a = [handling[r] EXCEPT !.op = op, !.pc = pc, !.id = id, !.name = name, !.old = old]
  OBVIOUS
<1>3. a \in AssetJobType /\ a.op = op /\ a.pc = pc /\ a.id = id /\ a.name = name /\ a.old = old
      /\ a.new = handling[r].new /\ a.seen = handling[r].seen
  BY <1>1, <1>2 DEF AssetJobType
<1>4. handling' = [handling EXCEPT ![r] = a]
  BY <1>2 DEF Begun
<1>5. handling[r].new = 0 /\ IsFiniteSet(handling[r].seen)
  BY <1>1 DEF Shape
<1>. QED BY <1>3, <1>4, <1>5

\* A request that will bring a picture begins, with the one that its row has as the old one.
LEMMA RequestBegins ==
  ASSUME LibraryInv, NEW r \in AssetRequest, handling[r].pc = "away",
         NEW op \in {"create", "replace", "overwrite"}, NEW pc \in {"save", "write"},
         NEW id \in Nat, NEW name \in AnyName, NEW old \in Nat,
         Begun(r, op, pc, id, name, old),
         op = "create" => old = 0 /\ name \in Name,
         old = 0 \/ (id \in DOMAIN rows /\ old = rows[id].picture),
         Project, UNCHANGED << rows, library, pictures, ids, orphaned, botched, mishaps >>
  PROVE  LibraryInv'
<1>t. LibraryTypeOK /\ PictureInv /\ CopyInv
  BY DEF LibraryInv
<1>0. op \in {"create", "replace", "overwrite", "delete"} /\ pc \in {"save", "write", "delete"}
  OBVIOUS
<1>1. PICK a \in AssetJobType :
           /\ handling' = [handling EXCEPT ![r] = a]
           /\ a.op = op /\ a.pc = pc /\ a.id = id /\ a.name = name /\ a.old = old /\ a.new = 0
           /\ IsFiniteSet(a.seen)
  BY <1>0, <1>t, BegunIs
<1>u. /\ UNCHANGED rows /\ UNCHANGED library /\ UNCHANGED orphaned /\ UNCHANGED botched
      /\ UNCHANGED pictures
  OBVIOUS
<1>p. handling[r].pc = "away" /\ a.pc \in {"save", "write"}
  BY <1>1
<1>2. handling'[r] = a /\ \A q \in AssetRequest : q # r => handling'[q] = handling[q]
  BY <1>1, <1>t DEF LibraryTypeOK
<1>3. handling[r].new = 0
  BY <1>t DEF LibraryTypeOK, Shape
<1>4. UNCHANGED << entries, sheets, contested >>
  BY DEF Project
<1>5. LibraryTypeOK'
  <2>1. Shape(a)
    BY <1>1 DEF Shape
  <2>. QED BY <2>1, <1>1, <1>2, <1>4, <1>t DEF LibraryTypeOK
<1>6. CopyInv'
  BY <1>1, <1>4, <1>t, ProjectAside
<1>7. PictureInv'
  <2>differ. AssetsDiffer'
    BY <1>t DEF PictureInv, AssetsDiffer
  <2>known. PicturesKnown'
    <3>1. old <= pictures
      <4>1. 0 <= pictures /\ \A i \in DOMAIN rows : rows[i].picture <= pictures
        BY <1>t DEF PictureInv, PicturesKnown, LibraryTypeOK
      <4>. QED BY <4>1
    <3>2. \A q \in AssetRequest : handling'[q].new = handling[q].new
      BY <1>1, <1>2, <1>3
    <3>3. \A q \in AssetRequest : handling'[q].old <= pictures
      BY <3>1, <1>1, <1>2, <1>t DEF PictureInv, PicturesKnown
    <3>. QED BY <3>2, <3>3, <1>t DEF PictureInv, PicturesKnown
  <2>own. NewIsOwn'
    <3>1. \A q \in AssetRequest : handling[q].pc = "write" /\ handling[q].new # 0 => handling[q].new # old
      BY <1>t DEF PictureInv, NewIsOwn
    <3>. QED BY <3>1, <1>1, <1>2, <1>t, <1>u, <1>p DEF PictureInv, NewIsOwn
  <2>given. NewIsGiven'
    BY <1>1, <1>2, <1>t, <1>u, <1>p DEF PictureInv, NewIsGiven
  <2>old. OldIsOwn'
    <3>1. old # 0 => \A i \in DOMAIN rows : rows[i].picture = old => i = id
      BY <1>t DEF PictureInv, AssetsDiffer
    <3>. QED BY <3>1, <1>1, <1>2, <1>t, <1>u, <1>p DEF PictureInv, OldIsOwn
  <2>kept. PictureKept'
    BY <1>1, <1>2, <1>t, <1>u, <1>p DEF PictureInv, PictureKept
  <2>owned. PictureOwned'
    BY <1>1, <1>2, <1>t, <1>u, <1>p DEF PictureInv, PictureOwned
  <2>. QED BY <2>differ, <2>known, <2>own, <2>given, <2>old, <2>kept, <2>owned DEF PictureInv
<1>. QED BY <1>5, <1>6, <1>7 DEF LibraryInv

LEMMA BeginningSteps ==
  ASSUME LibraryInv, NEW r \in AssetRequest, CreateAsset(r) \/ ReplaceImage(r) \/ FromProject(r)
  PROVE  LibraryInv'
<1>t. LibraryTypeOK
  BY DEF LibraryInv
<1>1. \A id \in DOMAIN rows : id \in Nat /\ rows[id].picture \in Nat
  BY <1>t DEF LibraryTypeOK, AssetType
<1>n. "" \in AnyName /\ \A n \in Name : n \in AnyName
  BY DEF AnyName
<1>2. CASE CreateAsset(r)
  BY <1>2, <1>n, RequestBegins DEF CreateAsset
<1>3. CASE ReplaceImage(r)
  BY <1>1, <1>3, <1>n, RequestBegins DEF ReplaceImage, ById
<1>4. CASE FromProject(r)
  <2>1. PICK n \in Name, pc \in {"save", "write"} :
         \/ Named(n) = {} /\ Begun(r, "create", pc, 0, n, 0)
         \/ \E id \in Named(n) : Begun(r, "overwrite", pc, id, n, ById(id).picture)
    BY <1>4 DEF FromProject
  <2>2. CASE Begun(r, "create", pc, 0, n, 0)
    BY <2>2, <1>4, <1>n, RequestBegins DEF FromProject
  <2>3. ASSUME NEW id \in Named(n), Begun(r, "overwrite", pc, id, n, ById(id).picture) PROVE LibraryInv'
    <3>1. id \in DOMAIN rows
      BY DEF Named
    <3>. QED BY <3>1, <2>3, <1>1, <1>4, <1>n, RequestBegins DEF FromProject, ById
  <2>. QED BY <2>1, <2>2, <2>3
<1>. QED BY <1>2, <1>3, <1>4

LEMMA SavePictureStep ==
  ASSUME LibraryInv, NEW r \in AssetRequest, SavePicture(r)
  PROVE  LibraryInv'
<1>t. LibraryTypeOK /\ PictureInv /\ CopyInv /\ handling[r].pc = "save"
  BY DEF LibraryInv, SavePicture
<1>1. handling[r] \in AssetJobType /\ Shape(handling[r]) /\ Saved \in Nat /\ Saved = pictures + 1
      /\ pictures \in Nat
  BY <1>t DEF LibraryTypeOK, Saved
<1>2. PICK a : a = [handling[r] EXCEPT !.pc = "write", !.new = Saved]
  OBVIOUS
<1>3. a \in AssetJobType /\ a.pc = "write" /\ a.new = Saved /\ a.op = handling[r].op
      /\ a.old = handling[r].old /\ a.id = handling[r].id /\ a.seen = handling[r].seen
      /\ a.name = handling[r].name
  BY <1>1, <1>2 DEF AssetJobType
<1>4. handling' = [handling EXCEPT ![r] = a] /\ library' = library \union {Saved} /\ pictures' = Saved
      /\ UNCHANGED << entries, sheets, contested, rows, ids, orphaned, botched >>
  BY <1>2 DEF SavePicture, Project
<1>5. handling'[r] = a /\ \A q \in AssetRequest : q # r => handling'[q] = handling[q]
  BY <1>4, <1>t DEF LibraryTypeOK
<1>6. handling[r].new = 0
  BY <1>t, <1>1 DEF Shape
<1>7. LibraryTypeOK'
  <2>1. Shape(a)
    BY <1>1, <1>3, <1>t DEF Shape
  <2>2. library' \subseteq 1 .. pictures'
    BY <1>1, <1>4, <1>t DEF LibraryTypeOK
  <2>. QED BY <2>1, <2>2, <1>1, <1>3, <1>4, <1>5, <1>t DEF LibraryTypeOK
<1>8. CopyInv'
  BY <1>3, <1>4, <1>t, ProjectAside
<1>9. \A q \in AssetRequest : handling[q].new # Saved /\ handling[q].old # Saved
      /\ handling[q].new \in Nat /\ handling[q].old \in Nat
  <2>. SUFFICES ASSUME NEW q \in AssetRequest
                PROVE  /\ handling[q].new # Saved /\ handling[q].old # Saved
                       /\ handling[q].new \in Nat /\ handling[q].old \in Nat
    OBVIOUS
  <2>1. handling[q] \in AssetJobType
    BY <1>t DEF LibraryTypeOK
  <2>2. handling[q].new \in Nat /\ handling[q].old \in Nat
    BY <2>1 DEF AssetJobType
  <2>3. handling[q].new <= pictures /\ handling[q].old <= pictures
    BY <1>t DEF PictureInv, PicturesKnown
  <2>. QED BY <2>2, <2>3, <1>1
<1>10. \A id \in DOMAIN rows : rows[id].picture # Saved /\ rows[id].picture \in Nat
  BY <1>1, <1>t DEF PictureInv, PicturesKnown, LibraryTypeOK, AssetType
<1>11. PictureInv'
  <2>differ. AssetsDiffer'
    BY <1>4, <1>t DEF PictureInv, AssetsDiffer
  <2>known. PicturesKnown'
    <3>1. \A id \in DOMAIN rows : rows[id].picture <= Saved
      BY <1>1, <1>10, <1>t DEF PictureInv, PicturesKnown
    <3>2. \A q \in AssetRequest : handling'[q].new <= Saved /\ handling'[q].old <= Saved
      <4>1. \A q \in AssetRequest : handling[q].new <= Saved /\ handling[q].old <= Saved
        BY <1>1, <1>9, <1>t DEF PictureInv, PicturesKnown
      <4>. QED BY <4>1, <1>3, <1>5, <1>1
    <3>3. \A p, q \in AssetRequest : p # q => handling'[p].new # handling'[q].new \/ handling'[p].new = 0
      BY <1>3, <1>5, <1>9, <1>t DEF PictureInv, PicturesKnown
    <3>. QED BY <3>1, <3>2, <3>3, <1>4 DEF PicturesKnown
  <2>own. NewIsOwn'
    BY <1>3, <1>4, <1>5, <1>9, <1>10, <1>t DEF PictureInv, NewIsOwn
  <2>given. NewIsGiven'
    BY <1>3, <1>4, <1>5, <1>t DEF PictureInv, NewIsGiven
  <2>old. OldIsOwn'
    BY <1>3, <1>4, <1>5, <1>9, <1>t DEF PictureInv, OldIsOwn
  <2>kept. PictureKept'
    BY <1>3, <1>4, <1>5, <1>t DEF PictureInv, PictureKept
  <2>owned. PictureOwned'
    BY <1>3, <1>4, <1>5, <1>t DEF PictureInv, PictureOwned
  <2>. QED BY <2>differ, <2>known, <2>own, <2>given, <2>old, <2>kept, <2>owned DEF PictureInv
<1>. QED BY <1>7, <1>8, <1>11 DEF LibraryInv

\* A request ends that had saved nothing its row has, and what it gives up is noted.
LEMMA PicturesEnd ==
  ASSUME LibraryInv, NEW r \in AssetRequest, NEW a \in AssetJobType,
         handling' = [handling EXCEPT ![r] = a], a.pc = "done", a.op = handling[r].op,
         a.old = handling[r].old, a.new = handling[r].new, a.name = handling[r].name,
         a.seen = handling[r].seen, handling[r].pc # "copy",
         UNCHANGED << rows, ids, pictures >>, UNCHANGED << entries, sheets, contested >>,
         library' \subseteq library, orphaned \subseteq orphaned', botched \subseteq botched',
         \A p \in library \ library' : p # 0 =>
           /\ \A id \in DOMAIN rows : rows[id].picture = p => p \in botched'
           /\ \A q \in AssetRequest \ {r} : handling[q].new # p \/ handling[q].pc # "write",
         handling[r].pc = "write" /\ handling[r].new \in library' => handling[r].new \in orphaned',
         handling[r].pc = "refresh" /\ handling[r].old \in library' => handling[r].old \in orphaned',
         handling[r].pc = "delete" => handling[r].old \in botched'
  PROVE  LibraryInv'
<1>t. LibraryTypeOK /\ PictureInv /\ CopyInv
  BY DEF LibraryInv
<1>1. handling'[r] = a /\ \A q \in AssetRequest : q # r => handling'[q] = handling[q]
  BY <1>t DEF LibraryTypeOK
<1>2. LibraryTypeOK'
  <2>1. Shape(a)
    BY <1>t DEF LibraryTypeOK, Shape
  <2>. QED BY <2>1, <1>1, <1>t DEF LibraryTypeOK
<1>3. CopyInv'
  BY <1>t, ProjectAside
<1>4. \A q \in AssetRequest : handling'[q].new = handling[q].new /\ handling'[q].old = handling[q].old
  BY <1>1
<1>5. \A p \in library : p # 0
  BY <1>t DEF LibraryTypeOK
<1>6. AssetsDiffer' /\ PicturesKnown'
  BY <1>4, <1>t DEF PictureInv, AssetsDiffer, PicturesKnown
<1>7. NewIsOwn'
  <2>. SUFFICES ASSUME NEW q \in AssetRequest, handling'[q].pc = "write", handling'[q].new # 0
                PROVE  /\ handling'[q].new \in library'
                       /\ \A id \in DOMAIN rows' : rows'[id].picture # handling'[q].new
                       /\ \A s \in AssetRequest : handling'[s].old # handling'[q].new
    BY DEF NewIsOwn
  <2>1. q # r /\ handling'[q] = handling[q]
    BY <1>1
  <2>2. /\ handling[q].new \in library
        /\ \A id \in DOMAIN rows : rows[id].picture # handling[q].new
        /\ \A s \in AssetRequest : handling[s].old # handling[q].new
    BY <2>1, <1>t DEF PictureInv, NewIsOwn
  <2>3. handling[q].new \in library'
    BY <2>1, <2>2
  <2>. QED BY <2>1, <2>2, <2>3, <1>4
<1>8. NewIsGiven'
  BY <1>1, <1>4, <1>t DEF PictureInv, NewIsGiven
<1>9. OldIsOwn'
  BY <1>1, <1>4, <1>t DEF PictureInv, OldIsOwn
<1>10. PictureKept'
  <2>. SUFFICES ASSUME NEW id \in DOMAIN rows
                PROVE  \/ rows[id].picture \in library' \union {0} \union botched'
                       \/ \E q \in AssetRequest : /\ handling'[q].pc = "delete" /\ handling'[q].id = id
                                                  /\ handling'[q].old = rows[id].picture
    BY DEF PictureKept
  <2>1. CASE rows[id].picture \in library \union {0} \union botched
    BY <2>1, <1>5
  <2>2. ASSUME NEW q \in AssetRequest, handling[q].pc = "delete", handling[q].id = id,
               handling[q].old = rows[id].picture
        PROVE  \/ rows[id].picture \in library' \union {0} \union botched'
               \/ \E s \in AssetRequest : /\ handling'[s].pc = "delete" /\ handling'[s].id = id
                                          /\ handling'[s].old = rows[id].picture
    <3>1. CASE q = r
      BY <2>2, <3>1
    <3>2. CASE q # r
      BY <2>2, <3>2, <1>1
    <3>. QED BY <3>1, <3>2
  <2>. QED BY <2>1, <2>2, <1>t DEF PictureInv, PictureKept
<1>11. PictureOwned'
  <2>. SUFFICES ASSUME NEW p \in library'
                PROVE  \/ p \in orphaned' \/ \E id \in DOMAIN rows : rows[id].picture = p
                       \/ \E q \in AssetRequest : \/ handling'[q].pc = "write" /\ p = handling'[q].new
                                                  \/ handling'[q].pc = "refresh" /\ p = handling'[q].old
    BY DEF PictureOwned
  <2>1. ASSUME NEW q \in AssetRequest,
               (handling[q].pc = "write" /\ p = handling[q].new)
               \/ (handling[q].pc = "refresh" /\ p = handling[q].old)
        PROVE  \/ p \in orphaned'
               \/ \E s \in AssetRequest : \/ handling'[s].pc = "write" /\ p = handling'[s].new
                                          \/ handling'[s].pc = "refresh" /\ p = handling'[s].old
    <3>1. CASE q = r
      BY <2>1, <3>1
    <3>2. CASE q # r
      BY <2>1, <3>2, <1>1
    <3>. QED BY <3>1, <3>2
  <2>. QED BY <2>1, <1>t DEF PictureInv, PictureOwned
<1>. QED BY <1>2, <1>3, <1>6, <1>7, <1>8, <1>9, <1>10, <1>11 DEF LibraryInv, PictureInv

\* Who else has saved what this request has, and which rows show what it replaced.
LEMMA RefreshedStep ==
  ASSUME LibraryInv, NEW r \in AssetRequest, Refreshed(r)
  PROVE  LibraryInv'
<1>t. LibraryTypeOK /\ PictureInv /\ handling[r].pc = "refresh"
  BY DEF LibraryInv, Refreshed
<1>1. PICK a \in AssetJobType :
        /\ handling' = [handling EXCEPT ![r] = a] /\ a.pc = "done"
        /\ a.op = handling[r].op /\ a.id = handling[r].id /\ a.name = handling[r].name
        /\ a.old = handling[r].old /\ a.new = handling[r].new /\ a.seen = handling[r].seen
  BY <1>t, TurnIs DEF Refreshed
<1>2. /\ library' = library \ {handling[r].old}
      /\ UNCHANGED << rows, ids, pictures >> /\ UNCHANGED << entries, sheets, contested >>
      /\ UNCHANGED << orphaned, botched >>
  BY DEF Refreshed, Project, OldPicture
<1>3. \A p \in library \ library' : p # 0 =>
           /\ \A id \in DOMAIN rows : rows[id].picture # p
           /\ \A q \in AssetRequest \ {r} : handling[q].new # p \/ handling[q].pc # "write"
  BY <1>2, <1>t DEF PictureInv, OldIsOwn, NewIsOwn
<1>. QED BY ZenonT(50), <1>1, <1>2, <1>3, <1>t, PicturesEnd

LEMMA RefreshGoneStep ==
  ASSUME LibraryInv, NEW r \in AssetRequest, RefreshGone(r)
  PROVE  LibraryInv'
<1>t. LibraryTypeOK /\ PictureInv /\ handling[r].pc = "refresh" /\ handling[r].id \notin DOMAIN rows
  BY DEF LibraryInv, RefreshGone
<1>1. PICK a \in AssetJobType :
        /\ handling' = [handling EXCEPT ![r] = a] /\ a.pc = "done"
        /\ a.op = handling[r].op /\ a.id = handling[r].id /\ a.name = handling[r].name
        /\ a.old = handling[r].old /\ a.new = handling[r].new /\ a.seen = handling[r].seen
  BY <1>t, TurnIs DEF RefreshGone
<1>2. /\ library' = library \ {handling[r].new}
      /\ UNCHANGED << rows, ids, pictures >> /\ UNCHANGED << entries, sheets, contested >>
      /\ orphaned' = orphaned \union {handling[r].old} /\ UNCHANGED botched
  BY DEF RefreshGone, Project
<1>3. \A p \in library \ library' : p # 0 =>
           /\ \A id \in DOMAIN rows : rows[id].picture # p
           /\ \A q \in AssetRequest \ {r} : handling[q].new # p \/ handling[q].pc # "write"
  BY <1>2, <1>t DEF PictureInv, NewIsGiven, PicturesKnown
<1>. QED BY ZenonT(50), <1>1, <1>2, <1>3, <1>t, PicturesEnd

LEMMA WriteRaisesStep ==
  ASSUME LibraryInv, NEW r \in AssetRequest, WriteRaises(r)
  PROVE  LibraryInv'
<1>t. LibraryTypeOK /\ PictureInv /\ handling[r].pc \in {"write", "refresh"}
  BY DEF LibraryInv, WriteRaises
<1>1. PICK a \in AssetJobType :
        /\ handling' = [handling EXCEPT ![r] = a] /\ a.pc = "done"
        /\ a.op = handling[r].op /\ a.id = handling[r].id /\ a.name = handling[r].name
        /\ a.old = handling[r].old /\ a.new = handling[r].new /\ a.seen = handling[r].seen
  BY <1>t, TurnIs DEF WriteRaises
<1>2. /\ library' = library \ {handling[r].new}
      /\ UNCHANGED << rows, ids, pictures >> /\ UNCHANGED << entries, sheets, contested >>
      /\ orphaned' = orphaned \union {p \in {handling[r].old} : handling[r].pc = "refresh"}
      /\ botched' = botched \union {p \in {handling[r].new} : handling[r].pc = "refresh"}
  BY DEF WriteRaises, Project
<1>3. \A p \in library \ library' : p # 0 =>
           /\ \A id \in DOMAIN rows : rows[id].picture = p => p \in botched'
           /\ \A q \in AssetRequest \ {r} : handling[q].new # p \/ handling[q].pc # "write"
  BY <1>2, <1>t DEF PictureInv, NewIsOwn, PicturesKnown
<1>. QED BY <1>1, <1>2, <1>3, <1>t, PicturesEnd

LEMMA DeleteRaisesStep ==
  ASSUME LibraryInv, NEW r \in AssetRequest, DeleteRaises(r)
  PROVE  LibraryInv'
<1>t. LibraryTypeOK /\ PictureInv /\ handling[r].pc = "delete"
  BY DEF LibraryInv, DeleteRaises, In
<1>1. PICK a \in AssetJobType :
        /\ handling' = [handling EXCEPT ![r] = a] /\ a.pc = "done"
        /\ a.op = handling[r].op /\ a.id = handling[r].id /\ a.name = handling[r].name
        /\ a.old = handling[r].old /\ a.new = handling[r].new /\ a.seen = handling[r].seen
  BY <1>t, TurnIs DEF DeleteRaises
<1>2. /\ UNCHANGED library
      /\ UNCHANGED << rows, ids, pictures >> /\ UNCHANGED << entries, sheets, contested >>
      /\ UNCHANGED orphaned /\ botched' = botched \union {handling[r].old}
  BY DEF DeleteRaises, Project
<1>. QED BY <1>1, <1>2, <1>t, PicturesEnd

\* The commit: the row has the picture of the request, and what it had before is known or given up.
LEMMA RowIsWritten ==
  ASSUME LibraryInv, NEW r \in AssetRequest, handling[r].pc = "write",
         NEW a \in AssetJobType, handling' = [handling EXCEPT ![r] = a], a.pc = "refresh",
         a.op = handling[r].op, a.old = handling[r].old, a.new = handling[r].new,
         a.name = handling[r].name, a.seen = handling[r].seen,
         ids' \in Nat, ids <= ids', a.id \in 1 .. ids', NEW row \in AssetType,
         rows' = [k \in DOMAIN rows \union {a.id} |-> IF k = a.id THEN row ELSE rows[k]],
         row.picture = handling[r].new,
         \A k \in DOMAIN rows : k # a.id => rows[k].name # row.name,
         orphaned \subseteq orphaned',
         a.id \in DOMAIN rows => {rows[a.id].picture} \ {0, a.old} \subseteq orphaned',
         a.old # 0 => a.id = handling[r].id,
         UNCHANGED library, UNCHANGED pictures, UNCHANGED botched,
         UNCHANGED << entries, sheets, contested >>
  PROVE  LibraryInv'
<1>t. LibraryTypeOK /\ PictureInv /\ CopyInv
  BY DEF LibraryInv
<1>1. handling'[r] = a /\ \A q \in AssetRequest : q # r => handling'[q] = handling[q]
  BY <1>t DEF LibraryTypeOK
<1>2. DOMAIN rows' = DOMAIN rows \union {a.id} /\ rows'[a.id] = row
      /\ \A k \in DOMAIN rows : k # a.id => rows'[k] = rows[k]
  OBVIOUS
<1>3. LibraryTypeOK'
  <2>1. Shape(a)
    BY <1>t DEF LibraryTypeOK, Shape
  <2>2. rows' \in [DOMAIN rows' -> AssetType] /\ DOMAIN rows' \subseteq 1 .. ids'
    BY <1>2, <1>t DEF LibraryTypeOK
  <2>. QED BY <2>1, <2>2, <1>1, <1>t DEF LibraryTypeOK
<1>4. CopyInv'
  BY <1>t, ProjectAside
<1>5. \A q \in AssetRequest : handling'[q].new = handling[q].new /\ handling'[q].old = handling[q].old
  BY <1>1
<1>6. handling[r].new # 0 =>
        /\ handling[r].new \in library
        /\ \A id \in DOMAIN rows : rows[id].picture # handling[r].new
        /\ \A q \in AssetRequest : handling[q].old # handling[r].new
  BY <1>t DEF PictureInv, NewIsOwn
<1>7. AssetsDiffer'
  BY <1>2, <1>6, <1>t DEF PictureInv, AssetsDiffer
<1>8. PicturesKnown'
  BY <1>2, <1>5, <1>t DEF PictureInv, PicturesKnown
<1>9. NewIsOwn'
  <2>. SUFFICES ASSUME NEW q \in AssetRequest, handling'[q].pc = "write", handling'[q].new # 0
                PROVE  /\ handling'[q].new \in library
                       /\ \A id \in DOMAIN rows' : rows'[id].picture # handling'[q].new
                       /\ \A s \in AssetRequest : handling'[s].old # handling'[q].new
    BY DEF NewIsOwn
  <2>1. q # r /\ handling'[q] = handling[q]
    BY <1>1
  <2>2. /\ handling[q].new \in library
        /\ \A id \in DOMAIN rows : rows[id].picture # handling[q].new
        /\ \A s \in AssetRequest : handling[s].old # handling[q].new
    BY <2>1, <1>t DEF PictureInv, NewIsOwn
  <2>3. handling[q].new # handling[r].new
    BY <2>1, <1>t DEF PictureInv, PicturesKnown
  <2>. QED BY <2>1, <2>2, <2>3, <1>2, <1>5
<1>10. NewIsGiven'
  <2>1. \A q \in AssetRequest : q # r /\ handling[q].new # 0 => handling[q].new # handling[r].new
    BY <1>t DEF PictureInv, PicturesKnown
  <2>. QED BY <2>1, <1>1, <1>2, <1>6, <1>t DEF PictureInv, NewIsGiven
<1>11. OldIsOwn'
  <2>. SUFFICES ASSUME NEW q \in AssetRequest, handling'[q].old # 0
                PROVE  /\ handling'[q].pc \in {"save", "write"} =>
                            \A id \in DOMAIN rows' : rows'[id].picture = handling'[q].old => id = handling'[q].id
                       /\ handling'[q].pc = "refresh" => \A id \in DOMAIN rows' : rows'[id].picture # handling'[q].old
                       /\ handling'[q].pc = "delete" => handling'[q].old \notin library
    BY DEF OldIsOwn
  <2>1. row.picture # handling[q].old
    BY <1>5, <1>6
  <2>2. CASE q = r
    <3>1. \A id \in DOMAIN rows : rows[id].picture = handling[r].old => id = a.id
      BY <2>2, <1>1, <1>t DEF PictureInv, OldIsOwn
    <3>. QED BY <2>1, <2>2, <3>1, <1>1, <1>2
  <2>3. CASE q # r
    BY <2>1, <2>3, <1>1, <1>2, <1>t DEF PictureInv, OldIsOwn
  <2>. QED BY <2>2, <2>3
<1>12. PictureKept'
  <2>1. row.picture \in library \union {0}
    BY <1>6
  <2>2. \A q \in AssetRequest : handling[q].pc = "delete" => handling'[q] = handling[q]
    BY <1>1
  <2>. SUFFICES ASSUME NEW id \in DOMAIN rows'
                PROVE  \/ rows'[id].picture \in library \union {0} \union botched
                       \/ \E q \in AssetRequest : /\ handling'[q].pc = "delete" /\ handling'[q].id = id
                                                  /\ handling'[q].old = rows'[id].picture
    BY DEF PictureKept
  <2>3. CASE id = a.id
    BY <2>1, <2>3, <1>2
  <2>4. CASE id # a.id
    <3>1. id \in DOMAIN rows /\ rows'[id] = rows[id]
      BY <2>4, <1>2
    <3>. QED BY <3>1, <2>2, <1>t DEF PictureInv, PictureKept
  <2>. QED BY <2>3, <2>4
<1>13. PictureOwned'
  <2>. SUFFICES ASSUME NEW p \in library
                PROVE  \/ p \in orphaned' \/ \E id \in DOMAIN rows' : rows'[id].picture = p
                       \/ \E q \in AssetRequest : \/ handling'[q].pc = "write" /\ p = handling'[q].new
                                                  \/ handling'[q].pc = "refresh" /\ p = handling'[q].old
    BY DEF PictureOwned
  <2>1. p # 0
    BY <1>t DEF LibraryTypeOK
  <2>2. ASSUME NEW id \in DOMAIN rows, rows[id].picture = p
        PROVE  p \in orphaned' \/ (\E k \in DOMAIN rows' : rows'[k].picture = p) \/ p = handling'[r].old
    <3>1. CASE id = a.id
      BY <2>1, <2>2, <3>1, <1>1
    <3>2. CASE id # a.id
      BY <2>2, <3>2, <1>2
    <3>. QED BY <3>1, <3>2
  <2>3. ASSUME NEW q \in AssetRequest,
               (handling[q].pc = "write" /\ p = handling[q].new)
               \/ (handling[q].pc = "refresh" /\ p = handling[q].old)
        PROVE  \/ \E id \in DOMAIN rows' : rows'[id].picture = p
               \/ \E s \in AssetRequest : \/ handling'[s].pc = "write" /\ p = handling'[s].new
                                          \/ handling'[s].pc = "refresh" /\ p = handling'[s].old
    <3>1. CASE q = r
      BY <2>3, <3>1, <1>2
    <3>2. CASE q # r
      BY <2>3, <3>2, <1>1
    <3>. QED BY <3>1, <3>2
  <2>4. handling'[r].pc = "refresh"
    BY <1>1
  <2>. QED BY <2>2, <2>3, <2>4, <1>t DEF PictureInv, PictureOwned
<1>. QED BY <1>3, <1>4, <1>7, <1>8, <1>9, <1>10, <1>11, <1>12, <1>13 DEF LibraryInv, PictureInv

LEMMA InsertAssetStep ==
  ASSUME LibraryInv, NEW r \in AssetRequest, InsertAsset(r)
  PROVE  LibraryInv'
<1>t. LibraryTypeOK /\ PictureInv /\ handling[r].pc = "write" /\ handling[r].op = "create"
  BY DEF LibraryInv, InsertAsset, In
<1>1. handling[r] \in AssetJobType /\ Shape(handling[r]) /\ ids \in Nat
  BY <1>t DEF LibraryTypeOK
<1>2. handling[r].name \in Name /\ handling[r].old = 0 /\ handling[r].new \in Nat
  BY <1>1, <1>t DEF Shape, AssetJobType
<1>3. CASE Named(handling[r].name) = {}
  <2>0. PICK next \in Nat : next = ids + 1
    BY <1>1
  <2>1. PICK a : a = [handling[r] EXCEPT !.pc = "refresh", !.id = next]
    OBVIOUS
  <2>2. a \in AssetJobType /\ a.pc = "refresh" /\ a.id = next
        /\ a.op = handling[r].op /\ a.name = handling[r].name
        /\ a.old = handling[r].old /\ a.new = handling[r].new /\ a.seen = handling[r].seen
    BY <2>1, <1>1 DEF AssetJobType
  <2>3. handling' = [handling EXCEPT ![r] = a] /\ ids' = ids + 1 /\ UNCHANGED library
    BY <2>0, <2>1, <1>3 DEF InsertAsset
  <2>4. PICK row : row = [name |-> handling[r].name, picture |-> handling[r].new]
    OBVIOUS
  <2>5. row \in AssetType /\ row.picture = handling[r].new /\ row.name = handling[r].name
    BY <2>4, <1>2 DEF AssetType
  <2>6. rows' = [k \in DOMAIN rows \union {a.id} |-> IF k = a.id THEN row ELSE rows[k]]
    BY <2>0, <2>2, <2>4, <1>3 DEF InsertAsset, Put
  <2>7. \A k \in DOMAIN rows : rows[k].name # row.name
    BY <2>5, <1>3 DEF Named
  <2>8. UNCHANGED << entries, sheets, contested >> /\ UNCHANGED << pictures, orphaned, botched >>
    BY DEF InsertAsset, Project
  <2>9. ids' \in Nat /\ ids <= ids' /\ a.id \in 1 .. ids' /\ a.id \notin DOMAIN rows
    BY <2>0, <2>2, <2>3, <1>1, <1>t DEF LibraryTypeOK
  <2>. QED BY <2>2, <2>3, <2>5, <2>6, <2>7, <2>8, <2>9, <1>t, <1>2, RowIsWritten
<1>4. CASE Named(handling[r].name) # {}
  <2>1. library' = library \ {handling[r].new} /\ Turn(r, "done") /\ UNCHANGED << rows, ids >>
    BY <1>4 DEF InsertAsset
  <2>2. PICK a \in AssetJobType :
          /\ handling' = [handling EXCEPT ![r] = a] /\ a.pc = "done"
          /\ a.op = handling[r].op /\ a.id = handling[r].id /\ a.name = handling[r].name
          /\ a.old = handling[r].old /\ a.new = handling[r].new /\ a.seen = handling[r].seen
    BY <2>1, <1>t, TurnIs
  <2>3. UNCHANGED << rows, ids, pictures >> /\ UNCHANGED << entries, sheets, contested >>
        /\ UNCHANGED orphaned /\ UNCHANGED botched
    BY <2>1 DEF InsertAsset, Project
  <2>4. \A p \in library \ library' : p # 0 =>
             /\ \A id \in DOMAIN rows : rows[id].picture # p
             /\ \A q \in AssetRequest \ {r} : handling[q].new # p \/ handling[q].pc # "write"
    BY <2>1, <1>t DEF PictureInv, NewIsOwn, PicturesKnown
  <2>. QED BY ZenonT(50), <2>1, <2>2, <2>3, <2>4, <1>t, PicturesEnd
<1>. QED BY <1>3, <1>4

LEMMA UpdatePictureStep ==
  ASSUME LibraryInv, NEW r \in AssetRequest, UpdatePicture(r)
  PROVE  LibraryInv'
<1>t. LibraryTypeOK /\ PictureInv /\ handling[r].pc = "write"
  BY DEF LibraryInv, UpdatePicture
<1>1. handling[r] \in AssetJobType /\ ids \in Nat /\ handling[r].new \in Nat
  BY <1>t DEF LibraryTypeOK, AssetJobType
<1>2. UNCHANGED << entries, sheets, contested >> /\ UNCHANGED pictures /\ UNCHANGED ids /\ UNCHANGED botched
  BY DEF UpdatePicture, Project
<1>3. CASE handling[r].id \in DOMAIN rows
  <2>1. /\ rows' = [rows EXCEPT ![handling[r].id].picture = handling[r].new]
        /\ orphaned' = orphaned \union ({rows[handling[r].id].picture} \ {0, handling[r].old})
        /\ Turn(r, "refresh") /\ UNCHANGED library
    BY <1>3 DEF UpdatePicture, ById
  <2>2. PICK a \in AssetJobType :
          /\ handling' = [handling EXCEPT ![r] = a] /\ a.pc = "refresh"
          /\ a.op = handling[r].op /\ a.id = handling[r].id /\ a.name = handling[r].name
          /\ a.old = handling[r].old /\ a.new = handling[r].new /\ a.seen = handling[r].seen
    BY <2>1, <1>t, TurnIs
  <2>3. PICK row : row = [rows[a.id] EXCEPT !.picture = handling[r].new]
    OBVIOUS
  <2>4. rows[a.id] \in AssetType /\ a.id \in 1 .. ids
    BY <2>2, <1>3, <1>t DEF LibraryTypeOK
  <2>5. row \in AssetType /\ row.picture = handling[r].new /\ row.name = rows[a.id].name
    BY <2>3, <2>4, <1>1 DEF AssetType
  <2>6. rows' = [rows EXCEPT ![a.id] = row]
    BY <2>1, <2>2, <2>3
  <2>7. rows' = [k \in DOMAIN rows \union {a.id} |-> IF k = a.id THEN row ELSE rows[k]]
    BY <2>2, <2>6, <1>3, <1>t DEF LibraryTypeOK
  <2>8. \A k \in DOMAIN rows : k # a.id => rows[k].name # row.name
    BY <2>2, <2>5, <1>3, <1>t DEF PictureInv, AssetsDiffer
  <2>9. ids' \in Nat /\ ids <= ids' /\ a.id \in 1 .. ids'
    BY <2>4, <1>1, <1>2
  <2>10. orphaned \subseteq orphaned' /\ {rows[a.id].picture} \ {0, a.old} \subseteq orphaned'
    BY <2>1, <2>2
  <2>11. UNCHANGED library
    BY <2>1
  <2>. QED BY <2>2, <2>5, <2>7, <2>8, <2>9, <2>10, <2>11, <1>2, <1>t, RowIsWritten
<1>4. CASE handling[r].id \notin DOMAIN rows
  <2>1. library' = library \ {handling[r].new} /\ Turn(r, "done") /\ UNCHANGED << rows, orphaned >>
    BY <1>4 DEF UpdatePicture
  <2>2. PICK a \in AssetJobType :
          /\ handling' = [handling EXCEPT ![r] = a] /\ a.pc = "done"
          /\ a.op = handling[r].op /\ a.id = handling[r].id /\ a.name = handling[r].name
          /\ a.old = handling[r].old /\ a.new = handling[r].new /\ a.seen = handling[r].seen
    BY <2>1, <1>t, TurnIs
  <2>3. UNCHANGED << rows, ids, pictures >> /\ UNCHANGED << entries, sheets, contested >>
        /\ UNCHANGED orphaned /\ UNCHANGED botched
    BY <2>1, <1>2
  <2>4. \A p \in library \ library' : p # 0 =>
             /\ \A id \in DOMAIN rows : rows[id].picture # p
             /\ \A q \in AssetRequest \ {r} : handling[q].new # p \/ handling[q].pc # "write"
    BY <2>1, <1>t DEF PictureInv, NewIsOwn, PicturesKnown
  <2>. QED BY ZenonT(50), <2>1, <2>2, <2>3, <2>4, <1>t, PicturesEnd
<1>. QED BY <1>3, <1>4

LEMMA RenameAssetStep ==
  ASSUME LibraryInv, NEW r \in AssetRequest, RenameAsset(r)
  PROVE  LibraryInv'
<1>t. LibraryTypeOK /\ PictureInv /\ CopyInv /\ handling[r].pc = "away"
  BY DEF LibraryInv, RenameAsset
<1>1. PICK a \in AssetJobType :
        /\ handling' = [handling EXCEPT ![r] = a] /\ a.pc = "done"
        /\ a.op = handling[r].op /\ a.id = handling[r].id /\ a.name = handling[r].name
        /\ a.old = handling[r].old /\ a.new = handling[r].new /\ a.seen = handling[r].seen
  BY <1>t, TurnIs DEF RenameAsset
<1>2. PICK id \in DOMAIN rows, n \in Name : Named(n) = {} /\ rows' = [rows EXCEPT ![id].name = n]
  BY DEF RenameAsset
<1>3. /\ UNCHANGED library /\ UNCHANGED pictures /\ UNCHANGED ids /\ UNCHANGED orphaned
      /\ UNCHANGED botched /\ UNCHANGED << entries, sheets, contested >>
  BY DEF RenameAsset, Project
<1>4. /\ rows' \in [DOMAIN rows -> AssetType] /\ DOMAIN rows' = DOMAIN rows
      /\ \A k \in DOMAIN rows : rows'[k].picture = rows[k].picture
      /\ rows'[id].name = n
      /\ \A k \in DOMAIN rows : k # id => rows'[k].name = rows[k].name /\ rows[k].name # n
  <2>1. PICK row : row = [rows[id] EXCEPT !.name = n]
    OBVIOUS
  <2>2. rows[id] \in AssetType
    BY <1>t DEF LibraryTypeOK
  <2>3. row \in AssetType /\ row.picture = rows[id].picture /\ row.name = n
    BY <2>1, <2>2 DEF AssetType
  <2>4. rows' = [rows EXCEPT ![id] = row]
    BY <2>1, <1>2
  <2>5. rows \in [DOMAIN rows -> AssetType]
    BY <1>t DEF LibraryTypeOK
  <2>6. rows' \in [DOMAIN rows -> AssetType] /\ DOMAIN rows' = DOMAIN rows /\ rows'[id] = row
        /\ \A k \in DOMAIN rows : k # id => rows'[k] = rows[k]
    BY <2>3, <2>4, <2>5
  <2>7. \A k \in DOMAIN rows : rows[k].name # n
    BY <1>2 DEF Named
  <2>. QED BY <2>3, <2>6, <2>7
<1>5. handling'[r] = a /\ \A q \in AssetRequest : q # r => handling'[q] = handling[q]
  BY <1>1, <1>t DEF LibraryTypeOK
<1>6. \A q \in AssetRequest : handling'[q].new = handling[q].new /\ handling'[q].old = handling[q].old
  BY <1>1, <1>5
<1>n. handling[r].new = 0 /\ handling[r].old = 0
  BY <1>t DEF LibraryTypeOK, Shape
<1>7. LibraryTypeOK'
  <2>1. Shape(a)
    BY <1>1, <1>t DEF LibraryTypeOK, Shape
  <2>. QED BY <2>1, <1>1, <1>3, <1>4, <1>5, <1>t DEF LibraryTypeOK
<1>8. CopyInv'
  BY <1>1, <1>3, <1>t, ProjectAside
<1>9. AssetsDiffer'
  BY <1>4, <1>t DEF PictureInv, AssetsDiffer
<1>10. PicturesKnown'
  BY <1>3, <1>4, <1>6, <1>t DEF PictureInv, PicturesKnown
<1>11. NewIsOwn'
  BY <1>1, <1>3, <1>4, <1>5, <1>6, <1>t DEF PictureInv, NewIsOwn
<1>12. NewIsGiven'
  BY <1>1, <1>3, <1>4, <1>5, <1>6, <1>t DEF PictureInv, NewIsGiven
<1>13. OldIsOwn'
  BY <1>1, <1>3, <1>4, <1>5, <1>n, <1>t DEF PictureInv, OldIsOwn
<1>14. PictureKept'
  BY <1>1, <1>3, <1>4, <1>5, <1>t DEF PictureInv, PictureKept
<1>15. PictureOwned'
  BY <1>1, <1>3, <1>4, <1>5, <1>t DEF PictureInv, PictureOwned
<1>. QED BY <1>7, <1>8, <1>9, <1>10, <1>11, <1>12, <1>13, <1>14, <1>15 DEF LibraryInv, PictureInv

LEMMA RemovePictureStep ==
  ASSUME LibraryInv, NEW r \in AssetRequest, RemovePicture(r)
  PROVE  LibraryInv'
<1>t. LibraryTypeOK /\ PictureInv /\ CopyInv /\ handling[r].pc = "away"
  BY DEF LibraryInv, RemovePicture
<1>0. PICK nobody \in AnyName : nobody = ""
  BY DEF AnyName
<1>1. PICK id \in DOMAIN rows :
        library' = library \ {rows[id].picture} /\ Begun(r, "delete", "delete", id, nobody, rows[id].picture)
  BY <1>0 DEF RemovePicture, ById
<1>2. id \in Nat /\ rows[id].picture \in Nat
  BY <1>t DEF LibraryTypeOK, AssetType
<1>3. PICK a \in AssetJobType :
        /\ handling' = [handling EXCEPT ![r] = a]
        /\ a.op = "delete" /\ a.pc = "delete" /\ a.id = id /\ a.old = rows[id].picture /\ a.new = 0
        /\ IsFiniteSet(a.seen)
  BY <1>1, <1>2, <1>t, BegunIs
<1>4. /\ UNCHANGED rows /\ UNCHANGED pictures /\ UNCHANGED ids /\ UNCHANGED orphaned
      /\ UNCHANGED botched /\ UNCHANGED << entries, sheets, contested >>
  BY DEF RemovePicture, Project
<1>5. handling'[r] = a /\ \A q \in AssetRequest : q # r => handling'[q] = handling[q]
  BY <1>3, <1>t DEF LibraryTypeOK
<1>6. handling[r].new = 0 /\ \A q \in AssetRequest : handling'[q].new = handling[q].new
  BY <1>3, <1>5, <1>t DEF LibraryTypeOK, Shape
<1>7. LibraryTypeOK'
  <2>1. Shape(a)
    BY <1>3 DEF Shape
  <2>. QED BY <2>1, <1>1, <1>3, <1>4, <1>5, <1>t DEF LibraryTypeOK
<1>8. CopyInv'
  BY <1>3, <1>4, <1>t, ProjectAside
<1>9. AssetsDiffer' /\ NewIsGiven'
  BY <1>3, <1>4, <1>5, <1>t DEF PictureInv, AssetsDiffer, NewIsGiven
<1>10. PicturesKnown'
  <2>1. \A q \in AssetRequest : handling'[q].old <= pictures
    BY <1>3, <1>5, <1>t DEF PictureInv, PicturesKnown
  <2>. QED BY <2>1, <1>4, <1>6, <1>t DEF PictureInv, PicturesKnown
<1>11. NewIsOwn'
  <2>1. \A q \in AssetRequest : handling[q].pc = "write" /\ handling[q].new # 0 =>
          rows[id].picture # handling[q].new
    BY <1>t DEF PictureInv, NewIsOwn
  <2>. QED BY <2>1, <1>1, <1>3, <1>4, <1>5, <1>6, <1>t DEF PictureInv, NewIsOwn
<1>12. OldIsOwn'
  BY <1>1, <1>3, <1>4, <1>5, <1>t DEF PictureInv, OldIsOwn
<1>13. PictureKept'
  <2>. SUFFICES ASSUME NEW k \in DOMAIN rows
                PROVE  \/ rows[k].picture \in library' \union {0} \union botched
                       \/ \E q \in AssetRequest : /\ handling'[q].pc = "delete" /\ handling'[q].id = k
                                                  /\ handling'[q].old = rows[k].picture
    BY <1>4 DEF PictureKept
  <2>1. CASE k = id
    BY <2>1, <1>3, <1>5
  <2>2. CASE k # id
    <3>1. rows[k].picture # rows[id].picture \/ rows[k].picture = 0
      BY <2>2, <1>t DEF PictureInv, AssetsDiffer
    <3>2. \A q \in AssetRequest : handling[q].pc = "delete" => handling'[q] = handling[q]
      BY <1>5, <1>t
    <3>. QED BY <3>1, <3>2, <1>1, <1>t DEF PictureInv, PictureKept
  <2>. QED BY <2>1, <2>2
<1>14. PictureOwned'
  BY <1>1, <1>3, <1>4, <1>5, <1>t DEF PictureInv, PictureOwned
<1>. QED BY <1>7, <1>8, <1>9, <1>10, <1>11, <1>12, <1>13, <1>14 DEF LibraryInv, PictureInv

LEMMA DeleteRowStep ==
  ASSUME LibraryInv, NEW r \in AssetRequest, DeleteRow(r)
  PROVE  LibraryInv'
<1>t. LibraryTypeOK /\ PictureInv /\ CopyInv /\ handling[r].pc = "delete"
  BY DEF LibraryInv, DeleteRow, In
<1>1. PICK a \in AssetJobType :
        /\ handling' = [handling EXCEPT ![r] = a] /\ a.pc = "done"
        /\ a.op = handling[r].op /\ a.id = handling[r].id /\ a.name = handling[r].name
        /\ a.old = handling[r].old /\ a.new = handling[r].new /\ a.seen = handling[r].seen
  BY <1>t, TurnIs DEF DeleteRow
<1>2. /\ rows' = [k \in DOMAIN rows \ {a.id} |-> rows[k]]
      /\ orphaned \subseteq orphaned'
      /\ a.id \in DOMAIN rows => {rows[a.id].picture} \ {0, a.old} \subseteq orphaned'
  BY <1>1 DEF DeleteRow, ById
<1>3. /\ UNCHANGED library /\ UNCHANGED pictures /\ UNCHANGED ids
      /\ UNCHANGED botched /\ UNCHANGED << entries, sheets, contested >>
  BY DEF DeleteRow, Project
<1>4. DOMAIN rows' = DOMAIN rows \ {a.id} /\ \A k \in DOMAIN rows' : rows'[k] = rows[k]
  BY <1>2
<1>5. handling'[r] = a /\ \A q \in AssetRequest : q # r => handling'[q] = handling[q]
  BY <1>1, <1>t DEF LibraryTypeOK
<1>6. \A q \in AssetRequest : handling'[q].new = handling[q].new /\ handling'[q].old = handling[q].old
  BY <1>1, <1>5
<1>7. LibraryTypeOK'
  <2>1. Shape(a)
    BY <1>1, <1>t DEF LibraryTypeOK, Shape
  <2>2. rows' \in [DOMAIN rows' -> AssetType] /\ DOMAIN rows' \subseteq 1 .. ids'
    BY <1>2, <1>3, <1>4, <1>t DEF LibraryTypeOK
  <2>. QED BY <2>1, <2>2, <1>1, <1>3, <1>5, <1>t DEF LibraryTypeOK
<1>8. CopyInv'
  BY <1>1, <1>3, <1>t, ProjectAside
<1>9. AssetsDiffer' /\ PicturesKnown'
  BY <1>3, <1>4, <1>6, <1>t DEF PictureInv, AssetsDiffer, PicturesKnown
<1>10. NewIsOwn'
  BY <1>1, <1>3, <1>4, <1>5, <1>6, <1>t DEF PictureInv, NewIsOwn
<1>11. NewIsGiven'
  BY <1>1, <1>4, <1>5, <1>t DEF PictureInv, NewIsGiven
<1>12. OldIsOwn'
  BY <1>1, <1>3, <1>4, <1>5, <1>t DEF PictureInv, OldIsOwn
<1>13. PictureKept'
  <2>. SUFFICES ASSUME NEW k \in DOMAIN rows, k # a.id
                PROVE  \/ rows[k].picture \in library \union {0} \union botched
                       \/ \E q \in AssetRequest : /\ handling'[q].pc = "delete" /\ handling'[q].id = k
                                                  /\ handling'[q].old = rows[k].picture
    BY <1>3, <1>4 DEF PictureKept
  <2>1. \A q \in AssetRequest : handling[q].id = k => handling'[q] = handling[q]
    BY <1>1, <1>5
  <2>. QED BY <2>1, <1>t DEF PictureInv, PictureKept
<1>14. PictureOwned'
  <2>. SUFFICES ASSUME NEW p \in library
                PROVE  \/ p \in orphaned' \/ \E k \in DOMAIN rows' : rows'[k].picture = p
                       \/ \E q \in AssetRequest : \/ handling'[q].pc = "write" /\ p = handling'[q].new
                                                  \/ handling'[q].pc = "refresh" /\ p = handling'[q].old
    BY <1>3 DEF PictureOwned
  <2>1. p # 0
    BY <1>t DEF LibraryTypeOK
  <2>2. a.old # 0 => a.old \notin library
    BY <1>1, <1>t DEF PictureInv, OldIsOwn
  <2>3. ASSUME NEW k \in DOMAIN rows, rows[k].picture = p
        PROVE  p \in orphaned' \/ \E i \in DOMAIN rows' : rows'[i].picture = p
    <3>1. CASE k = a.id
      BY <2>1, <2>2, <2>3, <3>1, <1>2
    <3>2. CASE k # a.id
      BY <2>3, <3>2, <1>4
    <3>. QED BY <3>1, <3>2
  <2>4. ASSUME NEW q \in AssetRequest,
               (handling[q].pc = "write" /\ p = handling[q].new)
               \/ (handling[q].pc = "refresh" /\ p = handling[q].old)
        PROVE  \E s \in AssetRequest : \/ (handling'[s].pc = "write" /\ p = handling'[s].new)
                                       \/ (handling'[s].pc = "refresh" /\ p = handling'[s].old)
    <3>1. q # r
      BY <2>4, <1>t
    <3>2. handling'[q] = handling[q]
      BY <3>1, <1>5
    <3>. QED BY <3>2, <2>4
  <2>5. p \in orphaned => p \in orphaned'
    BY <1>2
  <2>. QED BY <2>3, <2>4, <2>5, <1>t DEF PictureInv, PictureOwned
<1>. QED BY <1>7, <1>8, <1>9, <1>10, <1>11, <1>12, <1>13, <1>14 DEF LibraryInv, PictureInv

LEMMA LoadEntriesStep ==
  ASSUME LibraryInv, NEW r \in AssetRequest, LoadEntries(r)
  PROVE  LibraryInv'
<1>t. LibraryTypeOK /\ PictureInv /\ CopyInv /\ handling[r].pc = "away"
  BY DEF LibraryInv, LoadEntries
<1>1. handling[r] \in AssetJobType /\ Shape(handling[r])
      /\ DOMAIN entries \subseteq Entry /\ IsFiniteSet(DOMAIN entries)
  BY <1>t DEF LibraryTypeOK
<1>2. PICK policy \in {"skip", "overwrite", "rename"} :
        handling' = [handling EXCEPT ![r].op = "apply", ![r].pc = "plan", ![r].policy = policy,
                               ![r].seen = DOMAIN entries]
  BY DEF LoadEntries
<1>3. PICK a : a = [handling[r] EXCEPT !.op = "apply", !.pc = "plan", !.policy = policy,
                                       !.seen = DOMAIN entries]
  OBVIOUS
<1>4. a \in AssetJobType /\ a.op = "apply" /\ a.pc = "plan" /\ a.seen = DOMAIN entries
      /\ a.old = handling[r].old /\ a.new = handling[r].new /\ a.copied = handling[r].copied
  BY <1>1, <1>3 DEF AssetJobType
<1>5. handling' = [handling EXCEPT ![r] = a]
  BY <1>2, <1>3
<1>6. UNCHANGED << entries, sheets, contested >>
      /\ UNCHANGED << rows, library, pictures, ids, orphaned, botched >>
  BY DEF LoadEntries, Store
<1>7. LibraryTypeOK'
  <2>1. Shape(a)
    BY <1>1, <1>4, <1>t DEF Shape
  <2>. QED BY <2>1, <1>4, <1>5, <1>6, <1>t DEF LibraryTypeOK
<1>8. CopyInv'
  BY <1>4, <1>5, <1>6, <1>t, ProjectAside
<1>9. PictureInv'
  BY <1>4, <1>5, <1>6, <1>t, StoreAside
<1>. QED BY <1>7, <1>8, <1>9 DEF LibraryInv

\* The first free number is one above the entries there are, at most.
LEMMA NumberedIs ==
  ASSUME NEW n \in Name, NEW taken \in SUBSET Entry, IsFiniteSet(taken)
  PROVE  Numbered(n, taken) \in Entry /\ Numbered(n, taken)[1] = n
<1>. DEFINE C == Cardinality(taken)
            used == {k \in 2 .. C + 2 : << n, k >> \in taken}
            free == {k \in 1 .. C + 2 : k >= 2 /\ << n, k >> \notin taken}
            mine == {e \in taken : e[1] = n /\ e[2] \in 2 .. C + 2}
<1>1. C \in Nat
  BY FS_CardinalityType
<1>2. IsFiniteSet(mine) /\ Cardinality(mine) <= C
  BY FS_Subset
<1>3. IsFiniteSet(used) /\ Cardinality(used) <= Cardinality(mine)
  <2>. DEFINE f == [e \in mine |-> e[2]]
  <2>1. f \in Surjection(mine, used)
    <3>1. \A e \in mine : e[2] \in used
      BY DEF Entry
    <3>2. \A k \in used : << n, k >> \in mine /\ f[<< n, k >>] = k
      OBVIOUS
    <3>. QED BY <3>1, <3>2 DEF Surjection
  <2>. QED BY <2>1, <1>2, FS_Surjection
<1>4. IsFiniteSet(2 .. C + 2) /\ Cardinality(2 .. C + 2) = C + 1
  BY <1>1, FS_Interval
<1>5. used # 2 .. C + 2
  <2>1. Cardinality(used) \in Nat /\ Cardinality(mine) \in Nat
    BY <1>2, <1>3, FS_CardinalityType
  <2>. HIDE DEF used, mine, C
  <2>. QED BY <2>1, <1>1, <1>2, <1>3, <1>4
<1>6. free # {} /\ free \in SUBSET (1 .. C + 2) /\ C + 2 \in Nat
  BY <1>1, <1>5
<1>7. PICK k \in free : \A t \in free : k <= t
  <2>. HIDE DEF free, C
  <2>. QED BY <1>6, LeastNumber
<1>8. << n, k >> \in {<< n, j >> : j \in 2 .. C + 2} /\ << n, k >> \notin taken
      /\ \A j \in 2 .. k - 1 : << n, j >> \in taken
  BY <1>1, <1>7
<1>9. PICK e : e = << n, k >>
  OBVIOUS
<1>10. e \in {<< n, j >> : j \in 2 .. C + 2} /\ e \notin taken /\ \A j \in 2 .. e[2] - 1 : << n, j >> \in taken
  BY <1>8, <1>9
<1>11. Numbered(n, taken) \in {<< n, j >> : j \in 2 .. C + 2}
  BY <1>10 DEF Numbered
<1>. QED BY <1>1, <1>11 DEF Entry

LEMMA TargetIs ==
  ASSUME LibraryTypeOK, NEW r \in AssetRequest, NEW id \in DOMAIN rows, NEW e \in Target(r, id)
  PROVE  e \in Entry /\ e[1] = rows[id].name
<1>1. rows[id].name \in Name /\ handling[r].seen \in SUBSET Entry /\ IsFiniteSet(handling[r].seen)
  BY DEF LibraryTypeOK, AssetType, AssetJobType, Shape
<1>2. Numbered(rows[id].name, handling[r].seen) \in Entry
      /\ Numbered(rows[id].name, handling[r].seen)[1] = rows[id].name
  BY <1>1, NumberedIs
<1>3. Plain(rows[id].name) \in Entry /\ Plain(rows[id].name)[1] = rows[id].name
  BY <1>1 DEF Plain, Entry
<1>4. e = Plain(rows[id].name) \/ e = Numbered(rows[id].name, handling[r].seen)
  BY DEF Target, ById
<1>. QED BY <1>2, <1>3, <1>4

LEMMA PlanIs ==
  ASSUME LibraryTypeOK, PictureInv, NEW r \in AssetRequest, NEW q \in Orders(Going(r))
  PROVE  /\ PlanOf(r, q) \in Seq(CopyType) /\ Len(PlanOf(r, q)) \in Nat
         /\ \A i, j \in DOMAIN PlanOf(r, q) : PlanOf(r, q)[i].entry = PlanOf(r, q)[j].entry => i = j
<1>1. IsFiniteSet(Going(r)) /\ Going(r) \subseteq DOMAIN rows
  <2>1. ids \in Nat /\ Going(r) \subseteq 1 .. ids /\ Going(r) \subseteq DOMAIN rows
    BY DEF LibraryTypeOK, Going
  <2>2. IsFiniteSet(1 .. ids)
    BY <2>1, FS_Interval
  <2>. QED BY <2>1, <2>2, FS_Subset
<1>2. PICK n \in Nat : n = Cardinality(Going(r))
  BY <1>1, FS_CardinalityType
<1>3. q \in [1 .. n -> Going(r)] /\ \A i, j \in 1 .. n : i # j => q[i] # q[j]
  BY <1>2 DEF Orders
<1>4. PICK plan : plan = PlanOf(r, q)
  OBVIOUS
<1>5. plan = [i \in 1 .. n |-> [entry |-> CHOOSE e \in Target(r, q[i]) : TRUE, picture |-> rows[q[i]].picture]]
  BY <1>3, <1>4 DEF PlanOf, ById
<1>6. ASSUME NEW i \in 1 .. n
      PROVE  plan[i] \in CopyType /\ plan[i].entry[1] = rows[q[i]].name
  <2>1. q[i] \in DOMAIN rows /\ Target(r, q[i]) # {}
    BY <1>1, <1>3 DEF Going
  <2>2. PICK e : e = CHOOSE x \in Target(r, q[i]) : TRUE
    OBVIOUS
  <2>3. e \in Target(r, q[i])
    BY <2>1, <2>2
  <2>4. e \in Entry /\ e[1] = rows[q[i]].name
    BY <2>1, <2>3, TargetIs
  <2>5. rows[q[i]].picture \in Nat
    BY <2>1 DEF LibraryTypeOK, AssetType
  <2>6. plan[i] = [entry |-> e, picture |-> rows[q[i]].picture]
    BY <2>2, <1>5
  <2>. QED BY <2>4, <2>5, <2>6 DEF CopyType
<1>7. plan \in Seq(CopyType) /\ DOMAIN plan = 1 .. n
  <2>1. plan \in [1 .. n -> CopyType]
    BY <1>5, <1>6
  <2>. QED BY <2>1, SeqDef
<1>8. \A i, j \in DOMAIN plan : plan[i].entry = plan[j].entry => i = j
  BY <1>1, <1>3, <1>6, <1>7 DEF PictureInv, AssetsDiffer
<1>. QED BY <1>4, <1>7, <1>8, LenProperties

LEMMA PlanCopiesStep ==
  ASSUME LibraryInv, NEW r \in AssetRequest, PlanCopies(r)
  PROVE  LibraryInv'
<1>t. LibraryTypeOK /\ PictureInv /\ CopyInv /\ handling[r].pc = "plan" /\ handling[r].op = "apply"
  BY DEF LibraryInv, PlanCopies, In
<1>1. handling[r] \in AssetJobType /\ Shape(handling[r])
  BY <1>t DEF LibraryTypeOK
<1>2. PICK q \in Orders(Going(r)) : handling' = [handling EXCEPT ![r].pc = "copy", ![r].plan = PlanOf(r, q)]
  BY DEF PlanCopies
<1>3. PICK plan : plan = PlanOf(r, q)
  OBVIOUS
<1>4. /\ plan \in Seq(CopyType) /\ Len(plan) \in Nat
      /\ \A i, j \in DOMAIN plan : plan[i].entry = plan[j].entry => i = j
  BY <1>3, <1>t, PlanIs
<1>5. PICK a : a = [handling[r] EXCEPT !.pc = "copy", !.plan = plan]
  OBVIOUS
<1>6. a \in AssetJobType /\ a.op = "apply" /\ a.pc = "copy" /\ a.seen = handling[r].seen /\ a.plan = plan
      /\ a.old = handling[r].old /\ a.new = handling[r].new /\ a.copied = handling[r].copied
  BY <1>1, <1>4, <1>5, <1>t DEF AssetJobType
<1>7. handling' = [handling EXCEPT ![r] = a]
  BY <1>2, <1>3, <1>5
<1>8. UNCHANGED << entries, sheets, contested >>
      /\ UNCHANGED << rows, library, pictures, ids, orphaned, botched >>
  BY DEF PlanCopies, Store
<1>9. handling'[r] = a /\ \A s \in AssetRequest : s # r => handling'[s] = handling[s]
  BY <1>7, <1>t DEF LibraryTypeOK
<1>10. LibraryTypeOK'
  <2>1. Shape(a)
    BY <1>1, <1>6, <1>t DEF Shape
  <2>. QED BY <2>1, <1>6, <1>8, <1>7, <1>9, <1>t DEF LibraryTypeOK
<1>11. PictureInv'
  BY <1>6, <1>7, <1>8, <1>t, StoreAside
<1>12. a.copied = 0
  BY <1>1, <1>6, <1>t DEF Shape
<1>13. ASSUME NEW s \in AssetRequest
       PROVE  /\ s # r => (Copying(s)' <=> Copying(s)) /\ Planned(s)' = Planned(s)
              /\ Copying(s) => s # r
  BY <1>9, <1>t DEF Copying, In, Planned
<1>14. PlansDiffer'
  BY <1>4, <1>6, <1>9, <1>12, <1>13, <1>t DEF CopyInv, PlansDiffer
<1>15. CopiesThere'
  <2>. SUFFICES ASSUME NEW s \in AssetRequest, Copying(s)', NEW i \in DOMAIN handling'[s].plan,
                       i <= handling'[s].copied
                PROVE  LET c == handling'[s].plan[i] IN
                       \/ c.picture = 0 \/ c.entry \in contested'
                       \/ c.entry \in DOMAIN sheets' /\ sheets'[c.entry] = c.picture
                       \/ \E p \in AssetRequest \ {s} : Copying(p)' /\ c.entry \in Planned(p)'
    BY DEF CopiesThere
  <2>1. CASE s = r
    <3>1. i \in 1 .. Len(plan) /\ i <= 0
      BY <2>1, <1>4, <1>6, <1>9, <1>12, LenProperties
    <3>. QED BY <3>1, <1>4
  <2>2. CASE s # r
    BY <2>2, <1>8, <1>9, <1>13, <1>t DEF CopyInv, CopiesThere
  <2>. QED BY <2>1, <2>2
<1>16. EntryShows'
  BY <1>8, <1>13, <1>t DEF CopyInv, EntryShows
<1>. QED BY <1>10, <1>11, <1>14, <1>15, <1>16 DEF LibraryInv, CopyInv

\* What the steps that copy have in common: the request stays one that copies, or is done.
LEMMA CopyGoesOn ==
  ASSUME LibraryInv, NEW r \in AssetRequest, Copying(r),
         NEW a \in AssetJobType, handling' = [handling EXCEPT ![r] = a], a.pc \in {"copy", "done"},
         a.op = "apply", a.old = handling[r].old, a.new = handling[r].new, a.seen = handling[r].seen,
         a.plan = handling[r].plan, UNCHANGED << rows, library, pictures, ids, orphaned, botched >>,
         entries' \in [DOMAIN entries' -> Nat], DOMAIN entries' \subseteq Entry, IsFiniteSet(DOMAIN entries')
  PROVE  /\ LibraryTypeOK' /\ PictureInv'
         /\ handling'[r] = a /\ handling[r] \in AssetJobType
         /\ \A q \in AssetRequest : Planned(q)' = Planned(q)
         /\ Copying(r)' <=> a.pc = "copy"
         /\ \A q \in AssetRequest : q # r => handling'[q] = handling[q] /\ (Copying(q)' <=> Copying(q))
<1>t. LibraryTypeOK /\ PictureInv /\ handling[r].pc = "copy" /\ handling[r].op = "apply"
  BY DEF LibraryInv, Copying, In
<1>1. handling'[r] = a /\ \A q \in AssetRequest : q # r => handling'[q] = handling[q]
  BY <1>t DEF LibraryTypeOK
<1>2. Shape(a)
  BY <1>t DEF LibraryTypeOK, Shape
<1>3. LibraryTypeOK'
  BY <1>1, <1>2, <1>t DEF LibraryTypeOK
<1>4. PictureInv'
  BY <1>t, StoreAside
<1>5. \A q \in AssetRequest : Planned(q)' = Planned(q)
  BY <1>1 DEF Planned
<1>6. Copying(r)' <=> a.pc = "copy"
  BY <1>1 DEF Copying, In
<1>7. \A q \in AssetRequest : q # r => (Copying(q)' <=> Copying(q))
  BY <1>1 DEF Copying, In
<1>8. handling[r] \in AssetJobType
  BY <1>t DEF LibraryTypeOK
<1>. QED BY <1>1, <1>3, <1>4, <1>5, <1>6, <1>7, <1>8

LEMMA CopySheetStep ==
  ASSUME LibraryInv, NEW r \in AssetRequest, CopySheet(r)
  PROVE  LibraryInv'
<1>t. LibraryTypeOK /\ PictureInv /\ CopyInv /\ Copying(r)
  BY DEF LibraryInv, CopySheet, Copying
<1>1. handling[r] \in AssetJobType /\ handling[r].op = "apply" /\ handling[r].pc = "copy"
  BY <1>t DEF LibraryTypeOK, Copying, In
<1>2. PICK m \in Nat : m = handling[r].copied + 1
  BY <1>1 DEF AssetJobType
<1>3. PICK a : a = [handling[r] EXCEPT !.copied = m]
  OBVIOUS
<1>4. a \in AssetJobType /\ a.op = "apply" /\ a.pc = "copy" /\ a.seen = handling[r].seen
      /\ a.plan = handling[r].plan /\ a.old = handling[r].old /\ a.new = handling[r].new /\ a.copied = m
  BY <1>1, <1>2, <1>3 DEF AssetJobType
<1>5. handling' = [handling EXCEPT ![r] = a]
  BY <1>2, <1>3 DEF CopySheet
<1>6. UNCHANGED << rows, library, pictures, ids, orphaned, botched >> /\ UNCHANGED << entries, contested >>
  BY DEF CopySheet, Store
<1>7. entries' \in [DOMAIN entries' -> Nat] /\ DOMAIN entries' \subseteq Entry /\ IsFiniteSet(DOMAIN entries')
  BY <1>6, <1>t DEF LibraryTypeOK
<1>8. /\ LibraryTypeOK' /\ PictureInv'
      /\ handling'[r] = a
      /\ \A q \in AssetRequest : Planned(q)' = Planned(q)
      /\ Copying(r)'
      /\ \A q \in AssetRequest : q # r => handling'[q] = handling[q] /\ (Copying(q)' <=> Copying(q))
  BY <1>4, <1>5, <1>6, <1>7, <1>t, CopyGoesOn
<1>9. PICK next : next = handling[r].plan[m]
  OBVIOUS
<1>10. handling[r].copied < Len(handling[r].plan) /\ Len(handling[r].plan) \in Nat
       /\ DOMAIN handling[r].plan = 1 .. Len(handling[r].plan)
       /\ handling[r].copied \in Nat
  BY <1>1, LenProperties DEF CopySheet, AssetJobType
<1>11. m \in DOMAIN handling[r].plan /\ next.entry \in Planned(r)
  BY <1>2, <1>9, <1>10 DEF Planned
<1>12. sheets' = IF next.picture = 0 THEN sheets ELSE Put(sheets, next.entry, next.picture)
  BY <1>2, <1>9 DEF CopySheet, NextCopy
<1>13. /\ next.picture # 0 => next.entry \in DOMAIN sheets' /\ sheets'[next.entry] = next.picture
       /\ \A e \in DOMAIN sheets : e \in DOMAIN sheets' /\ (e # next.entry => sheets'[e] = sheets[e])
  BY <1>12 DEF Put
<1>14. PlansDiffer'
  <2>. SUFFICES ASSUME NEW q \in AssetRequest, Copying(q)'
                PROVE  /\ handling'[q].copied <= Len(handling'[q].plan)
                       /\ \A i, j \in DOMAIN handling'[q].plan :
                            handling'[q].plan[i].entry = handling'[q].plan[j].entry => i = j
    BY DEF PlansDiffer
  <2>1. CASE q = r
    <3>1. m <= Len(handling[r].plan)
      BY <1>2, <1>10
    <3>. QED BY <2>1, <3>1, <1>4, <1>8, <1>t DEF CopyInv, PlansDiffer
  <2>2. CASE q # r
    BY <2>2, <1>8, <1>t DEF CopyInv, PlansDiffer
  <2>. QED BY <2>1, <2>2
<1>15. CopiesThere'
  <2>. SUFFICES ASSUME NEW q \in AssetRequest, Copying(q)', NEW i \in DOMAIN handling'[q].plan,
                       i <= handling'[q].copied, NEW c, c = handling'[q].plan[i]
                PROVE  \/ c.picture = 0 \/ c.entry \in contested'
                       \/ (c.entry \in DOMAIN sheets' /\ sheets'[c.entry] = c.picture)
                       \/ \E p \in AssetRequest \ {q} : Copying(p)' /\ c.entry \in Planned(p)'
    BY DEF CopiesThere
  <2>0. c = handling[q].plan[i] /\ i \in DOMAIN handling[q].plan /\ Copying(q)
    BY <1>4, <1>8, <1>t
  <2>1. CASE q = r /\ i = m
    BY <2>0, <2>1, <1>9, <1>13
  <2>2. CASE q = r /\ i # m
    <3>1. i <= handling[r].copied
      BY <2>0, <2>2, <1>2, <1>4, <1>8, <1>10
    <3>2. c.entry # next.entry
      BY <2>0, <2>2, <1>9, <1>11, <1>t DEF CopyInv, PlansDiffer
    <3>3. \/ c.picture = 0 \/ c.entry \in contested
          \/ (c.entry \in DOMAIN sheets /\ sheets[c.entry] = c.picture)
          \/ \E p \in AssetRequest \ {q} : Copying(p) /\ c.entry \in Planned(p)
      BY <2>0, <2>2, <3>1, <1>t DEF CopyInv, CopiesThere
    <3>. QED BY <2>2, <3>2, <3>3, <1>6, <1>8, <1>13
  <2>3. CASE q # r
    <3>1. \/ c.picture = 0 \/ c.entry \in contested
          \/ (c.entry \in DOMAIN sheets /\ sheets[c.entry] = c.picture)
          \/ \E p \in AssetRequest \ {q} : Copying(p) /\ c.entry \in Planned(p)
      BY <2>0, <2>3, <1>8, <1>t DEF CopyInv, CopiesThere
    <3>2. CASE c.entry = next.entry
      BY <2>3, <3>2, <1>8, <1>11
    <3>3. CASE c.entry # next.entry
      BY <3>1, <3>3, <1>6, <1>8, <1>13
    <3>. QED BY <3>2, <3>3
  <2>. QED BY <2>1, <2>2, <2>3
<1>16. EntryShows'
  <2>. SUFFICES ASSUME NEW e \in DOMAIN entries
                PROVE  \/ entries[e] = 0
                       \/ (e \in DOMAIN sheets' /\ sheets'[e] = entries[e])
                       \/ e \in contested \/ \E q \in AssetRequest : Copying(q)' /\ e \in Planned(q)'
    BY <1>6 DEF EntryShows
  <2>1. CASE e = next.entry
    BY <2>1, <1>8, <1>11
  <2>2. CASE e # next.entry
    BY <2>2, <1>8, <1>13, <1>t DEF CopyInv, EntryShows
  <2>. QED BY <2>1, <2>2
<1>. QED BY <1>8, <1>14, <1>15, <1>16 DEF LibraryInv, CopyInv

LEMMA CopyRaisesStep ==
  ASSUME LibraryInv, NEW r \in AssetRequest, CopyRaises(r)
  PROVE  LibraryInv'
<1>t. LibraryTypeOK /\ PictureInv /\ CopyInv /\ Copying(r)
  BY DEF LibraryInv, CopyRaises, Copying
<1>1. handling[r] \in AssetJobType /\ handling[r].op = "apply"
  BY <1>t DEF LibraryTypeOK, Copying, In
<1>3. PICK a : a = [handling[r] EXCEPT !.pc = "done"]
  OBVIOUS
<1>4. a \in AssetJobType /\ a.op = "apply" /\ a.pc = "done" /\ a.seen = handling[r].seen
      /\ a.plan = handling[r].plan /\ a.old = handling[r].old /\ a.new = handling[r].new
  BY <1>1, <1>3 DEF AssetJobType
<1>5. handling' = [handling EXCEPT ![r] = a]
  BY <1>3 DEF CopyRaises, Turn
<1>6. UNCHANGED << rows, library, pictures, ids, orphaned, botched >> /\ UNCHANGED << entries, sheets >>
      /\ contested' = contested \union Planned(r)
  BY DEF CopyRaises, Store
<1>7. entries' \in [DOMAIN entries' -> Nat] /\ DOMAIN entries' \subseteq Entry /\ IsFiniteSet(DOMAIN entries')
  BY <1>6, <1>t DEF LibraryTypeOK
<1>8. /\ LibraryTypeOK' /\ PictureInv'
      /\ \A q \in AssetRequest : Planned(q)' = Planned(q)
      /\ ~ Copying(r)'
      /\ \A q \in AssetRequest : q # r => handling'[q] = handling[q] /\ (Copying(q)' <=> Copying(q))
  BY <1>4, <1>5, <1>6, <1>7, <1>t, CopyGoesOn
<1>9. PlansDiffer'
  BY <1>8, <1>t DEF CopyInv, PlansDiffer
<1>10. CopiesThere'
  <2>. SUFFICES ASSUME NEW q \in AssetRequest, Copying(q)', NEW i \in DOMAIN handling'[q].plan,
                       i <= handling'[q].copied, NEW c, c = handling'[q].plan[i]
                PROVE  \/ c.picture = 0 \/ c.entry \in contested'
                       \/ (c.entry \in DOMAIN sheets' /\ sheets'[c.entry] = c.picture)
                       \/ \E p \in AssetRequest \ {q} : Copying(p)' /\ c.entry \in Planned(p)'
    BY DEF CopiesThere
  <2>1. q # r /\ handling'[q] = handling[q]
    BY <1>8
  <2>2. \/ c.picture = 0 \/ c.entry \in contested
        \/ (c.entry \in DOMAIN sheets /\ sheets[c.entry] = c.picture)
        \/ \E p \in AssetRequest \ {q} : Copying(p) /\ c.entry \in Planned(p)
    BY <2>1, <1>8, <1>t DEF CopyInv, CopiesThere
  <2>3. \A p \in AssetRequest : Copying(p) /\ c.entry \in Planned(p) =>
          c.entry \in contested' \/ (Copying(p)' /\ c.entry \in Planned(p)')
    BY <1>6, <1>8
  <2>. QED BY <2>2, <2>3, <1>6
<1>11. EntryShows'
  BY <1>6, <1>8, <1>t DEF CopyInv, EntryShows
<1>. QED BY <1>8, <1>9, <1>10, <1>11 DEF LibraryInv, CopyInv

LEMMA ApplyAllStep ==
  ASSUME LibraryInv, NEW r \in AssetRequest, ApplyAll(r)
  PROVE  LibraryInv'
<1>t. LibraryTypeOK /\ PictureInv /\ CopyInv /\ Copying(r)
  BY DEF LibraryInv, ApplyAll, Copying
<1>1. handling[r] \in AssetJobType /\ handling[r].op = "apply"
  BY <1>t DEF LibraryTypeOK, Copying, In
<1>2. handling[r].plan \in Seq(CopyType) /\ DOMAIN handling[r].plan = 1 .. Len(handling[r].plan)
      /\ Len(handling[r].plan) \in Nat /\ handling[r].copied = Len(handling[r].plan)
  BY <1>1, LenProperties DEF AssetJobType, ApplyAll, AllCopied
<1>3. PICK a : a = [handling[r] EXCEPT !.pc = "done"]
  OBVIOUS
<1>4. a \in AssetJobType /\ a.op = "apply" /\ a.pc = "done" /\ a.seen = handling[r].seen
      /\ a.plan = handling[r].plan /\ a.old = handling[r].old /\ a.new = handling[r].new
  BY <1>1, <1>3 DEF AssetJobType
<1>5. handling' = [handling EXCEPT ![r] = a]
  BY <1>3 DEF ApplyAll, Turn
<1>6. UNCHANGED << rows, library, pictures, ids, orphaned, botched >> /\ UNCHANGED sheets
  BY DEF ApplyAll, Store
<1>7. contested \subseteq contested'
      /\ \A q \in AssetRequest \ {r} : Copying(q) => Planned(r) \intersect Planned(q) \subseteq contested'
  BY DEF ApplyAll
<1>8. entries' = [e \in DOMAIN entries \union Planned(r) |->
         IF e \in Planned(r) THEN handling[r].plan[CHOOSE i \in DOMAIN handling[r].plan :
                                                    handling[r].plan[i].entry = e].picture
         ELSE entries[e]]
  BY DEF ApplyAll
<1>9. ASSUME NEW e \in Planned(r)
      PROVE  \E i \in DOMAIN handling[r].plan :
               handling[r].plan[i].entry = e /\ entries'[e] = handling[r].plan[i].picture
  <2>1. \E i \in DOMAIN handling[r].plan : handling[r].plan[i].entry = e
    BY DEF Planned
  <2>2. PICK k : k = CHOOSE i \in DOMAIN handling[r].plan : handling[r].plan[i].entry = e
    OBVIOUS
  <2>3. k \in DOMAIN handling[r].plan /\ handling[r].plan[k].entry = e
    BY <2>1, <2>2
  <2>4. entries'[e] = handling[r].plan[k].picture
    BY <2>2, <1>8
  <2>. QED BY <2>3, <2>4
<1>10. \A i \in DOMAIN handling[r].plan : handling[r].plan[i] \in CopyType
  BY <1>2, ElementOfSeq
<1>11. /\ DOMAIN entries' = DOMAIN entries \union Planned(r)
       /\ \A e \in DOMAIN entries : e \notin Planned(r) => entries'[e] = entries[e]
  BY <1>8
<1>12. entries' \in [DOMAIN entries' -> Nat] /\ DOMAIN entries' \subseteq Entry /\ IsFiniteSet(DOMAIN entries')
  <2>1. \A e \in DOMAIN entries' : entries'[e] \in Nat
    BY <1>9, <1>10, <1>11, <1>t DEF LibraryTypeOK, CopyType
  <2>2. entries' \in [DOMAIN entries' -> Nat]
    BY <2>1, <1>8, <1>11
  <2>3. Planned(r) \subseteq Entry
    BY <1>10 DEF Planned, CopyType
  <2>4. IsFiniteSet(Planned(r))
    <3>. DEFINE f == [i \in DOMAIN handling[r].plan |-> handling[r].plan[i].entry]
    <3>1. f \in Surjection(DOMAIN handling[r].plan, Planned(r))
      BY DEF Surjection, Planned
    <3>2. IsFiniteSet(DOMAIN handling[r].plan)
      BY <1>2, FS_Interval
    <3>. QED BY <3>1, <3>2, FS_Surjection
  <2>5. IsFiniteSet(DOMAIN entries \union Planned(r))
    BY <2>4, <1>t, FS_Union DEF LibraryTypeOK
  <2>. QED BY <2>2, <2>3, <2>5, <1>11, <1>t DEF LibraryTypeOK
<1>13. /\ LibraryTypeOK' /\ PictureInv'
       /\ \A q \in AssetRequest : Planned(q)' = Planned(q)
       /\ ~ Copying(r)'
       /\ \A q \in AssetRequest : q # r => handling'[q] = handling[q] /\ (Copying(q)' <=> Copying(q))
  BY <1>4, <1>5, <1>6, <1>12, <1>t, CopyGoesOn
<1>14. PlansDiffer'
  BY <1>13, <1>t DEF CopyInv, PlansDiffer
<1>15. CopiesThere'
  <2>. SUFFICES ASSUME NEW q \in AssetRequest, Copying(q)', NEW i \in DOMAIN handling'[q].plan,
                       i <= handling'[q].copied, NEW c, c = handling'[q].plan[i]
                PROVE  \/ c.picture = 0 \/ c.entry \in contested'
                       \/ (c.entry \in DOMAIN sheets' /\ sheets'[c.entry] = c.picture)
                       \/ \E p \in AssetRequest \ {q} : Copying(p)' /\ c.entry \in Planned(p)'
    BY DEF CopiesThere
  <2>1. q # r /\ handling'[q] = handling[q] /\ Copying(q) /\ c.entry \in Planned(q)
    BY <1>13 DEF Planned
  <2>2. \/ c.picture = 0 \/ c.entry \in contested
        \/ (c.entry \in DOMAIN sheets /\ sheets[c.entry] = c.picture)
        \/ \E p \in AssetRequest \ {q} : Copying(p) /\ c.entry \in Planned(p)
    BY <2>1, <1>t DEF CopyInv, CopiesThere
  <2>3. c.entry \in Planned(r) => c.entry \in contested'
    BY <2>1, <1>7
  <2>4. \A p \in AssetRequest : Copying(p) /\ c.entry \in Planned(p) =>
          c.entry \in contested' \/ (Copying(p)' /\ c.entry \in Planned(p)')
    BY <2>3, <1>13
  <2>. QED BY <2>2, <2>4, <1>6, <1>7
<1>16. EntryShows'
  <2>. SUFFICES ASSUME NEW e \in DOMAIN entries'
                PROVE  \/ entries'[e] = 0
                       \/ (e \in DOMAIN sheets /\ sheets[e] = entries'[e])
                       \/ e \in contested' \/ \E q \in AssetRequest : Copying(q)' /\ e \in Planned(q)'
    BY <1>6 DEF EntryShows
  <2>1. CASE e \in Planned(r)
    <3>1. PICK i \in DOMAIN handling[r].plan :
            handling[r].plan[i].entry = e /\ entries'[e] = handling[r].plan[i].picture
      BY <2>1, <1>9
    <3>2. i <= handling[r].copied
      BY <1>2
    <3>3. \/ entries'[e] = 0 \/ e \in contested
          \/ (e \in DOMAIN sheets /\ sheets[e] = entries'[e])
          \/ \E q \in AssetRequest \ {r} : Copying(q) /\ e \in Planned(q)
      BY <3>1, <3>2, <1>t DEF CopyInv, CopiesThere
    <3>. QED BY <2>1, <3>3, <1>7
  <2>2. CASE e \notin Planned(r)
    <3>1. e \in DOMAIN entries /\ entries'[e] = entries[e]
      BY <2>2, <1>11
    <3>2. \/ entries[e] = 0
          \/ (e \in DOMAIN sheets /\ sheets[e] = entries[e])
          \/ e \in contested \/ \E q \in AssetRequest : Copying(q) /\ e \in Planned(q)
      BY <3>1, <1>t DEF CopyInv, EntryShows
    <3>. QED BY <2>2, <3>1, <3>2, <1>7, <1>13
  <2>. QED BY <2>1, <2>2
<1>. QED BY <1>13, <1>14, <1>15, <1>16 DEF LibraryInv, CopyInv

LEMMA AddEntryStep ==
  ASSUME LibraryInv, NEW n \in Name, AddEntry(n)
  PROVE  LibraryInv'
<1>t. LibraryTypeOK /\ PictureInv /\ CopyInv
  BY DEF LibraryInv
<1>1. /\ UNCHANGED rows /\ UNCHANGED library /\ UNCHANGED pictures /\ UNCHANGED ids
      /\ UNCHANGED orphaned /\ UNCHANGED botched /\ UNCHANGED sheets /\ UNCHANGED handling
      /\ UNCHANGED contested
  BY DEF AddEntry, Store
<1>2. entries' = [e \in DOMAIN entries \union {Plain(n)} |-> IF e = Plain(n) THEN 0 ELSE entries[e]]
      /\ Plain(n) \notin DOMAIN entries
  BY DEF AddEntry, Put
<1>3. /\ DOMAIN entries' = DOMAIN entries \union {Plain(n)} /\ entries'[Plain(n)] = 0
      /\ \A e \in DOMAIN entries : entries'[e] = entries[e]
      /\ entries' \in [DOMAIN entries' -> Nat]
  BY <1>2, <1>t DEF LibraryTypeOK
<1>4. Plain(n) \in Entry
  BY DEF Plain, Entry
<1>5. IsFiniteSet(DOMAIN entries')
  BY <1>3, <1>t, FS_AddElement DEF LibraryTypeOK
<1>6. LibraryTypeOK'
  BY <1>1, <1>3, <1>4, <1>5, <1>t DEF LibraryTypeOK
<1>7. PictureInv'
  <2>1. AssetsDiffer' /\ PicturesKnown' /\ NewIsOwn' /\ NewIsGiven'
    BY <1>1, <1>t DEF PictureInv, AssetsDiffer, PicturesKnown, NewIsOwn, NewIsGiven
  <2>2. OldIsOwn' /\ PictureKept' /\ PictureOwned'
    BY <1>1, <1>t DEF PictureInv, OldIsOwn, PictureKept, PictureOwned
  <2>. QED BY <2>1, <2>2 DEF PictureInv
<1>8. \A q \in AssetRequest : (Copying(q)' <=> Copying(q)) /\ Planned(q)' = Planned(q)
  BY <1>1 DEF Copying, In, Planned
<1>9. PlansDiffer' /\ CopiesThere'
  BY <1>1, <1>8, <1>t DEF CopyInv, PlansDiffer, CopiesThere
<1>10. EntryShows'
  BY <1>1, <1>3, <1>8, <1>t DEF CopyInv, EntryShows
<1>. QED BY <1>6, <1>7, <1>9, <1>10 DEF LibraryInv, CopyInv

LEMMA ServerEndsStep ==
  ASSUME LibraryInv, ServerEnds
  PROVE  LibraryInv'
<1>t. LibraryTypeOK /\ PictureInv /\ CopyInv
  BY DEF LibraryInv
<1>1. /\ UNCHANGED rows /\ UNCHANGED library /\ UNCHANGED pictures /\ UNCHANGED ids
      /\ UNCHANGED sheets /\ UNCHANGED entries
  BY DEF ServerEnds
<1>2. ASSUME NEW r \in AssetRequest
      PROVE  /\ handling'[r].pc \in {"away", "done"} /\ handling'[r] \in AssetJobType /\ Shape(handling'[r])
             /\ handling'[r].new = handling[r].new /\ handling'[r].old = handling[r].old
             /\ handling[r].pc = "write" => handling[r].new \in orphaned'
             /\ handling[r].pc = "refresh" => handling[r].old \in orphaned'
             /\ handling[r].pc = "delete" => handling[r].old \in botched'
             /\ Copying(r) => Planned(r) \subseteq contested'
  <2>1. handling[r] \in AssetJobType /\ Shape(handling[r])
    BY <1>t DEF LibraryTypeOK
  <2>2. handling[r].pc \notin {"away", "done"} => handling'[r] = [handling[r] EXCEPT !.pc = "done"]
    BY DEF ServerEnds
  <2>3. handling[r].pc \in {"away", "done"} => handling'[r] = handling[r]
    BY DEF ServerEnds
  <2>4. /\ handling'[r].pc \in {"away", "done"} /\ handling'[r] \in AssetJobType
        /\ handling'[r].new = handling[r].new /\ handling'[r].old = handling[r].old
    BY <2>1, <2>2, <2>3 DEF AssetJobType
  <2>5. Shape(handling'[r])
    <3>1. CASE handling[r].pc \in {"away", "done"}
      BY <2>1, <2>3, <3>1
    <3>2. CASE handling[r].pc \notin {"away", "done"}
      <4>1. PICK a : a = handling'[r]
        OBVIOUS
      <4>2. a.pc = "done" /\ a.op = handling[r].op /\ a.old = handling[r].old
            /\ a.name = handling[r].name /\ a.seen = handling[r].seen
        BY <2>1, <2>2, <3>2, <4>1 DEF AssetJobType
      <4>3. Shape(a)
        BY <2>1, <4>2 DEF Shape
      <4>. QED BY <4>1, <4>3
    <3>. QED BY <3>1, <3>2
  <2>6. handling[r].pc = "write" => handling[r].new \in orphaned'
    BY <2>1 DEF ServerEnds, Shape
  <2>7. handling[r].pc = "refresh" => handling[r].old \in orphaned'
    BY <2>1 DEF ServerEnds, Shape
  <2>8. handling[r].pc = "delete" => handling[r].old \in botched'
    BY <2>1 DEF ServerEnds, Shape
  <2>9. Copying(r) => Planned(r) \subseteq contested'
    BY DEF ServerEnds, Copying, In
  <2>. QED BY <2>4, <2>5, <2>6, <2>7, <2>8, <2>9
<1>3. orphaned \subseteq orphaned' /\ botched \subseteq botched' /\ contested \subseteq contested'
  BY DEF ServerEnds
<1>4. LibraryTypeOK'
  <2>1. handling' \in [AssetRequest -> AssetJobType]
    <3>1. \E T : handling' = [r \in AssetRequest |-> T[r]]
      <4>. DEFINE T == [r \in AssetRequest |->
              IF handling[r].pc \notin {"away", "done"} THEN [handling[r] EXCEPT !.pc = "done"] ELSE handling[r]]
      <4>1. handling' = [r \in AssetRequest |-> T[r]]
        BY DEF ServerEnds
      <4>. QED BY <4>1
    <3>. QED BY <3>1, <1>2
  <2>. QED BY <2>1, <1>1, <1>2, <1>t DEF LibraryTypeOK
<1>5. PictureInv'
  <2>known. AssetsDiffer' /\ PicturesKnown'
    BY <1>1, <1>2, <1>t DEF PictureInv, AssetsDiffer, PicturesKnown
  <2>own. NewIsOwn' /\ NewIsGiven'
    BY <1>2 DEF NewIsOwn, NewIsGiven
  <2>old. OldIsOwn'
    BY <1>2 DEF OldIsOwn
  <2>kept. PictureKept'
    BY <1>1, <1>2, <1>3, <1>t DEF PictureInv, PictureKept
  <2>owned. PictureOwned'
    BY <1>1, <1>2, <1>3, <1>t DEF PictureInv, PictureOwned
  <2>. QED BY <2>known, <2>own, <2>old, <2>kept, <2>owned DEF PictureInv
<1>6. CopyInv'
  <2>1. \A r \in AssetRequest : ~ Copying(r)'
    BY <1>2 DEF Copying, In
  <2>2. EntryShows'
    BY <1>1, <1>2, <1>3, <1>t DEF CopyInv, EntryShows
  <2>. QED BY <2>1, <2>2 DEF CopyInv, PlansDiffer, CopiesThere
<1>. QED BY <1>4, <1>5, <1>6 DEF LibraryInv

\* Rows, pictures and the entries of the project stay in step, whatever requests overlap,
\* raise or end with the server.
THEOREM LibraryStaysHonest == LibrarySpec => []LibraryHonest
<1>1. LibraryInit => LibraryInv
  BY BeginLibrary
<1>2. LibraryInv /\ [LibraryNext]_shelving => LibraryInv'
  <2>. SUFFICES ASSUME LibraryInv, [LibraryNext]_shelving PROVE LibraryInv'
    OBVIOUS
  <2>begins. ASSUME NEW r \in AssetRequest, CreateAsset(r) \/ ReplaceImage(r) \/ FromProject(r) PROVE LibraryInv'
    BY <2>begins, BeginningSteps
  <2>saves. ASSUME NEW r \in AssetRequest, SavePicture(r) PROVE LibraryInv'
    BY <2>saves, SavePictureStep
  <2>inserts. ASSUME NEW r \in AssetRequest, InsertAsset(r) PROVE LibraryInv'
    BY <2>inserts, InsertAssetStep
  <2>updates. ASSUME NEW r \in AssetRequest, UpdatePicture(r) PROVE LibraryInv'
    BY <2>updates, UpdatePictureStep
  <2>refreshed. ASSUME NEW r \in AssetRequest, Refreshed(r) PROVE LibraryInv'
    BY <2>refreshed, RefreshedStep
  <2>gone. ASSUME NEW r \in AssetRequest, RefreshGone(r) PROVE LibraryInv'
    BY <2>gone, RefreshGoneStep
  <2>raises. ASSUME NEW r \in AssetRequest, WriteRaises(r) PROVE LibraryInv'
    BY <2>raises, WriteRaisesStep
  <2>renames. ASSUME NEW r \in AssetRequest, RenameAsset(r) PROVE LibraryInv'
    BY <2>renames, RenameAssetStep
  <2>removes. ASSUME NEW r \in AssetRequest, RemovePicture(r) PROVE LibraryInv'
    BY <2>removes, RemovePictureStep
  <2>deletes. ASSUME NEW r \in AssetRequest, DeleteRow(r) PROVE LibraryInv'
    BY <2>deletes, DeleteRowStep
  <2>undeleted. ASSUME NEW r \in AssetRequest, DeleteRaises(r) PROVE LibraryInv'
    BY <2>undeleted, DeleteRaisesStep
  <2>loads. ASSUME NEW r \in AssetRequest, LoadEntries(r) PROVE LibraryInv'
    BY <2>loads, LoadEntriesStep
  <2>plans. ASSUME NEW r \in AssetRequest, PlanCopies(r) PROVE LibraryInv'
    BY <2>plans, PlanCopiesStep
  <2>copies. ASSUME NEW r \in AssetRequest, CopySheet(r) PROVE LibraryInv'
    BY <2>copies, CopySheetStep
  <2>uncopied. ASSUME NEW r \in AssetRequest, CopyRaises(r) PROVE LibraryInv'
    BY <2>uncopied, CopyRaisesStep
  <2>applies. ASSUME NEW r \in AssetRequest, ApplyAll(r) PROVE LibraryInv'
    BY <2>applies, ApplyAllStep
  <2>adds. ASSUME NEW n \in Name, AddEntry(n) PROVE LibraryInv'
    BY <2>adds, AddEntryStep
  <2>ends. CASE ServerEnds
    BY <2>ends, ServerEndsStep
  <2>idle. CASE UNCHANGED shelving
    <3>1. /\ UNCHANGED rows /\ UNCHANGED library /\ UNCHANGED pictures /\ UNCHANGED ids
          /\ UNCHANGED entries /\ UNCHANGED sheets /\ UNCHANGED handling /\ UNCHANGED orphaned
          /\ UNCHANGED botched /\ UNCHANGED contested
      BY <2>idle DEF shelving
    <3>2. LibraryTypeOK'
      BY <3>1 DEF LibraryInv, LibraryTypeOK
    <3>3. AssetsDiffer' /\ PicturesKnown' /\ NewIsOwn' /\ NewIsGiven'
      BY <3>1 DEF LibraryInv, PictureInv, AssetsDiffer, PicturesKnown, NewIsOwn, NewIsGiven
    <3>4. OldIsOwn' /\ PictureKept' /\ PictureOwned'
      BY <3>1 DEF LibraryInv, PictureInv, OldIsOwn, PictureKept, PictureOwned
    <3>5. \A q \in AssetRequest : (Copying(q)' <=> Copying(q)) /\ Planned(q)' = Planned(q)
      BY <3>1 DEF Copying, In, Planned
    <3>6. PlansDiffer' /\ CopiesThere' /\ EntryShows'
      BY <3>1, <3>5 DEF LibraryInv, CopyInv, PlansDiffer, CopiesThere, EntryShows
    <3>. QED BY <3>2, <3>3, <3>4, <3>6 DEF LibraryInv, PictureInv, CopyInv
  <2>. QED BY <2>begins, <2>saves, <2>inserts, <2>updates, <2>refreshed,
              <2>gone, <2>raises, <2>renames, <2>removes, <2>deletes, <2>undeleted, <2>loads, <2>plans,
              <2>copies, <2>uncopied, <2>applies, <2>adds, <2>ends, <2>idle DEF LibraryNext
<1>3. LibraryInv => LibraryHonest
  <2>. SUFFICES ASSUME LibraryInv PROVE LibraryHonest
    OBVIOUS
  <2>1. PictureThere
    <3>1. \A r \in AssetRequest : handling[r].pc = "delete" => handling[r].op = "delete"
      BY DEF LibraryInv, LibraryTypeOK, Shape
    <3>. QED BY <3>1 DEF LibraryInv, PictureInv, PictureKept, PictureThere, In
  <2>2. NoneLeft
    BY DEF LibraryInv, PictureInv, PictureOwned, NoneLeft
  <2>. QED BY <2>1, <2>2 DEF LibraryInv, CopyInv, LibraryHonest
<1>. QED BY <1>1, <1>2, <1>3, PTL DEF LibrarySpec

--------------------------------------------------------------------------------
(* Batches of storyboards.                                                   *)

BatchPc == {"away", "asking", "adding", "looking", "aborted", "waiting", "done"}
BatchJob == [chosen : SUBSET Key, pc : BatchPc, next : Key \union {0}, ids : [Key -> 0 .. MaxTasks]]
WaitingAt == [at : {"none", "row", "lease", "gave up"} \union Told, offline : BOOLEAN]

BatchTyped ==
  /\ RowsTypeOK
  /\ lease.fresh \in BOOLEAN
  /\ breaks \subseteq Key
  /\ batch \in [Batch -> BatchJob]
  /\ waiting \in [Batch -> [Key -> WaitingAt]]
  /\ struck \subseteq Task \ InState("absent")
  /\ created \in [Task -> Batch \union {None}]

\* A row that a batch has noted is of the item it noted it for, and items are noted in order.
NotedFor(b) ==
  /\ batch[b].chosen # {}
  /\ \A i \in Key : Row(b, i) # 0 =>
       /\ i \in batch[b].chosen /\ status[Row(b, i)] # "absent" /\ key[Row(b, i)] = i
       /\ \A j \in batch[b].chosen : j < i => Row(b, j) # 0

\* Where a batch is says which items it has noted.
NotedSoFar(b) ==
  /\ batch[b].pc = "away" => \A i \in Key : Row(b, i) = 0
  /\ batch[b].pc \in {"asking", "adding", "looking"} =>
       /\ batch[b].next \in batch[b].chosen
       /\ \A i \in batch[b].chosen : Row(b, i) # 0 <=> i < batch[b].next
  /\ batch[b].pc \in {"waiting", "done"} => \A i \in batch[b].chosen : Row(b, i) # 0

\* It waits for all of them, and has heard of all when it is done.
WaitsFor(b) ==
  /\ \A i \in Key : waiting[b][i].at # "none" => i \in batch[b].chosen /\ batch[b].pc \in {"waiting", "done"}
  /\ batch[b].pc = "done" => \A i \in batch[b].chosen : waiting[b][i].at \in Told \union {"gave up"}

\* A row is noted by the batch that inserted it, and depends on what that batch had noted for
\* the item before.
Before(t) == Dependency(batch[created[t]].chosen, key[t])
Rooted ==
  \A t \in Task :
    /\ status[t] = "absent" <=> created[t] = None
    /\ status[t] # "absent" =>
         /\ Row(created[t], key[t]) = t
         /\ dep[t] = IF Before(t) = 0 THEN 0 ELSE Row(created[t], Before(t))

\* A row runs once the one it depends on has succeeded.
InTurn == \A t \in Task : status[t] \in {"running", "succeeded"} /\ dep[t] # 0 => status[dep[t]] = "succeeded"

\* What a batch has heard of a row does not change.
HeardTrue == \A b \in Batch, i \in Key : waiting[b][i].at \in Told => status[Row(b, i)] = waiting[b][i].at

BatchInv ==
  /\ BatchTyped
  /\ \A b \in Batch : NotedFor(b) /\ NotedSoFar(b) /\ WaitsFor(b)
  /\ Rooted /\ InTurn /\ HeardTrue /\ SegmentsApart /\ UniqueActive

-------------------------------------------------------------------------------

LEMMA ItemsAre == \A i \in Key : i \in Nat /\ i >= 1
BY BatchAssumption, FS_CardinalityType

LEMMA FollowingIs ==
  ASSUME NEW chosen \in SUBSET Key, NEW i \in Nat
  PROVE  /\ Following(chosen, i) \in chosen \union {0}
         /\ Following(chosen, i) # 0 =>
              Following(chosen, i) >= i /\ \A j \in chosen : j >= i => Following(chosen, i) <= j
         /\ Following(chosen, i) = 0 => \A j \in chosen : j < i
<1>. DEFINE rest == {j \in chosen : j >= i}
<1>1. PICK n \in Nat : n = Cardinality(Key)
  BY BatchAssumption, FS_CardinalityType
<1>2. Key = 1 .. n
  BY <1>1, BatchAssumption
<1>3. CASE rest = {}
  <2>1. Following(chosen, i) = 0
    BY <1>3 DEF Following
  <2>2. \A j \in chosen : j < i
    BY <1>2, <1>3
  <2>. QED BY <2>1, <2>2
<1>4. CASE rest # {}
  <2>1. rest \in SUBSET (1 .. n)
    BY <1>2
  <2>2. \E j \in rest : \A k \in rest : j <= k
    <3>. HIDE DEF rest
    <3>. QED BY <1>1, <1>4, <2>1, LeastNumber
  <2>3. PICK f : f = CHOOSE j \in rest : \A k \in rest : j <= k
    OBVIOUS
  <2>4. f \in rest /\ \A k \in rest : f <= k
    BY <2>2, <2>3
  <2>5. Following(chosen, i) = f
    BY <1>4, <2>3 DEF Following
  <2>. QED BY <2>1, <2>4, <2>5
<1>. QED BY <1>3, <1>4

LEMMA InitBatch == BatchInit => BatchInv
<1>. SUFFICES ASSUME BatchInit PROVE BatchInv
  OBVIOUS
<1>1. /\ status = [t \in Task |-> "absent"] /\ key = [t \in Task |-> None] /\ dep = [t \in Task |-> 0]
      /\ lease = [owner |-> None, fresh |-> FALSE]
      /\ struck = {} /\ created = [t \in Task |-> None] /\ breaks \in Breaks
      /\ waiting = [b \in Batch |-> [i \in Key |-> Idle]]
  BY DEF BatchInit, TablesInit
<1>2. RowsTypeOK
  BY <1>1, TableAssumption DEF RowsTypeOK, Status, Task
<1>3. ASSUME NEW b \in Batch
      PROVE  /\ batch[b] \in BatchJob /\ batch[b].pc = "away" /\ batch[b].chosen # {}
             /\ \A i \in Key : batch[b].ids[i] = 0
  <2>1. batch[b] \in [chosen : UNION {Selections[c] : c \in Batch},
                      pc : {"away"}, next : {0}, ids : {[i \in Key |-> 0]}]
    BY DEF BatchInit
  <2>2. batch[b].chosen \in Selections[b]
    BY DEF BatchInit
  <2>3. batch[b].chosen \in SUBSET Key /\ batch[b].chosen # {}
    BY <2>2, BatchAssumption
  <2>4. batch[b].pc = "away" /\ batch[b].next = 0 /\ batch[b].ids = [i \in Key |-> 0]
    BY <2>1
  <2>5. [i \in Key |-> 0] \in [Key -> 0 .. MaxTasks]
    BY TableAssumption
  <2>6. batch[b] = [chosen |-> batch[b].chosen, pc |-> batch[b].pc, next |-> batch[b].next, ids |-> batch[b].ids]
    BY <2>1
  <2>. QED BY <2>3, <2>4, <2>5, <2>6 DEF BatchJob, BatchPc
<1>4. \A b \in Batch, i \in Key : waiting[b][i] = Idle /\ Idle.at = "none" /\ Idle \in WaitingAt
  BY <1>1 DEF Idle, WaitingAt
<1>5. BatchTyped
  <2>1. batch \in [Batch -> BatchJob]
    BY <1>3 DEF BatchInit
  <2>2. waiting \in [Batch -> [Key -> WaitingAt]]
    BY <1>1 DEF Idle, WaitingAt
  <2>3. breaks \subseteq Key
    BY <1>1, BatchAssumption
  <2>. QED BY <1>1, <1>2, <2>1, <2>2, <2>3 DEF BatchTyped
<1>6. \A b \in Batch : NotedFor(b) /\ NotedSoFar(b) /\ WaitsFor(b)
  BY <1>3, <1>4 DEF NotedFor, NotedSoFar, WaitsFor, Row
<1>7. Rooted /\ InTurn
  BY <1>1 DEF Rooted, InTurn
<1>8. HeardTrue
  BY <1>4 DEF HeardTrue, Told
<1>9. SegmentsApart /\ UniqueActive
  BY <1>1 DEF SegmentsApart, UniqueActive, Dead, Active, InState
<1>. QED BY <1>5, <1>6, <1>7, <1>8, <1>9 DEF BatchInv

\* No row changes, and what has been noted stays: the rest is about the batches alone.
LEMMA RowsStay ==
  ASSUME BatchInv, Rows, Quiet, lease'.fresh \in BOOLEAN,
         batch' \in [Batch -> BatchJob], waiting' \in [Batch -> [Key -> WaitingAt]],
         \A c \in Batch : batch'[c].chosen = batch[c].chosen,
         \A c \in Batch, i \in Key : Row(c, i) # 0 => batch'[c].ids[i] = Row(c, i),
         \A c \in Batch : NotedFor(c)' /\ NotedSoFar(c)' /\ WaitsFor(c)',
         \A c \in Batch, i \in Key :
           waiting'[c][i].at \in Told => Row(c, i) # 0 /\ status[Row(c, i)] = waiting'[c][i].at
  PROVE  BatchInv'
<1>1. /\ UNCHANGED status /\ UNCHANGED key /\ UNCHANGED dep /\ UNCHANGED created
      /\ UNCHANGED breaks /\ UNCHANGED struck
  BY DEF Rows, Quiet
<1>t. BatchTyped /\ Rooted /\ InTurn /\ SegmentsApart /\ UniqueActive
  BY DEF BatchInv
<1>2. BatchTyped'
  <2>1. RowsTypeOK'
    BY <1>1, <1>t DEF BatchTyped, RowsTypeOK
  <2>. QED BY <2>1, <1>1, <1>t DEF BatchTyped, InState
<1>3. Rooted'
  <2>. SUFFICES ASSUME NEW t \in Task
                PROVE  /\ status[t] = "absent" <=> created[t] = None
                       /\ status[t] # "absent" =>
                            /\ Row(created[t], key[t])' = t
                            /\ dep[t] = IF Before(t)' = 0 THEN 0 ELSE Row(created[t], Before(t))'
    BY <1>1 DEF Rooted, Row
  <2>1. status[t] = "absent" <=> created[t] = None
    BY <1>t DEF Rooted
  <2>. SUFFICES ASSUME status[t] # "absent"
                PROVE  /\ Row(created[t], key[t])' = t
                       /\ dep[t] = IF Before(t)' = 0 THEN 0 ELSE Row(created[t], Before(t))'
    BY <2>1
  <2>2. created[t] \in Batch /\ key[t] \in Key
    BY <2>1, <1>t DEF BatchTyped, RowsTypeOK
  <2>3. Row(created[t], key[t]) = t /\ dep[t] = IF Before(t) = 0 THEN 0 ELSE Row(created[t], Before(t))
    BY <1>t DEF Rooted
  <2>4. Row(created[t], key[t])' = t
    BY <2>2, <2>3, <1>1 DEF Row, Task
  <2>5. Before(t)' = Before(t)
    BY <2>2, <1>1 DEF Before, Dependency
  <2>6. Before(t) # 0 => Before(t) \in Key /\ Row(created[t], Before(t)) # 0
    <3>1. Before(t) # 0 => Before(t) \in batch[created[t]].chosen /\ Before(t) < key[t]
      BY <2>2, ItemsAre DEF Before, Dependency
    <3>2. Row(created[t], key[t]) # 0 /\ NotedFor(created[t]) /\ batch[created[t]].chosen \subseteq Key
      BY <2>2, <2>3, <1>t DEF Task, BatchInv, BatchTyped, BatchJob
    <3>. QED BY <2>2, <3>1, <3>2 DEF NotedFor
  <2>7. Before(t) # 0 => Row(created[t], Before(t))' = Row(created[t], Before(t))
    <3>1. Before(t)' = Before(t) /\ UNCHANGED created
      BY <2>5, <1>1
    <3>2. Before(t) # 0 => batch'[created[t]].ids[Before(t)] = batch[created[t]].ids[Before(t)]
      BY <2>2, <2>6 DEF Row
    <3>. QED BY <3>1, <3>2 DEF Row
  <2>. QED BY <2>3, <2>4, <2>5, <2>7
<1>4. InTurn'
  BY <1>1, <1>t DEF InTurn
<1>5. HeardTrue'
  BY <1>1 DEF HeardTrue, Row
<1>6. SegmentsApart' /\ UniqueActive'
  <2>1. Dead' = Dead /\ Active' = Active
    BY <1>1 DEF Dead, Active, InState
  <2>. QED BY <2>1, <1>1, <1>t DEF SegmentsApart, UniqueActive
<1>. QED BY <1>2, <1>3, <1>4, <1>5, <1>6 DEF BatchInv

\* One batch goes on, and has noted nothing more.
LEMMA BatchMoves ==
  ASSUME BatchInv, Rows, Quiet, lease'.fresh \in BOOLEAN, NEW b \in Batch, NEW B \in BatchJob,
         batch' = [batch EXCEPT ![b] = B], B.chosen = batch[b].chosen, B.ids = batch[b].ids,
         UNCHANGED waiting, NotedSoFar(b)', WaitsFor(b)'
  PROVE  BatchInv'
<1>t. BatchTyped /\ HeardTrue /\ \A c \in Batch : NotedFor(c) /\ NotedSoFar(c) /\ WaitsFor(c)
  BY DEF BatchInv
<1>1. batch'[b] = B /\ \A c \in Batch : c # b => batch'[c] = batch[c]
  BY <1>t DEF BatchTyped
<1>2. \A c \in Batch : batch'[c].chosen = batch[c].chosen /\ batch'[c].ids = batch[c].ids
  BY <1>1
<1>3. batch' \in [Batch -> BatchJob] /\ waiting' \in [Batch -> [Key -> WaitingAt]]
  BY <1>t DEF BatchTyped
<1>4. \A c \in Batch : NotedFor(c)'
  <2>1. \A c \in Batch, i \in Key : Row(c, i)' = Row(c, i)
    BY <1>2 DEF Row
  <2>2. UNCHANGED status /\ UNCHANGED key
    BY DEF Rows
  <2>. SUFFICES ASSUME NEW c \in Batch PROVE NotedFor(c)'
    OBVIOUS
  <2>3. batch[c].chosen \subseteq Key
    BY <1>t DEF BatchTyped, BatchJob
  <2>. QED BY <2>1, <2>2, <2>3, <1>2, <1>t DEF NotedFor
<1>5. \A c \in Batch : c # b => NotedSoFar(c)' /\ WaitsFor(c)'
  <2>. SUFFICES ASSUME NEW c \in Batch, c # b PROVE NotedSoFar(c)' /\ WaitsFor(c)'
    OBVIOUS
  <2>1. batch'[c] = batch[c] /\ NotedSoFar(c) /\ WaitsFor(c)
    BY <1>1, <1>t
  <2>2. NotedSoFar(c)'
    BY <2>1 DEF NotedSoFar, Row
  <2>3. WaitsFor(c)'
    BY <2>1 DEF WaitsFor
  <2>. QED BY <2>2, <2>3
<1>6. \A c \in Batch, i \in Key :
           waiting'[c][i].at \in Told => Row(c, i) # 0 /\ status[Row(c, i)] = waiting'[c][i].at
  <2>. SUFFICES ASSUME NEW c \in Batch, NEW i \in Key, waiting[c][i].at \in Told
                PROVE  Row(c, i) # 0 /\ status[Row(c, i)] = waiting[c][i].at
    OBVIOUS
  <2>1. waiting[c][i].at # "none"
    BY DEF Told
  <2>2. i \in batch[c].chosen /\ batch[c].pc \in {"waiting", "done"}
    BY <2>1, <1>t DEF WaitsFor
  <2>. QED BY <2>2, <1>t DEF NotedSoFar, HeardTrue
<1>7. \A c \in Batch, i \in Key : Row(c, i) # 0 => batch'[c].ids[i] = Row(c, i)
  BY <1>2 DEF Row
<1>. QED BY <1>2, <1>3, <1>4, <1>5, <1>6, <1>7, RowsStay

LEMMA BatchGoesIs ==
  ASSUME BatchTyped, NEW b \in Batch, NEW pc \in BatchPc, BatchGoes(b, pc)
  PROVE  \E B \in BatchJob : /\ batch' = [batch EXCEPT ![b] = B] /\ batch'[b] = B
                             /\ B.pc = pc /\ B.chosen = batch[b].chosen /\ B.ids = batch[b].ids
                             /\ B.next = batch[b].next
<1>1. batch[b] \in BatchJob
  BY DEF BatchTyped
<1>2. PICK B : B = [batch[b] EXCEPT !.pc = pc]
  OBVIOUS
<1>3. B \in BatchJob /\ B.pc = pc /\ B.chosen = batch[b].chosen /\ B.ids = batch[b].ids
      /\ B.next = batch[b].next
  BY <1>1, <1>2 DEF BatchJob
<1>4. batch' = [batch EXCEPT ![b] = B] /\ batch'[b] = B
  BY <1>2 DEF BatchGoes, BatchTyped
<1>. QED BY <1>3, <1>4

LEMMA BatchSteps ==
  ASSUME BatchInv, NEW b \in Batch,
         BeginBatch(b) \/ AskOnline(b) \/ Refused(b) \/ DedupeFails(b) \/ FinishBatch(b)
  PROVE  BatchInv'
<1>t. BatchTyped /\ HeardTrue /\ NotedFor(b) /\ NotedSoFar(b) /\ WaitsFor(b)
  BY DEF BatchInv
<1>f. UNCHANGED lease => lease'.fresh \in BOOLEAN
  BY <1>t DEF BatchTyped
<1>1. CASE BeginBatch(b)
  <2>2. batch[b].chosen \in SUBSET Key /\ batch[b].chosen # {} /\ batch[b] \in BatchJob
    BY <1>t DEF BatchTyped, BatchJob, NotedFor
  <2>1. PICK next \in Key \union {0} : next = Following(batch[b].chosen, 1)
    <3>1. 1 \in Nat
      OBVIOUS
    <3>2. Following(batch[b].chosen, 1) \in Key \union {0}
      BY <2>2, <3>1, FollowingIs
    <3>. QED BY <3>2
  <2>3. \A i \in batch[b].chosen : i \in Nat /\ i >= 1
    BY <2>2, ItemsAre
  <2>4. next \in batch[b].chosen /\ \A i \in batch[b].chosen : next <= i
    BY <2>1, <2>2, <2>3, FollowingIs
  <2>5. PICK B : B = [batch[b] EXCEPT !.pc = "asking", !.next = next]
    OBVIOUS
  <2>6. B \in BatchJob /\ B.pc = "asking" /\ B.next = next /\ B.chosen = batch[b].chosen
        /\ B.ids = batch[b].ids
    BY <2>1, <2>2, <2>5 DEF BatchJob, BatchPc
  <2>7. batch' = [batch EXCEPT ![b] = B] /\ batch'[b] = B
    BY <1>1, <1>t, <2>1, <2>5 DEF BeginBatch, BatchTyped
  <2>8. Rows /\ Quiet /\ UNCHANGED lease /\ UNCHANGED waiting /\ batch[b].pc = "away"
    BY <1>1 DEF BeginBatch, InBatch
  <2>9. NotedSoFar(b)'
    <3>1. \A i \in Key : Row(b, i)' = 0
      BY <2>6, <2>7, <2>8, <1>t DEF NotedSoFar, Row
    <3>2. \A i \in batch[b].chosen : ~ (i < next) /\ i \in Key
      BY <2>2, <2>3, <2>4
    <3>. QED BY <2>4, <2>6, <2>7, <3>1, <3>2 DEF NotedSoFar
  <2>10. WaitsFor(b)'
    BY <2>6, <2>7, <2>8, <1>t DEF WaitsFor
  <2>. QED BY <2>6, <2>7, <2>8, <2>9, <2>10, <1>f, BatchMoves
<1>2. CASE AskOnline(b) \/ Refused(b) \/ DedupeFails(b)
  <2>1. Rows /\ Quiet /\ UNCHANGED lease /\ UNCHANGED waiting /\ batch[b].pc \in {"asking", "adding", "looking"}
    BY <1>2 DEF AskOnline, Refused, DedupeFails, InBatch
  <2>2. PICK pc \in {"adding", "looking", "aborted"} : BatchGoes(b, pc)
    BY <1>2 DEF AskOnline, Refused, DedupeFails
  <2>3. pc \in BatchPc
    BY DEF BatchPc
  <2>4. PICK B \in BatchJob : /\ batch' = [batch EXCEPT ![b] = B] /\ batch'[b] = B
                              /\ B.pc = pc /\ B.chosen = batch[b].chosen /\ B.ids = batch[b].ids
                              /\ B.next = batch[b].next
    BY <2>2, <2>3, <1>t, BatchGoesIs
  <2>5. NotedSoFar(b)' /\ WaitsFor(b)'
    BY ZenonT(50), <2>1, <2>4, <1>t DEF NotedSoFar, WaitsFor, Row
  <2>. QED BY <2>1, <2>4, <2>5, <1>f, BatchMoves
<1>3. CASE FinishBatch(b)
  <2>1. Rows /\ Quiet /\ UNCHANGED lease /\ UNCHANGED waiting /\ batch[b].pc = "waiting"
        /\ BatchGoes(b, "done") /\ \A i \in batch[b].chosen : waiting[b][i].at \in Told \union {"gave up"}
    BY <1>3 DEF FinishBatch, InBatch
  <2>3. "done" \in BatchPc
    BY DEF BatchPc
  <2>4. PICK B \in BatchJob : /\ batch' = [batch EXCEPT ![b] = B] /\ batch'[b] = B
                              /\ B.pc = "done" /\ B.chosen = batch[b].chosen /\ B.ids = batch[b].ids
                              /\ B.next = batch[b].next
    BY <2>1, <2>3, <1>t, BatchGoesIs
  <2>5. NotedSoFar(b)' /\ WaitsFor(b)'
    BY ZenonT(50), <2>1, <2>4, <1>t DEF NotedSoFar, WaitsFor, Row
  <2>. QED BY <2>1, <2>4, <2>5, <1>f, BatchMoves
<1>. QED BY <1>1, <1>2, <1>3

LEMMA PollSteps ==
  ASSUME BatchInv, NEW b \in Batch, NEW i \in Key, Poll(b, i) \/ PollTimesOut(b, i) \/ PollOnline(b, i)
  PROVE  BatchInv'
<1>t. BatchTyped /\ HeardTrue /\ \A c \in Batch : NotedFor(c) /\ NotedSoFar(c) /\ WaitsFor(c)
  BY DEF BatchInv
<1>1. waiting[b][i] \in WaitingAt /\ lease.fresh \in BOOLEAN
  BY <1>t DEF BatchTyped
<1>2. \E w \in WaitingAt : /\ Sees(b, i, w) /\ w.at # "none"
                           /\ w.at \in Told => status[Row(b, i)] = w.at
  <2>1. CASE Poll(b, i)
    <3>1. CASE status[Row(b, i)] \in Told
      <4>1. Watch(status[Row(b, i)], FALSE) \in WaitingAt
            /\ Watch(status[Row(b, i)], FALSE).at = status[Row(b, i)]
        BY <3>1 DEF Watch, WaitingAt
      <4>2. status[Row(b, i)] # "none"
        BY <3>1 DEF Told
      <4>. QED BY <2>1, <3>1, <4>1, <4>2 DEF Poll
    <3>2. CASE status[Row(b, i)] \notin Told
      <4>1. PICK w : w = [waiting[b][i] EXCEPT !.at = "lease"]
        OBVIOUS
      <4>2. w \in WaitingAt /\ w.at = "lease"
        BY <1>1, <4>1 DEF WaitingAt
      <4>. QED BY <2>1, <3>2, <4>1, <4>2 DEF Poll, Told
    <3>. QED BY <3>1, <3>2
  <2>2. Watch("gave up", FALSE) \in WaitingAt /\ Watch("gave up", FALSE).at = "gave up"
        /\ Watch("row", ~lease.fresh) \in WaitingAt /\ Watch("row", ~lease.fresh).at = "row"
    BY <1>1 DEF Watch, WaitingAt
  <2>3. "gave up" \notin Told /\ "row" \notin Told
    BY DEF Told
  <2>4. CASE PollTimesOut(b, i)
    BY <2>2, <2>3, <2>4 DEF PollTimesOut
  <2>5. CASE PollOnline(b, i)
    BY <2>2, <2>3, <2>5 DEF PollOnline
  <2>. QED BY <2>1, <2>4, <2>5
<1>3. PICK w \in WaitingAt : /\ Sees(b, i, w) /\ w.at # "none"
                             /\ w.at \in Told => status[Row(b, i)] = w.at
  BY <1>2
<1>4. waiting[b][i].at \in {"row", "lease"}
  BY DEF Poll, PollTimesOut, PollOnline
<1>5. i \in batch[b].chosen /\ batch[b].pc = "waiting"
  <2>1. i \in batch[b].chosen /\ batch[b].pc \in {"waiting", "done"}
    BY <1>4, <1>t DEF WaitsFor
  <2>2. waiting[b][i].at \notin Told \union {"gave up"}
    BY <1>4 DEF Told
  <2>. QED BY <2>1, <2>2, <1>t DEF WaitsFor
<1>6. Rows /\ Quiet /\ UNCHANGED << lease, batch >> /\ waiting' = [waiting EXCEPT ![b][i] = w]
  BY <1>3 DEF Sees
<1>7. /\ waiting' \in [Batch -> [Key -> WaitingAt]] /\ waiting'[b][i] = w
      /\ \A c \in Batch, j \in Key : c # b \/ j # i => waiting'[c][j] = waiting[c][j]
  BY <1>6, <1>t DEF BatchTyped
<1>8. \A c \in Batch : NotedFor(c)' /\ NotedSoFar(c)'
  <2>1. UNCHANGED status /\ UNCHANGED key /\ UNCHANGED batch
    BY <1>6 DEF Rows
  <2>. QED BY <2>1, <1>t DEF NotedFor, NotedSoFar, Row
<1>9. \A c \in Batch : WaitsFor(c)'
  <2>1. UNCHANGED batch
    BY <1>6
  <2>2. \A c \in Batch : batch[c].chosen \subseteq Key
    BY <1>t DEF BatchTyped, BatchJob
  <2>. SUFFICES ASSUME NEW c \in Batch PROVE WaitsFor(c)'
    OBVIOUS
  <2>3. \A j \in Key : waiting'[c][j].at # "none" =>
          j \in batch[c].chosen /\ batch[c].pc \in {"waiting", "done"}
    <3>. SUFFICES ASSUME NEW j \in Key, waiting'[c][j].at # "none"
                  PROVE  j \in batch[c].chosen /\ batch[c].pc \in {"waiting", "done"}
      OBVIOUS
    <3>1. CASE c = b /\ j = i
      BY <3>1, <1>5
    <3>2. CASE c # b \/ j # i
      <4>1. waiting[c][j].at # "none"
        BY <3>2, <1>7
      <4>. QED BY <4>1, <1>t DEF WaitsFor
    <3>. QED BY <3>1, <3>2
  <2>4. batch[c].pc = "done" => \A j \in batch[c].chosen : waiting'[c][j].at \in Told \union {"gave up"}
    <3>1. batch[c].pc = "done" => c # b
      BY <1>5
    <3>. QED BY <3>1, <2>2, <1>7, <1>t DEF WaitsFor
  <2>. QED BY <2>1, <2>3, <2>4 DEF WaitsFor
<1>10. \A c \in Batch, j \in Key :
           waiting'[c][j].at \in Told => Row(c, j) # 0 /\ status[Row(c, j)] = waiting'[c][j].at
  <2>. SUFFICES ASSUME NEW c \in Batch, NEW j \in Key, waiting'[c][j].at \in Told
                PROVE  Row(c, j) # 0 /\ status[Row(c, j)] = waiting'[c][j].at
    OBVIOUS
  <2>1. waiting'[c][j].at # "none"
    BY DEF Told
  <2>2. j \in batch[c].chosen /\ batch[c].pc \in {"waiting", "done"}
    BY <2>1, <1>6, <1>9 DEF WaitsFor
  <2>3. Row(c, j) # 0
    BY <2>2, <1>t DEF NotedSoFar
  <2>. QED BY <2>3, <1>3, <1>7, <1>t DEF HeardTrue
<1>. QED BY <1>1, <1>6, <1>7, <1>8, <1>9, <1>10, <1>t, RowsStay DEF BatchTyped, Row

\* The id of a row goes into task_ids: what the batch and its waits are then.
LEMMA NotedIs ==
  ASSUME BatchInv, NEW b \in Batch, batch[b].pc \in {"adding", "looking"}, NEW t \in Task, Noted(b, t)
  PROVE  /\ batch' \in [Batch -> BatchJob] /\ waiting' \in [Batch -> [Key -> WaitingAt]]
         /\ \A c \in Batch : batch'[c].chosen = batch[c].chosen
         /\ \A c \in Batch : c # b => batch'[c] = batch[c] /\ waiting'[c] = waiting[c]
         /\ batch[b].next \in Key /\ batch[b].ids[batch[b].next] = 0
         /\ batch'[b].ids[batch[b].next] = t
         /\ \A i \in Key : i # batch[b].next => batch'[b].ids[i] = batch[b].ids[i]
         /\ NotedSoFar(b)' /\ WaitsFor(b)'
         /\ \A i \in Key : waiting'[b][i].at \in {"none", "row"}
<1>t. BatchTyped /\ NotedFor(b) /\ NotedSoFar(b) /\ WaitsFor(b)
  BY DEF BatchInv
<1>1. batch[b] \in BatchJob /\ batch[b].chosen \in SUBSET Key
  BY <1>t DEF BatchTyped, BatchJob
<1>2. PICK now \in Key : now = batch[b].next
  BY <1>1, <1>t DEF NotedSoFar
<1>3. now \in batch[b].chosen /\ \A i \in batch[b].chosen : Row(b, i) # 0 <=> i < now
  BY <1>2, <1>t DEF NotedSoFar
<1>4. PICK next : next = Following(batch[b].chosen, batch[b].next + 1)
  OBVIOUS
<1>5. /\ next \in batch[b].chosen \union {0}
      /\ next # 0 => next > now /\ \A j \in batch[b].chosen : j > now => next <= j
      /\ next = 0 => \A j \in batch[b].chosen : j <= now
  <2>1. now \in Nat /\ now + 1 \in Nat
    BY ItemsAre
  <2>2. /\ next \in batch[b].chosen \union {0}
        /\ next # 0 => next >= now + 1 /\ \A j \in batch[b].chosen : j >= now + 1 => next <= j
        /\ next = 0 => \A j \in batch[b].chosen : j < now + 1
    BY ZenonT(50), <2>1, <1>1, <1>2, <1>4, FollowingIs
  <2>3. \A j \in batch[b].chosen \union {0} : j \in Nat
    BY <1>1, ItemsAre
  <2>. QED BY <2>1, <2>2, <2>3
<1>6. PICK noted : noted = [batch[b].ids EXCEPT ![now] = t]
  OBVIOUS
<1>7. /\ noted \in [Key -> 0 .. MaxTasks] /\ noted[now] = t
      /\ \A i \in Key : i # now => noted[i] = batch[b].ids[i]
  BY <1>1, <1>6 DEF BatchJob, Task
<1>8. PICK pc \in {"waiting", "asking"} : pc = IF next = 0 THEN "waiting" ELSE "asking"
  OBVIOUS
<1>9. PICK B : B = [batch[b] EXCEPT !.ids = noted, !.next = next, !.pc = pc]
  OBVIOUS
<1>10. B \in BatchJob /\ B.ids = noted /\ B.next = next /\ B.pc = pc /\ B.chosen = batch[b].chosen
  BY <1>1, <1>5, <1>7, <1>9 DEF BatchJob, BatchPc
<1>11. batch' = [batch EXCEPT ![b] = B]
  BY <1>2, <1>4, <1>6, <1>8, <1>9 DEF Noted
<1>12. batch'[b] = B /\ batch' \in [Batch -> BatchJob] /\ \A c \in Batch : c # b => batch'[c] = batch[c]
  BY <1>10, <1>11, <1>t DEF BatchTyped
<1>13. PICK W : W = [i \in Key |-> IF i \in batch[b].chosen THEN Watch("row", FALSE) ELSE Idle]
  OBVIOUS
<1>14. W \in [Key -> WaitingAt]
       /\ \A i \in Key : W[i].at = IF i \in batch[b].chosen THEN "row" ELSE "none"
  BY <1>13 DEF Watch, Idle, WaitingAt
<1>15. waiting' = IF next # 0 THEN waiting ELSE [waiting EXCEPT ![b] = W]
  BY <1>4, <1>13 DEF Noted
<1>16. /\ waiting' \in [Batch -> [Key -> WaitingAt]]
       /\ \A c \in Batch : c # b => waiting'[c] = waiting[c]
       /\ waiting'[b] = IF next # 0 THEN waiting[b] ELSE W
  BY <1>14, <1>15, <1>t DEF BatchTyped
<1>17. \A i \in Key : waiting[b][i].at = "none"
  BY <1>t DEF WaitsFor
<1>18. NotedSoFar(b)'
  <2>1. \A i \in batch[b].chosen : noted[i] # 0 <=> i <= now
    <3>1. \A i \in batch[b].chosen : i \in Nat /\ i \in Key
      BY <1>1, ItemsAre
    <3>2. now \in Nat /\ t # 0
      BY ItemsAre DEF Task
    <3>. QED BY <3>1, <3>2, <1>3, <1>7 DEF Row
  <2>2. CASE next = 0
    <3>1. pc = "waiting" /\ \A i \in batch[b].chosen : noted[i] # 0
      BY <2>1, <2>2, <1>5, <1>8
    <3>. QED BY <3>1, <1>10, <1>12 DEF NotedSoFar, Row
  <2>3. CASE next # 0
    <3>1. \A i \in batch[b].chosen \union {next, now} : i \in Nat
      BY <1>1, <1>5, ItemsAre
    <3>2. \A i \in batch[b].chosen : i <= now <=> i < next
      BY <3>1, <2>3, <1>5
    <3>3. pc = "asking" /\ next \in batch[b].chosen
      BY <2>3, <1>5, <1>8
    <3>. QED BY <2>1, <3>2, <3>3, <1>10, <1>12 DEF NotedSoFar, Row
  <2>. QED BY <2>2, <2>3
<1>19. WaitsFor(b)'
  <2>1. CASE next = 0
    BY <2>1, <1>8, <1>10, <1>12, <1>14, <1>16 DEF WaitsFor
  <2>2. CASE next # 0
    BY <2>2, <1>8, <1>10, <1>12, <1>16, <1>17 DEF WaitsFor
  <2>. QED BY <2>1, <2>2
<1>20. \A i \in Key : waiting'[b][i].at \in {"none", "row"}
  BY <1>14, <1>16, <1>17
<1>21. batch[b].ids[now] = 0
  <2>1. ~ (now < now)
    BY ItemsAre
  <2>. QED BY <2>1, <1>3 DEF Row
<1>22. \A c \in Batch : batch'[c].chosen = batch[c].chosen
  BY <1>10, <1>12
<1>23. batch'[b].ids[now] = t /\ \A i \in Key : i # now => batch'[b].ids[i] = batch[b].ids[i]
  BY <1>7, <1>10, <1>12
<1>. QED BY <1>2, <1>12, <1>16, <1>18, <1>19, <1>20, <1>21, <1>22, <1>23

LEMMA DedupedStep ==
  ASSUME BatchInv, NEW b \in Batch, Deduped(b)
  PROVE  BatchInv'
<1>t. BatchTyped /\ HeardTrue /\ \A c \in Batch : NotedFor(c) /\ NotedSoFar(c) /\ WaitsFor(c)
  BY DEF BatchInv
<1>1. PICK t \in Active : key[t] = batch[b].next /\ Noted(b, t)
  BY DEF Deduped
<1>2. t \in Task /\ status[t] # "absent" /\ batch[b].pc = "looking"
  BY DEF Active, InState, Deduped, InBatch
<1>3. Rows /\ Quiet /\ UNCHANGED lease /\ UNCHANGED status /\ UNCHANGED key
  BY DEF Deduped, Rows
<1>4. PICK now : now = batch[b].next
  OBVIOUS
<1>5. /\ batch' \in [Batch -> BatchJob] /\ waiting' \in [Batch -> [Key -> WaitingAt]]
      /\ \A c \in Batch : batch'[c].chosen = batch[c].chosen
      /\ \A c \in Batch : c # b => batch'[c] = batch[c] /\ waiting'[c] = waiting[c]
      /\ now \in Key /\ batch[b].ids[now] = 0
      /\ batch'[b].ids[now] = t
      /\ \A i \in Key : i # now => batch'[b].ids[i] = batch[b].ids[i]
      /\ NotedSoFar(b)' /\ WaitsFor(b)'
      /\ \A i \in Key : waiting'[b][i].at \in {"none", "row"}
  BY <1>1, <1>2, <1>4, NotedIs
<1>6. \A c \in Batch, i \in Key : Row(c, i) # 0 => batch'[c].ids[i] = Row(c, i)
  BY <1>5 DEF Row
<1>7. NotedFor(b)'
  <2>1. now \in batch[b].chosen /\ \A j \in batch[b].chosen : j < now => Row(b, j) # 0
    BY <1>2, <1>4, <1>t DEF NotedSoFar
  <2>2. batch[b].chosen \subseteq Key
    BY <1>t DEF BatchTyped, BatchJob
  <2>. SUFFICES ASSUME NEW i \in Key, Row(b, i)' # 0
                PROVE  /\ i \in batch[b].chosen /\ status[Row(b, i)'] # "absent" /\ key[Row(b, i)'] = i
                       /\ \A j \in batch[b].chosen : j < i => Row(b, j)' # 0
    BY <1>3, <1>5, <1>t DEF NotedFor, Row
  <2>3. CASE i = now
    BY SMTT(30), <2>1, <2>2, <2>3, <1>1, <1>2, <1>4, <1>5, <1>6 DEF Row
  <2>4. CASE i # now
    <3>1. Row(b, i)' = Row(b, i) /\ Row(b, i) # 0
      BY <2>4, <1>5 DEF Row
    <3>2. \A j \in batch[b].chosen : j < i => Row(b, j) # 0
      BY <3>1, <1>t DEF NotedFor
    <3>3. \A j \in batch[b].chosen : j < i => Row(b, j)' # 0
      BY <2>2, <3>2, <1>6 DEF Row
    <3>. QED BY <3>1, <3>3, <1>t DEF NotedFor
  <2>. QED BY <2>3, <2>4
<1>8. \A c \in Batch : c # b => NotedFor(c)' /\ NotedSoFar(c)' /\ WaitsFor(c)'
  <2>. SUFFICES ASSUME NEW c \in Batch, c # b PROVE NotedFor(c)' /\ NotedSoFar(c)' /\ WaitsFor(c)'
    OBVIOUS
  <2>1. batch'[c] = batch[c] /\ waiting'[c] = waiting[c]
    BY <1>5
  <2>2. NotedFor(c)'
    BY <2>1, <1>3, <1>t DEF NotedFor, Row
  <2>3. NotedSoFar(c)'
    BY <2>1, <1>t DEF NotedSoFar, Row
  <2>4. WaitsFor(c)'
    BY <2>1, <1>t DEF WaitsFor
  <2>. QED BY <2>2, <2>3, <2>4
<1>9. \A c \in Batch, i \in Key :
           waiting'[c][i].at \in Told => Row(c, i) # 0 /\ status[Row(c, i)] = waiting'[c][i].at
  <2>. SUFFICES ASSUME NEW c \in Batch, NEW i \in Key, waiting'[c][i].at \in Told
                PROVE  Row(c, i) # 0 /\ status[Row(c, i)] = waiting'[c][i].at
    OBVIOUS
  <2>1. waiting'[c][i].at \notin {"none", "row"}
    BY DEF Told
  <2>2. c # b /\ waiting'[c] = waiting[c]
    BY <2>1, <1>5
  <2>3. i \in batch[c].chosen /\ batch[c].pc \in {"waiting", "done"}
    BY <2>1, <2>2, <1>t DEF WaitsFor
  <2>. QED BY <2>2, <2>3, <1>t DEF NotedSoFar, HeardTrue
<1>. QED BY <1>3, <1>5, <1>6, <1>7, <1>8, <1>9, <1>t, RowsStay DEF BatchTyped

\* The row that the item before has, if the segment goes on, is a row that is there.
LEMMA DependencyIs ==
  ASSUME BatchInv, NEW t \in Task, status[t] # "absent"
  PROVE  /\ created[t] \in Batch /\ key[t] \in Key
         /\ dep[t] # 0 => /\ Before(t) = key[t] - 1 /\ Before(t) \in Key /\ key[t] \notin breaks
                          /\ dep[t] \in Task /\ status[dep[t]] # "absent" /\ key[dep[t]] = key[t] - 1
         /\ Before(t) # 0 => Before(t) \in Key /\ Row(created[t], Before(t)) # 0
<1>t. BatchTyped /\ Rooted /\ \A c \in Batch : NotedFor(c)
  BY DEF BatchInv
<1>1. created[t] \in Batch /\ key[t] \in Key
  BY <1>t DEF BatchTyped, Rooted, RowsTypeOK
<1>2. Row(created[t], key[t]) = t /\ dep[t] = IF Before(t) = 0 THEN 0 ELSE Row(created[t], Before(t))
  BY <1>t DEF Rooted
<1>3. Before(t) # 0 => /\ Before(t) \in batch[created[t]].chosen /\ Before(t) < key[t]
                       /\ Before(t) = key[t] - 1 /\ key[t] \notin breaks
  BY <1>1, ItemsAre DEF Before, Dependency
<1>4. batch[created[t]].chosen \subseteq Key
  BY <1>1, <1>t DEF BatchTyped, BatchJob
<1>5. Before(t) # 0 => Row(created[t], Before(t)) # 0
  BY <1>1, <1>2, <1>3, <1>t DEF NotedFor, Task
<1>6. \A i \in Key : Row(created[t], i) \in 0 .. MaxTasks
  BY <1>1, <1>t DEF BatchTyped, BatchJob, Row
<1>7. ASSUME dep[t] # 0
      PROVE  /\ Before(t) \in Key /\ dep[t] \in Task
             /\ status[dep[t]] # "absent" /\ key[dep[t]] = Before(t)
  <2>1. Before(t) # 0 /\ dep[t] = Row(created[t], Before(t)) /\ Before(t) \in Key
    BY <1>2, <1>3, <1>4, <1>7
  <2>2. dep[t] \in Task
    BY <2>1, <1>6, <1>7, TableAssumption DEF Task
  <2>. QED BY <2>1, <2>2, <1>1, <1>5, <1>t DEF NotedFor
<1>. QED BY <1>1, <1>2, <1>3, <1>4, <1>5, <1>7

LEMMA InsertedStep ==
  ASSUME BatchInv, NEW b \in Batch, Inserted(b)
  PROVE  BatchInv'
<1>t. /\ BatchTyped /\ Rooted /\ InTurn /\ HeardTrue /\ SegmentsApart /\ UniqueActive
      /\ \A c \in Batch : NotedFor(c) /\ NotedSoFar(c) /\ WaitsFor(c)
  BY DEF BatchInv
<1>1. PICK now : now = batch[b].next
  OBVIOUS
<1>2. PICK d : d = DependencyRow(b)
  OBVIOUS
<1>3. now \in Key /\ now \in batch[b].chosen /\ batch[b].pc = "adding" /\ batch[b].chosen \subseteq Key
  BY <1>1, <1>t DEF Inserted, InBatch, NotedSoFar, BatchTyped, BatchJob
<1>4. /\ d = IF Dependency(batch[b].chosen, now) = 0 THEN 0 ELSE Row(b, Dependency(batch[b].chosen, now))
      /\ Dependency(batch[b].chosen, now) # 0 => Dependency(batch[b].chosen, now) \in Key \ {now}
  BY <1>1, <1>2, <1>3, ItemsAre DEF DependencyRow, Dependency, Row
<1>5. d \in 0 .. MaxTasks
  <2>1. \A i \in Key : Row(b, i) \in 0 .. MaxTasks
    BY <1>t DEF BatchTyped, BatchJob, Row
  <2>. QED BY <2>1, <1>4, TableAssumption
<1>6. Enqueue(now, d) /\ UNCHANGED lease /\ Quiet
  BY <1>1, <1>2 DEF Inserted, Enqueue
<1>7. PICK n \in Task :
        /\ status[n] = "absent" /\ \A t \in Task : status[t] = "absent" => n <= t
        /\ status' = With({n}, "queued")
        /\ \A t \in Task : /\ status'[t] = IF t = n THEN "queued" ELSE status[t]
                           /\ key'[t] = IF t = n THEN now ELSE key[t]
                           /\ dep'[t] = IF t = n THEN d ELSE dep[t]
  BY <1>3, <1>5, <1>6, <1>t, EnqueueAdds DEF BatchTyped
<1>8. RowsTypeOK'
  BY <1>3, <1>5, <1>6, <1>t, EnqueueKeepsRows DEF BatchTyped
<1>9. UniqueActive'
  BY <1>3, <1>5, <1>6, <1>t, UniqueEnqueue DEF BatchTyped
<1>10. created' = [created EXCEPT ![n] = b] /\ Noted(b, n)
  <2>1. PICK t \in InState("absent") : status'[t] = "queued" /\ created' = [created EXCEPT ![t] = b] /\ Noted(b, t)
    BY DEF Inserted
  <2>2. t = n
    BY <2>1, <1>7 DEF InState
  <2>. QED BY <2>1, <2>2
<1>11. created' \in [Task -> Batch \union {None}] /\ \A t \in Task : created'[t] = IF t = n THEN b ELSE created[t]
  BY <1>10, <1>t DEF BatchTyped
<1>12. /\ batch' \in [Batch -> BatchJob] /\ waiting' \in [Batch -> [Key -> WaitingAt]]
       /\ \A c \in Batch : batch'[c].chosen = batch[c].chosen
       /\ \A c \in Batch : c # b => batch'[c] = batch[c] /\ waiting'[c] = waiting[c]
       /\ now \in Key /\ batch[b].ids[now] = 0
       /\ batch'[b].ids[now] = n
       /\ \A i \in Key : i # now => batch'[b].ids[i] = batch[b].ids[i]
       /\ NotedSoFar(b)' /\ WaitsFor(b)'
       /\ \A i \in Key : waiting'[b][i].at \in {"none", "row"}
  BY <1>1, <1>3, <1>10, NotedIs
<1>13. \A c \in Batch, i \in Key : Row(c, i) # 0 => Row(c, i)' = Row(c, i)
  BY <1>12 DEF Row
<1>14. \A t \in Task : status[t] # "absent" =>
         /\ t # n /\ status'[t] = status[t] /\ key'[t] = key[t] /\ dep'[t] = dep[t] /\ created'[t] = created[t]
  BY <1>7, <1>11
<1>15. UNCHANGED breaks /\ UNCHANGED struck
  BY <1>6 DEF Quiet
<1>16. \A c \in Batch, i \in Key : Row(c, i) # 0 => Row(c, i) \in Task /\ status[Row(c, i)] # "absent"
  <2>1. \A c \in Batch, i \in Key : Row(c, i) \in 0 .. MaxTasks
    BY <1>t DEF BatchTyped, BatchJob, Row
  <2>. QED BY <2>1, <1>t, TableAssumption DEF NotedFor, Task
<1>17. BatchTyped'
  <2>1. struck' \subseteq Task \ InState("absent")'
    BY <1>14, <1>15, <1>t DEF BatchTyped, InState
  <2>. QED BY <2>1, <1>6, <1>8, <1>11, <1>12, <1>15, <1>t DEF BatchTyped
<1>18. NotedFor(b)'
  <2>1. \A j \in batch[b].chosen : j < now => Row(b, j) # 0
    BY <1>1, <1>3, <1>t DEF NotedSoFar
  <2>. SUFFICES ASSUME NEW i \in Key, Row(b, i)' # 0
                PROVE  /\ i \in batch[b].chosen /\ status'[Row(b, i)'] # "absent" /\ key'[Row(b, i)'] = i
                       /\ \A j \in batch[b].chosen : j < i => Row(b, j)' # 0
    BY <1>12, <1>t DEF NotedFor, Row
  <2>2. CASE i = now
    <3>1. Row(b, i)' = n
      BY <2>2, <1>12 DEF Row
    <3>2. \A j \in batch[b].chosen : j < i => Row(b, j)' # 0
      BY <2>1, <2>2, <1>3, <1>13
    <3>. QED BY <3>1, <3>2, <2>2, <1>3, <1>7
  <2>3. CASE i # now
    <3>1. Row(b, i)' = Row(b, i) /\ Row(b, i) # 0
      BY <2>3, <1>12 DEF Row
    <3>2. \A j \in batch[b].chosen : j < i => Row(b, j)' # 0
      BY <3>1, <1>3, <1>13, <1>t DEF NotedFor
    <3>3. i \in batch[b].chosen /\ key[Row(b, i)] = i
      BY <3>1, <1>t DEF NotedFor
    <3>. QED BY <3>1, <3>2, <3>3, <1>14, <1>16
  <2>. QED BY <2>2, <2>3
<1>19. \A c \in Batch : c # b => NotedFor(c)' /\ NotedSoFar(c)' /\ WaitsFor(c)'
  <2>. SUFFICES ASSUME NEW c \in Batch, c # b PROVE NotedFor(c)' /\ NotedSoFar(c)' /\ WaitsFor(c)'
    OBVIOUS
  <2>1. batch'[c] = batch[c] /\ waiting'[c] = waiting[c] /\ \A i \in Key : Row(c, i)' = Row(c, i)
    BY <1>12 DEF Row
  <2>2. NotedFor(c)'
    <3>1. \A i \in Key : Row(c, i) # 0 =>
            status'[Row(c, i)] = status[Row(c, i)] /\ key'[Row(c, i)] = key[Row(c, i)]
      BY <1>14, <1>16
    <3>2. batch[c].chosen \subseteq Key
      BY <1>t DEF BatchTyped, BatchJob
    <3>. QED BY <2>1, <3>1, <3>2, <1>t DEF NotedFor
  <2>3. NotedSoFar(c)'
    BY <2>1, <1>t DEF NotedSoFar, Row
  <2>4. WaitsFor(c)'
    BY <2>1, <1>t DEF WaitsFor
  <2>. QED BY <2>2, <2>3, <2>4
<1>20. Rooted'
  <2>. SUFFICES ASSUME NEW t \in Task
                PROVE  /\ status'[t] = "absent" <=> created'[t] = None
                       /\ status'[t] # "absent" =>
                            /\ Row(created[t], key[t])' = t
                            /\ dep'[t] = IF Before(t)' = 0 THEN 0 ELSE Row(created[t], Before(t))'
    BY DEF Rooted, Row
  <2>1. CASE t = n
    <3>1. status'[t] = "queued" /\ created'[t] = b /\ key'[t] = now /\ dep'[t] = d /\ b # None
      BY <2>1, <1>7, <1>11, BatchAssumption
    <3>2. Row(created[t], key[t])' = t
      BY <2>1, <3>1, <1>12 DEF Row
    <3>3. Before(t)' = Dependency(batch[b].chosen, now)
      BY <3>1, <1>12, <1>15 DEF Before, Dependency
    <3>4. Dependency(batch[b].chosen, now) # 0 =>
            batch'[b].ids[Dependency(batch[b].chosen, now)] = batch[b].ids[Dependency(batch[b].chosen, now)]
      BY <1>4, <1>12
    <3>5. d = IF Before(t)' = 0 THEN 0 ELSE batch'[b].ids[Before(t)']
      BY <3>3, <3>4, <1>4 DEF Row
    <3>6. Row(created[t], Before(t))' = batch'[b].ids[Before(t)']
      BY <3>1 DEF Row
    <3>. QED BY <3>1, <3>2, <3>5, <3>6
  <2>2. CASE t # n /\ status[t] # "absent"
    <3>1. created[t] \in Batch /\ key[t] \in Key
          /\ (Before(t) # 0 => Before(t) \in Key /\ Row(created[t], Before(t)) # 0)
      BY <2>2, DependencyIs
    <3>2. Row(created[t], key[t]) = t /\ dep[t] = IF Before(t) = 0 THEN 0 ELSE Row(created[t], Before(t))
      BY <2>2, <1>t DEF Rooted
    <3>3. status'[t] = status[t] /\ key'[t] = key[t] /\ dep'[t] = dep[t] /\ created'[t] = created[t]
      BY <2>2, <1>14
    <3>4. Before(t)' = Before(t)
      BY <3>1, <3>3, <1>12, <1>15 DEF Before, Dependency
    <3>5. batch'[created[t]].ids[key[t]] = t
      BY <3>1, <3>2, <1>13 DEF Row, Task
    <3>6. Before(t) # 0 => batch'[created[t]].ids[Before(t)] = Row(created[t], Before(t))
      BY <3>1, <1>13 DEF Row
    <3>7. Row(created[t], key[t])' = t
      BY <3>3, <3>5 DEF Row
    <3>8. Before(t)' # 0 => Row(created[t], Before(t))' = Row(created[t], Before(t))
      BY <3>3, <3>4, <3>6 DEF Row
    <3>9. created[t] # None
      BY <3>1, BatchAssumption
    <3>. QED BY <3>2, <3>3, <3>4, <3>7, <3>8, <3>9, <2>2
  <2>3. CASE t # n /\ status[t] = "absent"
    BY <2>3, <1>7, <1>11, <1>t DEF Rooted
  <2>. QED BY <2>1, <2>2, <2>3
<1>21. InTurn'
  <2>. SUFFICES ASSUME NEW t \in Task, status'[t] \in {"running", "succeeded"}, dep'[t] # 0
                PROVE  status'[dep'[t]] = "succeeded"
    BY DEF InTurn
  <2>1. t # n /\ status[t] \in {"running", "succeeded"} /\ dep'[t] = dep[t]
    BY <1>7
  <2>2. dep[t] \in Task
    BY <2>1, DependencyIs
  <2>. QED BY <2>1, <2>2, <1>14, <1>t DEF InTurn
<1>22. HeardTrue'
  <2>. SUFFICES ASSUME NEW c \in Batch, NEW i \in Key, waiting'[c][i].at \in Told
                PROVE  status'[Row(c, i)'] = waiting'[c][i].at
    BY DEF HeardTrue
  <2>1. waiting'[c][i].at \notin {"none", "row"}
    BY DEF Told
  <2>2. c # b /\ waiting'[c] = waiting[c] /\ batch'[c] = batch[c]
    BY <2>1, <1>12
  <2>3. i \in batch[c].chosen /\ batch[c].pc \in {"waiting", "done"}
    BY <2>1, <2>2, <1>t DEF WaitsFor
  <2>4. Row(c, i) # 0 /\ Row(c, i)' = Row(c, i) /\ status[Row(c, i)] = waiting[c][i].at
    BY <2>2, <2>3, <1>t DEF NotedSoFar, HeardTrue, Row
  <2>. QED BY <2>2, <2>4, <1>14, <1>16
<1>23. SegmentsApart'
  <2>1. Dead' \ struck' = Dead \ struck /\ Dead \subseteq Task
    BY <1>7, <1>15 DEF Dead, InState
  <2>2. \A t \in Dead \union struck : key'[t] = key[t]
    BY <1>14, <1>t DEF BatchTyped, Dead, InState
  <2>. QED BY <2>1, <2>2, <1>15, <1>t DEF SegmentsApart
<1>. QED BY <1>9, <1>12, <1>17, <1>18, <1>19, <1>20, <1>21, <1>22, <1>23 DEF BatchInv

-------------------------------------------------------------------------------
\* The worker and the user move rows, and leave those that are settled.
LEMMA RowsMove ==
  ASSUME BatchInv, Ours, NEW S, NEW s, Moves(S, s), S \subseteq Active, lease'.fresh \in BOOLEAN,
         struck \subseteq struck', struck' \subseteq Task \ InState("absent"),
         s = "running" => \A t \in S : dep[t] # 0 => status[dep[t]] = "succeeded",
         s = "succeeded" => S \subseteq Running,
         s \in {"failed", "cancelled"} => \A t \in S \ struck' :
           \E u \in struck' : /\ key[u] < key[t]
                              /\ \A i \in Key : key[u] < i /\ i <= key[t] => i \notin breaks
  PROVE  BatchInv'
<1>t. /\ BatchTyped /\ Rooted /\ InTurn /\ HeardTrue /\ SegmentsApart /\ UniqueActive
      /\ \A c \in Batch : NotedFor(c) /\ NotedSoFar(c) /\ WaitsFor(c)
  BY DEF BatchInv
<1>u. /\ UNCHANGED key /\ UNCHANGED dep /\ UNCHANGED created /\ UNCHANGED breaks /\ UNCHANGED batch
      /\ UNCHANGED waiting
  BY DEF Ours
<1>1. \A t \in Task : status'[t] = IF t \in S THEN s ELSE status[t]
  BY DEF Moves, With
<1>2. RowsTypeOK' /\ \A t \in Task : status'[t] # "absent" <=> status[t] # "absent"
  BY <1>t, MovesKeepsRows DEF BatchTyped
<1>3. \A t \in Task : status[t] \in Told => status'[t] = status[t]
  BY <1>1 DEF Active, InState, Told
<1>4. \A c \in Batch, i \in Key : Row(c, i)' = Row(c, i)
  BY <1>u DEF Row
<1>5. \A c \in Batch, i \in Key : Row(c, i) # 0 => Row(c, i) \in Task
  <2>1. \A c \in Batch, i \in Key : Row(c, i) \in 0 .. MaxTasks
    BY <1>t DEF BatchTyped, BatchJob, Row
  <2>. QED BY <2>1, TableAssumption DEF Task
<1>6. BatchTyped'
  <2>1. struck' \subseteq Task \ InState("absent")'
    BY <1>2 DEF InState
  <2>. QED BY <2>1, <1>2, <1>u, <1>t DEF BatchTyped
<1>7. ASSUME NEW c \in Batch PROVE NotedFor(c)' /\ NotedSoFar(c)' /\ WaitsFor(c)'
  <2>1. \A i \in Key : Row(c, i)' = Row(c, i)
    BY <1>4
  <2>2. NotedFor(c) /\ NotedSoFar(c) /\ WaitsFor(c) /\ batch[c].chosen \subseteq Key
    BY <1>t DEF BatchTyped, BatchJob
  <2>3. NotedFor(c)'
    <3>1. \A i \in Key : Row(c, i) # 0 => status'[Row(c, i)] # "absent"
      BY <2>2, <1>2, <1>5 DEF NotedFor
    <3>. QED BY <2>1, <2>2, <3>1, <1>u DEF NotedFor
  <2>4. NotedSoFar(c)'
    BY <2>1, <2>2, <1>u DEF NotedSoFar
  <2>5. WaitsFor(c)'
    BY <2>2, <1>u DEF WaitsFor
  <2>. QED BY <2>3, <2>4, <2>5
<1>8. Rooted'
  <2>. SUFFICES ASSUME NEW t \in Task
                PROVE  /\ status'[t] = "absent" <=> created[t] = None
                       /\ status'[t] # "absent" =>
                            /\ Row(created[t], key[t])' = t
                            /\ dep[t] = IF Before(t)' = 0 THEN 0 ELSE Row(created[t], Before(t))'
    BY <1>u DEF Rooted, Row
  <2>rows. status'[t] # "absent" <=> status[t] # "absent"
    BY <1>2
  <2>noted. Row(created[t], key[t])' = Row(created[t], key[t])
    BY <1>u DEF Row
  <2>before. Before(t)' = Before(t)
    BY <1>u DEF Before, Dependency
  <2>other. Row(created[t], Before(t))' = Row(created[t], Before(t))
    BY <2>before, <1>u DEF Row
  <2>. QED BY <2>rows, <2>noted, <2>before, <2>other, <1>t DEF Rooted
<1>9. InTurn'
  <2>. SUFFICES ASSUME NEW t \in Task, status'[t] \in {"running", "succeeded"}, dep[t] # 0
                PROVE  status'[dep[t]] = "succeeded"
    BY <1>u DEF InTurn
  <2>1. status[dep[t]] = "succeeded"
    <3>1. CASE t \in S
      <4>1. s = "running" \/ s = "succeeded"
        BY <3>1, <1>1
      <4>2. CASE s = "running"
        BY <4>2, <3>1
      <4>3. CASE s = "succeeded"
        <5>1. status[t] = "running"
          BY <4>3, <3>1 DEF Running, InState
        <5>. QED BY <5>1, <1>t DEF InTurn
      <4>. QED BY <4>1, <4>2, <4>3
    <3>2. CASE t \notin S
      BY <3>2, <1>1, <1>t DEF InTurn
    <3>. QED BY <3>1, <3>2
  <2>2. status[t] # "absent"
    BY <1>2
  <2>3. dep[t] \in Task
    BY <2>2, DependencyIs
  <2>. QED BY <2>1, <2>3, <1>3 DEF Told
<1>10. HeardTrue'
  <2>. SUFFICES ASSUME NEW c \in Batch, NEW i \in Key, waiting[c][i].at \in Told
                PROVE  status'[Row(c, i)] = waiting[c][i].at
    BY <1>u, <1>4 DEF HeardTrue
  <2>1. waiting[c][i].at # "none"
    BY DEF Told
  <2>2. Row(c, i) # 0
    BY <2>1, <1>t DEF WaitsFor, NotedSoFar
  <2>3. status[Row(c, i)] = waiting[c][i].at
    BY <1>t DEF HeardTrue
  <2>. QED BY <2>2, <2>3, <1>3, <1>5
<1>11. SegmentsApart'
  <2>. SUFFICES ASSUME NEW t \in Dead' \ struck'
                PROVE  \E u \in struck' :
                         /\ key[u] < key[t]
                         /\ \A i \in Key : key[u] < i /\ i <= key[t] => i \notin breaks
    BY <1>u DEF SegmentsApart
  <2>1. t \in Task /\ status'[t] \in {"failed", "cancelled"}
    BY DEF Dead, InState
  <2>2. CASE t \in S
    BY <2>1, <2>2, <1>1
  <2>3. CASE t \notin S
    <3>1. t \in Dead \ struck
      BY <2>1, <2>3, <1>1 DEF Dead, InState
    <3>. QED BY <3>1, <1>t DEF SegmentsApart
  <2>. QED BY <2>2, <2>3
<1>12. UniqueActive'
  BY <1>t, UniqueMoves DEF BatchTyped
<1>. QED BY <1>6, <1>7, <1>8, <1>9, <1>10, <1>11, <1>12 DEF BatchInv

\* Whoever depends on a row, directly or not, comes after it in its segment.
LEMMA DependentsFollow ==
  ASSUME BatchInv, NEW t \in Task, status[t] # "absent", NEW e \in Dependents(t)
  PROVE  /\ key[t] < key[e]
         /\ \A i \in Key : key[t] < i /\ i <= key[e] => i \notin breaks
<1>. DEFINE Along(d) == /\ key[t] < key[d]
                        /\ \A i \in Key : key[t] < i /\ i <= key[d] => i \notin breaks
            After == {d \in Queued : Along(d)}
<1>1. key[t] \in Key
  BY DependencyIs
<1>2. ASSUME NEW d \in Queued, dep[d] \in After \cup {t} PROVE d \in After
  <2>1. d \in Task /\ status[d] # "absent"
    BY DEF Queued, InState
  <2>2. dep[d] \in Task
    BY <1>2 DEF Queued, InState
  <2>3. dep[d] # 0
    BY <2>2 DEF Task
  <2>4. key[d] \in Key /\ key[d] \notin breaks /\ key[dep[d]] = key[d] - 1 /\ key[dep[d]] \in Key
    BY <2>1, <2>3, DependencyIs
  <2>5. \A i \in Key \union {key[t], key[d], key[dep[d]]} : i \in Int
    BY <1>1, <2>4, ItemsAre
  <2>6. key[t] <= key[dep[d]]
        /\ \A i \in Key : key[t] < i /\ i <= key[dep[d]] => i \notin breaks
    <3>1. CASE dep[d] = t
      BY <3>1, <2>5
    <3>2. CASE dep[d] \in After
      BY <3>2, <2>5
    <3>. QED BY <3>1, <3>2, <1>2
  <2>7. key[t] < key[d]
    <3>1. key[t] \in Int /\ key[d] \in Int /\ key[dep[d]] \in Int
      BY <2>5
    <3>. QED BY <3>1, <2>4, <2>6
  <2>8. ASSUME NEW i \in Key, key[t] < i, i <= key[d] PROVE i \notin breaks
    <3>1. i = key[d] \/ i <= key[dep[d]]
      BY <2>8, <2>4, <2>5
    <3>. QED BY <2>8, <3>1, <2>4, <2>6
  <2>. QED BY <2>7, <2>8
<1>3. Closed(After, t)
  BY <1>2 DEF Closed
<1>4. After \in SUBSET Queued
  OBVIOUS
<1>5. e \in After
  <2>. HIDE DEF After
  <2>. QED BY <1>3, <1>4 DEF Dependents
<1>. QED BY <1>5

\* Claiming takes a row whose dependency has succeeded.
LEMMA ClaimStep ==
  ASSUME BatchInv, WorkerClaims
  PROVE  BatchInv'
<1>t. BatchTyped
  BY DEF BatchInv
<1>1. PICK t \in Oldest(Claimable("image")) : TakeRow(t)
  BY DEF WorkerClaims
<1>2. t \in Queued /\ (dep[t] # 0 => status[dep[t]] = "succeeded")
  BY DEF Oldest, Claimable
<1>3. Moves({t}, "running") /\ {t} \subseteq Active
  <2>1. t \in Task \ InState("absent") /\ t \in Active
    BY <1>2 DEF Queued, Active, InState
  <2>2. UNCHANGED << key, dep >>
    BY DEF WorkerClaims, Ours
  <2>. QED BY <1>1, <2>1, <2>2 DEF Moves, TakeRow, Status
<1>4. Ours /\ UNCHANGED struck /\ UNCHANGED lease
  BY DEF WorkerClaims
<1>5. lease'.fresh \in BOOLEAN /\ struck' \subseteq Task \ InState("absent")
  BY <1>4, <1>t DEF BatchTyped
<1>6. \A u \in {t} : dep[u] # 0 => status[dep[u]] = "succeeded"
  BY <1>2
<1>. QED BY <1>3, <1>4, <1>5, <1>6, RowsMove

LEMMA SucceedStep ==
  ASSUME BatchInv, NEW t \in Task, WorkerSucceeds(t)
  PROVE  BatchInv'
<1>t. BatchTyped
  BY DEF BatchInv
<1>1. Moves({t}, "succeeded") /\ {t} \subseteq Running /\ {t} \subseteq Active
  <2>1. t \in Task \ InState("absent") /\ t \in Active /\ t \in Running
    BY DEF WorkerSucceeds, Running, Active, InState
  <2>2. UNCHANGED << key, dep >> /\ SucceedRow(t)
    BY DEF WorkerSucceeds, Ours
  <2>. QED BY <2>1, <2>2 DEF Moves, SucceedRow, Status
<1>2. Ours /\ UNCHANGED struck /\ UNCHANGED lease
  BY DEF WorkerSucceeds
<1>3. lease'.fresh \in BOOLEAN /\ struck' \subseteq Task \ InState("absent")
  BY <1>2, <1>t DEF BatchTyped
<1>. QED BY <1>1, <1>2, <1>3, RowsMove

\* A failed or cancelled row takes those after it along.
LEMMA DeathStep ==
  ASSUME BatchInv, NEW t \in Task, WorkerFails(t) \/ UserCancels(t)
  PROVE  BatchInv'
<1>t. BatchTyped
  BY DEF BatchInv
<1>1. t \in Active /\ t \in Task \ InState("absent") /\ status[t] # "absent"
  BY DEF WorkerFails, UserCancels, Running, Queued, Active, InState
<1>2. Ours /\ UNCHANGED lease /\ struck' = struck \union {t} /\ UNCHANGED << key, dep >>
  BY DEF WorkerFails, UserCancels, Ours
<1>3. PICK s \in {"failed", "cancelled"} : status' = With({t} \cup Dependents(t), s)
  BY DEF WorkerFails, UserCancels, FailRow, CancelRow
<1>4. Dependents(t) \subseteq Queued /\ Queued \subseteq Task \ InState("absent") /\ Queued \subseteq Active
  BY DependentsQueued DEF Queued, Active, InState
<1>5. \A d \in Queued : dep[d] \in Dependents(t) \cup {t} => d \in Dependents(t)
  BY DependentsClosed DEF Closed
<1>6. Moves({t} \cup Dependents(t), s)
  BY <1>1, <1>2, <1>3, <1>4, <1>5 DEF Moves, Status
<1>7. \A e \in ({t} \cup Dependents(t)) \ struck' :
        \E u \in struck' : /\ key[u] < key[e]
                           /\ \A i \in Key : key[u] < i /\ i <= key[e] => i \notin breaks
  BY <1>1, <1>2, DependentsFollow
<1>8. lease'.fresh \in BOOLEAN /\ struck' \subseteq Task \ InState("absent") /\ struck \subseteq struck'
  BY <1>1, <1>2, <1>t DEF BatchTyped
<1>9. {t} \cup Dependents(t) \subseteq Active
  BY <1>1, <1>4
<1>. QED BY <1>2, <1>3, <1>6, <1>7, <1>8, <1>9, RowsMove

\* The worker that comes back queues its rows again.
LEMMA ArriveStep ==
  ASSUME BatchInv, WorkerArrives
  PROVE  BatchInv'
<1>t. BatchTyped
  BY DEF BatchInv
<1>1. Moves(Running, "queued") /\ Running \subseteq Active
  <2>1. Running \subseteq Task \ InState("absent") /\ Running \subseteq Active
    BY DEF Running, Active, InState
  <2>2. UNCHANGED << key, dep >> /\ RequeueRows(Running)
    BY DEF WorkerArrives, Ours
  <2>3. Running \cap Running = Running
    OBVIOUS
  <2>4. status' = With(Running, "queued")
    BY <2>2, <2>3 DEF RequeueRows
  <2>. QED BY <2>1, <2>2, <2>4 DEF Moves, Status
<1>2. Ours /\ UNCHANGED struck /\ lease'.fresh \in BOOLEAN
  BY DEF WorkerArrives, AcquireLease
<1>3. struck' \subseteq Task \ InState("absent")
  BY <1>2, <1>t DEF BatchTyped
<1>. QED BY <1>1, <1>2, <1>3, RowsMove

\* The lease runs out: no row moves.
LEMMA VanishStep ==
  ASSUME BatchInv, WorkerVanishes
  PROVE  BatchInv'
<1>t. BatchTyped
  BY DEF BatchInv
<1>1. Ours /\ UNCHANGED struck /\ UNCHANGED << key, dep >> /\ UNCHANGED status /\ lease'.fresh \in BOOLEAN
  BY DEF WorkerVanishes, LeaseExpires, Ours
<1>2. status \in [Task -> Status]
  BY <1>t DEF BatchTyped, RowsTypeOK
<1>3. status = With({}, "failed")
  BY <1>2 DEF With
<1>4. Moves({}, "failed")
  <2>1. 0 \notin Queued
    BY DEF Queued, InState, Task
  <2>. QED BY <1>1, <1>3 DEF Moves, Status
<1>5. struck' \subseteq Task \ InState("absent")
  BY <1>1, <1>t DEF BatchTyped
<1>. QED BY <1>1, <1>4, <1>5, RowsMove

LEMMA BatchStep == BatchInv /\ [BatchNext]_batching => BatchInv'
<1>. SUFFICES ASSUME BatchInv, [BatchNext]_batching PROVE BatchInv'
  OBVIOUS
<1>t. BatchTyped
  BY DEF BatchInv
<1>1. ASSUME NEW b \in Batch,
             BeginBatch(b) \/ AskOnline(b) \/ Inserted(b) \/ Refused(b) \/ Deduped(b) \/ DedupeFails(b)
             \/ FinishBatch(b)
      PROVE  BatchInv'
  BY <1>1, BatchSteps, InsertedStep, DedupedStep
<1>2. ASSUME NEW b \in Batch, NEW i \in Key, Poll(b, i) \/ PollTimesOut(b, i) \/ PollOnline(b, i)
      PROVE  BatchInv'
  BY <1>2, PollSteps
<1>3. ASSUME NEW t \in Task, WorkerSucceeds(t) \/ WorkerFails(t) \/ UserCancels(t)
      PROVE  BatchInv'
  BY <1>3, SucceedStep, DeathStep
<1>4. CASE WorkerClaims \/ WorkerArrives \/ WorkerVanishes
  BY <1>4, ClaimStep, ArriveStep, VanishStep
<1>5. CASE UNCHANGED batching
  <2>1. /\ UNCHANGED status /\ UNCHANGED key /\ UNCHANGED dep /\ UNCHANGED created /\ UNCHANGED breaks
        /\ UNCHANGED batch /\ UNCHANGED waiting /\ UNCHANGED struck /\ UNCHANGED lease
    BY <1>5 DEF batching
  <2>2. Ours /\ lease'.fresh \in BOOLEAN
    BY <2>1, <1>t DEF Ours, BatchTyped
  <2>3. status = With({}, "failed")
    BY <1>t DEF BatchTyped, RowsTypeOK, With
  <2>4. Moves({}, "failed")
    BY <2>1, <2>3 DEF Moves, Status, Queued, InState, Task
  <2>5. struck' \subseteq Task \ InState("absent")
    BY <2>1, <1>t DEF BatchTyped
  <2>. QED BY <2>1, <2>2, <2>4, <2>5, RowsMove
<1>. QED BY <1>1, <1>2, <1>3, <1>4, <1>5 DEF BatchNext

LEMMA BatchesHonest == BatchInv => BatchHonest
<1>. SUFFICES ASSUME BatchInv PROVE BatchHonest
  OBVIOUS
<1>t. /\ BatchTyped /\ Rooted /\ InTurn /\ HeardTrue /\ SegmentsApart /\ UniqueActive
      /\ \A c \in Batch : NotedFor(c) /\ NotedSoFar(c) /\ WaitsFor(c)
  BY DEF BatchInv
<1>r. \A c \in Batch, i \in Key : Row(c, i) # 0 =>
        Row(c, i) \in Task /\ status[Row(c, i)] # "absent" /\ key[Row(c, i)] = i /\ i \in batch[c].chosen
  <2>1. \A c \in Batch, i \in Key : Row(c, i) \in 0 .. MaxTasks
    BY <1>t DEF BatchTyped, BatchJob, Row
  <2>. QED BY <2>1, <1>t, TableAssumption DEF NotedFor, Task
<1>1. ToldTrue
  <2>. SUFFICES ASSUME NEW b \in Batch, NEW i \in Key, InBatch(b, "done"), i \in batch[b].chosen,
                       Row(b, i) \in Active
                PROVE  waiting[b][i].at = "gave up"
    BY <1>t DEF ToldTrue, HeardTrue
  <2>1. waiting[b][i].at \in Told \/ waiting[b][i].at = "gave up"
    BY <1>t DEF WaitsFor, InBatch
  <2>2. status[Row(b, i)] \notin Told
    BY DEF Active, InState, Told
  <2>3. waiting[b][i].at \in Told => status[Row(b, i)] = waiting[b][i].at
    BY <1>t DEF HeardTrue
  <2>. QED BY <2>1, <2>2, <2>3
<1>2. AfterPrevious
  <2>. SUFFICES ASSUME NEW b \in Batch, NEW i \in Key, NEW t, t = Row(b, i), NEW d,
                       d = Dependency(batch[b].chosen, i), t # 0, d # 0, created[t] = b,
                       status[t] \in {"running", "succeeded"}
                PROVE  status[Row(b, d)] = "succeeded"
    BY DEF AfterPrevious
  <2>1. t \in Task /\ status[t] # "absent" /\ key[t] = i
    BY <1>r
  <2>2. Before(t) = d
    BY <2>1 DEF Before
  <2>3. dep[t] = Row(b, d) /\ Row(b, d) # 0
    BY <2>1, <2>2, <1>t, DependencyIs DEF Rooted
  <2>. QED BY <2>1, <2>3, <1>t DEF InTurn
<1>3. RetryShares
  BY <1>r, <1>t DEF RetryShares, UniqueActive
<1>. QED BY <1>1, <1>2, <1>3, <1>t DEF BatchHonest

\* However many batches of however many items overlap, retry, are refused or give up, and
\* however often the worker goes and comes back: a batch is told what became of its rows, a
\* picture comes after the one before it, a failure stays in its segment and a retry shares
\* the rows that are there (generation_queue_client.py:191-448, storyboard_sequence.py:57-102).
THEOREM BatchesStayHonest == BatchSpec => []BatchHonest
<1>1. BatchSpec => []BatchInv
  BY InitBatch, BatchStep, PTL DEF BatchSpec
<1>. QED BY <1>1, BatchesHonest, PTL
==================================================================================
