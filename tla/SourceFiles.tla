-------------------------------- MODULE SourceFiles --------------------------------
(***************************************************************************)
(* The source texts of a project and the originals beside them: uploads    *)
(* that are turned into UTF-8 text (lib/source_loader/loader.py), the      *)
(* requests that edit and delete texts (server/routers/files.py) and the   *)
(* conversion of old texts when the server starts (migration.py).          *)
(*                                                                         *)
(* Each request works in a thread and none takes a lock.  A file is opened *)
(* for writing, which empties it, and then written.  A content is a        *)
(* number, and below 0 while it is not all there; an edited text keeps the *)
(* number of what was edited.  "docx" stands for the formats that are no   *)
(* text.                                                                   *)
(***************************************************************************)
EXTENDS Integers, FiniteSets

CONSTANTS
  SourceRequest, \* each is made once
  Base,          \* stems of the names of files that are uploaded
  MaxSuffix,     \* how far a stem is renamed: 0 is the stem itself
  MaxTrouble     \* exceptions and ends of the server (bounds the model)

ASSUME SourceAssumption == IsFiniteSet(Base) /\ MaxSuffix \in Nat \ {0} /\ MaxTrouble \in Nat

VARIABLES
  texts,     \* source/: the text of each stem
  raw,       \* source/raw/: the originals of each stem
  legacy,    \* stems whose text is in another encoding
  boot,      \* the conversion at the start
  serving,   \* the requests
  contents,  \* contents so far
  lossy,     \* contents of which the text is not all
  overrun,   \* stems whose text an upload wrote over unasked
  mixed,     \* stems on which requests overlapped, failed or ended half way
  trouble

sourcing == << texts, raw, legacy, boot, serving, contents, lossy, overrun, mixed, trouble >>

Stem == Base \X (0 .. MaxSuffix)
Ext == {"docx", "txt"}
NoOriginal == [e \in Ext |-> 0]
NoJob == [pc |-> "away", op |-> "none", stem |-> << >>, ext |-> "txt", keeps |-> FALSE, content |-> 0]
NotAt == << >>

\* A stem as users name it may have a text of its own from before, in UTF-8 or not.
SourceInit ==
  /\ contents = Cardinality(Base)
  /\ texts \in [Stem -> 0 .. contents]
  /\ \A s \in Stem : s[2] # 0 => texts[s] = 0
  /\ \A s, t \in Stem : texts[s] = texts[t] /\ texts[s] # 0 => s = t
  /\ raw = [s \in Stem |-> NoOriginal]
  /\ legacy \in SUBSET {s \in Stem : texts[s] # 0}
  /\ boot = [pc |-> "look", stem |-> NotAt]
  /\ serving = [r \in SourceRequest |-> NoJob]
  /\ lossy = {} /\ overrun = {} /\ mixed = {} /\ trouble = 0

InJob(r, pc) == serving[r].pc = pc
Serves(r, pc) == [serving EXCEPT ![r].pc = pc]
Working(r) == serving[r].pc \notin {"away", "done"}
Overlap(s) == IF \E q \in SourceRequest : Working(q) /\ serving[q].stem = s THEN {s} ELSE {}
Booted == boot.pc = "open"
Trouble == trouble < MaxTrouble /\ trouble' = trouble + 1

-----------------------------------------------------------------------------
(* Uploads *)

\* detect_conflict.
Conflict(s, ext) == texts[s] # 0 \/ raw[s][ext] # 0

\* The first suffix under which neither text nor original is there.
Suggested(s, ext) ==
  LET free == {n \in 1 .. MaxSuffix : ~Conflict(<< s[1], n >>, ext)}
  IN {<< s[1], n >> : n \in {m \in free : \A k \in free : m <= k}}

\* Where an upload of the stem s goes, by what is to be done about a conflict.
Targets(s, ext, policy) ==
  CASE policy = "rename" -> IF Conflict(s, ext) THEN Suggested(s, ext) ELSE {s}
    [] policy = "replace" -> {s}
    [] policy = "fail" -> IF Conflict(s, ext) THEN {} ELSE {s}

UploadJob(target, ext, keeps, policy) ==
  [pc |-> IF policy = "replace" /\ Conflict(target, ext) THEN "purge" ELSE "open",
   op |-> IF policy = "replace" THEN "replace" ELSE "upload",
   stem |-> target, ext |-> ext, keeps |-> keeps, content |-> contents + 1]

\* What cannot be read ends here.
BeginUpload(r) ==
  /\ Booted /\ InJob(r, "away")
  /\ \E b \in Base, ext \in Ext, keeps \in BOOLEAN, policy \in {"fail", "replace", "rename"} :
       /\ ext = "docx" => keeps
       /\ \E target \in Targets(<< b, 0 >>, ext, policy) :
            /\ serving' = [serving EXCEPT ![r] = UploadJob(target, ext, keeps, policy)]
            /\ mixed' = mixed \union Overlap(target)
       /\ lossy' = IF keeps THEN lossy \union {contents + 1} ELSE lossy
  /\ contents' = contents + 1
  /\ UNCHANGED << texts, raw, legacy, boot, overrun, trouble >>

\* Mutant: the originals of what is replaced stay.
Stripped_None(s) == raw

Stripped(s) == [raw EXCEPT ![s] = NoOriginal]

\* _purge_stale_raw.
PurgeOriginals(r) ==
  /\ InJob(r, "purge")
  /\ raw' = Stripped(serving[r].stem)
  /\ serving' = Serves(r, "open")
  /\ UNCHANGED << texts, legacy, boot, contents, lossy, overrun, mixed, trouble >>

\* write_text: of an upload, or of an edit.
OpenText(r) ==
  LET s == serving[r].stem IN
  /\ InJob(r, "open")
  /\ texts' = [texts EXCEPT ![s] = -serving[r].content]
  /\ overrun' = IF serving[r].op = "upload" /\ texts[s] # 0 THEN overrun \union {s} ELSE overrun
  /\ legacy' = legacy \ {s}
  /\ serving' = Serves(r, "text")
  /\ UNCHANGED << raw, boot, contents, lossy, mixed, trouble >>

WriteText(r) ==
  /\ InJob(r, "text")
  /\ texts' = [texts EXCEPT ![serving[r].stem] = serving[r].content]
  /\ serving' = Serves(r, IF serving[r].op # "edit" /\ serving[r].keeps THEN "backup" ELSE "done")
  /\ UNCHANGED << raw, legacy, boot, contents, lossy, overrun, mixed, trouble >>

\* _maybe_backup_raw: the copy is begun, and ended.
OpenOriginal(r) ==
  /\ InJob(r, "backup")
  /\ raw' = [raw EXCEPT ![serving[r].stem][serving[r].ext] = -serving[r].content]
  /\ serving' = Serves(r, "original")
  /\ UNCHANGED << texts, legacy, boot, contents, lossy, overrun, mixed, trouble >>

CopyOriginal(r) ==
  /\ InJob(r, "original")
  /\ raw' = [raw EXCEPT ![serving[r].stem][serving[r].ext] = serving[r].content]
  /\ serving' = Serves(r, "done")
  /\ UNCHANGED << texts, legacy, boot, contents, lossy, overrun, mixed, trouble >>

\* The text is taken back, the half of an original is not.
BackupRaises(r) ==
  /\ serving[r].pc \in {"backup", "original"} /\ Trouble
  /\ texts' = [texts EXCEPT ![serving[r].stem] = 0]
  /\ mixed' = mixed \union {serving[r].stem}
  /\ serving' = Serves(r, "done")
  /\ UNCHANGED << raw, legacy, boot, contents, lossy, overrun >>

\* Before that nothing is taken back.
RequestRaises(r) ==
  /\ serving[r].pc \in {"purge", "open", "text", "originals"} /\ Trouble
  /\ mixed' = mixed \union {serving[r].stem}
  /\ serving' = Serves(r, "done")
  /\ UNCHANGED << texts, raw, legacy, boot, contents, lossy, overrun >>

-----------------------------------------------------------------------------
(* Edits and deletions *)

\* update_source_file, which also makes a text.
BeginEdit(r) ==
  /\ Booted /\ InJob(r, "away")
  /\ \E s \in Stem :
       /\ serving' = [serving EXCEPT ![r] = [NoJob EXCEPT !.pc = "open", !.op = "edit", !.stem = s,
            !.content = IF texts[s] = 0 THEN contents + 1 ELSE IF texts[s] < 0 THEN -texts[s] ELSE texts[s]]]
       /\ contents' = IF texts[s] = 0 THEN contents + 1 ELSE contents
       /\ mixed' = mixed \union Overlap(s)
  /\ UNCHANGED << texts, raw, legacy, boot, lossy, overrun, trouble >>

DeleteText(r) ==
  /\ Booted /\ InJob(r, "away")
  /\ \E s \in Stem :
       /\ texts[s] # 0
       /\ texts' = [texts EXCEPT ![s] = 0] /\ legacy' = legacy \ {s}
       /\ serving' = [serving EXCEPT ![r] = [NoJob EXCEPT !.pc = "originals", !.op = "delete", !.stem = s]]
       /\ mixed' = mixed \union Overlap(s)
  /\ UNCHANGED << raw, boot, contents, lossy, overrun, trouble >>

DeleteOriginals(r) ==
  /\ InJob(r, "originals")
  /\ raw' = [raw EXCEPT ![serving[r].stem] = NoOriginal]
  /\ serving' = Serves(r, "done")
  /\ UNCHANGED << texts, legacy, boot, contents, lossy, overrun, mixed, trouble >>

-----------------------------------------------------------------------------
(* The conversion at the start *)

BootAt(pc) == boot.pc = pc
Boot(pc, s) == boot' = [pc |-> pc, stem |-> s]
Requests == UNCHANGED << serving, contents, overrun >>

\* The next text that is not UTF-8; an original of its name is taken for a backup of it.
ConvertNext ==
  /\ BootAt("look")
  /\ \E s \in legacy :
       IF raw[s]["txt"] = 0
       THEN Boot("copy", s) /\ raw' = [raw EXCEPT ![s]["txt"] = -texts[s]]
       ELSE Boot("text", s) /\ UNCHANGED raw
  /\ Requests /\ UNCHANGED << texts, legacy, lossy, mixed, trouble >>

BackUp ==
  /\ BootAt("copy")
  /\ raw' = [raw EXCEPT ![boot.stem]["txt"] = texts[boot.stem]]
  /\ Boot("text", boot.stem)
  /\ Requests /\ UNCHANGED << texts, legacy, lossy, mixed, trouble >>

\* Emptied, it passes for UTF-8.
EmptyText ==
  /\ BootAt("text")
  /\ texts' = [texts EXCEPT ![boot.stem] = -texts[boot.stem]]
  /\ legacy' = legacy \ {boot.stem}
  /\ Boot("convert", boot.stem)
  /\ Requests /\ UNCHANGED << raw, lossy, mixed, trouble >>

Convert ==
  /\ BootAt("convert")
  /\ texts' = [texts EXCEPT ![boot.stem] = -texts[boot.stem]]
  /\ lossy' = lossy \union {-texts[boot.stem]}
  /\ Boot("look", NotAt)
  /\ Requests /\ UNCHANGED << raw, legacy, mixed, trouble >>

\* A text of no known encoding stays; the mark is set all the same.
EndConversion ==
  /\ BootAt("look")
  /\ Boot("open", NotAt)
  /\ Requests /\ UNCHANGED << texts, raw, legacy, lossy, mixed, trouble >>

\* The mark is set too, and the rest is never converted.
ConversionRaises ==
  /\ boot.pc \in {"copy", "text", "convert"} /\ Trouble
  /\ Boot("open", NotAt)
  /\ mixed' = mixed \union {boot.stem}
  /\ Requests /\ UNCHANGED << texts, raw, legacy, lossy >>

\* Without the mark the conversion begins again.
ServerStops ==
  /\ Trouble
  /\ mixed' = mixed \union {serving[r].stem : r \in {q \in SourceRequest : Working(q)}}
                    \union (IF boot.stem = NotAt THEN {} ELSE {boot.stem})
  /\ serving' = [r \in SourceRequest |-> IF Working(r) THEN [serving[r] EXCEPT !.pc = "done"] ELSE serving[r]]
  /\ boot' = IF Booted THEN boot ELSE [pc |-> "look", stem |-> NotAt]
  /\ UNCHANGED << texts, raw, legacy, contents, lossy, overrun >>

-----------------------------------------------------------------------------

SourceNext ==
  \/ \E r \in SourceRequest :
       \/ BeginUpload(r) \/ PurgeOriginals(r) \/ OpenText(r) \/ WriteText(r) \/ OpenOriginal(r)
       \/ CopyOriginal(r) \/ BackupRaises(r) \/ RequestRaises(r)
       \/ BeginEdit(r) \/ DeleteText(r) \/ DeleteOriginals(r)
  \/ ConvertNext \/ BackUp \/ EmptyText \/ Convert \/ EndConversion \/ ConversionRaises
  \/ ServerStops

SourceSpec == SourceInit /\ [][SourceNext]_sourcing

-----------------------------------------------------------------------------
(* Properties *)

\* list_project_files: the last of the originals by name.
Listed(s) == IF raw[s]["txt"] # 0 THEN raw[s]["txt"] ELSE raw[s]["docx"]

\* Between requests, the original that is listed with a text is the one the text was made
\* from, and there is one where the text is not all of it: unless requests overlapped on
\* the stem, one failed on it, or the server ended.
OriginalFits ==
  \A s \in Stem :
    (Booted /\ texts[s] > 0 /\ s \notin mixed /\ \A r \in SourceRequest : ~(Working(r) /\ serving[r].stem = s))
      => Listed(s) = IF texts[s] \in lossy THEN texts[s] ELSE 0

\* An upload that was not to replace anything writes over a text only if it came between.
AskedToReplace == overrun \subseteq mixed

\* Whatever the order of uploads, edits and deletions.
SourcesHonest == OriginalFits /\ AskedToReplace

===================================================================================
