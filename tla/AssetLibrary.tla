------------------------------- MODULE AssetLibrary -------------------------------
(***************************************************************************)
(* The global library of assets (server/routers/assets.py, asset_repo.py): *)
(* a table, a folder of pictures beside it, and the requests that take an  *)
(* asset from a project and put assets into a project.                     *)
(*                                                                         *)
(* A transaction is one step; what comes before it in the same request was *)
(* read in another.  A picture is saved under a name of its own, here a    *)
(* number.  All assets are of one type.  A request may end at any await,   *)
(* with the server.                                                        *)
(***************************************************************************)
EXTENDS Integers, FiniteSets, Sequences

CONSTANTS
  AssetRequest, \* each is made once
  Name,        \* names that users give
  Shelves,     \* the tables there may be at the start, ids and pictures numbered from 1
  MaxPictures, \* pictures that are saved (bounds the model)
  MaxMishaps   \* exceptions and ends of the server (bounds the model)

\* The index admits one asset of a name, and every picture is saved under a name of its own.
ASSUME LibraryAssumption ==
  /\ MaxPictures \in Nat /\ MaxMishaps \in Nat /\ IsFiniteSet(Name)
  /\ \A shelf \in Shelves :
       /\ shelf \in Seq([name : Name, picture : Nat])
       /\ \E k \in 0 .. Len(shelf) : {shelf[id].picture : id \in DOMAIN shelf} \ {0} = 1 .. k
       /\ \A i, j \in DOMAIN shelf : i # j =>
            /\ shelf[i].name # shelf[j].name
            /\ shelf[i].picture # shelf[j].picture \/ shelf[i].picture = 0

VARIABLES
  rows,      \* assets: name and picture, 0 for none, by id
  library,   \* _global_assets/: the pictures that are there
  entries,   \* the bucket of the project: the picture each entry was given
  sheets,    \* the files of the bucket: what each shows
  handling,  \* the requests
  pictures,  \* pictures saved so far
  ids,       \* assets created so far
  orphaned,  \* pictures nobody will remove
  botched,   \* pictures removed although their row stayed
  contested, \* entries that overlapping or failing requests wrote
  mishaps

shelving == << rows, library, entries, sheets, handling, pictures, ids, orphaned, botched, contested, mishaps >>

NotAskedFor == [op |-> "none", pc |-> "away", id |-> 0, name |-> "", old |-> 0, new |-> 0,
                policy |-> "skip", seen |-> {}, plan |-> << >>, copied |-> 0]

\* An entry has one of the names that users give, with (2), (3) or none.
Plain(n) == << n, 1 >>

LibraryInit ==
  /\ rows \in Shelves
  /\ library = {rows[id].picture : id \in DOMAIN rows} \ {0}
  /\ pictures = Cardinality(library) /\ ids = Cardinality(DOMAIN rows)
  /\ \E given \in SUBSET {Plain(n) : n \in Name} : entries = [e \in given |-> 0]
  /\ sheets = << >>
  /\ handling = [r \in AssetRequest |-> NotAskedFor]
  /\ orphaned = {} /\ botched = {} /\ contested = {} /\ mishaps = 0

Put(f, x, y) == [k \in DOMAIN f \union {x} |-> IF k = x THEN y ELSE f[k]]
ById(id) == rows[id]
Named(n) == {id \in DOMAIN rows : rows[id].name = n}
In(r, op, pc) == handling[r].op = op /\ handling[r].pc = pc
Begun(r, op, pc, id, name, old) ==
  handling' = [handling EXCEPT ![r].op = op, ![r].pc = pc, ![r].id = id, ![r].name = name, ![r].old = old]
Turn(r, pc) == handling' = [handling EXCEPT ![r].pc = pc]
Project == UNCHANGED << entries, sheets, contested >>

-----------------------------------------------------------------------------
(* Pictures come before their rows *)

Saved == pictures + 1

\* create_asset, with a picture or without.
CreateAsset(r) ==
  /\ handling[r].pc = "away"
  /\ \E n \in Name : Begun(r, "create", "save", 0, n, 0) \/ Begun(r, "create", "write", 0, n, 0)
  /\ Project /\ UNCHANGED << rows, library, pictures, ids, orphaned, botched, mishaps >>

\* replace_image: the picture that the row has now is the old one.
ReplaceImage(r) ==
  /\ handling[r].pc = "away"
  /\ \E id \in DOMAIN rows : Begun(r, "replace", "save", id, "", ById(id).picture)
  /\ Project /\ UNCHANGED << rows, library, pictures, ids, orphaned, botched, mishaps >>

\* from_project: get_by_type_name.  A taken name is refused, or its asset is to be written over.
FromProject(r) ==
  /\ handling[r].pc = "away"
  /\ \E n \in Name, pc \in {"save", "write"} :
       \/ Named(n) = {} /\ Begun(r, "create", pc, 0, n, 0)
       \/ \E id \in Named(n) : Begun(r, "overwrite", pc, id, n, ById(id).picture)
  /\ Project /\ UNCHANGED << rows, library, pictures, ids, orphaned, botched, mishaps >>

\* _save_upload, or the copy of the project's sheet.
SavePicture(r) ==
  /\ handling[r].pc = "save" /\ pictures < MaxPictures
  /\ pictures' = Saved /\ library' = library \union {Saved}
  /\ handling' = [handling EXCEPT ![r].pc = "write", ![r].new = Saved]
  /\ Project /\ UNCHANGED << rows, ids, orphaned, botched, mishaps >>

\* The index admits one asset of a name; the picture of the other is removed.
InsertAsset(r) ==
  LET a == handling[r] IN
  /\ In(r, "create", "write")
  /\ IF Named(a.name) = {}
     THEN /\ rows' = Put(rows, ids + 1, [name |-> a.name, picture |-> a.new])
          /\ ids' = ids + 1 /\ UNCHANGED library
          /\ handling' = [handling EXCEPT ![r].pc = "refresh", ![r].id = ids + 1]
     ELSE /\ library' = library \ {a.new}
          /\ Turn(r, "done") /\ UNCHANGED << rows, ids >>
  /\ Project /\ UNCHANGED << pictures, orphaned, botched, mishaps >>

\* A picture that the row was given meanwhile is not the old one this request knows.
UpdatePicture(r) ==
  LET a == handling[r] IN
  /\ a.op \in {"replace", "overwrite"} /\ a.pc = "write"
  /\ IF a.id \in DOMAIN rows
     THEN /\ rows' = [rows EXCEPT ![a.id].picture = a.new]
          /\ orphaned' = orphaned \union ({ById(a.id).picture} \ {0, a.old})
          /\ Turn(r, "refresh") /\ UNCHANGED library
     ELSE /\ library' = library \ {a.new}
          /\ Turn(r, "done") /\ UNCHANGED << rows, orphaned >>
  /\ Project /\ UNCHANGED << pictures, ids, botched, mishaps >>

\* Mutant: the picture to remove is looked up after the commit.
OldPicture_Reread(r) == IF handling[r].id \in DOMAIN rows THEN {rows[handling[r].id].picture} ELSE {}

OldPicture(r) == {handling[r].old}

\* The row is read again, and what it had before goes.
Refreshed(r) ==
  /\ handling[r].pc = "refresh" /\ handling[r].id \in DOMAIN rows
  /\ library' = library \ OldPicture(r)
  /\ Turn(r, "done")
  /\ Project /\ UNCHANGED << rows, pictures, ids, orphaned, botched, mishaps >>

\* The row has been deleted since the commit, which raises.
RefreshGone(r) ==
  /\ handling[r].pc = "refresh" /\ handling[r].id \notin DOMAIN rows
  /\ library' = library \ {handling[r].new}
  /\ orphaned' = orphaned \union {handling[r].old}
  /\ Turn(r, "done")
  /\ Project /\ UNCHANGED << rows, pictures, ids, botched, mishaps >>

\* Whatever raises, the new picture is removed; after the commit its row has it already.
WriteRaises(r) ==
  LET a == handling[r] IN
  /\ a.op \in {"create", "replace", "overwrite"} /\ a.pc \in {"write", "refresh"}
  /\ mishaps < MaxMishaps /\ mishaps' = mishaps + 1
  /\ library' = library \ {a.new}
  /\ botched' = botched \union {p \in {a.new} : a.pc = "refresh"}
  /\ orphaned' = orphaned \union {p \in {a.old} : a.pc = "refresh"}
  /\ Turn(r, "done")
  /\ Project /\ UNCHANGED << rows, pictures, ids >>

-----------------------------------------------------------------------------
(* Renaming and deletion *)

\* exists, and the index behind it.
RenameAsset(r) ==
  /\ handling[r].pc = "away"
  /\ \E id \in DOMAIN rows, n \in Name :
       /\ Named(n) = {}
       /\ rows' = [rows EXCEPT ![id].name = n]
  /\ Turn(r, "done")
  /\ Project /\ UNCHANGED << library, pictures, ids, orphaned, botched, mishaps >>

\* delete_asset: the picture goes before the row.
RemovePicture(r) ==
  /\ handling[r].pc = "away"
  /\ \E id \in DOMAIN rows :
       /\ library' = library \ {ById(id).picture}
       /\ Begun(r, "delete", "delete", id, "", ById(id).picture)
  /\ Project /\ UNCHANGED << rows, pictures, ids, orphaned, botched, mishaps >>

DeleteRow(r) ==
  LET a == handling[r] IN
  /\ In(r, "delete", "delete")
  /\ rows' = [id \in DOMAIN rows \ {a.id} |-> rows[id]]
  /\ orphaned' = orphaned \union (IF a.id \in DOMAIN rows THEN {ById(a.id).picture} \ {0, a.old} ELSE {})
  /\ Turn(r, "done")
  /\ Project /\ UNCHANGED << library, pictures, ids, botched, mishaps >>

DeleteRaises(r) ==
  /\ In(r, "delete", "delete")
  /\ mishaps < MaxMishaps /\ mishaps' = mishaps + 1
  /\ botched' = botched \union {handling[r].old}
  /\ Turn(r, "done")
  /\ Project /\ UNCHANGED << rows, library, pictures, ids, orphaned >>

-----------------------------------------------------------------------------
(* apply_to_project *)

Store == UNCHANGED << rows, library, pictures, ids, orphaned, botched >>

LoadEntries(r) ==
  /\ handling[r].pc = "away"
  /\ \E policy \in {"skip", "overwrite", "rename"} :
       handling' = [handling EXCEPT ![r].op = "apply", ![r].pc = "plan", ![r].policy = policy,
                              ![r].seen = DOMAIN entries]
  /\ Store /\ UNCHANGED << entries, sheets, contested, mishaps >>

Numbered(n, taken) == CHOOSE e \in {<< n, k >> : k \in 2 .. Cardinality(taken) + 2} :
  e \notin taken /\ \A k \in 2 .. e[2] - 1 : << n, k >> \in taken

\* The entry an asset goes to, if any; one whose picture is missing fails.
Target(r, id) ==
  LET n == ById(id).name IN
  IF ById(id).picture \notin library \union {0} THEN {}
  ELSE IF Plain(n) \notin handling[r].seen \/ handling[r].policy = "overwrite" THEN {Plain(n)}
  ELSE IF handling[r].policy = "skip" THEN {}
  ELSE {Numbered(n, handling[r].seen)}

Going(r) == {id \in DOMAIN rows : Target(r, id) # {}}
Orders(S) == {q \in [1 .. Cardinality(S) -> S] : \A i, j \in DOMAIN q : i # j => q[i] # q[j]}
PlanOf(r, q) ==
  [i \in DOMAIN q |-> [entry |-> CHOOSE e \in Target(r, q[i]) : TRUE, picture |-> ById(q[i]).picture]]

\* All assets are asked for, in any order; the names of two are never the same.
PlanCopies(r) ==
  /\ In(r, "apply", "plan")
  /\ \E q \in Orders(Going(r)) :
       handling' = [handling EXCEPT ![r].pc = "copy", ![r].plan = PlanOf(r, q)]
  /\ Store /\ UNCHANGED << entries, sheets, contested, mishaps >>

Planned(r) == {handling[r].plan[i].entry : i \in DOMAIN handling[r].plan}
Copying(r) == In(r, "apply", "copy")
NextCopy(r) == handling[r].plan[handling[r].copied + 1]

\* In a thread, one after the other; an asset without a picture is passed over.
CopySheet(r) ==
  /\ In(r, "apply", "copy") /\ handling[r].copied < Len(handling[r].plan)
  /\ NextCopy(r).picture \in library \union {0}
  /\ sheets' = IF NextCopy(r).picture = 0 THEN sheets
               ELSE Put(sheets, NextCopy(r).entry, NextCopy(r).picture)
  /\ handling' = [handling EXCEPT ![r].copied = @ + 1]
  /\ Store /\ UNCHANGED << entries, contested, mishaps >>

\* The picture went since it was planned: the request fails, and the copies stay.
CopyRaises(r) ==
  /\ In(r, "apply", "copy") /\ handling[r].copied < Len(handling[r].plan)
  /\ NextCopy(r).picture \notin library \union {0}
  /\ contested' = contested \union Planned(r)
  /\ Turn(r, "done")
  /\ Store /\ UNCHANGED << entries, sheets, mishaps >>

AllCopied(r) == handling[r].copied = Len(handling[r].plan)

\* update_project writes all entries, whatever has come into the project meanwhile.
ApplyAll(r) ==
  /\ In(r, "apply", "copy") /\ AllCopied(r)
  /\ entries' = [e \in DOMAIN entries \union Planned(r) |->
       IF e \in Planned(r) THEN handling[r].plan[CHOOSE i \in DOMAIN handling[r].plan :
                                                  handling[r].plan[i].entry = e].picture
       ELSE entries[e]]
  /\ contested' = contested
       \union {e \in Planned(r) : e \in DOMAIN entries \ handling[r].seen
                 \/ \E q \in AssetRequest \ {r} : Copying(q) /\ e \in Planned(q)}
  /\ Turn(r, "done")
  /\ Store /\ UNCHANGED << sheets, mishaps >>

\* The project gets an entry of its own.
AddEntry(n) ==
  /\ Plain(n) \notin DOMAIN entries
  /\ entries' = Put(entries, Plain(n), 0)
  /\ Store /\ UNCHANGED << sheets, handling, contested, mishaps >>

-----------------------------------------------------------------------------

\* The server stops: requests end where they are.
ServerEnds ==
  LET Open == {r \in AssetRequest : handling[r].pc \notin {"away", "done"}}
      Writing == {r \in Open : handling[r].op \in {"create", "replace", "overwrite"}}
  IN
  /\ mishaps < MaxMishaps /\ mishaps' = mishaps + 1
  /\ handling' = [r \in AssetRequest |-> IF r \in Open THEN [handling[r] EXCEPT !.pc = "done"] ELSE handling[r]]
  /\ orphaned' = orphaned \union {handling[r].new : r \in {w \in Writing : handling[w].pc = "write"}}
                          \union {handling[r].old : r \in {w \in Writing : handling[w].pc = "refresh"}}
  /\ botched' = botched \union {handling[r].old : r \in {d \in Open : handling[d].op = "delete"}}
  /\ contested' = contested \union UNION {Planned(r) : r \in {c \in Open : Copying(c)}}
  /\ UNCHANGED << rows, library, entries, sheets, pictures, ids >>

LibraryNext ==
  \/ \E r \in AssetRequest :
       \/ CreateAsset(r) \/ ReplaceImage(r) \/ FromProject(r) \/ SavePicture(r) \/ InsertAsset(r)
       \/ UpdatePicture(r) \/ Refreshed(r) \/ RefreshGone(r) \/ WriteRaises(r) \/ RenameAsset(r)
       \/ RemovePicture(r) \/ DeleteRow(r) \/ DeleteRaises(r)
       \/ LoadEntries(r) \/ PlanCopies(r) \/ CopySheet(r) \/ CopyRaises(r) \/ ApplyAll(r)
  \/ \E n \in Name : AddEntry(n)
  \/ ServerEnds

LibrarySpec == LibraryInit /\ [][LibraryNext]_shelving

-----------------------------------------------------------------------------
(* Properties *)

\* The picture of an asset is there, while it is not being deleted, unless its request raised
\* or ended between the removal or the commit and what follows it.
PictureThere ==
  \A id \in DOMAIN rows :
    \/ rows[id].picture \in library \union {0} \union botched
    \/ \E r \in AssetRequest : In(r, "delete", "delete") /\ handling[r].id = id

\* A picture that no asset has belongs to a request under way, or was given up by one that
\* overlapped with another request or with the end of the server.
NoneLeft ==
  \A p \in library :
    \/ p \in orphaned \/ \E id \in DOMAIN rows : rows[id].picture = p
    \/ \E r \in AssetRequest : handling[r].pc \in {"write", "refresh"} /\ p \in {handling[r].new, handling[r].old}

\* An entry that was put into the project shows the picture of its asset, unless two requests
\* wrote it at once or one failed after it had copied.
EntryShows ==
  \A e \in DOMAIN entries :
    \/ entries[e] = 0
    \/ e \in DOMAIN sheets /\ sheets[e] = entries[e]
    \/ e \in contested \/ \E r \in AssetRequest : Copying(r) /\ e \in Planned(r)

\* Files and rows agree, however requests overlap.
LibraryHonest == PictureThere /\ NoneLeft /\ EntryShows

===================================================================================
