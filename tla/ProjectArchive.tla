------------------------------ MODULE ProjectArchive ------------------------------
(***************************************************************************)
(* A project that goes through an archive.  An export copies what is       *)
(* visible of the project, repairs the copy, says what would block an      *)
(* import and writes the archive, with the versions of the pictures or     *)
(* without.  An import repairs what it unpacks and refuses it if something *)
(* blocks.                                                                 *)
(*                                                                         *)
(* A picture belongs to a resource and lies at a path: the one the code    *)
(* gives it ("current"), one of its version files, or another one of the   *)
(* project's folders or of a folder the export leaves out.  The picture    *)
(* itself is the path where it lay first.  An episode names its script by  *)
(* its path or by its bare name; the script mentions characters and, in    *)
(* the same way, scenes and props.                                         *)
(***************************************************************************)
EXTENDS Naturals, FiniteSets, Functions, TLC

CONSTANTS
  Resource,
  BeginsWith,  \* the resources whose version files begin like those of a resource
  MaxVersion,
  Episode,
  Projects     \* the projects to export

VARIABLES
  source, archive, imported,
  scope,
  diagnosed    \* what the export says would block an import

archiving == << source, archive, imported, scope, diagnosed >>

Version == 1 .. MaxVersion
Current(r) == << r, "current", 0 >>
VersionOf(r, n) == << r, "version", n >>
NoPath == << "none", "none", 0 >>
NoProject == [is |-> "none"]
Refused == [is |-> "refused"]

ArchiveInit ==
  /\ source \in Projects
  /\ archive = NoProject /\ imported = NoProject
  /\ scope = "full" /\ diagnosed = {}

\* The picture that a resource shows.
Shown(p, r) == IF p.field[r] \in DOMAIN p.tree THEN p.tree[p.field[r]] ELSE NoPath

-----------------------------------------------------------------------------
(* Repair *)

IsVersion(path) == path[2] = "version"

\* A version file is taken for one of r by the beginning of its name.
VersionsLike(p, r) == {path \in DOMAIN p.tree : IsVersion(path) /\ path[1] \in BeginsWith[r]}

\* The file of the current version, or the only one there is.
VersionFile(p, r) ==
  LET now == VersionOf(r, p.current[r]) IN
  IF p.current[r] \in p.listed[r] /\ now \in DOMAIN p.tree THEN now
  ELSE IF Cardinality(VersionsLike(p, r)) = 1 THEN CHOOSE path \in VersionsLike(p, r) : TRUE
  ELSE NoPath

\* Mutant: a version comes before the file the field names.
Material_VersionFirst(p, r) == IF p.field[r] = NoPath THEN NoPath ELSE VersionFile(p, r)

\* The file that becomes the current one of r, if that is missing.
Material(p, r) ==
  CASE p.field[r] = NoPath \/ Current(r) \in DOMAIN p.tree -> NoPath
    [] p.field[r] \in VersionsLike(p, r) /\ Current(r) \notin DOMAIN p.tree -> p.field[r]
    [] p.field[r] \notin DOMAIN p.tree \union {NoPath} /\ Current(r) \notin DOMAIN p.tree ->
         VersionFile(p, r)
    [] OTHER -> NoPath

Materialized(p) == {r \in Resource : Material(p, r) # NoPath}

WithCurrentFiles(p) ==
  [p EXCEPT
     !.tree = [path \in {Current(r) : r \in Materialized(p)} |-> p.tree[Material(p, path[1])]] @@ p.tree,
     !.field = [r \in Resource |->
       IF p.field[r] # NoPath /\ (Current(r) \in DOMAIN p.tree \/ r \in Materialized(p))
       THEN Current(r) ELSE p.field[r]]]

\* A bare name stands for the script in its folder, or for the only file of that name.
Located(e) ==
  IF e.ref = "name" /\ e.place \in {"scripts", "elsewhere"} THEN [e EXCEPT !.ref = e.place] ELSE e

Found(e) == e.ref = e.place /\ e.place # "missing"
Readable(e) == Found(e) /\ e.state # "unreadable"

WithScripts(p) == [p EXCEPT !.episode = [i \in Episode |-> Located(p.episode[i])]]

\* The characters of scripts that have segments or scenes are added, without a picture.
WithPlaceholders(p) ==
  [p EXCEPT !.characters = @ \union UNION {p.episode[i].characters :
       i \in {j \in Episode : Readable(p.episode[j]) /\ p.episode[j].mode # "reference_video"}}]

Repaired(p) == WithPlaceholders(WithScripts(WithCurrentFiles(p)))

-----------------------------------------------------------------------------
(* Validation *)

Dangling(p) == {r \in Resource : p.field[r] # NoPath /\ p.field[r] \notin DOMAIN p.tree}

WellFormed(e) == e.state # "malformed"

Known(p, e) == e.characters \subseteq p.characters /\ e.scenes \subseteq p.scenes

Sound(p, e) == Readable(e) /\ WellFormed(e) /\ Known(p, e)

Blocking(p) == Dangling(p) \union {i \in Episode : ~Sound(p, p.episode[i])}

-----------------------------------------------------------------------------
(* Export and import *)

\* Folders that are none of a project's are left out.
Visible(p) ==
  [p EXCEPT !.tree = Restrict(@, {path \in DOMAIN p.tree : path[2] # "outside"}),
            !.episode = [i \in Episode |->
              IF p.episode[i].place = "outside" THEN [p.episode[i] EXCEPT !.place = "missing"]
              ELSE p.episode[i]]]

WithoutHistory(p) ==
  [p EXCEPT !.tree = Restrict(@, {path \in DOMAIN p.tree : ~IsVersion(path)}),
            !.listed = [r \in Resource |-> p.listed[r] \intersect {p.current[r]}]]

Export(s) ==
  LET snapshot == Repaired(Visible(source)) IN
  /\ archive = NoProject
  /\ scope' = s
  /\ archive' = IF s = "current" THEN WithoutHistory(snapshot) ELSE snapshot
  /\ diagnosed' = Blocking(snapshot)
  /\ UNCHANGED << source, imported >>

Import ==
  LET staging == Repaired(archive) IN
  /\ archive # NoProject /\ imported = NoProject
  /\ imported' = IF Blocking(staging) # {} THEN Refused ELSE staging
  /\ UNCHANGED << source, archive, scope, diagnosed >>

ArchiveNext == (\E s \in {"full", "current"} : Export(s)) \/ Import

ArchiveSpec == ArchiveInit /\ [][ArchiveNext]_archiving

-----------------------------------------------------------------------------
(* Properties *)

\* A field that names another file than the current one beside which it lies is turned to
\* that one.
Shadowed(r) == source.field[r] # Current(r) /\ Current(r) \in DOMAIN source.tree

\* The version file of another resource stays what the field names, and goes with the history.
Borrowed(r) == IsVersion(source.field[r]) /\ source.field[r][1] \notin BeginsWith[r]

\* What the export finds nothing against, an import accepts, whichever repairs it took and
\* also without the history; and it has nothing to repair in it.  The copy shows the pictures
\* that the visible project shows, or for a current file that was lost the one of its current version;
\* its scripts mention nobody it does not know, and a full one has the whole history.
RoundTrip ==
  imported # NoProject =>
    /\ (diagnosed = {} /\ (scope = "current" => \A r \in Resource : ~Borrowed(r)))
         => imported # Refused
    /\ imported # Refused =>
         /\ imported = archive
         /\ \A r \in Resource : (Shown(Visible(source), r) # NoPath /\ ~Shadowed(r))
              => Shown(imported, r) = Shown(source, r)
         /\ \A r \in Resource : (source.field[r] = Current(r) /\ Shown(source, r) = NoPath)
              => Shown(imported, r) \in {VersionOf(q, n) : q \in BeginsWith[r], n \in Version}
         /\ \A i \in Episode : imported.episode[i].characters \subseteq imported.characters
         /\ scope = "full" => \A path \in DOMAIN source.tree :
              IsVersion(path) => path \in DOMAIN imported.tree /\ imported.tree[path] = path

=================================================================================
