----------------------------- MODULE MetaFiles -----------------------------
(***************************************************************************)
(* The small json files of the worker: project.json and run.json of each   *)
(* project, workspace.json, and the settings.  project_persistence.cpp,    *)
(* workspace_persistence.cpp, public_settings.cpp and project_control.cpp  *)
(* read them whole, and write them by emptying them first and writing when *)
(* the stream is destroyed, with no lock held.  Handlers run on several    *)
(* threads, and the worker may die and be started again at any time.       *)
(***************************************************************************)
EXTENDS SessionStorage, Integers

CONSTANTS
  Requests,     (* requests, and calls of scripts                          *)
  Starter,      (* the start of the worker                                 *)
  Projects,     (* the directories of the workspace                        *)
  Environs,     (* maps of environments                                    *)
  NoEnvirons,   (* the empty one                                           *)
  Texts,        (* what scripts save in run.json                           *)
  Length,       (* the lengths of what is written, but for project.json    *)
  Changes,      (* the bodies sent to changeProjectMeta                    *)
  FirstFiles,   (* what the files may hold before the worker is started    *)
  Missing, Empty, Torn,
  MaxDeaths     (* bound: how often the worker dies                        *)

Flags == {"splitSourceAndInclude", "ignoreSeemingSplit"}

ASSUME MetaAssumption ==
  /\ NoEnvirons \in Environs
  /\ Length \in [Projects \cup Environs \cup Texts -> Nat \ {0}]
  /\ \A c \in Changes : DOMAIN c \subseteq Flags /\ \A k \in DOMAIN c : c[k] \in BOOLEAN
  /\ Missing # Empty /\ Empty # Torn /\ Torn # Missing
  /\ \A v \in {Missing, Empty, Torn} : v \notin Projects \cup Environs \cup Texts \cup [Flags -> BOOLEAN]
  /\ MaxDeaths \in Nat
  /\ Starter \notin Requests

WorkspaceFile == <<"workspace">>
SettingsFile == <<"settings">>
ProjectFile(p) == <<"project", p>>
RunFile(p) == <<"run", p>>
Files == {WorkspaceFile, SettingsFile} \cup {ProjectFile(p) : p \in Projects} \cup {RunFile(p) : p \in Projects}

Clients == Requests \cup {Starter}

Flaws == {Missing, Empty, Torn}

VARIABLES
  file,           (* file[f]: what f holds and how long it is              *)
  environments,   (* PublicSettings::environments_ of the worker           *)
  request,        (* request[r]: a handler, the file it works on, what it  *)
                  (* will write, and what it was told it had read          *)
  deaths,
  known,          (* projects that were active, which a script that still  *)
                  (* has a copy of its session may work on                 *)
  before,         (* history: what f held before it was emptied            *)
  spoiled         (* history: files that two were changing at a time, that *)
                  (* one died on, or that do not hold what the worker does *)

vars == <<storageVars, file, environments, request, deaths, known, before, spoiled>>

WholeOf(f) ==
  IF f = WorkspaceFile THEN Projects
  ELSE IF f = SettingsFile THEN Environs
  ELSE IF f[1] = "project" THEN [Flags -> BOOLEAN] ELSE Texts

(* The text of v: "false" is a character longer than "true".               *)
Size(f, v) ==
  IF v \in Flaws THEN 0
  ELSE IF f[1] = "project" THEN 1 + Cardinality({k \in Flags : ~v[k]}) ELSE Length[v]

Text(f, v) == [value |-> v, size |-> Size(f, v)]

(* A slip: json with something behind it is taken for json.                *)
OverTheRest(f, c, v) ==
  [value |-> v, size |-> IF Size(f, v) < c.size THEN c.size ELSE Size(f, v)]

(* v is written to the beginning of a file that holds c: json with the end *)
(* of another text behind it is not json.                                  *)
Over(f, c, v) ==
  IF Size(f, v) < c.size THEN [value |-> Torn, size |-> c.size] ELSE Text(f, v)

Defaults == [k \in Flags |-> FALSE]

(* A slip: the keys of the file are not taken over.                        *)
InjectIntoDefaults(change, v) ==
  [k \in Flags |-> IF k \in DOMAIN change THEN change[k] ELSE FALSE]

(* transferExistingItems: the keys that are there.                         *)
Inject(change, v) ==
  [k \in Flags |-> IF k \in DOMAIN change THEN change[k] ELSE IF v = Missing THEN FALSE ELSE v[k]]

Idle == [pc |-> "idle", kind |-> "none", on |-> SettingsFile, text |-> Missing,
         change |-> <<>>, told |-> <<>>]

PCs == {"idle", "load", "loadAgain", "assign", "truncate", "write", "reload",
        "done", "failed", "dead"}

Kinds == {"none", "start", "loadWorkspaceMeta", "setActiveProject", "loadProjectMeta",
          "changeProjectMeta", "saveEnvironments", "readProjectFile", "saveProjectFile"}

Held(f) == WholeOf(f) \cup Flaws

Values == Projects \cup Environs \cup Texts \cup [Flags -> BOOLEAN] \cup Flaws
SomeChange == Changes \cup {<<>>}
SomeRead == {<<>>} \cup (Files \X Values)

FileType == [value : Values, size : Nat]

(* c is what f may be: torn text is of some length.                        *)
IsFile(f, c) ==
  /\ c \in FileType /\ c.value \in Held(f)
  /\ IF c.value = Torn THEN c.size > 0 ELSE c = Text(f, c.value)

(* A worker that ends well leaves whole settings, or none.                 *)
ASSUME FirstAssumption ==
  FirstFiles \subseteq {first \in [Files -> FileType] :
                         /\ first[SettingsFile].value \in Environs \cup {Missing}
                         /\ \A f \in Files : IsFile(f, first[f])}

RequestType == [pc : PCs, kind : Kinds, on : Files, text : Values, change : SomeChange, told : SomeRead]

Active == {Load(s).activeProject : s \in Sessions} \ {None}

TypeOK ==
  /\ \A s \in Sessions : Load(s).activeProject \in Projects \cup {None}
  /\ file \in [Files -> FileType]
  /\ \A f \in Files : IsFile(f, file[f]) /\ before[f] \in Held(f)
  /\ environments \in Environs
  /\ request \in [Clients -> RequestType]
  /\ \A r \in Clients :
       /\ request[r].pc \in {"truncate", "write"} => request[r].text \in WholeOf(request[r].on)
       /\ request[r].told # <<>> => request[r].told[2] \in Held(request[r].told[1])
  /\ deaths \in 0 .. MaxDeaths
  /\ Active \subseteq known /\ known \subseteq Projects
  /\ spoiled \subseteq Files

Opened(active) == [EmptySession EXCEPT !.root = 1, !.activeProject = active]

Init ==
  /\ stored = [s \in Sessions |-> Opened(None)]
  /\ storageLock = None
  /\ file \in FirstFiles
  /\ environments = NoEnvirons
  /\ request = [r \in Clients |-> Idle]
  /\ deaths = 0
  /\ known = {}
  /\ before = [f \in Files |-> Missing]
  /\ spoiled = {}

-----------------------------------------------------------------------------

InChange == {"assign", "truncate", "write"}

(* The clients between the reading, or opening, of f and the writing.      *)
Changing(f) == {r \in Clients : request[r].on = f /\ request[r].pc \in InChange}

(* One more begins to change f.                                            *)
Joins(f) == spoiled' = IF Changing(f) = {} THEN spoiled ELSE spoiled \cup {f}

Goes(r, pc) == [request EXCEPT ![r] = [@ EXCEPT !.pc = pc]]

Told(r, pc, v) == [request EXCEPT ![r] = [@ EXCEPT !.pc = pc, !.told = <<request[r].on, v>>]]

Does(r, pc, kind, f, text, change) ==
  request' = [request EXCEPT ![r] = [@ EXCEPT !.pc = pc, !.kind = kind, !.on = f, !.text = text, !.change = change]]

Refuse(r) == request' = Goes(r, "done")

fileVars == <<file, before>>

(* The worker: routes are served when its settings have been loaded.       *)

Up == request[Starter].pc = "done"

Start ==
  /\ request[Starter].pc = "idle"
  /\ Does(Starter, "load", "start", SettingsFile, NoEnvirons, <<>>)
  /\ UNCHANGED <<storageVars, fileVars, spoiled, environments, deaths, known>>

(* A slip: the settings have to be there already.                          *)
LoadWhatIsThere ==
  LET v == file[SettingsFile].value IN
  /\ request[Starter].pc = "load"
  /\ request' = Told(Starter, IF v \in Environs THEN "done" ELSE "failed", v)
  /\ environments' = IF v \in Environs THEN v ELSE environments
  /\ UNCHANGED <<storageVars, fileVars, spoiled, deaths, known>>

(* PublicSettings::load: what cannot be parsed ends the worker.            *)
LoadSettings ==
  LET v == file[SettingsFile].value IN
  /\ request[Starter].pc = "load"
  /\ IF v = Missing
     THEN /\ request' = Goes(Starter, "truncate")
          /\ Joins(SettingsFile)
          /\ UNCHANGED environments
     ELSE /\ request' = Told(Starter, IF v \in Environs THEN "done" ELSE "failed", v)
          /\ environments' = IF v \in Environs THEN v ELSE environments
          /\ UNCHANGED spoiled
  /\ UNCHANGED <<storageVars, fileVars, deaths, known>>

(* What was under way is lost, and so are the sessions: the clients log in *)
(* and open the workspace again.                                           *)
Die ==
  /\ deaths < MaxDeaths /\ request[Starter].pc \notin {"idle", "failed"}
  /\ deaths' = deaths + 1
  /\ request' = [r \in Clients |->
       IF r = Starter THEN [request[r] EXCEPT !.pc = "idle"]
       ELSE IF request[r].pc \in {"idle", "done"} THEN request[r]
       ELSE [request[r] EXCEPT !.pc = "dead"]]
  /\ stored' = [s \in Sessions |-> Opened(None)]
  /\ known' = {}
  /\ environments' = NoEnvirons
  /\ spoiled' = spoiled \cup {f \in Files : Changing(f) # {}}
  /\ UNCHANGED <<storageLock, fileVars>>

-----------------------------------------------------------------------------
(* The requests, and what they need of their session.                      *)

Arrives(r) == r \in Requests /\ Up /\ request[r].pc = "idle"

(* Without a project a request ends.                                       *)
WithoutProject(r) ==
  /\ Arrives(r)
  /\ None \in {Load(s).activeProject : s \in Sessions}
  /\ Refuse(r)
  /\ UNCHANGED <<storageVars, fileVars, spoiled, environments, deaths, known>>

LoadProjectMeta(r) ==
  /\ Arrives(r)
  /\ \E p \in Active : Does(r, "load", "loadProjectMeta", ProjectFile(p), Missing, <<>>)
  /\ UNCHANGED <<storageVars, fileVars, spoiled, environments, deaths, known>>

ChangeProjectMeta(r) ==
  /\ Arrives(r)
  /\ \E p \in Active, c \in Changes :
       Does(r, "load", "changeProjectMeta", ProjectFile(p), Missing, c)
  /\ UNCHANGED <<storageVars, fileVars, spoiled, environments, deaths, known>>

(* The handler of getRunConfigs, and readProjectFile of a script.          *)
ReadProjectFile(r) ==
  /\ Arrives(r)
  /\ \E p \in known : Does(r, "load", "readProjectFile", RunFile(p), Missing, <<>>)
  /\ UNCHANGED <<storageVars, fileVars, spoiled, environments, deaths, known>>

(* saveProjectFile of a script, which saves nothing that is not json.      *)
SaveProjectFile(r) ==
  /\ Arrives(r)
  /\ \E p \in known, t \in Texts :
       Does(r, "truncate", "saveProjectFile", RunFile(p), t, <<>>) /\ Joins(RunFile(p))
  /\ UNCHANGED <<storageVars, fileVars, environments, deaths, known>>

LoadWorkspaceMeta(r) ==
  /\ Arrives(r)
  /\ Does(r, "load", "loadWorkspaceMeta", WorkspaceFile, Missing, <<>>)
  /\ UNCHANGED <<storageVars, fileVars, spoiled, environments, deaths, known>>

(* The session has the project before the file is looked at.               *)
SetActiveProject(r) ==
  /\ Arrives(r)
  /\ \E s \in Sessions, p \in Projects :
       /\ Does(r, "load", "setActiveProject", WorkspaceFile, p, <<>>)
       /\ PartiallySave(s, Load(s), "activeProject", p)
       /\ known' = known \cup {p}
  /\ UNCHANGED <<fileVars, spoiled, environments, deaths>>

(* setEnvironments begins to assign the member, with no lock.              *)
SaveEnvironments(r) ==
  /\ Arrives(r)
  /\ \E e \in Environs : Does(r, "assign", "saveEnvironments", SettingsFile, e, <<>>)
  /\ Joins(SettingsFile)
  /\ UNCHANGED <<storageVars, fileVars, environments, deaths, known>>

Assigned(r) ==
  /\ request[r].pc = "assign"
  /\ environments' = request[r].text
  /\ request' = Goes(r, "truncate")
  /\ UNCHANGED <<storageVars, fileVars, spoiled, deaths, known>>

(* What a copy of the member gets while others assign it; a crash is Die.  *)
Seen == {environments} \cup {request[q].text : q \in {q \in Requests : request[q].pc = "assign"}}

(* The names of environments, the environments, and the scripts' and the   *)
(* debuggers' copies of them are not read from the file.                   *)
CopyEnvironments(r) ==
  /\ Arrives(r)
  /\ \E v \in Seen : request' = [request EXCEPT ![r] = [@ EXCEPT !.pc = "done", !.told = <<SettingsFile, v>>]]
  /\ UNCHANGED <<storageVars, fileVars, spoiled, environments, deaths, known>>

-----------------------------------------------------------------------------
(* The files.                                                              *)

ReadRaw(r) ==
  /\ request[r].pc = "load" /\ request[r].kind = "readProjectFile"
  /\ request' = Told(r, "done", file[request[r].on].value)
  /\ UNCHANGED <<storageVars, fileVars, spoiled, environments, deaths, known>>

(* WorkspacePersistence::load takes an empty file for one that is missing. *)
LoadWorkspace(r) ==
  LET v == file[WorkspaceFile].value IN
  /\ request[r].pc = "load" /\ request[r].on = WorkspaceFile
  /\ IF request[r].kind = "loadWorkspaceMeta" \/ v = Torn
     THEN request' = Told(r, "done", v) /\ UNCHANGED spoiled
     ELSE request' = Goes(r, "truncate") /\ Joins(WorkspaceFile)
  /\ UNCHANGED <<storageVars, fileVars, environments, deaths, known>>

Saves(r, text) ==
  /\ request' = [request EXCEPT ![r] = [@ EXCEPT !.pc = "truncate", !.text = text]]
  /\ Joins(request[r].on)

(* ProjectPersistence::load, which throws on an empty file.  A body that   *)
(* is of a wrong type throws as well, before anything is saved.            *)
LoadProject(r) ==
  LET v == file[request[r].on].value IN
  /\ request[r].pc = "load" /\ request[r].kind \in {"loadProjectMeta", "changeProjectMeta"}
  /\ \/ /\ request[r].kind = "changeProjectMeta" /\ v \notin {Empty, Torn}
        /\ \/ Saves(r, Inject(request[r].change, v))
           \/ Refuse(r) /\ UNCHANGED spoiled
     \/ /\ request[r].kind = "loadProjectMeta" /\ v = Missing
        /\ request' = Goes(r, "loadAgain")
        /\ UNCHANGED spoiled
     \/ /\ v \in {Empty, Torn} \/ (request[r].kind = "loadProjectMeta" /\ v # Missing)
        /\ request' = Told(r, "done", v)
        /\ UNCHANGED spoiled
  /\ UNCHANGED <<storageVars, fileVars, environments, deaths, known>>

(* raw: it is loaded again, and if it is still not there the defaults are  *)
(* saved and loaded.                                                       *)
Raw(r) ==
  LET v == file[request[r].on].value IN
  /\ request[r].pc \in {"loadAgain", "reload"}
  /\ IF v = Missing
     THEN Saves(r, Defaults)
     ELSE request' = Told(r, "done", v) /\ UNCHANGED spoiled
  /\ UNCHANGED <<storageVars, fileVars, environments, deaths, known>>

(* The ofstream is opened, which empties the file.                         *)
OpenToWrite(r) ==
  LET f == request[r].on IN
  /\ request[r].pc = "truncate"
  /\ request' = Goes(r, "write")
  /\ file' = [file EXCEPT ![f] = Text(f, Empty)]
  /\ before' = [before EXCEPT ![f] = IF \E q \in Changing(f) : request[q].pc = "write"
                                     THEN @ ELSE file[f].value]
  /\ UNCHANGED <<storageVars, spoiled, environments, deaths, known>>

(* It cannot be opened.  changeProjectMeta and setActiveProject answer as  *)
(* if it had been, loadProjectMeta answers {}, the worker does not start,  *)
(* and the environments stay assigned.                                     *)
CannotOpen(r) ==
  LET f == request[r].on IN
  /\ request[r].pc = "truncate"
  /\ request' = IF r = Starter THEN Goes(r, "idle")
                ELSE IF request[r].kind = "loadProjectMeta" THEN Told(r, "done", Missing)
                ELSE Goes(r, "done")
  /\ spoiled' = IF request[r].kind = "saveEnvironments" THEN spoiled \cup {f} ELSE spoiled
  /\ UNCHANGED <<storageVars, fileVars, environments, deaths, known>>

(* The ofstream is destroyed, which writes what is in its buffer.  The     *)
(* environments are turned into text only now.                             *)
Write(r) ==
  LET f == request[r].on IN
  /\ request[r].pc = "write"
  /\ \E v \in IF f = SettingsFile THEN Seen ELSE {request[r].text} :
       file' = [file EXCEPT ![f] = Over(f, @, v)]
  /\ request' = Goes(r, IF request[r].kind = "loadProjectMeta" THEN "reload" ELSE "done")
  /\ UNCHANGED <<storageVars, before, spoiled, environments, deaths, known>>

-----------------------------------------------------------------------------

Request(r) ==
  \/ WithoutProject(r) \/ LoadProjectMeta(r) \/ ChangeProjectMeta(r) \/ ReadProjectFile(r) \/ SaveProjectFile(r)
  \/ LoadWorkspaceMeta(r) \/ SetActiveProject(r) \/ SaveEnvironments(r) \/ CopyEnvironments(r)
  \/ Assigned(r) \/ ReadRaw(r) \/ LoadWorkspace(r) \/ LoadProject(r) \/ Raw(r)

Next ==
  \/ Start \/ LoadSettings \/ Die
  \/ \E r \in Requests : Request(r)
  \/ \E r \in Clients : OpenToWrite(r) \/ CannotOpen(r) \/ Write(r)

Spec == Init /\ [][Next]_vars

-----------------------------------------------------------------------------

ChangedBy(f, v) ==
  IF f[1] = "project"
  THEN {[k \in Flags |-> IF k \in DOMAIN c THEN c[k] ELSE IF v \in Flaws THEN FALSE ELSE v[k]]
         : c \in SomeChange}
  ELSE WholeOf(f)

(* The value of a file that is empty because it is just being written is   *)
(* still the one it had.                                                   *)
ValueOf(f) ==
  IF \E r \in Changing(f) : request[r].pc = "write" THEN before[f] ELSE file[f].value

Store == INSTANCE MetaStore WITH
  Whole <- WholeOf,
  Changed <- ChangedBy,
  value <- [f \in Files |-> ValueOf(f)],
  changing <- [f \in Files |-> Changing(f)],
  told <- [r \in Clients |-> request[r].told]

(* project_persistence.cpp, workspace_persistence.cpp, public_settings.cpp:*)
(* as long as the handlers do not change a file at the same time, and the  *)
(* worker does not die in a change, each file is a variable that handlers  *)
(* change and read in one step; a change keeps the keys it does not name,  *)
(* and the environments the worker answers with are those of the file.     *)
ImplementsStore == Store!Spec

(* public_settings.cpp:18: the worker can be started unless the settings   *)
(* were being saved twice at a time or when it died, or could not be saved.*)
StartsAgain == request[Starter].pc = "failed" => SettingsFile \in spoiled
=============================================================================
