-------------------------- MODULE MetaFilesProofs --------------------------
(***************************************************************************)
(* Proofs about the small files of the worker: that it can be started      *)
(* unless its settings were spoiled, the types, and that the files are     *)
(* what MetaStore says, for any number of handlers, projects and deaths.   *)
(***************************************************************************)
EXTENDS MetaFiles, FiniteSetTheorems, TLAPS

LEMMA FileNames ==
  /\ WorkspaceFile \in Files /\ SettingsFile \in Files /\ WorkspaceFile # SettingsFile
  /\ WholeOf(WorkspaceFile) = Projects /\ WholeOf(SettingsFile) = Environs
  /\ \A p \in Projects :
       /\ ProjectFile(p) \in Files \ {WorkspaceFile, SettingsFile}
       /\ RunFile(p) \in Files \ {WorkspaceFile, SettingsFile}
       /\ WholeOf(ProjectFile(p)) = [Flags -> BOOLEAN] /\ WholeOf(RunFile(p)) = Texts
<1>1. WorkspaceFile[1] = "workspace" /\ SettingsFile[1] = "settings"
  BY DEF WorkspaceFile, SettingsFile
<1>2. \A p \in Projects : ProjectFile(p)[1] = "project" /\ RunFile(p)[1] = "run"
  BY DEF ProjectFile, RunFile
<1>3. WorkspaceFile \in Files /\ SettingsFile \in Files /\ \A p \in Projects : ProjectFile(p) \in Files /\ RunFile(p) \in Files
  BY DEF Files
<1>4. /\ WorkspaceFile # SettingsFile
      /\ \A p \in Projects : ProjectFile(p) \notin {WorkspaceFile, SettingsFile} /\ RunFile(p) \notin {WorkspaceFile, SettingsFile}
  BY <1>1, <1>2
<1>5. WholeOf(WorkspaceFile) = Projects /\ WholeOf(SettingsFile) = Environs
  BY <1>4 DEF WholeOf
<1>6. \A p \in Projects : WholeOf(ProjectFile(p)) = [Flags -> BOOLEAN]
  BY <1>2, <1>4 DEF WholeOf
<1>7. \A p \in Projects : WholeOf(RunFile(p)) = Texts
  BY <1>2, <1>4 DEF WholeOf
<1> QED
  BY <1>3, <1>4, <1>5, <1>6, <1>7

LEMMA SizeType ==
  ASSUME NEW f \in Files, NEW v \in Held(f)
  PROVE  Size(f, v) \in Nat /\ (v \in Flaws => Size(f, v) = 0)
<1>1. CASE v \in Flaws
  BY <1>1 DEF Size
<1>2. CASE v \notin Flaws /\ f[1] = "project"
  <2>1. IsFiniteSet(Flags)
    <3>1. Flags = {"splitSourceAndInclude"} \cup {"ignoreSeemingSplit"}
      BY DEF Flags
    <3> QED
      BY <3>1, FS_Singleton, FS_Union
  <2>2. IsFiniteSet({k \in Flags : ~v[k]})
    BY <2>1, FS_Subset
  <2>3. Cardinality({k \in Flags : ~v[k]}) \in Nat
    BY <2>2, FS_CardinalityType
  <2>4. Size(f, v) = 1 + Cardinality({k \in Flags : ~v[k]})
    BY <1>2 DEF Size
  <2> QED
    BY <1>2, <2>3, <2>4
<1>3. CASE v \notin Flaws /\ f[1] # "project"
  <2>1. v \in Projects \cup Environs \cup Texts
    <3>1. f = WorkspaceFile \/ f = SettingsFile \/ (\E p \in Projects : f = ProjectFile(p)) \/ (\E p \in Projects : f = RunFile(p))
      BY DEF Files
    <3>2. \A p \in Projects : ProjectFile(p)[1] = "project"
      BY DEF ProjectFile
    <3>3. WholeOf(f) \in {Projects, Environs, Texts}
      BY <1>3, <3>1, <3>2, FileNames
    <3> QED
      BY <1>3, <3>3 DEF Held
  <2>2. Size(f, v) = Length[v]
    BY <1>3 DEF Size
  <2> QED
    BY <1>3, <2>1, <2>2, MetaAssumption
<1> QED
  BY <1>1, <1>2, <1>3

LEMMA Requesters == Requests \subseteq Clients /\ Starter \in Clients /\ Starter \notin Requests
BY MetaAssumption DEF Clients

-----------------------------------------------------------------------------
(* The types, and that the files keep what is promised of them.            *)

(* What r may be doing, when q is its request.                             *)
Job(r, q) ==
  /\ q \in RequestType
  /\ q.pc \in {"truncate", "write"} => q.text \in WholeOf(q.on)
  /\ q.told # <<>> => q.told[2] \in Held(q.told[1])
  /\ IF r = Starter
     THEN /\ q.on = SettingsFile /\ q.kind \in {"none", "start"}
          /\ q.pc \in {"idle", "load", "truncate", "write", "done", "failed"}
     ELSE q.kind # "start"
  /\ q.kind \in {"loadWorkspaceMeta", "setActiveProject"} => q.on = WorkspaceFile
  /\ q.kind \in {"loadProjectMeta", "changeProjectMeta"} => \E p \in Projects : q.on = ProjectFile(p)
  /\ q.kind \in {"readProjectFile", "saveProjectFile"} => \E p \in Projects : q.on = RunFile(p)
  /\ q.kind \in {"start", "saveEnvironments"} => q.on = SettingsFile /\ q.text \in Environs
  /\ q.kind = "setActiveProject" => q.text \in Projects
  /\ q.kind \in {"none", "loadWorkspaceMeta", "readProjectFile"} => q.pc \notin InChange
  /\ q.kind = "none" => q.pc # "load"
  /\ q.pc \in {"loadAgain", "reload"} => q.kind = "loadProjectMeta"
  /\ q.pc = "assign" => q.kind = "saveEnvironments"

Jobs == request \in [Clients -> RequestType] /\ \A r \in Clients : Job(r, request[r])

FilesHeld ==
  /\ file \in [Files -> FileType] /\ DOMAIN before = Files
  /\ \A f \in Files : IsFile(f, file[f]) /\ before[f] \in Held(f)

ActiveKnown ==
  /\ DOMAIN stored = Sessions /\ \A s \in Sessions : DOMAIN stored[s] = DOMAIN EmptySession
  /\ \A s \in Sessions : Load(s).activeProject \in Projects \cup {None}
  /\ Active \subseteq known /\ known \subseteq Projects

Writers(f) == {r \in Changing(f) : request[r].pc = "write"}

(* A file that is not spoiled has one client that changes it; it is empty  *)
(* while it is written, and what will be written is a change of what it    *)
(* held.                                                                   *)
Kept ==
  \A f \in Files \ spoiled :
    /\ \A q, r \in Changing(f) : q = r
    /\ Writers(f) # {} => file[f] = Text(f, Empty)
    /\ \A r \in Changing(f) :
         /\ request[r].text \in ChangedBy(f, ValueOf(f))
         /\ request[r].kind = "loadProjectMeta" => ValueOf(f) = Missing

(* The worker has the environments of its file, unless it is changing them.*)
EnvironsInFile ==
  Up /\ SettingsFile \notin spoiled /\ Changing(SettingsFile) = {} => environments = file[SettingsFile].value

KeptInv ==
  /\ Jobs /\ FilesHeld /\ ActiveKnown
  /\ environments \in Environs /\ deaths \in 0 .. MaxDeaths /\ spoiled \subseteq Files
  /\ Kept /\ EnvironsInFile

LEMMA TypesFollow == KeptInv => TypeOK
BY DEF KeptInv, Jobs, Job, FilesHeld, ActiveKnown, TypeOK

(* Only the request of r changes.                                          *)
Only(r) == \A q \in Clients \ {r} : request'[q] = request[q]

LEMMA Becomes ==
  ASSUME Jobs, NEW r \in Clients, NEW q, Job(r, q), request' = [request EXCEPT ![r] = q]
  PROVE  Jobs' /\ Only(r) /\ request'[r] = q
<1>1. q \in RequestType
  BY DEF Job
<1>2. request' \in [Clients -> RequestType] /\ request'[r] = q /\ Only(r)
  BY <1>1 DEF Jobs, Only
<1>3. \A p \in Clients : Job(p, request'[p])
  BY <1>2 DEF Jobs, Only
<1> QED
  BY <1>2, <1>3 DEF Jobs

LEMMA ValueTypes ==
  /\ \A f \in Files : Held(f) \subseteq Values /\ f # <<>>
  /\ Flaws = {Missing, Empty, Torn}
  /\ Missing # Empty /\ Empty # Torn /\ Missing # Torn
  /\ \A f \in Files : WholeOf(f) \cap Flaws = {}
  /\ Defaults \in [Flags -> BOOLEAN]
<1>1. \A f \in Files : WholeOf(f) \in {Projects, Environs, Texts, [Flags -> BOOLEAN]}
  BY DEF WholeOf
<1>2. \A f \in Files : f # <<>>
  BY DEF Files, WorkspaceFile, SettingsFile, ProjectFile, RunFile
<1>3. Defaults \in [Flags -> BOOLEAN]
  BY DEF Defaults
<1> QED
  BY <1>1, <1>2, <1>3, MetaAssumption DEF Held, Values, Flaws

LEMMA InjectType ==
  ASSUME NEW c \in SomeChange, NEW v \in [Flags -> BOOLEAN] \cup {Missing}
  PROVE  Inject(c, v) \in [Flags -> BOOLEAN]
<1>1. \A k \in DOMAIN c : c[k] \in BOOLEAN
  BY MetaAssumption DEF SomeChange
<1> QED
  BY <1>1 DEF Inject

(* A request goes on as it is.                                             *)
LEMMA JobGoesOn ==
  ASSUME Jobs, NEW r \in Clients, NEW pc \in PCs, request' = Goes(r, pc),
         Job(r, [request[r] EXCEPT !.pc = pc])
  PROVE  /\ Jobs' /\ Only(r)
         /\ request'[r].pc = pc /\ request'[r].kind = request[r].kind /\ request'[r].on = request[r].on
         /\ request'[r].text = request[r].text /\ request'[r].told = request[r].told
<1>1. request' = [request EXCEPT ![r] = [request[r] EXCEPT !.pc = pc]]
  BY DEF Jobs, Goes
<1>2. Jobs' /\ Only(r) /\ request'[r] = [request[r] EXCEPT !.pc = pc]
  BY <1>1, Becomes
<1> QED
  BY <1>2 DEF Jobs, RequestType

(* A request is answered with what its file held.                          *)
LEMMA JobIsTold ==
  ASSUME Jobs, NEW r \in Clients, NEW pc \in {"done", "failed"}, NEW v \in Held(request[r].on), request' = Told(r, pc, v),
         r # Starter => pc = "done"
  PROVE  Jobs' /\ Only(r) /\ request'[r].pc = pc /\ request'[r].told = <<request[r].on, v>>
<1> DEFINE q == [request[r] EXCEPT !.pc = pc, !.told = <<request[r].on, v>>]
<1>1. request' = [request EXCEPT ![r] = q]
  BY DEF Jobs, Told
<1>2. request[r] \in RequestType /\ request[r].on \in Files
  BY DEF Jobs, RequestType
<1>3. <<request[r].on, v>> \in SomeRead
  BY <1>2, ValueTypes DEF SomeRead
<1>4. /\ q \in RequestType /\ q.pc = pc /\ q.told = <<request[r].on, v>>
      /\ q.kind = request[r].kind /\ q.on = request[r].on /\ q.text = request[r].text
  BY <1>2, <1>3 DEF RequestType, PCs
<1>5. q.told[2] \in Held(q.told[1])
  BY <1>4
<1>6. Job(r, request[r])
  BY DEF Jobs
<1>7. Job(r, q)
  BY <1>4, <1>5, <1>6 DEF Job, InChange
<1> HIDE DEF q
<1> QED
  BY <1>1, <1>4, <1>7, Becomes

(* A request begins.                                                       *)
LEMMA JobBegins ==
  ASSUME Jobs, NEW r \in Clients, NEW pc, NEW kind, NEW f, NEW text, NEW change,
         Does(r, pc, kind, f, text, change),
         Job(r, [request[r] EXCEPT !.pc = pc, !.kind = kind, !.on = f, !.text = text, !.change = change])
  PROVE  /\ Jobs' /\ Only(r)
         /\ request'[r].pc = pc /\ request'[r].kind = kind /\ request'[r].on = f
         /\ request'[r].text = text /\ request'[r].told = request[r].told
<1> DEFINE q == [request[r] EXCEPT !.pc = pc, !.kind = kind, !.on = f, !.text = text, !.change = change]
<1>1. request' = [request EXCEPT ![r] = q]
  BY DEF Jobs, Does
<1>2. request[r] \in RequestType
  BY DEF Jobs
<1>3. /\ q.pc = pc /\ q.kind = kind /\ q.on = f /\ q.text = text /\ q.told = request[r].told
  BY <1>2 DEF RequestType
<1> HIDE DEF q
<1> QED
  BY <1>1, <1>3, Becomes DEF q

-----------------------------------------------------------------------------
(* What a step does to the values of the files.                            *)

LEMMA ValuesHeld ==
  ASSUME KeptInv, NEW f \in Files
  PROVE  /\ Changing(f) \subseteq Clients
         /\ ValueOf(f) \in Held(f) /\ file[f].value \in Held(f)
         /\ f \notin spoiled => file[f].value \in {ValueOf(f)} \cup Flaws
         /\ Changing(f) = {} => file[f].value = ValueOf(f)
<1>1. ValueOf(f) \in Held(f) /\ file[f].value \in Held(f)
  BY DEF KeptInv, FilesHeld, IsFile, ValueOf
<1>2. ASSUME f \notin spoiled, file[f].value # ValueOf(f)
      PROVE  file[f].value = Empty
  <2>1. Writers(f) # {}
    BY <1>2 DEF ValueOf, Writers
  <2>2. file[f] = Text(f, Empty)
    BY <1>2, <2>1 DEF KeptInv, Kept
  <2> QED
    BY <2>2 DEF Text
<1> QED
  BY <1>1, <1>2 DEF Changing, ValueOf, Flaws

(* A request goes on and changes no file.                                  *)
LEMMA NothingChanges ==
  ASSUME KeptInv, NEW r \in Clients, Only(r), request[r].pc \notin InChange, request'[r].pc \notin InChange,
         UNCHANGED <<file, before, spoiled>>
  PROVE  /\ \A f \in Files : Changing(f)' = Changing(f) /\ ValueOf(f)' = ValueOf(f)
         /\ Kept'
<1>1. ASSUME NEW f \in Files
      PROVE  Changing(f)' = Changing(f) /\ r \notin Changing(f) /\ Writers(f)' = Writers(f)
  BY DEF Changing, Only, Writers
<1>2. ASSUME NEW f \in Files
      PROVE  ValueOf(f)' = ValueOf(f)
  BY <1>1 DEF ValueOf, Writers
<1>3. \A f \in Files : \A q \in Changing(f) : request'[q] = request[q]
  BY <1>1 DEF Only, Changing
<1> QED
  BY <1>1, <1>2, <1>3 DEF KeptInv, Kept

(* A request begins to change a file.                                      *)
LEMMA OneJoins ==
  ASSUME KeptInv, NEW r \in Clients, NEW f \in Files, Only(r), request[r].pc \notin InChange,
         request'[r].pc \in {"assign", "truncate"}, request'[r].on = f,
         Joins(f), UNCHANGED <<file, before>>,
         Changing(f) = {} => /\ request'[r].text \in ChangedBy(f, ValueOf(f))
                             /\ request'[r].kind = "loadProjectMeta" => ValueOf(f) = Missing
  PROVE  /\ \A g \in Files : Changing(g)' = (IF g = f THEN Changing(g) \cup {r} ELSE Changing(g))
         /\ \A g \in Files : ValueOf(g)' = ValueOf(g)
         /\ Kept'
<1>1. ASSUME NEW g \in Files
      PROVE  /\ Changing(g)' = (IF g = f THEN Changing(g) \cup {r} ELSE Changing(g))
             /\ r \notin Changing(g) /\ Writers(g)' = Writers(g)
  BY DEF Changing, Only, Writers, InChange
<1>2. ASSUME NEW g \in Files
      PROVE  ValueOf(g)' = ValueOf(g)
  BY <1>1 DEF ValueOf, Writers
<1>3. \A g \in Files : \A q \in Changing(g) : request'[q] = request[q]
  BY <1>1 DEF Only, Changing
<1>4. Kept'
  <2>1. SUFFICES ASSUME NEW g \in Files, g \notin spoiled'
        PROVE  /\ \A p, q \in Changing(g)' : p = q
               /\ Writers(g)' # {} => file'[g] = Text(g, Empty)
               /\ \A q \in Changing(g)' :
                    /\ request'[q].text \in ChangedBy(g, ValueOf(g)')
                    /\ request'[q].kind = "loadProjectMeta" => ValueOf(g)' = Missing
    BY <1>2 DEF Kept
  <2>2. g \notin spoiled /\ (g = f => Changing(f) = {})
    BY <2>1 DEF Joins
  <2>3. /\ \A p, q \in Changing(g) : p = q
        /\ Writers(g) # {} => file[g] = Text(g, Empty)
        /\ \A q \in Changing(g) :
             /\ request[q].text \in ChangedBy(g, ValueOf(g))
             /\ request[q].kind = "loadProjectMeta" => ValueOf(g) = Missing
    BY <2>2 DEF KeptInv, Kept
  <2> QED
    BY <1>1, <1>2, <1>3, <2>2, <2>3
<1> QED
  BY <1>1, <1>2, <1>4

(* A request that is changing a file empties it, or assigns first.         *)
LEMMA OneGoesOn ==
  ASSUME KeptInv, NEW r \in Clients, NEW f \in Files, Only(r), request[r].on = f, request'[r].on = f,
         request[r].pc \in {"assign", "truncate"}, request'[r].pc \in {"truncate", "write"},
         request'[r].text = request[r].text, request'[r].kind = request[r].kind,
         UNCHANGED spoiled,
         IF request'[r].pc = "write"
         THEN /\ file' = [file EXCEPT ![f] = Text(f, Empty)]
              /\ before' = [before EXCEPT ![f] = ValueOf(f)]
         ELSE UNCHANGED <<file, before>>
  PROVE  /\ \A g \in Files : Changing(g)' = Changing(g) /\ ValueOf(g)' = ValueOf(g)
         /\ Kept'
<1>1. ASSUME NEW g \in Files
      PROVE  /\ Changing(g)' = Changing(g)
             /\ Writers(g)' = IF g = f /\ request'[r].pc = "write" THEN Writers(g) \cup {r} ELSE Writers(g)
  BY DEF Changing, Only, Writers, InChange
<1>2. ASSUME NEW g \in Files
      PROVE  ValueOf(g)' = ValueOf(g)
  <2>1. ValueOf(g) = IF Writers(g) # {} THEN before[g] ELSE file[g].value
    BY DEF ValueOf, Writers
  <2>2. ValueOf(g)' = IF Writers(g)' # {} THEN before'[g] ELSE file'[g].value
    BY DEF ValueOf, Writers
  <2>3. CASE g = f /\ request'[r].pc = "write"
    <3>1. before'[g] = ValueOf(f)
      BY <2>3 DEF KeptInv, FilesHeld
    <3> QED
      BY <1>1, <2>2, <2>3, <3>1
  <2>4. CASE ~(g = f /\ request'[r].pc = "write")
    <3>1. before'[g] = before[g] /\ file'[g] = file[g]
      BY <2>4 DEF KeptInv, FilesHeld
    <3> QED
      BY <1>1, <2>1, <2>2, <2>4, <3>1
  <2> QED
    BY <2>3, <2>4
<1>3. \A q \in Clients : request'[q].text = request[q].text /\ request'[q].kind = request[q].kind
  BY DEF Only
<1>4. Kept'
  <2>1. SUFFICES ASSUME NEW g \in Files, g \notin spoiled
        PROVE  /\ \A p, q \in Changing(g) : p = q
               /\ Writers(g)' # {} => file'[g] = Text(g, Empty)
               /\ \A q \in Changing(g) :
                    /\ request'[q].text \in ChangedBy(g, ValueOf(g))
                    /\ request'[q].kind = "loadProjectMeta" => ValueOf(g) = Missing
    BY <1>1, <1>2 DEF Kept
  <2>2. /\ \A p, q \in Changing(g) : p = q
        /\ Writers(g) # {} => file[g] = Text(g, Empty)
        /\ \A q \in Changing(g) :
             /\ request[q].text \in ChangedBy(g, ValueOf(g))
             /\ request[q].kind = "loadProjectMeta" => ValueOf(g) = Missing
    BY <2>1 DEF KeptInv, Kept
  <2>3. Writers(g)' # {} => file'[g] = Text(g, Empty)
    <3>1. CASE g = f /\ request'[r].pc = "write"
      BY <3>1 DEF KeptInv, FilesHeld
    <3>2. CASE ~(g = f /\ request'[r].pc = "write")
      <4>1. file'[g] = file[g]
        BY <3>2 DEF KeptInv, FilesHeld
      <4> QED
        BY <1>1, <2>2, <3>2, <4>1
    <3> QED
      BY <3>1, <3>2
  <2> QED
    BY <1>3, <2>2, <2>3 DEF Changing
<1> QED
  BY <1>1, <1>2, <1>4

(* A request has changed a file, or given up to.                           *)
LEMMA OneLeaves ==
  ASSUME KeptInv, NEW r \in Clients, NEW f \in Files, Only(r), request[r].on = f,
         request[r].pc \in InChange, request'[r].pc \notin InChange,
         spoiled \subseteq spoiled',
         IF request[r].pc = "write"
         THEN \E c : file' = [file EXCEPT ![f] = c]
         ELSE UNCHANGED file,
         UNCHANGED before
  PROVE  /\ \A g \in Files : Changing(g)' = IF g = f THEN Changing(g) \ {r} ELSE Changing(g)
         /\ \A g \in Files : g # f \/ request[r].pc # "write" => ValueOf(g)' = ValueOf(g)
         /\ Writers(f)' = {} => ValueOf(f)' = file'[f].value
         /\ Kept'
<1>1. ASSUME NEW g \in Files
      PROVE  /\ Changing(g)' = (IF g = f THEN Changing(g) \ {r} ELSE Changing(g))
             /\ Writers(g)' = (IF g = f THEN Writers(g) \ {r} ELSE Writers(g))
             /\ r \in Changing(g) <=> g = f
  BY DEF Changing, Only, Writers, InChange
<1>2. ASSUME NEW g \in Files, g # f \/ request[r].pc # "write"
      PROVE  ValueOf(g)' = ValueOf(g) /\ Writers(g)' = Writers(g) /\ file'[g] = file[g]
  <2>1. file'[g] = file[g]
    BY <1>2 DEF KeptInv, FilesHeld
  <2>2. Writers(g)' = Writers(g)
    BY <1>1, <1>2 DEF Writers
  <2> QED
    BY <2>1, <2>2 DEF ValueOf, Writers
<1>3. Writers(f)' = {} => ValueOf(f)' = file'[f].value
  BY DEF ValueOf, Writers
<1>4. \A q \in Clients \ {r} : request'[q] = request[q]
  BY DEF Only
<1>5. Kept'
  <2>1. SUFFICES ASSUME NEW g \in Files, g \notin spoiled
        PROVE  /\ \A p, q \in Changing(g)' : p = q
               /\ Writers(g)' # {} => file'[g] = Text(g, Empty)
               /\ \A q \in Changing(g)' :
                    /\ request'[q].text \in ChangedBy(g, ValueOf(g)')
                    /\ request'[q].kind = "loadProjectMeta" => ValueOf(g)' = Missing
    BY DEF Kept
  <2>2. /\ \A p, q \in Changing(g) : p = q
        /\ Writers(g) # {} => file[g] = Text(g, Empty)
        /\ \A q \in Changing(g) :
             /\ request[q].text \in ChangedBy(g, ValueOf(g))
             /\ request[q].kind = "loadProjectMeta" => ValueOf(g) = Missing
    BY <2>1 DEF KeptInv, Kept
  <2>3. CASE g = f
    <3>1. Changing(g)' = {} /\ Writers(g)' = {}
      BY <1>1, <2>2, <2>3 DEF Writers
    <3> QED
      BY <3>1
  <2>4. CASE g # f
    <3>1. \A q \in Changing(g)' : request'[q] = request[q]
      BY <1>1, <1>4, <2>4 DEF Changing
    <3> QED
      BY <1>1, <1>2, <2>2, <2>4, <3>1
  <2> QED
    BY <2>3, <2>4
<1> QED
  BY <1>1, <1>2, <1>3, <1>5

-----------------------------------------------------------------------------
(* The same seen from the store.                                           *)

StoreStep == Store!Next \/ UNCHANGED Store!vars

LEMMA StoreStutters ==
  ASSUME \A f \in Files : Changing(f)' = Changing(f) /\ ValueOf(f)' = ValueOf(f), UNCHANGED spoiled,
         \A r \in Clients : request'[r].told = request[r].told
  PROVE  StoreStep
BY DEF StoreStep, Store!vars

LEMMA StoreReads ==
  ASSUME KeptInv, NEW r \in Clients, NEW f \in Files, NEW v \in Held(f), Only(r), request'[r].told = <<f, v>>,
         \A g \in Files : Changing(g)' = Changing(g) /\ ValueOf(g)' = ValueOf(g), UNCHANGED spoiled,
         f \notin spoiled /\ Changing(f) = {} => v = ValueOf(f),
         f \notin spoiled => v \in {ValueOf(f)} \cup ChangedBy(f, ValueOf(f)) \cup Flaws
  PROVE  StoreStep
<1>1. v \in Store!Held(f)
  BY DEF Store!Held, Held
<1>2. [q \in Clients |-> request'[q].told] = [[q \in Clients |-> request[q].told] EXCEPT ![r] = <<f, v>>]
  BY DEF Only
<1>3. Store!Read(r, f)
  BY <1>1, <1>2 DEF Store!Read
<1> QED
  BY <1>3 DEF StoreStep, Store!Next

LEMMA StoreOpens ==
  ASSUME NEW r \in Clients, NEW f \in Files, Joins(f),
         \A g \in Files : Changing(g)' = (IF g = f THEN Changing(g) \cup {r} ELSE Changing(g)),
         \A g \in Files : ValueOf(g)' = ValueOf(g),
         \A q \in Clients : request'[q].told = request[q].told
  PROVE  StoreStep
<1>1. Store!Open(r, f)
  BY DEF Store!Open, Joins
<1> QED
  BY <1>1 DEF StoreStep, Store!Next

LEMMA StoreChanges ==
  ASSUME NEW r \in Clients, NEW f \in Files, r \in Changing(f),
         \A g \in Files : Changing(g)' = (IF g = f THEN Changing(g) \ {r} ELSE Changing(g)),
         \A g \in Files \ {f} : ValueOf(g)' = ValueOf(g),
         ValueOf(f)' \in Held(f), f \notin spoiled => ValueOf(f)' \in ChangedBy(f, ValueOf(f)),
         UNCHANGED spoiled, \A q \in Clients : request'[q].told = request[q].told
  PROVE  StoreStep
<1>1. PICK v : v = ValueOf(f)'
  OBVIOUS
<1>2. v \in Store!Held(f)
  BY <1>1 DEF Store!Held, Held
<1>3. [g \in Files |-> ValueOf(g)'] = [[g \in Files |-> ValueOf(g)] EXCEPT ![f] = v]
  BY <1>1
<1>4. Store!Change(r, f)
  BY <1>1, <1>2, <1>3 DEF Store!Change
<1> QED
  BY <1>4 DEF StoreStep, Store!Next

LEMMA StoreGivesUp ==
  ASSUME NEW r \in Clients, NEW f \in Files, r \in Changing(f), Only(r),
         \A g \in Files : Changing(g)' = (IF g = f THEN Changing(g) \ {r} ELSE Changing(g)),
         \A g \in Files : ValueOf(g)' = ValueOf(g),
         spoiled' \in {spoiled, spoiled \cup {f}},
         \/ request'[r].told = request[r].told
         \/ request'[r].told = <<f, Missing>> /\ (f \notin spoiled => Missing = ValueOf(f))
  PROVE  StoreStep
<1>1. Missing \in Store!Held(f)
  BY DEF Store!Held, Flaws
<1>2. CASE request'[r].told = request[r].told
  <2>1. [q \in Clients |-> request'[q].told] = [q \in Clients |-> request[q].told]
    BY <1>2 DEF Only
  <2>2. Store!GiveUp(r, f)
    BY <2>1 DEF Store!GiveUp
  <2> QED
    BY <2>2 DEF StoreStep, Store!Next
<1>3. CASE request'[r].told = <<f, Missing>> /\ (f \notin spoiled => Missing = ValueOf(f))
  <2>1. [q \in Clients |-> request'[q].told] = [[q \in Clients |-> request[q].told] EXCEPT ![r] = <<f, Missing>>]
    BY <1>3 DEF Only
  <2>2. Store!GiveUp(r, f)
    BY <1>1, <1>3, <2>1 DEF Store!GiveUp
  <2> QED
    BY <2>2 DEF StoreStep, Store!Next
<1> QED
  BY <1>2, <1>3

LEMMA StoreDies ==
  ASSUME KeptInv,
         \A f \in Files : Changing(f)' = {} /\ ValueOf(f)' = file[f].value,
         spoiled' = spoiled \cup {f \in Files : Changing(f) # {}},
         \A q \in Clients : request'[q].told = request[q].told
  PROVE  StoreStep
<1>1. ASSUME NEW f \in Files
      PROVE  /\ ValueOf(f)' \in Store!Held(f)
             /\ Changing(f) = {} => ValueOf(f)' = ValueOf(f)
  BY <1>1, ValuesHeld DEF Store!Held, Held
<1>2. [f \in Files |-> ValueOf(f)'] \in [Files -> UNION {Store!Held(f) : f \in Files}]
  BY <1>1
<1>3. spoiled' = spoiled \cup {f \in Files : [g \in Files |-> Changing(g)][f] # {}}
  OBVIOUS
<1>4. Store!Die
  BY <1>1, <1>2, <1>3 DEF Store!Die
<1> QED
  BY <1>4 DEF StoreStep, Store!Next

-----------------------------------------------------------------------------
(* The steps of requests.                                                  *)

(* What a step has to do.                                                  *)
Keeps == Jobs' /\ Kept' /\ EnvironsInFile' /\ StoreStep

ToldRight(f, v) ==
  /\ v \in Held(f)
  /\ f \notin spoiled /\ Changing(f) = {} => v = ValueOf(f)
  /\ f \notin spoiled => v \in {ValueOf(f)} \cup ChangedBy(f, ValueOf(f)) \cup Flaws

LEMMA QuietKeeps ==
  ASSUME KeptInv, NEW r \in Requests, Jobs', Only(r), request[r].pc \notin InChange, request'[r].pc \notin InChange,
         UNCHANGED <<file, before, spoiled, environments>>,
         \/ request'[r].told = request[r].told
         \/ \E f \in Files, v \in Values : request'[r].told = <<f, v>> /\ ToldRight(f, v)
  PROVE  Keeps
<1>1. r \in Clients /\ Starter \in Clients \ {r}
  BY Requesters
<1>2. (\A f \in Files : Changing(f)' = Changing(f) /\ ValueOf(f)' = ValueOf(f)) /\ Kept'
  BY <1>1, NothingChanges
<1>3. EnvironsInFile'
  BY <1>1, <1>2, FileNames DEF KeptInv, EnvironsInFile, Up, Only
<1>4. StoreStep
  <2>1. CASE request'[r].told = request[r].told
    BY <1>1, <1>2, <2>1, StoreStutters DEF Only
  <2>2. ASSUME NEW f \in Files, NEW v \in Values, request'[r].told = <<f, v>>, ToldRight(f, v)
        PROVE  StoreStep
    BY <1>1, <1>2, <2>2, StoreReads DEF ToldRight
  <2> QED
    BY <2>1, <2>2
<1> QED
  BY <1>2, <1>3, <1>4 DEF Keeps

LEMMA FileToldRight ==
  ASSUME KeptInv, NEW f \in Files
  PROVE  ToldRight(f, file[f].value) /\ file[f].value \in Values
BY ValuesHeld, ValueTypes DEF ToldRight

(* A request is told what is in its file.                                  *)
LEMMA TellingKeeps ==
  ASSUME KeptInv, NEW r \in Requests, request[r].pc \notin InChange,
         request' = Told(r, "done", file[request[r].on].value),
         UNCHANGED <<file, before, spoiled, environments>>
  PROVE  Keeps
<1>1. r \in Clients /\ r # Starter
  BY Requesters
<1>2. request[r].on \in Files /\ Jobs
  BY <1>1 DEF KeptInv, Jobs, RequestType
<1>3. PICK v : v = file[request[r].on].value
  OBVIOUS
<1>4. v \in Held(request[r].on)
  BY <1>2, <1>3, ValuesHeld
<1>5. Jobs' /\ Only(r) /\ request'[r].pc = "done" /\ request'[r].told = <<request[r].on, v>>
  BY <1>1, <1>2, <1>3, <1>4, JobIsTold
<1>6. ToldRight(request[r].on, v) /\ v \in Values
  BY <1>2, <1>3, FileToldRight
<1> QED
  BY <1>2, <1>5, <1>6, QuietKeeps DEF InChange

(* A request goes on that does not change its file.                        *)
LEMMA GoingOnKeeps ==
  ASSUME KeptInv, NEW r \in Requests, request[r].pc \notin InChange, NEW pc \in {"done", "loadAgain"},
         pc = "loadAgain" => request[r].kind = "loadProjectMeta",
         request' = Goes(r, pc), UNCHANGED <<file, before, spoiled, environments>>
  PROVE  Keeps
<1>1. r \in Clients /\ r # Starter /\ Jobs /\ Job(r, request[r])
  BY Requesters DEF KeptInv, Jobs
<1>2. Job(r, [request[r] EXCEPT !.pc = pc])
  BY <1>1 DEF Job, RequestType, PCs, InChange
<1>3. /\ Jobs' /\ Only(r) /\ request'[r].pc = pc /\ request'[r].told = request[r].told
  BY <1>1, <1>2, JobGoesOn DEF PCs
<1> QED
  BY <1>3, QuietKeeps DEF InChange

LEMMA BeginningKeeps ==
  ASSUME KeptInv, NEW r \in Requests, request[r].pc = "idle",
         NEW kind \in Kinds, NEW f \in Files, NEW text \in Values, NEW change \in SomeChange,
         \/ kind \in {"loadProjectMeta", "changeProjectMeta"} /\ \E p \in Projects : f = ProjectFile(p)
         \/ kind = "readProjectFile" /\ \E p \in Projects : f = RunFile(p)
         \/ kind = "loadWorkspaceMeta" /\ f = WorkspaceFile
         \/ kind = "setActiveProject" /\ f = WorkspaceFile /\ text \in Projects,
         Does(r, "load", kind, f, text, change), UNCHANGED <<file, before, spoiled, environments>>
  PROVE  Keeps
<1>1. r \in Clients /\ r # Starter /\ Jobs /\ Job(r, request[r])
  BY Requesters DEF KeptInv, Jobs
<1> DEFINE q == [request[r] EXCEPT !.pc = "load", !.kind = kind, !.on = f, !.text = text, !.change = change]
<1>2. /\ q \in RequestType
      /\ q.pc = "load" /\ q.kind = kind /\ q.on = f /\ q.text = text /\ q.told = request[r].told
  BY <1>1 DEF Job, RequestType, PCs
<1>3. Job(r, q)
  <2> HIDE DEF q
  <2> QED
    BY <1>1, <1>2 DEF Job, InChange
<1>4. Jobs' /\ Only(r) /\ request'[r].pc = "load" /\ request'[r].told = request[r].told
  BY <1>1, <1>3, JobBegins
<1> QED
  BY <1>4, QuietKeeps DEF InChange

LEMMA QuietActions ==
  ASSUME KeptInv, NEW r \in Requests,
         \/ WithoutProject(r) \/ LoadProjectMeta(r) \/ ChangeProjectMeta(r) \/ ReadProjectFile(r)
         \/ LoadWorkspaceMeta(r) \/ SetActiveProject(r) \/ ReadRaw(r)
  PROVE  Keeps
<1>1. UNCHANGED <<file, before, spoiled, environments>>
  BY DEF WithoutProject, LoadProjectMeta, ChangeProjectMeta, ReadProjectFile, LoadWorkspaceMeta,
         SetActiveProject, ReadRaw, fileVars
<1>2. /\ Active \subseteq Projects /\ known \subseteq Projects
      /\ \A p \in Projects : ProjectFile(p) \in Files /\ RunFile(p) \in Files
      /\ WorkspaceFile \in Files
  BY FileNames DEF KeptInv, ActiveKnown
<1>3. Missing \in Values /\ <<>> \in SomeChange /\ Projects \subseteq Values /\ Changes \subseteq SomeChange
  BY DEF Values, Flaws, SomeChange
<1>4. CASE WithoutProject(r)
  BY <1>1, <1>4, GoingOnKeeps DEF WithoutProject, Arrives, Refuse, InChange
<1>5. CASE LoadProjectMeta(r)
  <2>1. PICK p \in Active : Does(r, "load", "loadProjectMeta", ProjectFile(p), Missing, <<>>)
    BY <1>5 DEF LoadProjectMeta
  <2>2. request[r].pc = "idle"
    BY <1>5 DEF LoadProjectMeta, Arrives
  <2> QED
    BY <1>1, <1>2, <1>3, <2>1, <2>2, BeginningKeeps DEF Kinds
<1>6. CASE ChangeProjectMeta(r)
  <2>1. PICK p \in Active, c \in Changes : Does(r, "load", "changeProjectMeta", ProjectFile(p), Missing, c)
    BY <1>6 DEF ChangeProjectMeta
  <2>2. request[r].pc = "idle"
    BY <1>6 DEF ChangeProjectMeta, Arrives
  <2> QED
    BY <1>1, <1>2, <1>3, <2>1, <2>2, BeginningKeeps DEF Kinds
<1>7. CASE ReadProjectFile(r)
  <2>1. PICK p \in known : Does(r, "load", "readProjectFile", RunFile(p), Missing, <<>>)
    BY <1>7 DEF ReadProjectFile
  <2>2. request[r].pc = "idle"
    BY <1>7 DEF ReadProjectFile, Arrives
  <2> QED
    BY <1>1, <1>2, <1>3, <2>1, <2>2, BeginningKeeps DEF Kinds
<1>8. CASE LoadWorkspaceMeta(r)
  BY <1>1, <1>2, <1>3, <1>8, BeginningKeeps DEF Kinds, LoadWorkspaceMeta, Arrives
<1>9. CASE SetActiveProject(r)
  <2>1. PICK p \in Projects : Does(r, "load", "setActiveProject", WorkspaceFile, p, <<>>)
    BY <1>9 DEF SetActiveProject
  <2>2. request[r].pc = "idle"
    BY <1>9 DEF SetActiveProject, Arrives
  <2> QED
    BY <1>1, <1>2, <1>3, <2>1, <2>2, BeginningKeeps DEF Kinds
<1>10. CASE ReadRaw(r)
  BY <1>1, <1>10, TellingKeeps DEF ReadRaw, InChange
<1> QED
  BY <1>4, <1>5, <1>6, <1>7, <1>8, <1>9, <1>10

(* What is copied while nobody changes the settings is what they hold.     *)
LEMMA CopyKeeps ==
  ASSUME KeptInv, NEW r \in Requests, CopyEnvironments(r)
  PROVE  Keeps
<1>1. r \in Clients /\ r # Starter /\ Jobs /\ Job(r, request[r])
  BY Requesters DEF KeptInv, Jobs
<1>2. PICK v \in Seen : request' = [request EXCEPT ![r] = [@ EXCEPT !.pc = "done", !.told = <<SettingsFile, v>>]]
  BY DEF CopyEnvironments
<1>3. /\ Up /\ request[r].pc = "idle" /\ UNCHANGED <<file, before, spoiled, environments>>
  BY DEF CopyEnvironments, Arrives, fileVars
<1>4. v \in Environs /\ SettingsFile \in Files /\ WholeOf(SettingsFile) = Environs
  <2>1. ASSUME NEW p \in Requests, request[p].pc = "assign"
        PROVE  request[p].text \in Environs
    <3>1. Job(p, request[p])
      BY Requesters DEF KeptInv, Jobs
    <3> QED
      BY <2>1, <3>1 DEF Job
  <2> QED
    BY <2>1, FileNames DEF Seen, KeptInv
<1>5. v \in Held(SettingsFile) /\ v \in Values
  BY <1>4, ValueTypes DEF Held
<1>6. SettingsFile \notin spoiled /\ Changing(SettingsFile) = {} => v = ValueOf(SettingsFile)
  <2>1. SUFFICES ASSUME SettingsFile \notin spoiled, Changing(SettingsFile) = {}
        PROVE  v = ValueOf(SettingsFile)
    OBVIOUS
  <2>2. ASSUME NEW p \in Requests, request[p].pc = "assign"
        PROVE  FALSE
    <3>1. p \in Clients /\ Job(p, request[p])
      BY Requesters DEF KeptInv, Jobs
    <3>2. request[p].on = SettingsFile
      BY <2>2, <3>1 DEF Job
    <3> QED
      BY <2>1, <2>2, <3>1, <3>2 DEF Changing, InChange
  <2>3. v = environments
    BY <2>2 DEF Seen
  <2> QED
    BY <1>3, <1>4, <2>1, <2>3, ValuesHeld DEF KeptInv, EnvironsInFile
<1>7. ChangedBy(SettingsFile, ValueOf(SettingsFile)) = Environs
  BY <1>4 DEF ChangedBy, SettingsFile
<1>8. ToldRight(SettingsFile, v)
  BY <1>4, <1>5, <1>6, <1>7 DEF ToldRight
<1> DEFINE q == [request[r] EXCEPT !.pc = "done", !.told = <<SettingsFile, v>>]
<1>9. request' = [request EXCEPT ![r] = q]
  BY <1>1, <1>2 DEF Jobs
<1>10. /\ q \in RequestType
       /\ q.pc = "done" /\ q.told = <<SettingsFile, v>> /\ q.on = request[r].on /\ q.kind = request[r].kind
       /\ q.text = request[r].text
  BY <1>1, <1>4, <1>5 DEF Job, RequestType, PCs, SomeRead
<1>11. Job(r, q)
  <2> HIDE DEF q
  <2>1. q.told[2] \in Held(q.told[1])
    BY <1>5, <1>10
  <2> QED
    BY <1>1, <1>10, <2>1 DEF Job, InChange
<1>12. Jobs' /\ Only(r) /\ request'[r].pc = "done" /\ request'[r].told = <<SettingsFile, v>>
  <2> HIDE DEF q
  <2> QED
    BY <1>1, <1>9, <1>10, <1>11, Becomes
<1> QED
  BY <1>3, <1>4, <1>5, <1>8, <1>12, QuietKeeps DEF InChange

-----------------------------------------------------------------------------
(* The steps that begin to change a file.                                  *)

LEMMA JoiningKeeps ==
  ASSUME KeptInv, NEW r \in Clients, NEW f \in Files, Jobs', Only(r), request[r].pc \notin InChange,
         request'[r].pc \in {"assign", "truncate"}, request'[r].on = f, request'[r].told = request[r].told,
         r = Starter => f = SettingsFile,
         Joins(f), UNCHANGED <<file, before, environments>>,
         Changing(f) = {} => /\ request'[r].text \in ChangedBy(f, ValueOf(f))
                             /\ request'[r].kind = "loadProjectMeta" => ValueOf(f) = Missing
  PROVE  Keeps
<1>1. /\ \A g \in Files : Changing(g)' = (IF g = f THEN Changing(g) \cup {r} ELSE Changing(g))
      /\ \A g \in Files : ValueOf(g)' = ValueOf(g)
      /\ Kept'
  BY OneJoins
<1>2. EnvironsInFile'
  <2>1. CASE f = SettingsFile
    BY <1>1, <2>1 DEF EnvironsInFile
  <2>2. CASE f # SettingsFile
    <3>1. Changing(SettingsFile)' = Changing(SettingsFile) /\ request'[Starter] = request[Starter]
      BY <1>1, <2>2, FileNames, Requesters DEF Only
    <3>2. spoiled \subseteq spoiled'
      BY DEF Joins
    <3> QED
      BY <3>1, <3>2 DEF KeptInv, EnvironsInFile, Up
  <2> QED
    BY <2>1, <2>2
<1>3. StoreStep
  BY <1>1, StoreOpens DEF Only
<1> QED
  BY <1>1, <1>2, <1>3 DEF Keeps

LEMMA ChangedValues ==
  ASSUME NEW f \in Files, NEW v
  PROVE  f[1] # "project" => ChangedBy(f, v) = WholeOf(f)
BY DEF ChangedBy

LEMMA FileKinds ==
  /\ SettingsFile[1] # "project" /\ WorkspaceFile[1] # "project"
  /\ \A p \in Projects : ProjectFile(p)[1] = "project" /\ RunFile(p)[1] # "project"
BY DEF SettingsFile, WorkspaceFile, ProjectFile, RunFile

(* What is injected into a project file is a change of what it held.       *)
LEMMA InjectChanges ==
  ASSUME NEW f \in Files, f[1] = "project", NEW c \in SomeChange, NEW v \in [Flags -> BOOLEAN] \cup {Missing}
  PROVE  Inject(c, v) \in ChangedBy(f, v)
<1>1. v \in Flaws <=> v = Missing
  BY MetaAssumption DEF Flaws
<1> QED
  BY <1>1 DEF Inject, ChangedBy

LEMMA DefaultsChange ==
  ASSUME NEW f \in Files, f[1] = "project"
  PROVE  Defaults \in ChangedBy(f, Missing)
<1>1. <<>> \in SomeChange /\ Missing \in Flaws /\ DOMAIN <<>> = {}
  BY DEF SomeChange, Flaws
<1>2. Defaults = [k \in Flags |-> IF k \in DOMAIN <<>> THEN <<>>[k] ELSE IF Missing \in Flaws THEN FALSE ELSE Missing[k]]
  BY <1>1 DEF Defaults
<1> QED
  BY <1>1, <1>2 DEF ChangedBy

(* A request saves what it has made of what it read.                       *)
LEMMA SavingKeeps ==
  ASSUME KeptInv, NEW r \in Requests, NEW text \in [Flags -> BOOLEAN], Saves(r, text),
         \/ request[r].pc = "load" /\ request[r].kind = "changeProjectMeta"
         \/ request[r].pc \in {"loadAgain", "reload"} /\ file[request[r].on].value = Missing,
         text \in ChangedBy(request[r].on, file[request[r].on].value),
         UNCHANGED <<file, before, environments>>
  PROVE  Keeps
<1>1. r \in Clients /\ r # Starter /\ Jobs /\ Job(r, request[r]) /\ request[r].on \in Files
  BY Requesters DEF KeptInv, Jobs, RequestType
<1>2. request[r].kind \in {"loadProjectMeta", "changeProjectMeta"} /\ request[r].pc \notin InChange
  BY <1>1 DEF Job, InChange
<1>3. WholeOf(request[r].on) = [Flags -> BOOLEAN]
  BY <1>1, <1>2, FileNames DEF Job
<1> DEFINE q == [request[r] EXCEPT !.pc = "truncate", !.text = text]
<1>4. request' = [request EXCEPT ![r] = q] /\ Joins(request[r].on)
  BY <1>1 DEF Jobs, Saves
<1>5. /\ q \in RequestType
      /\ q.pc = "truncate" /\ q.text = text /\ q.on = request[r].on /\ q.kind = request[r].kind
      /\ q.told = request[r].told
  <2>1. text \in Values
    BY DEF Values
  <2> QED
    BY <1>1, <2>1 DEF Job, RequestType, PCs
<1> HIDE DEF q
<1>6. Job(r, q)
  BY <1>1, <1>2, <1>3, <1>5 DEF Job, InChange
<1>7. Jobs' /\ Only(r) /\ request'[r] = q
  BY <1>1, <1>4, <1>6, Becomes
<1>8. ASSUME Changing(request[r].on) = {}
      PROVE  /\ text \in ChangedBy(request[r].on, ValueOf(request[r].on))
             /\ request[r].kind = "loadProjectMeta" => ValueOf(request[r].on) = Missing
  BY <1>1, <1>8, ValuesHeld
<1> QED
  BY <1>1, <1>2, <1>4, <1>5, <1>7, <1>8, JoiningKeeps

LEMMA ProjectActions ==
  ASSUME KeptInv, NEW r \in Requests, LoadProject(r) \/ Raw(r)
  PROVE  Keeps
<1>1. r \in Clients /\ r # Starter /\ Jobs /\ Job(r, request[r]) /\ request[r].on \in Files
  BY Requesters DEF KeptInv, Jobs, RequestType
<1>2. /\ request[r].kind \in {"loadProjectMeta", "changeProjectMeta"} /\ request[r].pc \notin InChange
      /\ UNCHANGED <<file, before, environments>>
  BY <1>1 DEF LoadProject, Raw, Job, InChange, fileVars
<1>3. WholeOf(request[r].on) = [Flags -> BOOLEAN] /\ request[r].on[1] = "project"
  BY <1>1, <1>2, FileNames, FileKinds DEF Job
<1>4. PICK v : v = file[request[r].on].value
  OBVIOUS
<1>5. v \in [Flags -> BOOLEAN] \cup {Missing, Empty, Torn}
  BY <1>1, <1>3, <1>4, ValuesHeld DEF Held, Flaws
<1>6. CASE LoadProject(r)
  <2>1. request[r].change \in SomeChange
    BY <1>1 DEF Job, RequestType
  <2>2. ASSUME v \notin {Empty, Torn}, Saves(r, Inject(request[r].change, v)), request[r].pc = "load",
               request[r].kind = "changeProjectMeta"
        PROVE  Keeps
    <3>1. v \in [Flags -> BOOLEAN] \cup {Missing}
      BY <1>5, <2>2
    <3>2. Inject(request[r].change, v) \in [Flags -> BOOLEAN] \cap ChangedBy(request[r].on, v)
      BY <1>1, <1>3, <2>1, <3>1, InjectType, InjectChanges
    <3> QED
      BY <1>2, <1>4, <2>2, <3>2, SavingKeeps
  <2>3. ASSUME request' = Goes(r, "done") \/ (request' = Goes(r, "loadAgain") /\ request[r].kind = "loadProjectMeta"),
               UNCHANGED spoiled
        PROVE  Keeps
    BY <1>2, <2>3, GoingOnKeeps
  <2>4. ASSUME request' = Told(r, "done", v), UNCHANGED spoiled
        PROVE  Keeps
    BY <1>2, <1>4, <2>4, TellingKeeps
  <2> QED
    BY <1>4, <1>6, <2>2, <2>3, <2>4 DEF LoadProject, Refuse
<1>7. CASE Raw(r)
  <2>1. CASE v = Missing
    <3>1. Saves(r, Defaults) /\ request[r].pc \in {"loadAgain", "reload"}
      BY <1>4, <1>7, <2>1 DEF Raw
    <3>2. Defaults \in [Flags -> BOOLEAN] \cap ChangedBy(request[r].on, v)
      BY <1>1, <1>3, <2>1, DefaultsChange, ValueTypes
    <3> QED
      BY <1>2, <1>4, <2>1, <3>1, <3>2, SavingKeeps
  <2>2. CASE v # Missing
    BY <1>2, <1>4, <1>7, <2>2, TellingKeeps DEF Raw
  <2> QED
    BY <2>1, <2>2
<1> QED
  BY <1>6, <1>7

LEMMA WorkspaceActions ==
  ASSUME KeptInv, NEW r \in Requests, LoadWorkspace(r)
  PROVE  Keeps
<1>1. r \in Clients /\ r # Starter /\ Jobs /\ Job(r, request[r]) /\ request[r].on \in Files
  BY Requesters DEF KeptInv, Jobs, RequestType
<1>2. /\ request[r].pc = "load" /\ request[r].on = WorkspaceFile
      /\ UNCHANGED <<file, before, environments>>
  BY DEF LoadWorkspace, fileVars
<1>3. PICK v : v = file[WorkspaceFile].value
  OBVIOUS
<1>4. CASE request[r].kind = "loadWorkspaceMeta" \/ v = Torn
  BY <1>2, <1>3, <1>4, TellingKeeps DEF LoadWorkspace, InChange
<1>5. CASE ~(request[r].kind = "loadWorkspaceMeta" \/ v = Torn)
  <2>1. request' = Goes(r, "truncate") /\ Joins(WorkspaceFile)
    BY <1>3, <1>5 DEF LoadWorkspace
  <2>2. request[r].kind = "setActiveProject" /\ request[r].text \in Projects
    <3>1. \A p \in Projects : ProjectFile(p) # WorkspaceFile /\ RunFile(p) # WorkspaceFile
      BY FileNames
    <3>2. request[r].kind \in Kinds
      BY <1>1 DEF Job, RequestType
    <3>3. request[r].kind = "setActiveProject"
      BY <1>1, <1>2, <1>5, <3>1, <3>2, FileNames DEF Job, Kinds
    <3> QED
      BY <1>1, <3>3 DEF Job
  <2> DEFINE q == [request[r] EXCEPT !.pc = "truncate"]
  <2>3. /\ q \in RequestType
        /\ q.pc = "truncate" /\ q.text = request[r].text /\ q.on = request[r].on /\ q.kind = request[r].kind
        /\ q.told = request[r].told
    BY <1>1 DEF Job, RequestType, PCs
  <2>4. Job(r, q)
    <3> HIDE DEF q
    <3> QED
      BY <1>1, <1>2, <2>2, <2>3, FileNames DEF Job, InChange
  <2>5. /\ Jobs' /\ Only(r)
        /\ request'[r].pc = "truncate" /\ request'[r].kind = request[r].kind /\ request'[r].on = request[r].on
        /\ request'[r].text = request[r].text /\ request'[r].told = request[r].told
    BY <1>1, <2>1, <2>4, JobGoesOn DEF PCs
  <2>6. \A w : ChangedBy(WorkspaceFile, w) = Projects
    BY FileNames, FileKinds, ChangedValues
  <2> QED
    BY <1>1, <1>2, <2>1, <2>2, <2>5, <2>6, JoiningKeeps DEF InChange
<1> QED
  BY <1>4, <1>5

LEMMA SaveActions ==
  ASSUME KeptInv, NEW r \in Requests, SaveProjectFile(r) \/ SaveEnvironments(r)
  PROVE  Keeps
<1>1. r \in Clients /\ r # Starter /\ Jobs /\ Job(r, request[r])
  BY Requesters DEF KeptInv, Jobs
<1>2. PICK f \in Files, pc \in {"assign", "truncate"}, kind \in Kinds, text \in Values :
        /\ text \in WholeOf(f)
        /\ Does(r, pc, kind, f, text, <<>>) /\ Joins(f)
        /\ \/ pc = "truncate" /\ kind = "saveProjectFile" /\ (\E p \in Projects : f = RunFile(p))
           \/ pc = "assign" /\ kind = "saveEnvironments" /\ f = SettingsFile /\ text \in Environs
  <2>1. CASE SaveProjectFile(r)
    <3>1. PICK p \in known, t \in Texts :
            Does(r, "truncate", "saveProjectFile", RunFile(p), t, <<>>) /\ Joins(RunFile(p))
      BY <2>1 DEF SaveProjectFile
    <3>2. p \in Projects
      BY DEF KeptInv, ActiveKnown
    <3> QED
      BY <3>1, <3>2, FileNames DEF Kinds, Values
  <2>2. CASE SaveEnvironments(r)
    BY <2>2, FileNames DEF SaveEnvironments, Kinds, Values
  <2> QED
    BY <2>1, <2>2
<1>3. request[r].pc = "idle" /\ UNCHANGED <<file, before, environments>>
  BY DEF SaveProjectFile, SaveEnvironments, Arrives, fileVars
<1>4. text \in Values /\ <<>> \in SomeChange /\ f[1] # "project"
  BY <1>2, ValueTypes, FileKinds DEF Held, SomeChange
<1> DEFINE q == [request[r] EXCEPT !.pc = pc, !.kind = kind, !.on = f, !.text = text, !.change = <<>>]
<1>5. /\ q \in RequestType
      /\ q.pc = pc /\ q.kind = kind /\ q.on = f /\ q.text = text /\ q.told = request[r].told
  BY <1>1, <1>4 DEF Job, RequestType, PCs
<1>6. Job(r, q)
  <2> HIDE DEF q
  <2> QED
    BY <1>1, <1>2, <1>5 DEF Job, InChange
<1>7. /\ Jobs' /\ Only(r)
      /\ request'[r].pc = pc /\ request'[r].kind = kind /\ request'[r].on = f
      /\ request'[r].text = text /\ request'[r].told = request[r].told
  BY <1>1, <1>2, <1>6, JobBegins
<1>8. text \in ChangedBy(f, ValueOf(f)) /\ kind # "loadProjectMeta"
  BY <1>2, <1>4, ChangedValues
<1> QED
  BY <1>1, <1>2, <1>3, <1>7, <1>8, JoiningKeeps DEF InChange

-----------------------------------------------------------------------------
(* The steps that change it, or give up to.                                *)

(* A request that is changing a file goes to pc.                           *)
LEMMA ChangerGoesOn ==
  ASSUME KeptInv, NEW r \in Clients, request[r].pc \in InChange,
         NEW pc \in {"truncate", "write", "done", "idle", "reload"}, request' = Goes(r, pc),
         pc = "truncate" => request[r].pc = "assign",
         pc = "write" => request[r].pc = "truncate",
         pc = "idle" => r = Starter,
         pc = "reload" => request[r].kind = "loadProjectMeta"
  PROVE  /\ Jobs' /\ Only(r)
         /\ request'[r].pc = pc /\ request'[r].kind = request[r].kind /\ request'[r].on = request[r].on
         /\ request'[r].text = request[r].text /\ request'[r].told = request[r].told
<1>1. Jobs /\ Job(r, request[r])
  BY DEF KeptInv, Jobs
<1> DEFINE q == [request[r] EXCEPT !.pc = pc]
<1>2. /\ q \in RequestType
      /\ q.pc = pc /\ q.text = request[r].text /\ q.on = request[r].on /\ q.kind = request[r].kind
      /\ q.told = request[r].told
  BY <1>1 DEF Job, RequestType, PCs
<1>3. Job(r, q)
  <2> HIDE DEF q
  <2> QED
    BY <1>1, <1>2, FileNames DEF Job, InChange
<1> QED
  BY <1>1, <1>3, JobGoesOn DEF PCs

LEMMA AssignedKeeps ==
  ASSUME KeptInv, NEW r \in Requests, Assigned(r)
  PROVE  Keeps
<1>1. r \in Clients /\ Job(r, request[r])
  BY Requesters DEF KeptInv, Jobs
<1>2. request[r].pc = "assign" /\ request' = Goes(r, "truncate") /\ UNCHANGED <<file, before, spoiled>>
  BY DEF Assigned, fileVars
<1>3. request[r].on = SettingsFile /\ SettingsFile \in Files
  BY <1>1, <1>2, FileNames DEF Job
<1>4. /\ Jobs' /\ Only(r)
      /\ request'[r].pc = "truncate" /\ request'[r].kind = request[r].kind /\ request'[r].on = request[r].on
      /\ request'[r].text = request[r].text /\ request'[r].told = request[r].told
  BY <1>1, <1>2, ChangerGoesOn DEF InChange
<1>5. (\A g \in Files : Changing(g)' = Changing(g) /\ ValueOf(g)' = ValueOf(g)) /\ Kept'
  BY <1>1, <1>2, <1>3, <1>4, OneGoesOn
<1>6. r \in Changing(SettingsFile)
  BY <1>1, <1>2, <1>3 DEF Changing, InChange
<1>7. EnvironsInFile'
  BY <1>3, <1>5, <1>6 DEF EnvironsInFile
<1>8. StoreStep
  BY <1>2, <1>4, <1>5, StoreStutters DEF Only
<1> QED
  BY <1>4, <1>5, <1>7, <1>8 DEF Keeps

LEMMA OpeningKeeps ==
  ASSUME KeptInv, NEW r \in Clients, OpenToWrite(r)
  PROVE  Keeps
<1>1. Job(r, request[r]) /\ request[r].on \in Files
  BY DEF KeptInv, Jobs, RequestType
<1> DEFINE f == request[r].on
<1>2. /\ request[r].pc = "truncate" /\ request' = Goes(r, "write") /\ UNCHANGED <<spoiled, environments>>
      /\ file' = [file EXCEPT ![f] = Text(f, Empty)]
      /\ before' = [before EXCEPT ![f] = ValueOf(f)]
  BY <1>1 DEF OpenToWrite, ValueOf, KeptInv, FilesHeld
<1>3. /\ Jobs' /\ Only(r)
      /\ request'[r].pc = "write" /\ request'[r].kind = request[r].kind /\ request'[r].on = request[r].on
      /\ request'[r].text = request[r].text /\ request'[r].told = request[r].told
  BY <1>2, ChangerGoesOn DEF InChange
<1>4. (\A g \in Files : Changing(g)' = Changing(g) /\ ValueOf(g)' = ValueOf(g)) /\ Kept'
  BY <1>1, <1>2, <1>3, OneGoesOn
<1>5. EnvironsInFile'
  <2>1. CASE f = SettingsFile
    <3>1. r \in Changing(SettingsFile)
      BY <1>2, <2>1 DEF Changing, InChange
    <3> QED
      BY <1>1, <1>4, <2>1, <3>1 DEF EnvironsInFile
  <2>2. CASE f # SettingsFile
    <3>1. file'[SettingsFile] = file[SettingsFile]
      BY <1>2, <2>2, FileNames DEF KeptInv, FilesHeld
    <3>2. Up' => Up
      BY <1>2, <1>3, Requesters DEF Up, Only
    <3> QED
      BY <1>2, <1>4, <3>1, <3>2, FileNames DEF KeptInv, EnvironsInFile
  <2> QED
    BY <2>1, <2>2
<1>6. StoreStep
  BY <1>2, <1>3, <1>4, StoreStutters DEF Only
<1> QED
  BY <1>3, <1>4, <1>5, <1>6 DEF Keeps

LEMMA CannotOpenKeeps ==
  ASSUME KeptInv, NEW r \in Clients, CannotOpen(r)
  PROVE  Keeps
<1>1. Jobs /\ Job(r, request[r]) /\ request[r].on \in Files
  BY DEF KeptInv, Jobs, RequestType
<1>2. PICK f \in Files : f = request[r].on
  BY <1>1
<1>3. /\ request[r].pc = "truncate" /\ UNCHANGED <<file, before, environments>>
      /\ spoiled' = IF request[r].kind = "saveEnvironments" THEN spoiled \cup {f} ELSE spoiled
      /\ request' = IF r = Starter THEN Goes(r, "idle")
                    ELSE IF request[r].kind = "loadProjectMeta" THEN Told(r, "done", Missing)
                    ELSE Goes(r, "done")
  BY <1>2 DEF CannotOpen, fileVars
<1>4. /\ Jobs' /\ Only(r) /\ request'[r].pc \in {"idle", "done"} /\ (r = Starter => request'[r].pc = "idle")
      /\ \/ request'[r].told = request[r].told
         \/ request'[r].told = <<f, Missing>> /\ request[r].kind = "loadProjectMeta"
  <2>1. CASE r = Starter
    BY <1>3, <2>1, ChangerGoesOn DEF InChange
  <2>2. CASE r # Starter /\ request[r].kind = "loadProjectMeta"
    <3>1. Missing \in Held(request[r].on)
      BY DEF Held, Flaws
    <3> QED
      BY <1>1, <1>2, <1>3, <2>2, <3>1, JobIsTold
  <2>3. CASE r # Starter /\ request[r].kind # "loadProjectMeta"
    BY <1>3, <2>3, ChangerGoesOn DEF InChange
  <2> QED
    BY <2>1, <2>2, <2>3
<1>5. spoiled \subseteq spoiled' /\ spoiled' \in {spoiled, spoiled \cup {f}}
  BY <1>3
<1>6. r \in Changing(f)
  BY <1>2, <1>3 DEF Changing, InChange
<1>7. /\ \A g \in Files : Changing(g)' = (IF g = f THEN Changing(g) \ {r} ELSE Changing(g))
      /\ \A g \in Files : ValueOf(g)' = ValueOf(g)
      /\ Kept'
  <2>1. request[r].pc \in InChange /\ request'[r].pc \notin InChange /\ request[r].pc # "write"
    BY <1>3, <1>4 DEF InChange
  <2> QED
    BY <1>2, <1>3, <1>4, <1>5, <2>1, OneLeaves
<1>8. EnvironsInFile'
  <2>1. CASE r = Starter
    BY <1>4, <2>1 DEF EnvironsInFile, Up
  <2>2. CASE r # Starter /\ f = SettingsFile
    <3>1. \A p \in Projects : ProjectFile(p) # SettingsFile /\ RunFile(p) # SettingsFile
      BY FileNames
    <3>2. request[r].kind \in Kinds
      BY <1>1 DEF Job, RequestType
    <3>3. request[r].kind = "saveEnvironments"
      BY <1>1, <1>2, <1>3, <2>2, <3>1, <3>2, FileNames DEF Job, Kinds, InChange
    <3> QED
      BY <1>3, <2>2, <3>3 DEF EnvironsInFile
  <2>3. CASE r # Starter /\ f # SettingsFile
    <3>1. Changing(SettingsFile)' = Changing(SettingsFile) /\ request'[Starter] = request[Starter]
      BY <1>4, <1>7, <2>3, FileNames, Requesters DEF Only
    <3> QED
      BY <1>3, <1>5, <3>1 DEF KeptInv, EnvironsInFile, Up
  <2> QED
    BY <2>1, <2>2, <2>3
<1>9. \/ request'[r].told = request[r].told
      \/ request'[r].told = <<f, Missing>> /\ (f \notin spoiled => Missing = ValueOf(f))
  BY <1>4, <1>6 DEF KeptInv, Kept
<1>10. StoreStep
  BY <1>4, <1>5, <1>6, <1>7, <1>9, StoreGivesUp
<1> QED
  BY <1>4, <1>7, <1>8, <1>10 DEF Keeps

(* What is written over a file is a file.                                  *)
LEMMA OverType ==
  ASSUME NEW f \in Files, NEW c, IsFile(f, c), NEW v \in WholeOf(f)
  PROVE  /\ IsFile(f, Over(f, c, v)) /\ Over(f, c, v).value \in {v, Torn}
         /\ c.size = 0 => Over(f, c, v).value = v
<1>1. c.size \in Nat /\ v \in Held(f) /\ v \in Values /\ v # Torn /\ Torn \in Held(f) /\ Torn \in Values
  BY ValueTypes DEF IsFile, FileType, Held, Flaws
<1>2. PICK s \in Nat : s = Size(f, v)
  BY <1>1, SizeType
<1>3. PICK n \in Nat : n = c.size
  BY <1>1
<1>4. CASE s < n
  <2>1. Over(f, c, v) = [value |-> Torn, size |-> n]
    BY <1>2, <1>3, <1>4 DEF Over
  <2>2. n > 0
    BY <1>4
  <2> QED
    BY <1>1, <1>3, <2>1, <2>2 DEF IsFile, FileType
<1>5. CASE ~(s < n)
  <2>1. Over(f, c, v) = Text(f, v) /\ Text(f, v) = [value |-> v, size |-> s]
    BY <1>2, <1>3, <1>5 DEF Over, Text
  <2> QED
    BY <1>1, <2>1 DEF IsFile, FileType
<1>6. c.size = 0 => ~(s < n)
  BY <1>3
<1> QED
  BY <1>4, <1>5, <1>6

LEMMA WritesWhat ==
  ASSUME KeptInv, NEW r \in Clients, Write(r)
  PROVE  /\ request[r].on \in Files
         /\ \E v \in WholeOf(request[r].on) :
              /\ file' = [file EXCEPT ![request[r].on] = Over(request[r].on, file[request[r].on], v)]
              /\ IF request[r].on = SettingsFile THEN v \in Seen ELSE v = request[r].text
<1>1. Job(r, request[r]) /\ request[r].on \in Files
  BY DEF KeptInv, Jobs, RequestType
<1>2. request[r].text \in WholeOf(request[r].on)
  BY <1>1 DEF Job, Write
<1>3. Seen \subseteq WholeOf(SettingsFile)
  <2>1. ASSUME NEW p \in Requests, request[p].pc = "assign"
        PROVE  request[p].text \in Environs
    <3>1. Job(p, request[p])
      BY Requesters DEF KeptInv, Jobs
    <3> QED
      BY <2>1, <3>1 DEF Job
  <2> QED
    BY <2>1, FileNames DEF Seen, KeptInv
<1> QED
  BY <1>1, <1>2, <1>3 DEF Write, KeptInv, FilesHeld

LEMMA WritingKeeps ==
  ASSUME KeptInv, NEW r \in Clients, Write(r)
  PROVE  Keeps
<1>1. PICK f \in Files : f = request[r].on
  BY WritesWhat
<1>2. PICK v \in WholeOf(f) :
        /\ file' = [file EXCEPT ![f] = Over(f, file[f], v)]
        /\ IF f = SettingsFile THEN v \in Seen ELSE v = request[r].text
  BY <1>1, WritesWhat
<1>3. /\ request[r].pc = "write" /\ UNCHANGED <<before, spoiled, environments>>
      /\ request' = Goes(r, IF request[r].kind = "loadProjectMeta" THEN "reload" ELSE "done")
  BY DEF Write
<1>4. /\ Jobs' /\ Only(r) /\ request'[r].pc \in {"done", "reload"}
      /\ request'[r].kind = request[r].kind /\ request'[r].on = request[r].on
      /\ request'[r].text = request[r].text /\ request'[r].told = request[r].told
  BY <1>3, ChangerGoesOn DEF InChange
<1>5. r \in Changing(f)
  BY <1>1, <1>3 DEF Changing, InChange
<1>6. /\ \A g \in Files : Changing(g)' = (IF g = f THEN Changing(g) \ {r} ELSE Changing(g))
      /\ \A g \in Files \ {f} : ValueOf(g)' = ValueOf(g)
      /\ Writers(f)' = {} => ValueOf(f)' = file'[f].value
      /\ Kept'
  <2>1. request[r].pc \in InChange /\ request'[r].pc \notin InChange
    BY <1>3, <1>4 DEF InChange
  <2> QED
    BY <1>1, <1>2, <1>3, <1>4, <2>1, OneLeaves
<1>7. /\ file'[f] = Over(f, file[f], v) /\ IsFile(f, file[f])
      /\ file'[f].value \in {v, Torn} /\ (file[f].size = 0 => file'[f].value = v)
  <2>1. file'[f] = Over(f, file[f], v) /\ IsFile(f, file[f])
    BY <1>2 DEF KeptInv, FilesHeld
  <2> QED
    BY <2>1, OverType
<1>8. ValueOf(f)' \in Held(f)
  <2>1. CASE Writers(f)' = {}
    BY <1>6, <1>7, <2>1 DEF Held, Flaws
  <2>2. CASE Writers(f)' # {}
    <3>1. ValueOf(f)' = before'[f]
      BY <2>2 DEF ValueOf, Writers
    <3> QED
      BY <1>3, <3>1 DEF KeptInv, FilesHeld
  <2> QED
    BY <2>1, <2>2
<1>9. ASSUME f \notin spoiled
      PROVE  /\ Changing(f) = {r} /\ Writers(f)' = {} /\ file'[f].value = v
             /\ v \in ChangedBy(f, ValueOf(f))
             /\ f = SettingsFile => v = environments
  <2>1. /\ \A p, q \in Changing(f) : p = q
        /\ Writers(f) # {} => file[f] = Text(f, Empty)
        /\ request[r].text \in ChangedBy(f, ValueOf(f))
    BY <1>5, <1>9 DEF KeptInv, Kept
  <2>2. Changing(f) = {r} /\ r \in Writers(f)
    BY <1>3, <1>5, <2>1 DEF Writers
  <2>3. file[f].size = 0
    BY <2>1, <2>2 DEF Text, Size, Flaws
  <2>4. Writers(f)' = {}
    BY <1>6, <2>2 DEF Writers
  <2>5. v \in ChangedBy(f, ValueOf(f))
    <3>1. CASE f = SettingsFile
      BY <1>2, <3>1, FileKinds, ChangedValues
    <3>2. CASE f # SettingsFile
      BY <1>2, <2>1, <3>2
    <3> QED
      BY <3>1, <3>2
  <2>6. ASSUME f = SettingsFile
        PROVE  v = environments
    <3>1. ASSUME NEW p \in Requests, request[p].pc = "assign"
          PROVE  FALSE
      <4>1. p \in Clients /\ Job(p, request[p])
        BY Requesters DEF KeptInv, Jobs
      <4>2. p \in Changing(f)
        BY <2>6, <3>1, <4>1 DEF Job, Changing, InChange
      <4> QED
        BY <1>3, <2>2, <3>1, <4>2
    <3> QED
      BY <1>2, <2>6, <3>1 DEF Seen
  <2> QED
    BY <1>7, <2>2, <2>3, <2>4, <2>5, <2>6
<1>10. EnvironsInFile'
  <2>1. SUFFICES ASSUME Up', SettingsFile \notin spoiled, Changing(SettingsFile)' = {}
        PROVE  environments = file'[SettingsFile].value
    BY <1>3 DEF EnvironsInFile
  <2>2. CASE f = SettingsFile
    BY <1>9, <2>1, <2>2
  <2>3. CASE f # SettingsFile
    <3>1. file'[SettingsFile] = file[SettingsFile]
      BY <1>2, <2>3, FileNames DEF KeptInv, FilesHeld
    <3>2. r # Starter
      BY <1>1, <2>3 DEF KeptInv, Jobs, Job
    <3>3. Up /\ Changing(SettingsFile) = {}
      BY <1>4, <1>6, <2>1, <2>3, <3>2, FileNames, Requesters DEF Up, Only
    <3> QED
      BY <2>1, <3>1, <3>3 DEF KeptInv, EnvironsInFile
  <2> QED
    BY <2>2, <2>3
<1>11. StoreStep
  <2>1. f \notin spoiled => ValueOf(f)' \in ChangedBy(f, ValueOf(f))
    BY <1>6, <1>9
  <2>2. \A q \in Clients : request'[q].told = request[q].told
    BY <1>4 DEF Only
  <2> QED
    BY <1>3, <1>5, <1>6, <1>8, <2>1, <2>2, StoreChanges
<1> QED
  BY <1>4, <1>6, <1>10, <1>11 DEF Keeps

-----------------------------------------------------------------------------
(* The start and the end of the worker.                                    *)

(* The starter goes on and changes no file.                                *)
LEMMA StarterKeeps ==
  ASSUME KeptInv, Jobs', Only(Starter), request[Starter].pc \notin InChange, request'[Starter].pc \notin InChange,
         UNCHANGED <<file, before, spoiled>>,
         Up' => environments' = file[SettingsFile].value,
         \/ request'[Starter].told = request[Starter].told
         \/ \E f \in Files, v \in Values : request'[Starter].told = <<f, v>> /\ ToldRight(f, v)
  PROVE  Keeps
<1>1. Starter \in Clients
  BY Requesters
<1>2. (\A f \in Files : Changing(f)' = Changing(f) /\ ValueOf(f)' = ValueOf(f)) /\ Kept'
  BY <1>1, NothingChanges
<1>3. EnvironsInFile'
  BY DEF EnvironsInFile
<1>4. StoreStep
  <2>1. CASE request'[Starter].told = request[Starter].told
    BY <1>1, <1>2, <2>1, StoreStutters DEF Only
  <2>2. ASSUME NEW f \in Files, NEW v \in Values, request'[Starter].told = <<f, v>>, ToldRight(f, v)
        PROVE  StoreStep
    BY <1>1, <1>2, <2>2, StoreReads DEF ToldRight
  <2> QED
    BY <2>1, <2>2
<1> QED
  BY <1>2, <1>3, <1>4 DEF Keeps

LEMMA StartKeeps ==
  ASSUME KeptInv, Start
  PROVE  Keeps
<1>1. Starter \in Clients /\ Jobs /\ Job(Starter, request[Starter])
  BY Requesters DEF KeptInv, Jobs
<1> DEFINE q == [request[Starter] EXCEPT !.pc = "load", !.kind = "start", !.on = SettingsFile, !.text = NoEnvirons,
                                         !.change = <<>>]
<1>2. NoEnvirons \in Values /\ <<>> \in SomeChange /\ SettingsFile \in Files /\ NoEnvirons \in Environs
  BY MetaAssumption, FileNames DEF Values, SomeChange
<1>3. /\ q \in RequestType
      /\ q.pc = "load" /\ q.kind = "start" /\ q.on = SettingsFile /\ q.text = NoEnvirons
      /\ q.told = request[Starter].told
  BY <1>1, <1>2 DEF Job, RequestType, PCs, Kinds
<1>4. Job(Starter, q)
  <2> HIDE DEF q
  <2> QED
    BY <1>1, <1>2, <1>3 DEF Job, InChange
<1>5. /\ Jobs' /\ Only(Starter)
      /\ request'[Starter].pc = "load" /\ request'[Starter].told = request[Starter].told
  BY <1>1, <1>4, JobBegins DEF Start
<1>6. request[Starter].pc = "idle" /\ UNCHANGED <<file, before, spoiled>>
  BY DEF Start, fileVars
<1> QED
  BY <1>5, <1>6, StarterKeeps DEF Up, InChange

LEMMA LoadSettingsKeeps ==
  ASSUME KeptInv, LoadSettings
  PROVE  Keeps
<1>1. Starter \in Clients /\ Jobs /\ Job(Starter, request[Starter]) /\ SettingsFile \in Files
  BY Requesters, FileNames DEF KeptInv, Jobs
<1>2. PICK v : v = file[SettingsFile].value
  OBVIOUS
<1>3. request[Starter].pc = "load" /\ request[Starter].on = SettingsFile /\ UNCHANGED <<file, before>>
  BY <1>1 DEF LoadSettings, Job, fileVars
<1>4. CASE v = Missing
  <2>1. request' = Goes(Starter, "truncate") /\ Joins(SettingsFile) /\ UNCHANGED environments
    BY <1>2, <1>4 DEF LoadSettings
  <2>2. request[Starter].kind = "start" /\ request[Starter].text \in Environs
    BY <1>1, <1>3 DEF Job
  <2> DEFINE q == [request[Starter] EXCEPT !.pc = "truncate"]
  <2>3. /\ q \in RequestType
        /\ q.pc = "truncate" /\ q.text = request[Starter].text /\ q.on = request[Starter].on
        /\ q.kind = request[Starter].kind /\ q.told = request[Starter].told
    BY <1>1 DEF Job, RequestType, PCs
  <2>4. Job(Starter, q)
    <3> HIDE DEF q
    <3> QED
      BY <1>1, <1>3, <2>2, <2>3, FileNames DEF Job, InChange
  <2>5. /\ Jobs' /\ Only(Starter)
        /\ request'[Starter].pc = "truncate" /\ request'[Starter].kind = request[Starter].kind
        /\ request'[Starter].on = request[Starter].on
        /\ request'[Starter].text = request[Starter].text /\ request'[Starter].told = request[Starter].told
    BY <1>1, <2>1, <2>4, JobGoesOn DEF PCs
  <2>6. \A w : ChangedBy(SettingsFile, w) = Environs
    BY <1>1, FileNames, FileKinds, ChangedValues
  <2> QED
    BY <1>1, <1>3, <2>1, <2>2, <2>5, <2>6, JoiningKeeps DEF InChange
<1>5. CASE v # Missing
  <2>1. /\ request' = Told(Starter, IF v \in Environs THEN "done" ELSE "failed", v)
        /\ environments' = IF v \in Environs THEN v ELSE environments
        /\ UNCHANGED spoiled
    BY <1>2, <1>5 DEF LoadSettings
  <2>2. v \in Held(request[Starter].on) /\ ToldRight(SettingsFile, v) /\ v \in Values
    BY <1>1, <1>2, <1>3, ValuesHeld, FileToldRight
  <2>3. /\ Jobs' /\ Only(Starter) /\ request'[Starter].pc = (IF v \in Environs THEN "done" ELSE "failed")
        /\ request'[Starter].told = <<SettingsFile, v>>
    BY <1>1, <1>3, <2>1, <2>2, JobIsTold
  <2>4. Up' => environments' = file[SettingsFile].value
    BY <1>2, <2>1, <2>3 DEF Up
  <2>5. request'[Starter].pc \notin InChange
    BY <2>3 DEF InChange
  <2> QED
    BY <1>1, <1>3, <2>1, <2>2, <2>3, <2>4, <2>5, StarterKeeps DEF InChange
<1> QED
  BY <1>4, <1>5

LEMMA DeathKeeps ==
  ASSUME KeptInv, Die
  PROVE  Keeps
<1>1. Starter \in Clients /\ Starter \notin Requests
  BY Requesters
<1>2. /\ request' = [r \in Clients |->
            IF r = Starter THEN [request[r] EXCEPT !.pc = "idle"]
            ELSE IF request[r].pc \in {"idle", "done"} THEN request[r]
            ELSE [request[r] EXCEPT !.pc = "dead"]]
      /\ spoiled' = spoiled \cup {f \in Files : Changing(f) # {}}
      /\ UNCHANGED file
  BY DEF Die, fileVars
<1>3. ASSUME NEW r \in Clients
      PROVE  /\ Job(r, request'[r]) /\ request'[r].pc \in {"idle", "done", "dead"}
             /\ request'[r].told = request[r].told
             /\ r = Starter => request'[r].pc = "idle"
  <2>1. Job(r, request[r]) /\ request[r] \in RequestType
    BY DEF KeptInv, Jobs
  <2>2. /\ request'[r] \in RequestType /\ request'[r].pc \in {"idle", "done", "dead"}
        /\ request'[r].kind = request[r].kind /\ request'[r].on = request[r].on
        /\ request'[r].text = request[r].text /\ request'[r].told = request[r].told
        /\ (r = Starter => request'[r].pc = "idle")
    BY <1>2, <2>1 DEF RequestType, PCs
  <2> QED
    BY <2>1, <2>2 DEF Job, InChange
<1>4. Jobs'
  <2>1. request' \in [Clients -> RequestType]
    BY <1>2, <1>3 DEF Job
  <2> QED
    BY <1>3, <2>1 DEF Jobs
<1>5. ASSUME NEW f \in Files
      PROVE  Changing(f)' = {} /\ ValueOf(f)' = file[f].value
  BY <1>2, <1>3 DEF Changing, ValueOf, InChange
<1>6. Kept'
  BY <1>5 DEF Kept, Writers
<1>7. EnvironsInFile'
  BY <1>1, <1>3 DEF EnvironsInFile, Up
<1>8. StoreStep
  BY <1>2, <1>3, <1>5, StoreDies
<1> QED
  BY <1>4, <1>6, <1>7, <1>8 DEF Keeps

-----------------------------------------------------------------------------
(* All steps.                                                              *)

LEMMA NextKeeps ==
  ASSUME KeptInv, Next
  PROVE  Keeps
<1>1. CASE Start \/ LoadSettings \/ Die
  BY <1>1, StartKeeps, LoadSettingsKeeps, DeathKeeps
<1>2. ASSUME NEW r \in Requests, Request(r)
      PROVE  Keeps
  BY <1>2, QuietActions, CopyKeeps, ProjectActions, WorkspaceActions, SaveActions, AssignedKeeps DEF Request
<1>3. ASSUME NEW r \in Clients, OpenToWrite(r) \/ CannotOpen(r) \/ Write(r)
      PROVE  Keeps
  BY <1>3, OpeningKeeps, CannotOpenKeeps, WritingKeeps
<1> QED
  BY <1>1, <1>2, <1>3 DEF Next

LEMMA FilesStay ==
  ASSUME KeptInv, Next
  PROVE  FilesHeld'
<1>1. CASE UNCHANGED fileVars
  BY <1>1 DEF KeptInv, FilesHeld, fileVars
<1>2. ASSUME NEW r \in Clients, OpenToWrite(r)
      PROVE  FilesHeld'
  <2>1. PICK f \in Files : f = request[r].on
    BY DEF KeptInv, Jobs, RequestType
  <2>2. /\ file' = [file EXCEPT ![f] = Text(f, Empty)]
        /\ before' = [before EXCEPT ![f] = ValueOf(f)]
    BY <1>2, <2>1 DEF OpenToWrite, ValueOf, KeptInv, FilesHeld
  <2>3. IsFile(f, Text(f, Empty)) /\ Text(f, Empty) \in FileType
    BY ValueTypes DEF IsFile, Text, FileType, Size, Held, Values
  <2>4. ValueOf(f) \in Held(f)
    BY ValuesHeld
  <2> QED
    BY <2>2, <2>3, <2>4 DEF KeptInv, FilesHeld
<1>3. ASSUME NEW r \in Clients, Write(r)
      PROVE  FilesHeld'
  <2>1. PICK f \in Files, v \in UNION {WholeOf(g) : g \in Files} :
          v \in WholeOf(f) /\ file' = [file EXCEPT ![f] = Over(f, file[f], v)]
    BY <1>3, WritesWhat
  <2>2. IsFile(f, Over(f, file[f], v)) /\ Over(f, file[f], v) \in FileType
    BY <2>1, OverType DEF KeptInv, FilesHeld, IsFile
  <2>3. UNCHANGED before
    BY <1>3 DEF Write
  <2> QED
    BY <2>1, <2>2, <2>3 DEF KeptInv, FilesHeld
<1>4. UNCHANGED fileVars \/ \E r \in Clients : OpenToWrite(r) \/ Write(r)
  BY DEF Next, Request, Start, LoadSettings, Die, WithoutProject, LoadProjectMeta, ChangeProjectMeta, ReadProjectFile,
     SaveProjectFile, LoadWorkspaceMeta, SetActiveProject, SaveEnvironments, CopyEnvironments, Assigned, ReadRaw,
     LoadWorkspace, LoadProject, Raw, CannotOpen
<1> QED
  BY <1>1, <1>2, <1>3, <1>4

LEMMA ProjectsStay ==
  ASSUME KeptInv, Next
  PROVE  ActiveKnown'
<1>1. CASE UNCHANGED <<stored, known>>
  BY <1>1 DEF KeptInv, ActiveKnown, Active, Load
<1>2. CASE Die
  <2>1. /\ stored' = [s \in Sessions |-> Opened(None)] /\ known' = {}
        /\ DOMAIN Opened(None) = DOMAIN EmptySession /\ Opened(None).activeProject = None
    BY <1>2 DEF Die, Opened, EmptySession
  <2> QED
    BY <2>1 DEF ActiveKnown, Active, Load
<1>3. ASSUME NEW r \in Requests, SetActiveProject(r)
      PROVE  ActiveKnown'
  <2>1. PICK s \in Sessions, p \in Projects :
          PartiallySave(s, Load(s), "activeProject", p) /\ known' = known \cup {p}
    BY <1>3 DEF SetActiveProject
  <2>2. stored' = [stored EXCEPT ![s] = [stored[s] EXCEPT !.activeProject = p]]
    BY <2>1 DEF PartiallySave, KeptInv, ActiveKnown
  <2>3. \A q \in Sessions : q # s => stored'[q] = stored[q]
    BY <2>2 DEF KeptInv, ActiveKnown
  <2>4. DOMAIN stored' = Sessions /\ DOMAIN stored'[s] = DOMAIN EmptySession /\ stored'[s].activeProject = p
    BY <2>2 DEF KeptInv, ActiveKnown, EmptySession
  <2> QED
    BY <2>1, <2>3, <2>4 DEF KeptInv, ActiveKnown, Active, Load
<1>4. UNCHANGED <<stored, known>> \/ Die \/ \E r \in Requests : SetActiveProject(r)
  BY DEF Next, Request, Start, LoadSettings, WithoutProject, LoadProjectMeta, ChangeProjectMeta, ReadProjectFile,
     SaveProjectFile, LoadWorkspaceMeta, SaveEnvironments, CopyEnvironments, Assigned, ReadRaw, LoadWorkspace,
     LoadProject, Raw, OpenToWrite, CannotOpen, Write, storageVars
<1> QED
  BY <1>1, <1>2, <1>3, <1>4

LEMMA CountsStay ==
  ASSUME KeptInv, Next
  PROVE  environments' \in Environs /\ deaths' \in 0 .. MaxDeaths /\ spoiled' \subseteq Files
<1>1. environments' \in Environs
  <2>1. ASSUME NEW r \in Requests, Assigned(r)
        PROVE  environments' \in Environs
    <3>1. Job(r, request[r])
      BY Requesters DEF KeptInv, Jobs
    <3> QED
      BY <2>1, <3>1 DEF Assigned, Job
  <2>2. CASE LoadSettings \/ Die
    BY <2>2, MetaAssumption DEF LoadSettings, Die, KeptInv
  <2>3. UNCHANGED environments \/ LoadSettings \/ Die \/ \E r \in Requests : Assigned(r)
    BY DEF Next, Request, Start, WithoutProject, LoadProjectMeta, ChangeProjectMeta, ReadProjectFile, SaveProjectFile,
       LoadWorkspaceMeta, SetActiveProject, SaveEnvironments, CopyEnvironments, ReadRaw, LoadWorkspace, LoadProject,
       Raw, OpenToWrite, CannotOpen, Write
  <2> QED
    BY <2>1, <2>2, <2>3 DEF KeptInv
<1>2. deaths' \in 0 .. MaxDeaths
  <2>1. CASE Die
    BY <2>1, MetaAssumption DEF Die, KeptInv
  <2>2. CASE UNCHANGED deaths
    BY <2>2 DEF KeptInv
  <2>3. UNCHANGED deaths \/ Die
    BY DEF Next, Request, Start, LoadSettings, WithoutProject, LoadProjectMeta, ChangeProjectMeta, ReadProjectFile,
       SaveProjectFile, LoadWorkspaceMeta, SetActiveProject, SaveEnvironments, CopyEnvironments, Assigned, ReadRaw,
       LoadWorkspace, LoadProject, Raw, OpenToWrite, CannotOpen, Write
  <2> QED
    BY <2>1, <2>2, <2>3
<1>3. spoiled' \subseteq Files
  <2>1. ASSUME NEW r \in Clients
        PROVE  request[r].on \in Files
    BY DEF KeptInv, Jobs, RequestType
  <2>2. CASE Die
    BY <2>2 DEF Die, KeptInv
  <2>3. UNCHANGED spoiled \/ Die \/ \E f \in Files : Joins(f) \/ spoiled' = spoiled \cup {f}
    BY <2>1, FileNames, Requesters DEF Next, Request, Start, LoadSettings, WithoutProject, LoadProjectMeta,
       ChangeProjectMeta, ReadProjectFile, SaveProjectFile, LoadWorkspaceMeta, SetActiveProject, SaveEnvironments,
       CopyEnvironments, Assigned, ReadRaw, LoadWorkspace, LoadProject, Raw, Saves, OpenToWrite, CannotOpen, Write,
       KeptInv, ActiveKnown
  <2> QED
    BY <2>2, <2>3 DEF KeptInv, Joins
<1> QED
  BY <1>1, <1>2, <1>3

LEMMA KeptInit == Init => KeptInv /\ Store!Init
<1> SUFFICES ASSUME Init
             PROVE  KeptInv /\ Store!Init
  OBVIOUS
<1>1. file \in [Files -> FileType] /\ \A f \in Files : IsFile(f, file[f])
  BY FirstAssumption DEF Init
<1>2. FilesHeld
  BY <1>1 DEF Init, FilesHeld, Held, Flaws
<1>3. Jobs
  <2>1. Missing \in Values /\ <<>> \in SomeChange /\ <<>> \in SomeRead /\ SettingsFile \in Files
    BY FileNames DEF Values, Flaws, SomeChange, SomeRead
  <2>2. Idle \in RequestType
    BY <2>1 DEF Idle, RequestType, PCs, Kinds
  <2>3. ASSUME NEW r \in Clients
        PROVE  Job(r, Idle)
    BY <2>2 DEF Job, Idle, InChange
  <2> QED
    BY <2>2, <2>3 DEF Init, Jobs
<1>4. ActiveKnown
  <2>1. DOMAIN Opened(None) = DOMAIN EmptySession /\ Opened(None).activeProject = None
    BY DEF Opened, EmptySession
  <2> QED
    BY <2>1 DEF Init, ActiveKnown, Active, Load
<1>5. ASSUME NEW f \in Files
      PROVE  Changing(f) = {} /\ ValueOf(f) = file[f].value
  BY DEF Init, Idle, Changing, ValueOf, InChange
<1>6. environments \in Environs /\ deaths \in 0 .. MaxDeaths /\ spoiled \subseteq Files
  BY MetaAssumption DEF Init
<1>7. Kept /\ EnvironsInFile
  BY <1>5 DEF Init, Idle, Kept, Writers, EnvironsInFile, Up, Clients
<1>8. Store!Init
  <2>1. [f \in Files |-> ValueOf(f)] \in {v \in [Files -> UNION {Store!Held(f) : f \in Files}] :
                                            \A f \in Files : v[f] \in Store!Held(f)}
    BY <1>1, <1>5 DEF Store!Held, Held, IsFile
  <2>2. [r \in Clients |-> request[r].told] = [c \in Clients |-> <<>>]
    BY DEF Init, Idle
  <2>3. [f \in Files |-> Changing(f)] = [f \in Files |-> {}] /\ spoiled = {}
    BY <1>5 DEF Init
  <2> QED
    BY <2>1, <2>2, <2>3 DEF Store!Init
<1> QED
  BY <1>2, <1>3, <1>4, <1>6, <1>7, <1>8 DEF KeptInv

LEMMA KeptStep == KeptInv /\ [Next]_vars => KeptInv' /\ [Store!Next]_(Store!vars)
<1> SUFFICES ASSUME KeptInv, [Next]_vars
             PROVE  KeptInv' /\ [Store!Next]_(Store!vars)
  OBVIOUS
<1>1. CASE Next
  BY <1>1, NextKeeps, FilesStay, ProjectsStay, CountsStay DEF Keeps, KeptInv, StoreStep
<1>2. CASE UNCHANGED vars
  <2>1. UNCHANGED <<stored, file, environments, request, deaths, known, before, spoiled>>
    BY <1>2 DEF vars, storageVars
  <2>2. KeptInv'
    BY <2>1 DEF KeptInv, Jobs, FilesHeld, ActiveKnown, Active, Load, Kept, EnvironsInFile, Writers, ValueOf, Changing, Up
  <2>3. UNCHANGED Store!vars
    BY <2>1 DEF Store!vars, ValueOf, Changing
  <2> QED
    BY <2>2, <2>3
<1> QED
  BY <1>1, <1>2

(* Every reachable state of the small files and of the handlers that work  *)
(* on them has the types they declare: what a file holds fits its length,  *)
(* and what is saved in a file is of its kind.                             *)
THEOREM TypeCorrect == Spec => []TypeOK
BY KeptInit, KeptStep, TypesFollow, PTL DEF Spec

(* project_persistence.cpp, workspace_persistence.cpp, public_settings.cpp:*)
(* for any number of handlers, files and deaths of the worker, a file that *)
(* no two change at a time is a variable that is read and changed in one   *)
(* step.                                                                   *)
THEOREM StoreImplemented == Spec => ImplementsStore
BY KeptInit, KeptStep, PTL DEF Spec, ImplementsStore, Store!Spec
-----------------------------------------------------------------------------
(* The start.                                                              *)

(* No handler runs before the settings are loaded.                         *)
StarterAlone ==
  request[Starter].pc # "done" => \A r \in Requests : request[r].pc \in {"idle", "done", "dead"}

(* Settings that are not spoiled are settings, or not there.               *)
SettingsWhole == SettingsFile \notin spoiled => ValueOf(SettingsFile) \in Environs \cup {Missing}

StartsInv == StarterAlone /\ SettingsWhole /\ StartsAgain

(* Whose step it is: a request moves when the worker is up, or has begun.  *)
LEMMA OneMoves ==
  ASSUME KeptInv, Next, ~Die
  PROVE  \E r \in Clients :
           /\ Only(r)
           /\ IF r = Starter THEN request[r].pc # "done" ELSE Up \/ request[r].pc \notin {"idle", "done", "dead"}
<1>1. CASE Start \/ LoadSettings
  <2>1. request[Starter].pc \in {"idle", "load"}
    BY <1>1 DEF Start, LoadSettings
  <2>2. Only(Starter)
    BY <1>1 DEF Start, LoadSettings, Does, Goes, Told, KeptInv, Jobs, Only
  <2> QED
    BY <2>1, <2>2, Requesters
<1>2. ASSUME NEW r \in Requests, Request(r)
      PROVE  r \in Clients \ {Starter} /\ Only(r) /\ (Up \/ request[r].pc \notin {"idle", "done", "dead"})
  <2>1. Only(r)
    BY <1>2 DEF Request, WithoutProject, LoadProjectMeta, ChangeProjectMeta, ReadProjectFile, SaveProjectFile,
       LoadWorkspaceMeta, SetActiveProject, SaveEnvironments, CopyEnvironments, Assigned, ReadRaw, LoadWorkspace,
       LoadProject, Raw, Refuse, Saves, Does, Goes, Told, KeptInv, Jobs, Only
  <2>2. Up \/ request[r].pc \notin {"idle", "done", "dead"}
    BY <1>2 DEF Request, Arrives, WithoutProject, LoadProjectMeta, ChangeProjectMeta, ReadProjectFile, SaveProjectFile,
       LoadWorkspaceMeta, SetActiveProject, SaveEnvironments, CopyEnvironments, Assigned, ReadRaw, LoadWorkspace,
       LoadProject, Raw
  <2> QED
    BY <2>1, <2>2, Requesters
<1>3. ASSUME NEW r \in Clients, OpenToWrite(r) \/ CannotOpen(r) \/ Write(r)
      PROVE  Only(r) /\ request[r].pc \in {"truncate", "write"}
  BY <1>3 DEF OpenToWrite, CannotOpen, Write, Goes, Told, KeptInv, Jobs, Only
<1> QED
  BY <1>1, <1>2, <1>3 DEF Next

LEMMA AloneStays ==
  ASSUME KeptInv, StarterAlone, Next
  PROVE  StarterAlone'
<1>1. CASE Die
  BY <1>1, Requesters DEF Die, StarterAlone, KeptInv, Jobs, RequestType
<1>2. CASE ~Die
  <2>1. PICK r \in Clients :
          /\ Only(r)
          /\ IF r = Starter THEN request[r].pc # "done" ELSE Up \/ request[r].pc \notin {"idle", "done", "dead"}
    BY <1>2, OneMoves
  <2>2. CASE r = Starter
    BY <2>1, <2>2, Requesters DEF StarterAlone, Only
  <2>3. CASE r # Starter
    <3>1. Up /\ request'[Starter] = request[Starter]
      BY <2>1, <2>3, Requesters DEF StarterAlone, Only, Up, Clients
    <3> QED
      BY <3>1 DEF StarterAlone, Up
  <2> QED
    BY <2>2, <2>3
<1> QED
  BY <1>1, <1>2

(* This is a property of the store.                                        *)
LEMMA WholeStays ==
  ASSUME KeptInv, SettingsWhole, StoreStep
  PROVE  SettingsWhole'
<1>1. SettingsFile \in Files /\ \A v : ChangedBy(SettingsFile, v) = Environs
  BY FileNames, FileKinds, ChangedValues
<1> DEFINE value == [f \in Files |-> ValueOf(f)]
<1>2. spoiled \subseteq spoiled'
  BY DEF StoreStep, Store!Next, Store!Open, Store!Change, Store!GiveUp, Store!Read, Store!Die, Store!vars
<1>3. \/ UNCHANGED value
      \/ \E f \in Files, r \in Clients : Store!Change(r, f)
      \/ Store!Die
  BY DEF StoreStep, Store!Next, Store!Open, Store!GiveUp, Store!Read, Store!vars
<1>4. CASE UNCHANGED value
  <2>1. ValueOf(SettingsFile)' = ValueOf(SettingsFile)
    BY <1>1, <1>4
  <2> QED
    BY <1>2, <2>1 DEF SettingsWhole
<1>5. ASSUME NEW f \in Files, NEW r \in Clients, Store!Change(r, f)
      PROVE  SettingsWhole'
  <2>1. PICK v : value' = [value EXCEPT ![f] = v] /\ (f \notin spoiled => v \in ChangedBy(f, value[f]))
    BY <1>5 DEF Store!Change
  <2>2. ValueOf(SettingsFile)' = IF f = SettingsFile THEN v ELSE ValueOf(SettingsFile)
    BY <1>1, <2>1
  <2> QED
    BY <1>1, <1>2, <2>1, <2>2 DEF SettingsWhole
<1>6. CASE Store!Die
  <2>1. \/ ValueOf(SettingsFile)' = ValueOf(SettingsFile)
        \/ Changing(SettingsFile) # {} /\ SettingsFile \in spoiled'
    BY <1>1, <1>6 DEF Store!Die
  <2> QED
    BY <1>2, <2>1 DEF SettingsWhole
<1> QED
  BY <1>3, <1>4, <1>5, <1>6

LEMMA StartsStay ==
  ASSUME KeptInv, StartsInv, Next, Keeps
  PROVE  StartsAgain'
<1>1. spoiled \subseteq spoiled'
  BY DEF Keeps, StoreStep, Store!Next, Store!Open, Store!Change, Store!GiveUp, Store!Read, Store!Die, Store!vars
<1>2. CASE LoadSettings
  <2>1. SUFFICES ASSUME request'[Starter].pc = "failed", SettingsFile \notin spoiled
        PROVE  FALSE
    BY <1>1 DEF StartsAgain
  <2>2. request[Starter].pc = "load" /\ file[SettingsFile].value \notin Environs \cup {Missing}
    BY <1>2, <2>1, Requesters DEF LoadSettings, Goes, Told, KeptInv, Jobs, RequestType
  <2>3. Changing(SettingsFile) = {}
    BY <2>2 DEF StartsInv, StarterAlone, Changing, InChange, Clients
  <2> QED
    BY <2>1, <2>2, <2>3, ValuesHeld, FileNames DEF StartsInv, SettingsWhole
<1>3. CASE ~LoadSettings
  <2>1. request'[Starter].pc = "failed" => request[Starter].pc = "failed"
    <3>1. CASE Start \/ Die
      BY <3>1, Requesters DEF Start, Does, Die, KeptInv, Jobs, RequestType
    <3>2. ASSUME NEW r \in Requests, Request(r)
          PROVE  request'[Starter] = request[Starter]
      BY <3>2, Requesters DEF Request, WithoutProject, LoadProjectMeta, ChangeProjectMeta, ReadProjectFile,
         SaveProjectFile, LoadWorkspaceMeta, SetActiveProject, SaveEnvironments, CopyEnvironments, Assigned, ReadRaw,
         LoadWorkspace, LoadProject, Raw, Refuse, Saves, Does, Goes, Told, KeptInv, Jobs
    <3>3. ASSUME NEW r \in Clients, OpenToWrite(r) \/ CannotOpen(r) \/ Write(r)
          PROVE  request'[Starter].pc # "failed" \/ request'[Starter] = request[Starter]
      BY <3>3, Requesters DEF OpenToWrite, CannotOpen, Write, Goes, Told, KeptInv, Jobs, RequestType
    <3> QED
      BY <1>3, <3>1, <3>2, <3>3 DEF Next
  <2> QED
    BY <1>1, <2>1 DEF StartsInv, StartsAgain
<1> QED
  BY <1>2, <1>3

LEMMA StartsInit == Init => StartsInv
<1>1. ASSUME Init
      PROVE  ValueOf(SettingsFile) = file[SettingsFile].value /\ file[SettingsFile].value \in Environs \cup {Missing}
  BY <1>1, FirstAssumption DEF Init, ValueOf, Changing, InChange, Idle
<1> QED
  BY <1>1, Requesters DEF Init, StartsInv, StarterAlone, SettingsWhole, StartsAgain, Idle

LEMMA StartsStep == KeptInv /\ StartsInv /\ [Next]_vars => StartsInv'
<1> SUFFICES ASSUME KeptInv, StartsInv, [Next]_vars
             PROVE  StartsInv'
  OBVIOUS
<1>1. CASE Next
  BY <1>1, NextKeeps, AloneStays, WholeStays, StartsStay DEF StartsInv, Keeps
<1>2. CASE UNCHANGED vars
  BY <1>2 DEF vars, StartsInv, StarterAlone, SettingsWhole, StartsAgain, ValueOf, Changing
<1> QED
  BY <1>1, <1>2

(* Whatever the handlers do to their files, and whenever the worker dies,  *)
(* it can be started again unless two changed the settings at a time, or   *)
(* it died while they were changed, or they could not be saved.            *)
THEOREM StartsAgainCorrect == Spec => []StartsAgain
<1>1. StartsInv => StartsAgain
  BY DEF StartsInv
<1> QED
  BY KeptInit, KeptStep, StartsInit, StartsStep, <1>1, PTL DEF Spec
=============================================================================
