---------------------------- MODULE StartupProofs ----------------------------
(***************************************************************************)
(* Proofs for Startup, and for the loader of a config as it is used there. *)
(*                                                                         *)
(* StartInv says of which files the settings of the manager and of each    *)
(* module are made: the paths a module is given are canonical, as they     *)
(* come from RuntimeSettings, so finding the settings from them again ends *)
(* at the same files (Rederived).                                          *)
(*                                                                         *)
(* ConfigInv says what the loader has made of the modules it is through    *)
(* with.  Whether a config is well-formed is stated of the files, whether  *)
(* it loads of what the loader keeps, so the lemmas before it translate    *)
(* one to the other: for a module with a manifest (ModuleLoads), for the   *)
(* manifest that is generated for the probe (ManifestGenerated,            *)
(* GeneratedLoads) and for the connections (SoundFits, FitsSound).         *)
(*                                                                         *)
(* BootInv says that without a change of the file the manager, its         *)
(* settings, the config and the modules are all from the same contents.    *)
(***************************************************************************)
EXTENDS Startup, FiniteSetTheorems, TLAPS

(* A canonical path of a file or directory is found at itself. *)
LEMMA CanonicalFile ==
  ASSUME NEW f, NEW path, AssertFile(f, path) # NoPath
  PROVE  AssertFile(f, AssertFile(f, path)) = AssertFile(f, path)
  BY FileSystem DEF AssertFile, NoPath

LEMMA CanonicalDir ==
  ASSUME NEW path, AssertDir(path) # NoPath
  PROVE  AssertDir(AssertDir(path)) = AssertDir(path)
  BY FileSystem DEF AssertDir, NoPath

(* What is found depends on which files there are, not on what they hold. *)
LEMMA SameFiles ==
  ASSUME NEW f, NEW g, DOMAIN f = DOMAIN g, NEW path
  PROVE  AssertFile(f, path) = AssertFile(g, path)
  BY DEF AssertFile

LEMMA FoundFile ==
  ASSUME NEW f, NEW p, NEW c
  PROVE  ConfigFile(f, p, c) = NoPath \/ \E path : ConfigFile(f, p, c) = AssertFile(f, path)
  BY DEF ConfigFile

LEMMA FoundPrefix ==
  ASSUME NEW p, NEW settings
  PROVE  Prefix(p, settings) = NoPath \/ \E path : Prefix(p, settings) = AssertDir(path)
  BY DEF Prefix

LEMMA SameDerived ==
  ASSUME NEW f, NEW g, DOMAIN f = DOMAIN g, NEW e, NEW p, NEW file, NEW settings
  PROVE  Derived(f, e, p, file, settings) = Derived(g, e, p, file, settings)
  BY SameFiles, Zenon DEF Derived

(* The fields of the settings from which the others follow. *)
LEMMA Fields ==
  ASSUME NEW f, NEW e, NEW p, NEW file, NEW settings
  PROVE  /\ Derived(f, e, p, file, settings).prefix = p
         /\ Derived(f, e, p, file, settings).config_file = file
         /\ Derived(f, e, p, file, settings).config = settings
  BY DEF Derived

(* The config file of complete settings is found at its own path.           *)
LEMMA FoundAgain ==
  ASSUME NEW f, NEW g, DOMAIN f = DOMAIN g, NEW e, NEW p, NEW c,
         NEW r, r = RuntimeSettings(f, e, p, c), r.prefix # NoPath, r.config_file # NoPath
  PROVE  ConfigFile(g, r.prefix, r.config_file) = r.config_file
<1>1. r.config_file = ConfigFile(f, p, c)
  BY Fields DEF RuntimeSettings
<1>2. PICK path : r.config_file = AssertFile(f, path)
  BY <1>1, FoundFile
<1>3. AssertFile(f, r.config_file) = r.config_file
  BY <1>2, CanonicalFile
<1>4. AssertFile(g, r.config_file) = r.config_file
  BY <1>3, SameFiles
<1> QED BY <1>4 DEF ConfigFile

-----------------------------------------------------------------------------

(* A process that starts from the prefix and the config file of complete     *)
(* settings (CppArguments, ScriptEnvironment) finds these settings again,    *)
(* whatever the options they were first found with, when the files are still *)
(* there and the config file has the same "settings".                        *)
THEOREM Rederived ==
  ASSUME NEW f, NEW g, DOMAIN f = DOMAIN g, NEW e, NEW p, NEW c,
         NEW r, r = RuntimeSettings(f, e, p, c), r.prefix # NoPath, r.config_file # NoPath,
         NEW q, q = RuntimeSettings(g, e, r.prefix, r.config_file), q.config = r.config
  PROVE  q = r
<1> DEFINE file     == ConfigFile(f, p, c)
           settings == Settings(f, file)
           prefix   == Prefix(p, settings)
<1>1. r = Derived(f, e, prefix, file, settings)
  BY DEF RuntimeSettings
<1>2. r.prefix = prefix /\ r.config_file = file /\ r.config = settings
  BY <1>1, Fields
<1>4. AssertDir(prefix) = prefix
  <2>1. PICK path : prefix = AssertDir(path)
    BY <1>2, FoundPrefix
  <2> QED BY <2>1, <1>2, CanonicalDir
<1>5. ConfigFile(g, prefix, file) = file
  BY <1>2, FoundAgain
<1>6. q = Derived(g, e, Prefix(prefix, Settings(g, file)), file, Settings(g, file))
  BY <1>2, <1>5 DEF RuntimeSettings
<1>7. Settings(g, file) = settings
  BY <1>2, <1>6, Fields
<1>8. Prefix(prefix, settings) = prefix
  BY <1>2, <1>4 DEF Prefix
<1> HIDE DEF file, settings, prefix
<1>9. q = Derived(g, e, prefix, file, settings)
  BY <1>6, <1>7, <1>8
<1> QED BY <1>1, <1>9, SameDerived

(* A process that starts from complete settings finds them again in the same *)
(* files.                                                                    *)
LEMMA SameAgain ==
  ASSUME NEW f, NEW e, NEW p, NEW c,
         NEW r, r = RuntimeSettings(f, e, p, c), r.prefix # NoPath, r.config_file # NoPath
  PROVE  RuntimeSettings(f, e, r.prefix, r.config_file) = r
<1> DEFINE q == RuntimeSettings(f, e, r.prefix, r.config_file)
<1>1. ConfigFile(f, r.prefix, r.config_file) = r.config_file
  BY FoundAgain
<1>2. q.config = Settings(f, r.config_file)
  BY <1>1, Fields DEF RuntimeSettings
<1>3. r.config = Settings(f, r.config_file)
  BY Fields DEF RuntimeSettings
<1> HIDE DEF q
<1>4. q = r
  BY <1>2, <1>3, Rederived DEF q
<1> QED BY <1>4 DEF q

-----------------------------------------------------------------------------
(* The settings: the inductive invariant StartInv                           *)

SameNames(f) == DOMAIN f = DOMAIN files

ManagerInv ==
  phase # "start" =>
    \E f : SameNames(f) /\ rs = RuntimeSettings(f, env, options.prefix, options.config)

CompleteInv == phase \in {"loading", "running"} => rs.prefix # NoPath /\ rs.config_file # NoPath

GivenInv(child) ==
  /\ \/ Overridden(child)
     \/ child.given.prefix = rs.prefix /\ child.given.config = rs.config_file
  /\ child.language = "javascript" => child.given.validate = Validation

OwnInv(child) ==
  \/ child.rs = NotYet
  \/ \E g : SameNames(g) /\ child.rs = RuntimeSettings(g, env, child.given.prefix, child.given.config)

IsProcess(child) == {"language", "phase", "rs", "main", "given"} \subseteq DOMAIN child

ChildrenInv ==
  /\ phase # "running" => DOMAIN children = {}
  /\ \A id \in DOMAIN children :
       IsProcess(children[id]) /\ GivenInv(children[id]) /\ OwnInv(children[id])

StartInv == ManagerInv /\ CompleteInv /\ ChildrenInv

-----------------------------------------------------------------------------

LEMMA InitInv == StartInit => StartInv
<1> SUFFICES ASSUME StartInit PROVE StartInv
  OBVIOUS
<1>1. phase = "start" /\ DOMAIN children = {}
  BY DEF StartInit, EmptyMap
<1> QED BY <1>1 DEF StartInv, ManagerInv, CompleteInv, ChildrenInv

(* What says nothing of the files' contents survives a change of them. *)
LEMMA Unmoved ==
  ASSUME StartInv, DOMAIN files' = DOMAIN files,
         UNCHANGED <<env, options, rs, phase, children>>
  PROVE  StartInv'
<1>1. \A f : SameNames(f)' <=> SameNames(f)
  BY DEF SameNames
<1>2. ManagerInv' /\ CompleteInv'
  BY <1>1 DEF StartInv, ManagerInv, CompleteInv
<1>3. ASSUME NEW id \in DOMAIN children
      PROVE  GivenInv(children[id])' /\ OwnInv(children[id])' /\ IsProcess(children[id])'
  <2>1. GivenInv(children[id]) /\ OwnInv(children[id]) /\ IsProcess(children[id])
    BY <1>3 DEF StartInv, ChildrenInv
  <2>2. GivenInv(children[id])'
    BY <2>1 DEF GivenInv, Overridden, Validation, Inherited
  <2>3. OwnInv(children[id])'
    BY <2>1, <1>1 DEF OwnInv
  <2>4. IsProcess(children[id])'
    BY <2>1 DEF IsProcess
  <2> QED BY <2>2, <2>3, <2>4
<1>4. ChildrenInv'
  BY <1>3 DEF StartInv, ChildrenInv
<1> QED BY <1>2, <1>4 DEF StartInv

(* Where there are no children, nothing is said of any. *)
LEMMA NoChildren ==
  ASSUME StartInv, phase # "start", phase' \in {"loading", "exited"}, phase' = "loading" => phase \in {"loading", "running"},
         UNCHANGED <<files, env, options, rs>>, DOMAIN children' = {}
  PROVE  StartInv'
<1>1. ManagerInv' /\ CompleteInv'
  BY DEF StartInv, ManagerInv, CompleteInv, SameNames
<1>2. ChildrenInv'
  BY DEF ChildrenInv
<1> QED BY <1>1, <1>2 DEF StartInv

LEMMA ReadSettingsInv == StartInv /\ ReadSettings => StartInv'
<1> SUFFICES ASSUME StartInv, ReadSettings PROVE StartInv'
  OBVIOUS
<1>1. ManagerInv'
  BY DEF ReadSettings, ManagerInv, SameNames
<1>2. CompleteInv'
  BY DEF ReadSettings, CompleteInv, Throws
<1>3. ChildrenInv'
  BY DEF ReadSettings, StartInv, ChildrenInv
<1> QED BY <1>1, <1>2, <1>3 DEF StartInv

LEMMA ReadConfigFileInv == StartInv /\ ReadConfigFile => StartInv'
<1> SUFFICES ASSUME StartInv, ReadConfigFile PROVE StartInv'
  OBVIOUS
<1>1. UNCHANGED <<files, env, options, rs, children>> /\ phase = "loading" /\ phase' \in {"loading", "exited"}
  BY DEF ReadConfigFile
<1>2. DOMAIN children' = {}
  BY <1>1 DEF StartInv, ChildrenInv
<1> QED BY <1>1, <1>2, NoChildren

LEMMA StartModulesInv == StartInv /\ StartModules => StartInv'
<1> SUFFICES ASSUME StartInv, StartModules PROVE StartInv'
  OBVIOUS
<1>1. UNCHANGED <<files, env, options, rs>> /\ phase = "loading"
  BY DEF StartModules
<1>2. CASE phase' = "exited" /\ UNCHANGED children
  <2>1. DOMAIN children' = {}
    BY <1>1, <1>2 DEF StartInv, ChildrenInv
  <2> QED BY <1>1, <1>2, <2>1, NoChildren
<1>3. CASE phase' = "running" /\ children' = [id \in Spawned |-> Process(Programs[main[id].module])]
  <2>1. ManagerInv' /\ CompleteInv'
    BY <1>1, <1>3 DEF StartInv, ManagerInv, CompleteInv, SameNames
  <2>2. ASSUME NEW id \in DOMAIN children'
        PROVE  IsProcess(children'[id]) /\ GivenInv(children[id])' /\ OwnInv(children[id])'
    <3> DEFINE l == Programs[main[id].module]
    <3>1. children'[id] = Process(l)
      BY <1>3, <2>2
    <3>2. IsProcess(Process(l))
      BY DEF IsProcess, Process
    <3> HIDE DEF l
    <3>3. OwnInv(children[id])'
      BY <3>1 DEF OwnInv, Process
    <3>4. GivenInv(children[id])'
      <4>1. UNCHANGED Validation
        BY <1>1 DEF Validation, Inherited
      <4>2. CASE l = "cpp"
        BY <1>1, <3>1, <4>2 DEF GivenInv, Process, CppArguments
      <4>3. CASE l # "cpp"
        BY <1>1, <3>1, <4>1, <4>3 DEF GivenInv, Overridden, Process, ScriptEnvironment, Inherited
      <4> QED BY <4>2, <4>3
    <3> QED BY <3>1, <3>2, <3>3, <3>4
  <2>3. ChildrenInv'
    BY <1>3, <2>2 DEF ChildrenInv, IsProcess
  <2> QED BY <2>1, <2>3 DEF StartInv
<1> QED BY <1>2, <1>3 DEF StartModules

LEMMA RestartModulesInv == StartInv /\ RestartModules => StartInv'
<1> SUFFICES ASSUME StartInv, RestartModules PROVE StartInv'
  OBVIOUS
<1>1. UNCHANGED <<files, env, options, rs>> /\ phase = "running" /\ phase' = "loading" /\ DOMAIN children' = {}
  BY DEF RestartModules, EmptyMap
<1> QED BY <1>1, NoChildren

(* A step of one module's process that leaves what it was given alone. *)
LEMMA OneChild ==
  ASSUME StartInv, UNCHANGED <<files, env, options, rs, phase>>, phase = "running",
         NEW id \in DOMAIN children, NEW child,
         children' = [children EXCEPT ![id] = child],
         IsProcess(child), child.language = children[id].language, child.given = children[id].given,
         OwnInv(child)
  PROVE  StartInv'
<1>1. \A f : SameNames(f)' <=> SameNames(f)
  BY DEF SameNames
<1>2. ManagerInv' /\ CompleteInv'
  BY <1>1 DEF StartInv, ManagerInv, CompleteInv
<1>3. UNCHANGED Validation
  BY DEF Validation, Inherited
<1>4. ASSUME NEW i \in DOMAIN children'
      PROVE  IsProcess(children'[i]) /\ GivenInv(children[i])' /\ OwnInv(children[i])'
  <2>1. i \in DOMAIN children
    BY <1>4
  <2>2. IsProcess(children[i]) /\ GivenInv(children[i]) /\ OwnInv(children[i])
    BY <2>1 DEF StartInv, ChildrenInv
  <2>3. CASE i = id
    <3>1. children'[i] = child
      BY <2>1, <2>3
    <3>2. GivenInv(children[i])'
      BY <3>1, <1>3, <2>2, <2>3 DEF GivenInv, Overridden
    <3>3. OwnInv(children[i])'
      BY <3>1, <1>1 DEF OwnInv
    <3> QED BY <3>1, <3>2, <3>3
  <2>4. CASE i # id
    <3>1. children'[i] = children[i]
      BY <2>1, <2>4
    <3>2. GivenInv(children[i])'
      BY <3>1, <1>3, <2>2 DEF GivenInv, Overridden
    <3>3. OwnInv(children[i])'
      BY <3>1, <1>1, <2>2 DEF OwnInv
    <3> QED BY <3>1, <3>2, <3>3, <2>2
  <2> QED BY <2>3, <2>4
<1>5. ChildrenInv'
  BY <1>4 DEF ChildrenInv, IsProcess
<1> QED BY <1>2, <1>5 DEF StartInv

LEMMA ReadOwnSettingsInv ==
  ASSUME StartInv, NEW id \in DOMAIN children, ReadOwnSettings(id)
  PROVE  StartInv'
<1> DEFINE own == RuntimeSettings(files, env, children[id].given.prefix, children[id].given.config)
           end == IF Throws(files, own) THEN "exited" ELSE "configured"
           child == [children[id] EXCEPT !.rs = own, !.phase = end]
<1>1. UNCHANGED <<files, env, options, rs, phase>> /\ phase = "running"
  BY DEF ReadOwnSettings
<1>2. IsProcess(children[id])
  BY DEF StartInv, ChildrenInv
<1>3. children' = [children EXCEPT ![id] = child]
  BY DEF ReadOwnSettings
<1> HIDE DEF own, end
<1>4. /\ IsProcess(child) /\ child.rs = own
      /\ child.language = children[id].language /\ child.given = children[id].given
  BY <1>2 DEF IsProcess
<1> HIDE DEF child
<1>5. OwnInv(child)
  BY <1>4 DEF OwnInv, SameNames, own
<1> QED BY <1>1, <1>3, <1>4, <1>5, OneChild

LEMMA ReadOwnConfigInv ==
  ASSUME StartInv, NEW id \in DOMAIN children, ReadOwnConfig(id)
  PROVE  StartInv'
<1> DEFINE content == files[children[id].rs.config_file]
           end == IF content.form = "object" /\ WellFormed(content.modules) /\ id \in DOMAIN content.modules
                  THEN "booted" ELSE "exited"
           child == [children[id] EXCEPT !.main = content.modules, !.phase = end]
<1>1. UNCHANGED <<files, env, options, rs, phase>> /\ phase = "running"
  BY DEF ReadOwnConfig
<1>2. IsProcess(children[id]) /\ OwnInv(children[id])
  BY DEF StartInv, ChildrenInv
<1>3. children' = [children EXCEPT ![id] = child]
  BY DEF ReadOwnConfig
<1> HIDE DEF end, content
<1>4. /\ IsProcess(child) /\ child.rs = children[id].rs
      /\ child.language = children[id].language /\ child.given = children[id].given
  BY <1>2 DEF IsProcess
<1>5. OwnInv(child)
  BY <1>2, <1>4 DEF OwnInv
<1> HIDE DEF child
<1> QED BY <1>1, <1>3, <1>4, <1>5, OneChild

LEMMA NextInv == StartInv /\ [StartNext]_<<startupVars, vars>> => StartInv'
<1> SUFFICES ASSUME StartInv, [StartNext]_<<startupVars, vars>> PROVE StartInv'
  OBVIOUS
<1>1. CASE ReadSettings
  BY <1>1, ReadSettingsInv
<1>2. CASE ReadConfigFile
  BY <1>2, ReadConfigFileInv
<1>3. CASE LoadConfig
  BY <1>3, Unmoved DEF LoadConfig, startupVars, processVars
<1>4. CASE ConfigRejected
  <2>1. DOMAIN children' = {}
    BY <1>4 DEF ConfigRejected, StartInv, ChildrenInv
  <2> QED BY <1>4, <2>1, NoChildren DEF ConfigRejected
<1>5. CASE StartModules
  BY <1>5, StartModulesInv
<1>6. CASE RestartModules
  BY <1>6, RestartModulesInv
<1>7. ASSUME NEW id \in DOMAIN children, ReadOwnSettings(id) \/ ReadOwnConfig(id) PROVE StartInv'
  BY <1>7, ReadOwnSettingsInv, ReadOwnConfigInv
<1>8. ASSUME NEW content \in Contents, Save(content) PROVE StartInv'
  BY <1>8, Unmoved DEF Save, processVars
<1>9. CASE UNCHANGED <<startupVars, vars>>
  BY <1>9, Unmoved DEF startupVars, processVars
<1> QED BY <1>1, <1>2, <1>3, <1>4, <1>5, <1>6, <1>7, <1>8, <1>9 DEF StartNext

LEMMA Inductive == StartSpec => []StartInv
  BY InitInv, NextInv, PTL DEF StartSpec

-----------------------------------------------------------------------------

LEMMA InvSameSettings == StartInv => SameSettings
<1> SUFFICES ASSUME StartInv, NEW id \in DOMAIN children,
                    children[id].rs # NotYet, ~Overridden(children[id]), children[id].rs.config = rs.config
             PROVE  children[id].rs = rs
  BY DEF SameSettings
<1>1. phase = "running" /\ GivenInv(children[id]) /\ OwnInv(children[id])
  BY DEF StartInv, ChildrenInv
<1>2. PICK f : SameNames(f) /\ rs = RuntimeSettings(f, env, options.prefix, options.config)
  BY <1>1 DEF StartInv, ManagerInv
<1>3. rs.prefix # NoPath /\ rs.config_file # NoPath
  BY <1>1 DEF StartInv, CompleteInv
<1>4. PICK g : SameNames(g) /\ children[id].rs = RuntimeSettings(g, env, rs.prefix, rs.config_file)
  BY <1>1 DEF GivenInv, OwnInv
<1> QED BY <1>2, <1>3, <1>4, Rederived DEF SameNames

LEMMA InvValidates == StartInv => ValidatesWithTypes
<1> SUFFICES ASSUME StartInv, NEW id \in DOMAIN children,
                    children[id].rs # NotYet, children[id].language = "javascript",
                    "EV_VALIDATE_SCHEMA" \notin DOMAIN env,
                    ~Overridden(children[id]), children[id].rs.config = rs.config
             PROVE  Validates(children[id]) <=> children[id].rs.plain.validate_schema = <<"true">>
  BY DEF ValidatesWithTypes, Validates
<1>1. children[id].rs = rs
  BY InvSameSettings DEF SameSettings
<1>2. children[id].given.validate = Validation
  BY DEF StartInv, ChildrenInv, GivenInv
<1>3. Validation # <<>> <=> rs.plain.validate_schema = <<"true">>
  BY DEF Validation, Inherited
<1> QED BY <1>1, <1>2, <1>3 DEF Validates

(* A module has the manager's settings, unless the environment leads it     *)
(* elsewhere or the file's settings have changed: for every file system,    *)
(* environment and options, and any number of changes and restarts          *)
(* (runtime.cpp:81-346, manager.cpp:111-195).                               *)
THEOREM ModulesHaveSameSettings == StartSpec => []SameSettings
  BY Inductive, InvSameSettings, PTL

(* JavaScript modules validate exactly if they have loaded the types to, with *)
(* the same exceptions (manager.cpp:138, config.cpp:442).                    *)
THEOREM ModulesValidateWithTypes == StartSpec => []ValidatesWithTypes
  BY Inductive, InvValidates, PTL

-----------------------------------------------------------------------------
(* Facts about what the loader is built from                                *)

LEMMA RangeElement == \A f, y : y \in Range(f) <=> \E x \in DOMAIN f : y = f[x]
  BY DEF Range

(* The position of an id is a number, and no other id has it.               *)
LEMMA PositionOf ==
  /\ \A i \in ToSet(KeyOrder) : Position(i) \in 1..Len(KeyOrder)
  /\ \A i, k \in ToSet(KeyOrder) : Position(i) = Position(k) => i = k
  /\ Len(KeyOrder) \in Nat
<1>1. ASSUME NEW i \in ToSet(KeyOrder) PROVE Position(i) \in DOMAIN KeyOrder /\ KeyOrder[Position(i)] = i
  <2>1. \E n \in DOMAIN KeyOrder : KeyOrder[n] = i
    BY DEF ToSet
  <2> QED BY <2>1 DEF Position
<1> QED BY <1>1, ConfigConstants DEF IsList

(* The order of the natural numbers, as a set of pairs.                     *)
NatOrder == {p \in Nat \X Nat : p[1] < p[2]}

LEMMA NatOrderWellFounded == IsWellFoundedOn(NatOrder, Nat)
  BY NatLessThanWellFounded, Zenon DEF OpToRel, NatOrder

(* The first of some ids is one of them, and before all others.             *)
LEMMA FirstOf ==
  ASSUME NEW S, S \subseteq ToSet(KeyOrder), S # {}
  PROVE  First(S) \in S /\ \A k \in S \ {First(S)} : Position(First(S)) < Position(k)
<1> DEFINE T == {Position(i) : i \in S}
<1>1. T \subseteq Nat /\ T # {}
  BY PositionOf
<1> HIDE DEF T
<1>2. \E n \in T : \A m \in T : ~(<<m, n>> \in NatOrder)
  BY <1>1, NatOrderWellFounded, WFMin
<1>3. PICK n \in T : \A m \in T : ~(<<m, n>> \in NatOrder)
  BY <1>2
<1>4. \A m \in T : ~(m < n)
  BY <1>1, <1>3 DEF NatOrder
<1>5. PICK i \in S : n = Position(i)
  BY <1>3 DEF T
<1>6. \A k \in S : Position(i) <= Position(k)
  BY <1>1, <1>3, <1>4, <1>5 DEF T
<1>7. First(S) \in S /\ \A k \in S : Position(First(S)) <= Position(k)
  BY <1>5, <1>6 DEF First
<1>8. ASSUME NEW k \in S, k # First(S) PROVE Position(First(S)) # Position(k)
  BY <1>7, <1>8, PositionOf
<1> QED BY <1>7, <1>8, PositionOf

(* The connections of some ids, one by one.                                 *)
LEMMA ConnectionsElement ==
  ASSUME NEW c, NEW S, NEW x
  PROVE  x \in Connections(c, S) <=>
           \E i \in S : \E q \in DOMAIN c[i].connections :
             \E n \in DOMAIN c[i].connections[q] : x = <<i, q, n>>
<1>1. \A i \in S : x \in UNION {{<<i, q, n>> : n \in DOMAIN c[i].connections[q]} :
                                  q \in DOMAIN c[i].connections} <=>
           \E q \in DOMAIN c[i].connections :
             \E n \in DOMAIN c[i].connections[q] : x = <<i, q, n>>
  OBVIOUS
<1> QED BY <1>1 DEF Connections

LEMMA ConnectionParts ==
  ASSUME NEW c, NEW S, NEW x \in Connections(c, S)
  PROVE  /\ x[1] \in S /\ x[2] \in DOMAIN c[x[1]].connections
         /\ x[3] \in DOMAIN c[x[1]].connections[x[2]]
         /\ x = <<x[1], x[2], x[3]>>
         /\ \A T : x[1] \in T => x \in Connections(c, T)
<1>1. PICK i \in S : \E q \in DOMAIN c[i].connections : \E n \in DOMAIN c[i].connections[q] : x = <<i, q, n>>
  BY ConnectionsElement
<1>2. PICK q \in DOMAIN c[i].connections : \E n \in DOMAIN c[i].connections[q] : x = <<i, q, n>>
  BY <1>1
<1>3. PICK n \in DOMAIN c[i].connections[q] : x = <<i, q, n>>
  BY <1>2
<1>4. x[1] = i /\ x[2] = q /\ x[3] = n
  BY <1>3
<1>5. \A T : i \in T => x \in Connections(c, T)
  BY <1>3, ConnectionsElement
<1> QED BY <1>3, <1>4, <1>5

Own(c, id, q) == {x \in Connections(c, {id}) : x[2] = q}

(* As many connections as the list of the requirement is long.              *)
LEMMA ConnectionCount ==
  ASSUME NEW c, FileShape(c), NEW id \in DOMAIN c, NEW q
  PROVE  /\ q \in DOMAIN c[id].connections => Cardinality(Own(c, id, q)) = Len(c[id].connections[q])
         /\ q \notin DOMAIN c[id].connections => Cardinality(Own(c, id, q)) = 0
<1> DEFINE C == {x \in Connections(c, {id}) : x[2] = q}
<1>0. Own(c, id, q) = C
  BY DEF Own
<1>1. CASE q \notin DOMAIN c[id].connections
  <2>1. C = {}
    BY <1>1, ConnectionParts
  <2> HIDE DEF C
  <2> QED BY <1>0, <1>1, <2>1, FS_EmptySet
<1>2. CASE q \in DOMAIN c[id].connections
  <2> DEFINE n == Len(c[id].connections[q])
             f == [k \in 1..n |-> <<id, q, k>>]
  <2>1. n \in Nat /\ DOMAIN c[id].connections[q] = 1..n
    BY <1>2 DEF FileShape, IsList
  <2>2. \A k \in 1..n : f[k] \in C
    BY <1>2, <2>1, ConnectionsElement
  <2>3. \A x \in C : \E k \in 1..n : f[k] = x
    <3> SUFFICES ASSUME NEW x \in C PROVE \E k \in 1..n : f[k] = x
      OBVIOUS
    <3>1. x[1] = id /\ x[2] = q /\ x[3] \in 1..n /\ x = <<x[1], x[2], x[3]>>
      BY <2>1, ConnectionParts
    <3>2. f[x[3]] = x
      BY <3>1
    <3> QED BY <3>1, <3>2
  <2>4. \A j, k \in 1..n : f[j] = f[k] => j = k
    OBVIOUS
  <2>5. f \in [1..n -> C]
    BY <2>2
  <2> HIDE DEF n, f, C
  <2>6. f \in Bijection(1..n, C)
    BY <2>3, <2>4, <2>5 DEF Bijection, Injection, Surjection, IsInjective
  <2>7. ExistsBijection(1..n, C)
    BY <2>6 DEF ExistsBijection
  <2>8. IsFiniteSet(1..n) /\ Cardinality(1..n) = n
    BY <2>1, FS_Interval
  <2>9. Cardinality(C) = n
    BY <2>7, <2>8, FS_Bijection
  <2> QED BY <1>0, <1>2, <2>9 DEF n
<1> QED BY <1>1, <1>2

(* There is at most one probe exactly if no two are different.              *)
LEMMA OneProbe ==
  ASSUME NEW c, FileShape(c)
  PROVE  Cardinality(Probes(c)) <= 1 <=> \A p, q \in Probes(c) : p = q
<1>1. IsFiniteSet(Probes(c))
  <2> DEFINE f == [n \in 1..Len(KeyOrder) |-> KeyOrder[n]]
  <2>1. IsFiniteSet(1..Len(KeyOrder)) /\ Len(KeyOrder) \in Nat
    BY PositionOf, FS_Interval
  <2>2. DOMAIN KeyOrder = 1..Len(KeyOrder)
    BY ConfigConstants DEF IsList
  <2>3. f \in Surjection(1..Len(KeyOrder), ToSet(KeyOrder))
    BY <2>2 DEF Surjection, ToSet
  <2>4. IsFiniteSet(ToSet(KeyOrder))
    BY <2>1, <2>3, FS_Surjection
  <2>5. Probes(c) \subseteq ToSet(KeyOrder)
    BY DEF Probes, FileShape
  <2> QED BY <2>4, <2>5, FS_Subset
<1>2. Cardinality({}) = 0
  BY FS_EmptySet
<1>3. ASSUME \A p, q \in Probes(c) : p = q PROVE Cardinality(Probes(c)) <= 1
  <2>1. CASE Probes(c) = {}
    BY <1>2, <2>1
  <2>2. CASE Probes(c) # {}
    <3>1. PICK p \in Probes(c) : TRUE
      BY <2>2
    <3>2. Probes(c) = {p}
      BY <1>3, <3>1
    <3>3. Cardinality({p}) = 1
      BY FS_Singleton
    <3> QED BY <3>2, <3>3
  <2> QED BY <2>1, <2>2
<1>4. ASSUME Cardinality(Probes(c)) <= 1, NEW p \in Probes(c), NEW q \in Probes(c) PROVE p = q
  <2>1. {p} \in SUBSET Probes(c)
    OBVIOUS
  <2>2. Cardinality({p}) <= Cardinality(Probes(c)) /\ Cardinality(Probes(c)) \in Nat
    BY <1>1, <2>1, FS_Subset, FS_CardinalityType
  <2>3. Cardinality({p}) = 1
    BY FS_Singleton
  <2>4. Cardinality(Probes(c)) = Cardinality({p})
    BY <1>4, <2>2, <2>3
  <2>5. Probes(c) = {p}
    BY <1>1, <2>1, <2>4, FS_Subset
  <2> QED BY <2>5
<1> QED BY <1>3, <1>4

-----------------------------------------------------------------------------
(* What the loader has made of the modules it is through with               *)

(* The manifest of a module with manifest m is what its file has.           *)
OfFile(id, m) ==
  /\ main[id].module \in DOMAIN ManifestFiles
  /\ m = ManifestFiles[main[id].module]

(* The manifest m that was generated for the probe, in terms of the files.  *)
Generated(p, m) ==
  /\ p \in Probes(main)
  /\ DOMAIN m.provides = Implementations(main, p)
  /\ \A i \in DOMAIN m.provides : Offered(main, p, i) = {m.provides[i]}
  /\ DOMAIN m.requires = {x[2] : x \in Connections(main, {p})}
  /\ \A x \in Connections(main, {p}) :
       /\ m.requires[x[2]].min = 1 /\ m.requires[x[2]].max = 1
       /\ End(main, x).module \in DOMAIN main
       /\ End(main, x).impl \in Implementations(main, End(main, x).module)
       /\ Offered(main, End(main, x).module, End(main, x).impl) = {m.requires[x[2]].interface}
  /\ m.config = [o \in DOMAIN m.provides \cup {ModuleOwner} |-> EmptyMap]

ParsedMaps(id, m) ==
  [o \in DOMAIN m.config |-> ParseConfigMap(m.config[o], Values(main, id, o))]

LoadedRight(id) ==
  /\ id \in DOMAIN main /\ names[id] = main[id].module /\ names[id] \in DOMAIN manifests
  /\ OfFile(id, manifests[names[id]]) \/ Generated(id, manifests[names[id]])
  /\ ManifestLoads(id, manifests[names[id]])
  /\ Range(manifests[names[id]].provides) \subseteq DOMAIN definitions
  /\ maps[id] = ParsedMaps(id, manifests[names[id]])

(* All modules are loaded, and the config is one that a file can hold.      *)
AllLoaded ==
  /\ FileShape(main) /\ DOMAIN names = DOMAIN main
  /\ \A id \in DOMAIN names : LoadedRight(id)
  /\ \A p, q \in Probes(main) : p = q

(* A module other than the probe is loaded from a file.                     *)
LEMMA ProbeOrFile ==
  ASSUME NEW id
  PROVE  /\ \A m : OfFile(id, m) => id \notin Probes(main)
         /\ \A m : Generated(id, m) => id \in Probes(main)
  BY ConfigConstants DEF OfFile, Generated, Probes

(* What a loaded module provides is what the files say of it.               *)
LEMMA ProvidesKnown ==
  ASSUME NEW id, NEW m, OfFile(id, m) \/ Generated(id, m)
  PROVE  /\ DOMAIN m.provides = Implementations(main, id)
         /\ \A i \in DOMAIN m.provides : Offered(main, id, i) = {m.provides[i]}
<1>1. CASE OfFile(id, m)
  BY <1>1, ProbeOrFile DEF OfFile, Implementations, Offered
<1>2. CASE Generated(id, m)
  BY <1>2 DEF Generated
<1> QED BY <1>1, <1>2

LEMMA ManifestKnown ==
  ASSUME AllLoaded, NEW id \in DOMAIN main
  PROVE  /\ OfFile(id, Manifest(id)) \/ Generated(id, Manifest(id))
         /\ ManifestLoads(id, Manifest(id)) /\ names[id] = main[id].module
         /\ DOMAIN Manifest(id).provides = Implementations(main, id)
         /\ \A i \in DOMAIN Manifest(id).provides : Offered(main, id, i) = {Manifest(id).provides[i]}
<1>1. LoadedRight(id) /\ Manifest(id) = manifests[names[id]]
  BY DEF AllLoaded, LoadedRight, Manifest
<1>2. OfFile(id, Manifest(id)) \/ Generated(id, Manifest(id))
  BY <1>1 DEF LoadedRight
<1> QED BY <1>1, <1>2, ProvidesKnown DEF LoadedRight

(* The values of a config map parse exactly if they are sound.              *)
LEMMA ValuesParse ==
  ASSUME NEW schema, NEW map, Range(map) \subseteq Kinds,
         \A e \in DOMAIN schema : schema[e].type \in {"boolean", "integer", "number", "string"}
  PROVE  ConfigSchemaValid(schema) /\ ConfigMapParses(schema, map) <=> ValuesSound(schema, map)
<1> DEFINE Good(e) == Admitted(schema[e].type)
<1>0. \A e \in DOMAIN schema : Good(e) \subseteq Kinds /\ Unset \notin Good(e)
  BY DEF Admitted, Kinds, Unset
<1>1. \A e \in DOMAIN map : map[e] # Unset
  BY RangeElement DEF Kinds, Unset
<1> HIDE DEF Good
<1>2. ASSUME NEW e \in DOMAIN schema
      PROVE  /\ schema[e].default \in Good(e) \cup {Unset} /\ Entry(schema, map, e) \in Good(e)
               <=> /\ e \notin DOMAIN map => schema[e].default # Unset
                   /\ {schema[e].default} \cup {map[k] : k \in {e} \cap DOMAIN map} \subseteq Good(e) \cup {Unset}
  <2>1. CASE e \in DOMAIN map
    <3>1. {map[k] : k \in {e} \cap DOMAIN map} = {map[e]}
      BY <2>1
    <3> QED BY <1>1, <2>1, <3>1 DEF Entry
  <2>2. CASE e \notin DOMAIN map
    <3>1. {map[k] : k \in {e} \cap DOMAIN map} = {}
      BY <2>2
    <3> QED BY <1>0, <2>2, <3>1 DEF Entry
  <2> QED BY <2>1, <2>2
<1> QED BY <1>2 DEF ConfigSchemaValid, ConfigMapParses, ValuesSound, Good

(* The values a module has of an owner are of the four kinds.               *)
LEMMA ValuesAreKinds ==
  ASSUME FileShape(main), NEW id \in DOMAIN main, NEW o
  PROVE  Range(Values(main, id, o)) \subseteq Kinds
  BY RangeElement DEF Values, FileShape, EmptyMap

(* The conditions on a module other than the probe, and what is checked of  *)
(* them when its manifest is loaded.                                        *)
LEMMA ModuleLoads ==
  ASSUME FileShape(main), NEW id \in DOMAIN main, NEW m, OfFile(id, m)
  PROVE  ManifestLoads(id, m) <=>
           /\ \A o \in DOMAIN main[id].values : o \in DOMAIN m.config
           /\ \A o \in DOMAIN m.config : ValuesSound(m.config[o], Values(main, id, o))
           /\ \A i \in DOMAIN m.provides : InterfaceLoads(m.provides[i])
<1>1. ASSUME NEW o \in DOMAIN m.config
      PROVE  ConfigSchemaValid(m.config[o]) /\ ConfigMapParses(m.config[o], Values(main, id, o))
               <=> ValuesSound(m.config[o], Values(main, id, o))
  <2>1. \A e \in DOMAIN m.config[o] : m.config[o][e].type \in {"boolean", "integer", "number", "string"}
    BY ConfigConstants DEF OfFile
  <2> QED BY <2>1, ValuesAreKinds, ValuesParse
<1> QED BY <1>1 DEF ManifestLoads

-----------------------------------------------------------------------------
(* The generated manifest of the probe                                      *)

(* The members of Clients, ProbeOffers and ProbeAsks, one by one.           *)
LEMMA Asked ==
  ASSUME NEW p
  PROVE  /\ Clients(main, p) = {} => ProbeOffers(p) = {<<"none", "empty">>}
         /\ Clients(main, p) # {} =>
              ProbeOffers(p) =
                {<<End(main, x).impl, manifests[main[x[1]].module].requires[x[2]].interface>> :
                   x \in Clients(main, p)}
<1> DEFINE pairs(S) == {<<End(main, x).impl, manifests[main[x[1]].module].requires[x[2]].interface>> :
                          x \in S}
           clients == {y \in Connections(main, Others(p)) : End(main, y).module = p}
<1>1. clients = Clients(main, p)
  BY DEF Others, Clients
<1>2. ProbeOffers(p) = IF pairs(clients) = {} THEN {<<"none", "empty">>} ELSE pairs(clients)
  BY DEF ProbeOffers
<1>3. pairs(Clients(main, p)) = {} <=> Clients(main, p) = {}
  OBVIOUS
<1> HIDE DEF pairs, clients
<1>4. /\ Clients(main, p) = {} => ProbeOffers(p) = {<<"none", "empty">>}
      /\ Clients(main, p) # {} => ProbeOffers(p) = pairs(Clients(main, p))
  BY <1>1, <1>2, <1>3
<1> QED BY <1>4 DEF pairs

(* A set of pairs that is a function has their values.                      *)
LEMMA MapOf ==
  ASSUME NEW pairs, Functional(pairs)
  PROVE  /\ DOMAIN AsMap(pairs) = {x[1] : x \in pairs}
         /\ \A x \in pairs : AsMap(pairs)[x[1]] = x[2]
<1>1. ASSUME NEW x \in pairs PROVE (CHOOSE y \in pairs : y[1] = x[1]) = x
  BY DEF Functional
<1> QED BY <1>1 DEF AsMap

(* The others have been loaded from their files.                            *)
OthersLoaded(p) ==
  /\ Probes(main) = {p}
  /\ \A i \in Others(p) : OfFile(i, Manifest(i)) /\ ManifestLoads(i, Manifest(i))

(* A client wants of the probe what its manifest says.                      *)
LEMMA ClientWants ==
  ASSUME NEW p, OthersLoaded(p), NEW x \in Clients(main, p)
  PROVE  /\ Wanted(main, x) = manifests[main[x[1]].module].requires[x[2]].interface
         /\ x \in Connections(main, DOMAIN main) /\ x[1] \in Others(p) /\ End(main, x).module = p
<1>1. x \in Connections(main, DOMAIN main \ {p}) /\ End(main, x).module = p
  BY DEF Clients
<1>2. x[1] \in Others(p) /\ x \in Connections(main, DOMAIN main)
  BY <1>1, ConnectionParts DEF Others
<1> QED BY <1>1, <1>2 DEF OthersLoaded, OfFile, Manifest, Wanted

(* The probe offers its clients what they want.                             *)
LEMMA OffersKnown ==
  ASSUME NEW p, OthersLoaded(p)
  PROVE  /\ {y[1] : y \in ProbeOffers(p)} = Implementations(main, p)
         /\ \A y \in ProbeOffers(p) : y = <<y[1], y[2]>>
         /\ \A i, v : <<i, v>> \in ProbeOffers(p) <=>
              i \in Implementations(main, p) /\ v \in Offered(main, p, i)
<1>0. p \in Probes(main)
  BY DEF OthersLoaded
<1>1. CASE Clients(main, p) = {}
  <2>1. ProbeOffers(p) = {<<"none", "empty">>}
    BY <1>1, Asked
  <2>2. Implementations(main, p) = {"none"}
    BY <1>0, <1>1 DEF Implementations
  <2>3. \A i : Offered(main, p, i) = {"empty"}
    BY <1>0, <1>1 DEF Offered
  <2> QED BY <2>1, <2>2, <2>3
<1>2. CASE Clients(main, p) # {}
  <2>1. ProbeOffers(p) = {<<End(main, x).impl, Wanted(main, x)>> : x \in Clients(main, p)}
    <3>1. ProbeOffers(p) =
            {<<End(main, x).impl, manifests[main[x[1]].module].requires[x[2]].interface>> :
               x \in Clients(main, p)}
      BY <1>2, Asked
    <3> QED BY <3>1, ClientWants
  <2>2. Implementations(main, p) = {End(main, x).impl : x \in Clients(main, p)}
    BY <1>0, <1>2 DEF Implementations
  <2>3. \A i : Offered(main, p, i) = {Wanted(main, x) : x \in {y \in Clients(main, p) : End(main, y).impl = i}}
    BY <1>0, <1>2 DEF Offered
  <2> DEFINE impl(x) == End(main, x).impl
             want(x) == Wanted(main, x)
  <2>4. /\ ProbeOffers(p) = {<<impl(x), want(x)>> : x \in Clients(main, p)}
        /\ Implementations(main, p) = {impl(x) : x \in Clients(main, p)}
        /\ \A i : Offered(main, p, i) = {want(x) : x \in {y \in Clients(main, p) : impl(y) = i}}
    BY <2>1, <2>2, <2>3
  <2> HIDE DEF impl, want
  <2>5. {y[1] : y \in ProbeOffers(p)} = Implementations(main, p)
    <3>1. ASSUME NEW x \in Clients(main, p) PROVE impl(x) \in {y[1] : y \in ProbeOffers(p)}
      <4>1. <<impl(x), want(x)>> \in ProbeOffers(p) /\ <<impl(x), want(x)>>[1] = impl(x)
        BY <2>4
      <4> QED BY <4>1
    <3>2. ASSUME NEW y \in ProbeOffers(p) PROVE y[1] \in Implementations(main, p)
      <4>1. PICK x \in Clients(main, p) : y = <<impl(x), want(x)>>
        BY <2>4
      <4> QED BY <2>4, <4>1
    <3> QED BY <2>4, <3>1, <3>2
  <2>6. \A y \in ProbeOffers(p) : y = <<y[1], y[2]>>
    BY <2>4
  <2>7. ASSUME NEW i, NEW v
        PROVE  <<i, v>> \in ProbeOffers(p) <=> i \in Implementations(main, p) /\ v \in Offered(main, p, i)
    <3>1. <<i, v>> \in ProbeOffers(p) <=> \E x \in Clients(main, p) : i = impl(x) /\ v = want(x)
      BY <2>4
    <3>2. i \in Implementations(main, p) <=> \E x \in Clients(main, p) : i = impl(x)
      BY <2>4
    <3>3. v \in Offered(main, p, i) <=> \E x \in Clients(main, p) : i = impl(x) /\ v = want(x)
      BY <2>4
    <3> QED BY <3>1, <3>2, <3>3
  <2> QED BY <2>5, <2>6, <2>7
<1> QED BY <1>1, <1>2

(* If the clients agree, the provides are a map, with what is offered.      *)
LEMMA OffersAsMap ==
  ASSUME NEW p, OthersLoaded(p), Functional(ProbeOffers(p))
  PROVE  /\ DOMAIN AsMap(ProbeOffers(p)) = Implementations(main, p)
         /\ \A i \in Implementations(main, p) : Offered(main, p, i) = {AsMap(ProbeOffers(p))[i]}
<1> DEFINE offers == ProbeOffers(p)
<1>1. /\ DOMAIN AsMap(offers) = {y[1] : y \in offers}
      /\ \A y \in offers : AsMap(offers)[y[1]] = y[2]
  BY MapOf
<1>2. /\ {y[1] : y \in offers} = Implementations(main, p)
      /\ \A y \in offers : y = <<y[1], y[2]>>
      /\ \A i, v : <<i, v>> \in offers <=> i \in Implementations(main, p) /\ v \in Offered(main, p, i)
  BY OffersKnown
<1>3. \A x, y \in offers : x[1] = y[1] => x = y
  BY DEF Functional
<1> HIDE DEF offers
<1>4. ASSUME NEW i \in Implementations(main, p) PROVE Offered(main, p, i) = {AsMap(offers)[i]}
  <2>1. PICK y \in offers : y[1] = i
    BY <1>2
  <2>2. y = <<i, y[2]>> /\ AsMap(offers)[i] = y[2]
    BY <1>1, <1>2, <2>1
  <2>3. y[2] \in Offered(main, p, i)
    BY <1>2, <2>1, <2>2
  <2>4. ASSUME NEW v \in Offered(main, p, i) PROVE v = y[2]
    <3>1. <<i, v>> \in offers /\ <<i, v>>[1] = y[1]
      BY <1>2, <2>1
    <3>2. <<i, v>> = y
      BY <1>3, <3>1
    <3> QED BY <3>2
  <2> QED BY <2>2, <2>3, <2>4
<1> QED BY <1>1, <1>2, <1>4 DEF offers

(* What every module provides, as the requirements of the probe see it.     *)
LEMMA ProvidesOfKnown ==
  ASSUME NEW p, OthersLoaded(p), Functional(ProbeOffers(p)), NEW id \in DOMAIN main
  PROVE  /\ DOMAIN ProvidesOf(p, id) = Implementations(main, id)
         /\ \A i \in Implementations(main, id) : Offered(main, id, i) = {ProvidesOf(p, id)[i]}
<1>1. CASE id = p
  BY <1>1, OffersAsMap DEF ProvidesOf
<1>2. CASE id # p
  <2>1. OfFile(id, Manifest(id))
    BY <1>2 DEF OthersLoaded, Others
  <2>2. ProvidesOf(p, id) = Manifest(id).provides
    BY <1>2 DEF ProvidesOf, Manifest
  <2>3. /\ DOMAIN Manifest(id).provides = Implementations(main, id)
        /\ \A i \in DOMAIN Manifest(id).provides : Offered(main, id, i) = {Manifest(id).provides[i]}
    BY <2>1, ProvidesKnown
  <2> QED BY <2>2, <2>3
<1> QED BY <1>1, <1>2

(* What the probe asks for, one by one.                                     *)
LEMMA AskedFor ==
  ASSUME NEW p
  PROVE  /\ {y[1] : y \in ProbeAsks(p)} = {x[2] : x \in Connections(main, {p})}
         /\ \A x \in Connections(main, {p}) :
              <<x[2], ProvidesOf(p, End(main, x).module)[End(main, x).impl]>> \in ProbeAsks(p)
         /\ \A y \in ProbeAsks(p) : \E x \in Connections(main, {p}) :
              y = <<x[2], ProvidesOf(p, End(main, x).module)[End(main, x).impl]>>
<1> DEFINE found(x) == ProvidesOf(p, End(main, x).module)[End(main, x).impl]
           C == Connections(main, {p})
<1>1. ProbeAsks(p) = {<<x[2], found(x)>> : x \in C}
  BY DEF ProbeAsks
<1> HIDE DEF found, C
<1>2. ASSUME NEW x \in C PROVE x[2] \in {y[1] : y \in ProbeAsks(p)}
  <2>1. <<x[2], found(x)>> \in ProbeAsks(p) /\ <<x[2], found(x)>>[1] = x[2]
    BY <1>1
  <2> QED BY <2>1
<1>3. ASSUME NEW y \in ProbeAsks(p) PROVE \E x \in C : y = <<x[2], found(x)>>
  BY <1>1
<1>4. {y[1] : y \in ProbeAsks(p)} = {x[2] : x \in C}
  <2>1. ASSUME NEW y \in ProbeAsks(p) PROVE y[1] \in {x[2] : x \in C}
    <3>1. PICK x \in C : y = <<x[2], found(x)>>
      BY <1>3
    <3> QED BY <3>1
  <2> QED BY <1>2, <2>1
<1>5. \A x \in C : <<x[2], found(x)>> \in ProbeAsks(p)
  BY <1>1
<1> QED BY <1>3, <1>4, <1>5 DEF found, C

(* The manifest that is generated when the probe fits.                      *)
LEMMA ManifestGenerated ==
  ASSUME NEW p, OthersLoaded(p), ProbeFits(p)
  PROVE  Generated(p, ProbeManifest(p))
<1> DEFINE m == ProbeManifest(p)
           asks == ProbeAsks(p)
<1>1. Functional(ProbeOffers(p)) /\ Functional(asks) /\ ProbeTargetsExist(p) /\ p \in Probes(main)
  BY DEF ProbeFits, OthersLoaded
<1>2. /\ m.provides = AsMap(ProbeOffers(p))
      /\ m.requires = [q \in DOMAIN AsMap(asks) |-> [interface |-> AsMap(asks)[q], min |-> 1, max |-> 1]]
      /\ m.config = [o \in DOMAIN m.provides \cup {ModuleOwner} |-> EmptyMap]
  BY DEF ProbeManifest
<1>3. /\ DOMAIN AsMap(asks) = {y[1] : y \in asks}
      /\ \A y \in asks : AsMap(asks)[y[1]] = y[2]
  BY <1>1, MapOf
<1>4. /\ DOMAIN m.provides = Implementations(main, p)
      /\ \A i \in DOMAIN m.provides : Offered(main, p, i) = {m.provides[i]}
  BY <1>1, <1>2, OffersAsMap
<1> HIDE DEF m, asks
<1>5. DOMAIN m.requires = {x[2] : x \in Connections(main, {p})}
  BY <1>2, <1>3, AskedFor DEF asks
<1>6. ASSUME NEW x \in Connections(main, {p})
      PROVE  /\ m.requires[x[2]].min = 1 /\ m.requires[x[2]].max = 1
             /\ End(main, x).module \in DOMAIN main
             /\ End(main, x).impl \in Implementations(main, End(main, x).module)
             /\ Offered(main, End(main, x).module, End(main, x).impl) = {m.requires[x[2]].interface}
  <2> DEFINE t == End(main, x).module
             i == End(main, x).impl
  <2>1. t \in DOMAIN main /\ i \in DOMAIN ProvidesOf(p, t)
    BY <1>1 DEF ProbeTargetsExist
  <2>2. i \in Implementations(main, t) /\ Offered(main, t, i) = {ProvidesOf(p, t)[i]}
    BY <1>1, <2>1, ProvidesOfKnown
  <2>3. <<x[2], ProvidesOf(p, t)[i]>> \in asks
    BY AskedFor DEF asks
  <2> HIDE DEF t, i
  <2>4. x[2] \in DOMAIN AsMap(asks) /\ AsMap(asks)[x[2]] = ProvidesOf(p, t)[i]
    <3> DEFINE y == <<x[2], ProvidesOf(p, t)[i]>>
    <3>1. y \in asks /\ y[1] = x[2] /\ y[2] = ProvidesOf(p, t)[i]
      BY <2>3
    <3> HIDE DEF y
    <3> QED BY <1>3, <3>1
  <2>5. m.requires[x[2]] = [interface |-> AsMap(asks)[x[2]], min |-> 1, max |-> 1]
    BY <1>2, <2>4
  <2> QED BY <2>1, <2>2, <2>4, <2>5 DEF t, i
<1> QED BY <1>1, <1>2, <1>4, <1>5, <1>6 DEF Generated, m

(* The manifest of the probe has nothing to reject but what is offered and  *)
(* the values the config gives the probe.                                   *)
LEMMA GeneratedLoads ==
  ASSUME NEW p, NEW m, Generated(p, m)
  PROVE  ManifestLoads(p, m) <=>
           /\ \A o \in DOMAIN main[p].values :
                /\ o = ModuleOwner \/ o \in Implementations(main, p)
                /\ DOMAIN main[p].values[o] = {}
           /\ \A i \in Implementations(main, p) : \A v \in Offered(main, p, i) : InterfaceLoads(v)
<1>1. /\ m.config = [o \in DOMAIN m.provides \cup {ModuleOwner} |-> EmptyMap]
      /\ DOMAIN m.provides = Implementations(main, p)
      /\ \A i \in DOMAIN m.provides : Offered(main, p, i) = {m.provides[i]}
  BY DEF Generated
<1>2. \A o \in DOMAIN m.config : ConfigSchemaValid(m.config[o])
  BY <1>1 DEF ConfigSchemaValid, EmptyMap
<1>3. ASSUME NEW o \in DOMAIN m.config
      PROVE  ConfigMapParses(m.config[o], Values(main, p, o)) <=>
               (o \in DOMAIN main[p].values => DOMAIN main[p].values[o] = {})
  <2>1. DOMAIN m.config[o] = {}
    BY <1>1 DEF EmptyMap
  <2>2. CASE o \in DOMAIN main[p].values
    BY <2>1, <2>2 DEF ConfigMapParses, Values
  <2>3. CASE o \notin DOMAIN main[p].values
    <3>1. DOMAIN Values(main, p, o) = {}
      BY <2>3 DEF Values, EmptyMap
    <3> QED BY <2>1, <2>3, <3>1 DEF ConfigMapParses
  <2> QED BY <2>2, <2>3
<1>4. (\A i \in DOMAIN m.provides : InterfaceLoads(m.provides[i]))
        <=> \A i \in Implementations(main, p) : \A v \in Offered(main, p, i) : InterfaceLoads(v)
  BY <1>1
<1>5. DOMAIN m.config = Implementations(main, p) \cup {ModuleOwner}
  BY <1>1
<1>6. ASSUME DOMAIN main[p].values \subseteq DOMAIN m.config,
             \A o \in DOMAIN m.config : ConfigMapParses(m.config[o], Values(main, p, o))
      PROVE  \A o \in DOMAIN main[p].values :
               /\ o = ModuleOwner \/ o \in Implementations(main, p)
               /\ DOMAIN main[p].values[o] = {}
  <2> TAKE o \in DOMAIN main[p].values
  <2>1. o \in DOMAIN m.config
    BY <1>6
  <2>2. DOMAIN main[p].values[o] = {}
    BY <2>1, <1>3, <1>6
  <2> QED BY <2>1, <2>2, <1>5
<1>7. ASSUME \A o \in DOMAIN main[p].values :
               /\ o = ModuleOwner \/ o \in Implementations(main, p)
               /\ DOMAIN main[p].values[o] = {}
      PROVE  /\ DOMAIN main[p].values \subseteq DOMAIN m.config
             /\ \A o \in DOMAIN m.config : ConfigMapParses(m.config[o], Values(main, p, o))
  <2>1. DOMAIN main[p].values \subseteq DOMAIN m.config
    BY <1>5, <1>7
  <2>2. ASSUME NEW o \in DOMAIN m.config
        PROVE  ConfigMapParses(m.config[o], Values(main, p, o))
    <3>1. o \in DOMAIN main[p].values => DOMAIN main[p].values[o] = {}
      BY <1>7
    <3> QED BY <3>1, <2>2, <1>3
  <2> QED BY <2>1, <2>2
<1> QED BY <1>2, <1>4, <1>6, <1>7 DEF ManifestLoads

(* What is asked of a well-formed config, one condition at a time.          *)
LEMMA WellFormedSays ==
  ASSUME WellFormed(main), FileShape(main)
  PROVE  /\ \A p, q \in Probes(main) : p = q
         /\ \A id \in Probes(main) : ProbeSound(main, id)
         /\ \A id \in DOMAIN main \ Probes(main) : ModuleSound(main, id)
         /\ \A x \in Connections(main, DOMAIN main) : ConnectionSound(main, x)
         /\ \A id \in DOMAIN main : \A i \in Implementations(main, id) :
              \A v \in Offered(main, id, i) : InterfaceLoads(v)
<1>1. Probes(main) \subseteq DOMAIN main
  BY DEF Probes
<1> QED BY <1>1, OneProbe DEF WellFormed

(* In a well-formed config the manifest of the probe can be generated, and  *)
(* it is accepted.                                                          *)
LEMMA ProbeMustFit ==
  ASSUME NEW p, OthersLoaded(p), FileShape(main), WellFormed(main)
  PROVE  ProbeFits(p) /\ ManifestLoads(p, ProbeManifest(p))
<1>0. /\ \A id \in Probes(main) : ProbeSound(main, id)
      /\ \A id \in DOMAIN main \ Probes(main) : ModuleSound(main, id)
      /\ \A x \in Connections(main, DOMAIN main) : ConnectionSound(main, x)
      /\ \A id \in DOMAIN main : \A i \in Implementations(main, id) :
           \A v \in Offered(main, id, i) : InterfaceLoads(v)
      /\ Probes(main) = {p} /\ p \in DOMAIN main
  BY WellFormedSays DEF OthersLoaded, Probes
<1>1. ConnectionsDeclared(p)
  <2> SUFFICES ASSUME NEW x \in Connections(main, Others(p))
               PROVE  x[2] \in DOMAIN manifests[main[x[1]].module].requires
    BY DEF ConnectionsDeclared
  <2>1. x[1] \in Others(p) /\ x[2] \in DOMAIN main[x[1]].connections
    BY ConnectionParts
  <2>2. ModuleSound(main, x[1]) /\ OfFile(x[1], Manifest(x[1]))
    BY <1>0, <2>1 DEF Others, OthersLoaded
  <2> QED BY <2>1, <2>2 DEF ModuleSound, OfFile, Manifest
<1>2. Functional(ProbeOffers(p))
  <2> SUFFICES ASSUME NEW y \in ProbeOffers(p), NEW z \in ProbeOffers(p), y[1] = z[1] PROVE y = z
    BY DEF Functional
  <2>1. /\ y = <<y[1], y[2]>> /\ z = <<z[1], z[2]>>
        /\ y[1] \in Implementations(main, p)
        /\ y[2] \in Offered(main, p, y[1]) /\ z[2] \in Offered(main, p, y[1])
    <3>1. y = <<y[1], y[2]>> /\ z = <<z[1], z[2]>>
      BY OffersKnown
    <3>2. <<y[1], y[2]>> \in ProbeOffers(p) /\ <<y[1], z[2]>> \in ProbeOffers(p)
      BY <3>1
    <3> QED BY <3>1, <3>2, OffersKnown
  <2>2. y[2] = z[2]
    <3>1. CASE Clients(main, p) = {}
      <4>1. Offered(main, p, y[1]) = {"empty"}
        BY <1>0, <3>1 DEF Offered
      <4> QED BY <2>1, <4>1
    <3>2. CASE Clients(main, p) # {}
      <4>1. Implementations(main, p) = {End(main, x).impl : x \in Clients(main, p)}
        BY <1>0, <3>2 DEF Implementations
      <4>2. PICK x \in Clients(main, p) : End(main, x).impl = y[1]
        BY <2>1, <4>1
      <4>3. /\ x \in Connections(main, DOMAIN main) /\ End(main, x).module = p
            /\ x[1] \notin Probes(main)
        BY <1>0, ClientWants DEF Others
      <4>4. ConnectionSound(main, x)
        BY <1>0, <4>3
      <4>5. Offered(main, p, y[1]) = {Wanted(main, x)}
        BY <4>2, <4>3, <4>4 DEF ConnectionSound
      <4> QED BY <2>1, <4>5
    <3> QED BY <3>1, <3>2
  <2> QED BY <2>1, <2>2
<1>3. ProbeTargetsExist(p)
  <2> SUFFICES ASSUME NEW x \in Connections(main, {p})
               PROVE  /\ End(main, x).module \in DOMAIN main
                      /\ End(main, x).impl \in DOMAIN ProvidesOf(p, End(main, x).module)
    BY DEF ProbeTargetsExist
  <2>1. x \in Connections(main, DOMAIN main)
    BY <1>0, ConnectionParts
  <2>2. /\ End(main, x).module \in DOMAIN main
        /\ End(main, x).impl \in Implementations(main, End(main, x).module)
    BY <1>0, <2>1 DEF ConnectionSound
  <2> QED BY <1>2, <2>2, ProvidesOfKnown
<1>4. Functional(ProbeAsks(p))
  <2> SUFFICES ASSUME NEW y \in ProbeAsks(p), NEW z \in ProbeAsks(p), y[1] = z[1] PROVE y = z
    BY DEF Functional
  <2> DEFINE found(x) == ProvidesOf(p, End(main, x).module)[End(main, x).impl]
  <2>1. /\ \E x \in Connections(main, {p}) : y = <<x[2], found(x)>>
        /\ \E x \in Connections(main, {p}) : z = <<x[2], found(x)>>
    BY AskedFor
  <2> HIDE DEF found
  <2>2. PICK u \in Connections(main, {p}) : y = <<u[2], found(u)>>
    BY <2>1
  <2>3. PICK v \in Connections(main, {p}) : z = <<v[2], found(v)>>
    BY <2>1
  <2>4. u[2] = v[2]
    BY <2>2, <2>3
  <2>5. /\ u[1] = p /\ u[2] \in DOMAIN main[p].connections /\ u[3] \in DOMAIN main[p].connections[u[2]]
        /\ v[1] = p /\ v[3] \in DOMAIN main[p].connections[u[2]]
        /\ u = <<p, u[2], u[3]>> /\ v = <<p, u[2], v[3]>>
    BY <2>4, ConnectionParts
  <2>6. Len(main[p].connections[u[2]]) = 1 /\ IsList(main[p].connections[u[2]])
    BY <1>0, <2>5 DEF ProbeSound, FileShape
  <2>7. u[3] = 1 /\ v[3] = 1
    BY <2>5, <2>6 DEF IsList
  <2>8. u = v
    BY <2>5, <2>7
  <2> QED BY <2>2, <2>3, <2>8
<1>5. ProbeFits(p)
  BY <1>1, <1>2, <1>3, <1>4 DEF ProbeFits
<1>6. Generated(p, ProbeManifest(p))
  BY <1>5, ManifestGenerated
<1>7. /\ \A o \in DOMAIN main[p].values :
           /\ o = ModuleOwner \/ o \in Implementations(main, p)
           /\ DOMAIN main[p].values[o] = {}
      /\ \A i \in Implementations(main, p) : \A v \in Offered(main, p, i) : InterfaceLoads(v)
  BY <1>0 DEF ProbeSound
<1> QED BY <1>5, <1>6, <1>7, GeneratedLoads

-----------------------------------------------------------------------------
(* Resolving the requirements                                               *)

(* The ends of a sound connection fit in the loader's eyes.                 *)
LEMMA SoundFits ==
  ASSUME AllLoaded, NEW x \in Connections(main, DOMAIN main), NEW r,
         LET t == End(main, x).module
         IN /\ t \in DOMAIN main /\ End(main, x).impl \in Implementations(main, t)
            /\ Offered(main, t, End(main, x).impl) = {r.interface}
  PROVE  TargetFits(r, End(main, x))
<1> DEFINE t == End(main, x).module
           i == End(main, x).impl
<1>1. t \in DOMAIN main /\ i \in Implementations(main, t) /\ Offered(main, t, i) = {r.interface}
  OBVIOUS
<1> HIDE DEF t, i
<1>2. i \in DOMAIN Manifest(t).provides /\ Offered(main, t, i) = {Manifest(t).provides[i]}
  BY <1>1, ManifestKnown
<1>3. Manifest(t).provides[i] = r.interface
  BY <1>1, <1>2
<1> QED BY <1>1, <1>2, <1>3 DEF TargetFits, t, i

LEMMA FitsSound ==
  ASSUME AllLoaded, NEW x \in Connections(main, DOMAIN main), NEW r, TargetFits(r, End(main, x))
  PROVE  LET t == End(main, x).module
         IN /\ t \in DOMAIN main /\ End(main, x).impl \in Implementations(main, t)
            /\ Offered(main, t, End(main, x).impl) = {r.interface}
<1> DEFINE t == End(main, x).module
           i == End(main, x).impl
<1>1. t \in DOMAIN main /\ i \in DOMAIN Manifest(t).provides /\ Manifest(t).provides[i] = r.interface
  BY DEF TargetFits
<1> HIDE DEF t, i
<1>2. i \in Implementations(main, t) /\ Offered(main, t, i) = {Manifest(t).provides[i]}
  BY <1>1, ManifestKnown
<1>3. Offered(main, t, i) = {r.interface}
  BY <1>1, <1>2
<1> QED BY <1>1, <1>2, <1>3 DEF t, i

(* A list of connections, one by one.                                       *)
LEMMA OneOfList ==
  ASSUME NEW id \in DOMAIN main, NEW q \in DOMAIN main[id].connections, NEW n \in DOMAIN main[id].connections[q]
  PROVE  /\ <<id, q, n>> \in Connections(main, {id}) /\ <<id, q, n>> \in Connections(main, DOMAIN main)
         /\ End(main, <<id, q, n>>) = main[id].connections[q][n]
  BY ConnectionsElement DEF End

(* Every module of a well-formed config resolves.                           *)
LEMMA WellFormedResolves ==
  ASSUME AllLoaded, WellFormed(main), NEW id \in DOMAIN main
  PROVE  Resolvable(id)
<1>0. /\ \A k \in Probes(main) : ProbeSound(main, k)
      /\ \A k \in DOMAIN main \ Probes(main) : ModuleSound(main, k)
      /\ \A x \in Connections(main, DOMAIN main) : ConnectionSound(main, x)
      /\ FileShape(main)
  BY WellFormedSays DEF AllLoaded
<1> DEFINE m == Manifest(id)
           cs(q) == main[id].connections[q]
<1>1. ASSUME OfFile(id, m) PROVE Resolvable(id)
  <2>1. ModuleSound(main, id) /\ id \notin Probes(main) /\ m = ManifestFiles[main[id].module]
        /\ main[id].module \in DOMAIN ManifestFiles
    BY <1>0, <1>1, ProbeOrFile DEF OfFile
  <2>2. DOMAIN main[id].connections \subseteq DOMAIN m.requires
    BY <2>1 DEF ModuleSound
  <2>3. ASSUME NEW q \in DOMAIN m.requires PROVE RequirementMet(id, q)
    <3>1. /\ m.requires[q].min \in Nat /\ m.requires[q].max \in Nat
          /\ Cardinality(Own(main, id, q)) \in m.requires[q].min..m.requires[q].max
      <4> DEFINE reqs == ManifestFiles[main[id].module].requires
      <4>1. q \in DOMAIN reqs /\ m.requires[q] = reqs[q]
        BY <2>1, <2>3
      <4>2. reqs[q].min \in Nat /\ reqs[q].max \in Nat
        BY <2>1, <4>1, ConfigConstants
      <4>3. Cardinality(Own(main, id, q)) \in reqs[q].min..reqs[q].max
        BY <2>1, <4>1 DEF ModuleSound, Own
      <4> QED BY <4>1, <4>2, <4>3
    <3> DEFINE own == Cardinality(Own(main, id, q))
    <3>2. /\ Connected(id, q) => own = Len(cs(q))
          /\ ~Connected(id, q) => own = 0
      <4>1. FileShape(main)
        BY <1>0
      <4> QED BY <4>1, ConnectionCount DEF Connected
    <3>3. CASE Connected(id, q)
      <4>1. q \in DOMAIN main[id].connections
        BY <3>3 DEF Connected
      <4>2. CountFits(m.requires[q], Len(cs(q)))
        BY <3>1, <3>2, <3>3 DEF CountFits
      <4>3. ASSUME NEW n \in DOMAIN cs(q) PROVE TargetFits(m.requires[q], cs(q)[n])
        <5> DEFINE x == <<id, q, n>>
        <5>1. x \in Connections(main, DOMAIN main) /\ End(main, x) = cs(q)[n]
          BY <4>1, OneOfList
        <5>2. x[1] = id /\ Wanted(main, x) = m.requires[q].interface
          BY <2>1 DEF Wanted
        <5> HIDE DEF x
        <5>3. ConnectionSound(main, x)
          BY <1>0, <5>1
        <5>4. LET t == End(main, x).module
              IN /\ t \in DOMAIN main /\ End(main, x).impl \in Implementations(main, t)
                 /\ Offered(main, t, End(main, x).impl) = {m.requires[q].interface}
          BY <2>1, <5>2, <5>3 DEF ConnectionSound
        <5>5. TargetFits(m.requires[q], End(main, x))
          BY <5>1, <5>4, SoundFits
        <5> QED BY <5>1, <5>5
      <4> QED BY <3>3, <4>2, <4>3 DEF RequirementMet
    <3>4. CASE ~Connected(id, q)
      <4>1. m.requires[q].min < 1
        BY <3>1, <3>2, <3>4 DEF Connected
      <4> QED BY <3>4, <4>1 DEF RequirementMet
    <3> QED BY <3>3, <3>4
  <2> QED BY <2>2, <2>3 DEF Resolvable
<1>2. ASSUME Generated(id, m) PROVE Resolvable(id)
  <2>1. ProbeSound(main, id)
    BY <1>0, <1>2, ProbeOrFile
  <2>2. ASSUME NEW q \in DOMAIN main[id].connections
        PROVE  /\ Len(cs(q)) = 1 /\ DOMAIN cs(q) = {1}
               /\ <<id, q, 1>> \in Connections(main, {id}) /\ End(main, <<id, q, 1>>) = cs(q)[1]
    <3>1. Len(cs(q)) = 1 /\ IsList(cs(q))
      BY <1>0, <2>1 DEF ProbeSound, FileShape
    <3>2. DOMAIN cs(q) = {1}
      BY <3>1 DEF IsList
    <3> QED BY <3>1, <3>2, OneOfList
  <2>3. DOMAIN main[id].connections \subseteq DOMAIN m.requires
    <3> SUFFICES ASSUME NEW q \in DOMAIN main[id].connections PROVE q \in DOMAIN m.requires
      OBVIOUS
    <3>1. <<id, q, 1>> \in Connections(main, {id}) /\ <<id, q, 1>>[2] = q
      BY <2>2
    <3> QED BY <1>2, <3>1 DEF Generated
  <2>4. ASSUME NEW q \in DOMAIN m.requires PROVE RequirementMet(id, q)
    <3>1. PICK x \in Connections(main, {id}) : x[2] = q
      BY <1>2, <2>4 DEF Generated
    <3>2. q \in DOMAIN main[id].connections
      BY <3>1, ConnectionParts
    <3> DEFINE y == <<id, q, 1>>
    <3>3. /\ Len(cs(q)) = 1 /\ DOMAIN cs(q) = {1} /\ y \in Connections(main, {id})
          /\ End(main, y) = cs(q)[1] /\ y[2] = q
          /\ y \in Connections(main, DOMAIN main)
      BY <2>2, <3>2, OneOfList
    <3> HIDE DEF y
    <3>4. /\ m.requires[q].min = 1 /\ m.requires[q].max = 1
          /\ End(main, y).module \in DOMAIN main
          /\ End(main, y).impl \in Implementations(main, End(main, y).module)
          /\ Offered(main, End(main, y).module, End(main, y).impl) = {m.requires[q].interface}
      BY <1>2, <3>3 DEF Generated
    <3>5. TargetFits(m.requires[q], cs(q)[1])
      BY <3>3, <3>4, SoundFits
    <3> QED BY <3>2, <3>3, <3>4, <3>5 DEF RequirementMet, CountFits, Connected
  <2> QED BY <2>3, <2>4 DEF Resolvable
<1> QED BY <1>1, <1>2, ManifestKnown

(* A module that resolves is joined to modules that offer what it wants.    *)
LEMMA ResolvedConnection ==
  ASSUME AllLoaded, NEW x \in Connections(main, DOMAIN main), Resolvable(x[1])
  PROVE  ConnectionSound(main, x)
<1> DEFINE id == x[1]
           q == x[2]
           r == Manifest(id).requires[q]
<1>1. /\ id \in DOMAIN main /\ q \in DOMAIN main[id].connections
      /\ x[3] \in DOMAIN main[id].connections[q]
      /\ End(main, x) = main[id].connections[q][x[3]]
  BY ConnectionParts DEF End
<1>2. q \in DOMAIN Manifest(id).requires /\ RequirementMet(id, q) /\ Connected(id, q)
  BY <1>1 DEF Resolvable, Connected
<1>3. TargetFits(r, End(main, x))
  BY <1>1, <1>2 DEF RequirementMet
<1> DEFINE t == End(main, x).module
           i == End(main, x).impl
<1>4. /\ t \in DOMAIN main /\ i \in Implementations(main, t)
      /\ Offered(main, t, i) = {r.interface}
  BY <1>3, FitsSound
<1>5. id \notin Probes(main) => Wanted(main, x) = r.interface
  <2>1. OfFile(id, Manifest(id)) \/ Generated(id, Manifest(id))
    BY <1>1, ManifestKnown
  <2>2. id \notin Probes(main) => OfFile(id, Manifest(id))
    BY <2>1, ProbeOrFile
  <2> QED BY <2>2 DEF OfFile, Wanted
<1> QED BY <1>4, <1>5 DEF ConnectionSound

(* A loaded module that resolves is sound.                                  *)
LEMMA ResolvedModule ==
  ASSUME AllLoaded, NEW id \in DOMAIN main, Resolvable(id), OfFile(id, Manifest(id))
  PROVE  ModuleSound(main, id)
<1> DEFINE m == Manifest(id)
<1>1. FileShape(main) /\ ManifestLoads(id, m)
  BY ManifestKnown DEF AllLoaded
<1>2. /\ main[id].module \in DOMAIN ManifestFiles /\ m = ManifestFiles[main[id].module]
  BY DEF OfFile
<1>3. /\ \A o \in DOMAIN main[id].values : o \in DOMAIN m.config
      /\ \A o \in DOMAIN m.config : ValuesSound(m.config[o], Values(main, id, o))
  BY <1>1, ModuleLoads
<1>4. \A q \in DOMAIN main[id].connections : q \in DOMAIN m.requires
  BY DEF Resolvable
<1>5. ASSUME NEW q \in DOMAIN m.requires
      PROVE  Cardinality(Own(main, id, q)) \in m.requires[q].min..m.requires[q].max
  <2>1. m.requires[q].min \in Nat /\ m.requires[q].max \in Nat
    BY <1>2, ConfigConstants
  <2>2. RequirementMet(id, q)
    BY <1>5 DEF Resolvable
  <2>3. CASE Connected(id, q)
    <3>1. q \in DOMAIN main[id].connections
      BY <2>3 DEF Connected
    <3>2. Cardinality(Own(main, id, q)) = Len(main[id].connections[q])
      BY <1>1, <3>1, ConnectionCount
    <3>3. CountFits(m.requires[q], Len(main[id].connections[q]))
      BY <2>2, <2>3 DEF RequirementMet
    <3>4. Len(main[id].connections[q]) \in Nat
      BY <1>1, <3>1 DEF FileShape, IsList
    <3> HIDE DEF m
    <3> QED BY <2>1, <3>2, <3>3, <3>4 DEF CountFits
  <2>4. CASE ~Connected(id, q)
    <3>1. Cardinality(Own(main, id, q)) = 0
      BY <1>1, <2>4, ConnectionCount DEF Connected
    <3>2. m.requires[q].min < 1
      BY <2>2, <2>4 DEF RequirementMet
    <3> HIDE DEF m
    <3> QED BY <2>1, <3>1, <3>2
  <2> QED BY <2>3, <2>4
<1> QED BY <1>2, <1>3, <1>4, <1>5 DEF ModuleSound, Own

LEMMA ResolvedProbe ==
  ASSUME AllLoaded, NEW id \in DOMAIN main, Resolvable(id), Generated(id, Manifest(id))
  PROVE  ProbeSound(main, id)
<1> DEFINE m == Manifest(id)
<1>1. FileShape(main) /\ ManifestLoads(id, m)
  BY ManifestKnown DEF AllLoaded
<1>2. \A o \in DOMAIN main[id].values :
        /\ o = ModuleOwner \/ o \in Implementations(main, id)
        /\ DOMAIN main[id].values[o] = {}
  BY <1>1, GeneratedLoads
<1>3. ASSUME NEW q \in DOMAIN main[id].connections
      PROVE  Len(main[id].connections[q]) = 1
  <2>1. q \in DOMAIN m.requires /\ Connected(id, q)
    BY <1>3 DEF Resolvable, Connected
  <2>2. CountFits(m.requires[q], Len(main[id].connections[q]))
    BY <2>1 DEF Resolvable, RequirementMet
  <2>3. PICK x \in Connections(main, {id}) : x[2] = q
    BY <2>1 DEF Generated
  <2>4. m.requires[q].min = 1 /\ m.requires[q].max = 1
    BY <2>3 DEF Generated
  <2>5. Len(main[id].connections[q]) \in Nat
    BY <1>1, <1>3 DEF FileShape, IsList
  <2>6. Len(main[id].connections[q]) >= 1 /\ Len(main[id].connections[q]) <= 1
    BY <2>2, <2>4, Zenon DEF CountFits
  <2>7. \A n \in Nat : n >= 1 /\ n <= 1 => n = 1
    OBVIOUS
  <2> QED BY <2>5, <2>6, <2>7, Zenon
<1> QED BY <1>2, <1>3 DEF ProbeSound

(* A config all of whose modules are loaded and resolve is well-formed.     *)
LEMMA ResolvedIsWellFormed ==
  ASSUME AllLoaded, \A id \in DOMAIN main : Resolvable(id)
  PROVE  WellFormed(main)
<1>1. Cardinality(Probes(main)) <= 1
  BY OneProbe DEF AllLoaded
<1>2. ASSUME NEW id \in DOMAIN main
      PROVE  IF id \in Probes(main) THEN ProbeSound(main, id) ELSE ModuleSound(main, id)
  <2>1. OfFile(id, Manifest(id)) \/ Generated(id, Manifest(id))
    BY ManifestKnown
  <2>2. CASE OfFile(id, Manifest(id))
    BY <2>2, ProbeOrFile, ResolvedModule
  <2>3. CASE Generated(id, Manifest(id))
    BY <2>3, ProbeOrFile, ResolvedProbe
  <2> QED BY <2>1, <2>2, <2>3
<1>3. \A x \in Connections(main, DOMAIN main) : ConnectionSound(main, x)
  BY ResolvedConnection, ConnectionParts
<1>4. ASSUME NEW id \in DOMAIN main, NEW i \in Implementations(main, id), NEW v \in Offered(main, id, i)
      PROVE  InterfaceLoads(v)
  <2>1. /\ i \in DOMAIN Manifest(id).provides
        /\ v = Manifest(id).provides[i] /\ ManifestLoads(id, Manifest(id))
    BY ManifestKnown
  <2> QED BY <2>1 DEF ManifestLoads
<1> QED BY <1>1, <1>2, <1>3, <1>4 DEF WellFormed

(* A module whose manifest is missing or does not load is one of no         *)
(* well-formed config.                                                      *)
LEMMA BadModule ==
  ASSUME FileShape(main), NEW id \in DOMAIN main, main[id].module # ProbeModule,
         main[id].module \in DOMAIN ManifestFiles => ~ManifestLoads(id, ManifestFiles[main[id].module])
  PROVE  ~WellFormed(main)
<1> SUFFICES ASSUME WellFormed(main) PROVE FALSE
  OBVIOUS
<1> DEFINE m == ManifestFiles[main[id].module]
<1>1. id \notin Probes(main)
  BY DEF Probes
<1>2. ModuleSound(main, id)
  BY <1>1, WellFormedSays
<1>3. OfFile(id, m)
  BY <1>2 DEF ModuleSound, OfFile
<1>4. \A i \in DOMAIN m.provides : InterfaceLoads(m.provides[i])
  <2>1. DOMAIN m.provides = Implementations(main, id)
        /\ \A i \in DOMAIN m.provides : Offered(main, id, i) = {m.provides[i]}
    BY <1>3, ProvidesKnown
  <2>2. \A i \in Implementations(main, id) : \A v \in Offered(main, id, i) : InterfaceLoads(v)
    BY WellFormedSays
  <2> QED BY <2>1, <2>2
<1>5. ManifestLoads(id, m)
  BY <1>2, <1>3, <1>4, ModuleLoads DEF ModuleSound
<1> QED BY <1>3, <1>5 DEF OfFile

-----------------------------------------------------------------------------
(* Everything the loader keeps: the inductive invariant ConfigInv            *)

Commands(m) == [i \in DOMAIN m.provides |-> ResolveInterface(m.provides[i]).cmds]

(* The module that is called like the type was loaded after all of the type. *)
EmptiedBy(S, type) ==
  /\ type \in S /\ main[type].module # type
  /\ \A id \in S : main[id].module = type => Order(id) < Order(type)

CacheRight ==
  \A id \in DOMAIN names :
    /\ names[id] \in DOMAIN cache
    /\ EmptiedBy(DOMAIN names, names[id]) => cache[names[id]] = EmptyMap
    /\ ~EmptiedBy(DOMAIN names, names[id]) => cache[names[id]] = Commands(manifests[names[id]])

(* What is kept of the modules that have been loaded.                       *)
KeptInv ==
  /\ FileShape(main) /\ DOMAIN names \subseteq DOMAIN main /\ DOMAIN maps = DOMAIN names
  /\ \A id \in DOMAIN names : LoadedRight(id)
  /\ \A i \in DOMAIN definitions : definitions[i] = ResolveInterface(i)
  /\ CacheRight

LEMMA OrderIsNumber ==
  ASSUME FileShape(main)
  PROVE  /\ \A i \in DOMAIN main : Order(i) \in Nat
         /\ \A i, k \in DOMAIN main : main[i].module # ProbeModule => 
              /\ main[k].module = ProbeModule => Order(i) < Order(k)
              /\ main[k].module # ProbeModule => (Order(i) < Order(k) <=> Position(i) < Position(k))
<1>1. /\ \A i \in DOMAIN main : Position(i) \in Nat /\ Position(i) <= Len(KeyOrder)
      /\ Len(KeyOrder) \in Nat
  BY PositionOf DEF FileShape
<1> QED BY <1>1 DEF Order

(* What loading one more module, of a type whose manifest is the one its     *)
(* modules have, adds to what is kept.                                       *)
LEMMA OneMore ==
  ASSUME KeptInv, NEW id \in DOMAIN main \ DOMAIN names, NEW m,
         \A k \in DOMAIN names : Order(k) < Order(id),
         \/ OfFile(id, m)
         \/ Generated(id, m) /\ \A k \in DOMAIN names : k \notin Probes(main),
         ManifestLoads(id, m), LoadAndValidateManifest(id, m), UNCHANGED main
  PROVE  KeptInv' /\ DOMAIN names' = DOMAIN names \cup {id}
<1> DEFINE type == main[id].module
           parsed == ParsedMaps(id, m)
<1>1. /\ DOMAIN manifests' = {type} \cup DOMAIN manifests /\ manifests'[type] = m
      /\ \A t \in DOMAIN manifests : t # type => manifests'[t] = manifests[t]
  <2>1. manifests' = Put(manifests, type, m)
    BY DEF LoadAndValidateManifest
  <2> HIDE DEF type
  <2> QED BY <2>1 DEF Put
<1>2. /\ DOMAIN names' = DOMAIN names \cup {id} /\ names'[id] = type
      /\ \A k \in DOMAIN names : names'[k] = names[k]
  <2>1. names' = Put(names, id, type)
    BY DEF LoadAndValidateManifest
  <2> HIDE DEF type
  <2> QED BY <2>1 DEF Put
<1>3. /\ DOMAIN maps' = DOMAIN maps \cup {id} /\ maps'[id] = parsed
      /\ \A k \in DOMAIN maps : k # id => maps'[k] = maps[k]
  <2>1. maps' = Put(maps, id, parsed)
    BY DEF LoadAndValidateManifest, ParsedMaps
  <2> HIDE DEF parsed
  <2> QED BY <2>1 DEF Put
<1>4. /\ DOMAIN definitions' = Range(m.provides) \cup DOMAIN definitions
      /\ \A i \in DOMAIN definitions' : definitions'[i] = ResolveInterface(i)
  <2> DEFINE new == [i \in Range(m.provides) |-> ResolveInterface(i)]
  <2>1. definitions' = PutAll(definitions, new)
    BY DEF LoadAndValidateManifest
  <2>2. DOMAIN new = Range(m.provides) /\ \A i \in DOMAIN new : new[i] = ResolveInterface(i)
    OBVIOUS
  <2>3. \A i \in DOMAIN definitions : definitions[i] = ResolveInterface(i)
    BY DEF KeptInv
  <2> HIDE DEF new
  <2>4. /\ DOMAIN definitions' = DOMAIN new \cup DOMAIN definitions
        /\ \A i \in DOMAIN new : definitions'[i] = new[i]
        /\ \A i \in DOMAIN definitions : i \notin DOMAIN new => definitions'[i] = definitions[i]
    BY <2>1 DEF PutAll
  <2> QED BY <2>2, <2>3, <2>4
<1>5. ASSUME NEW k \in DOMAIN names
      PROVE  /\ k # id /\ k \in DOMAIN main /\ names[k] = main[k].module /\ names[k] \in DOMAIN manifests
             /\ manifests'[names[k]] = manifests[names[k]]
  <2>1. k # id /\ LoadedRight(k)
    BY <1>5 DEF KeptInv
  <2>2. k \in DOMAIN main /\ names[k] = main[k].module /\ names[k] \in DOMAIN manifests
    BY <2>1 DEF LoadedRight
  <2>3. CASE names[k] = type
    <3>1. OfFile(k, manifests[type]) \/ Generated(k, manifests[type])
      BY <2>1, <2>3 DEF LoadedRight
    <3>2. k \in Probes(main) <=> id \in Probes(main)
      BY <2>2, <2>3 DEF Probes
    <3>3. OfFile(id, m) /\ OfFile(k, manifests[type])
      BY <1>5, <3>1, <3>2, ProbeOrFile
    <3> QED BY <1>1, <2>1, <2>2, <2>3, <3>3 DEF OfFile
  <2>4. CASE names[k] # type
    BY <1>1, <2>1, <2>2, <2>4
  <2> QED BY <2>3, <2>4
<1>6. \A k, n : /\ OfFile(k, n)' <=> OfFile(k, n)
                /\ Generated(k, n)' <=> Generated(k, n)
                /\ ManifestLoads(k, n)' <=> ManifestLoads(k, n)
                /\ ParsedMaps(k, n)' = ParsedMaps(k, n)
  BY DEF OfFile, Generated, ManifestLoads, ParsedMaps
<1>7. ASSUME NEW k \in DOMAIN names'
      PROVE  LoadedRight(k)'
  <2>1. CASE k = id
    <3>1. /\ id \in DOMAIN main' /\ names'[id] = main'[id].module /\ names'[id] \in DOMAIN manifests'
          /\ manifests'[names'[id]] = m
      BY <1>1, <1>2
    <3>2. Range(m.provides) \subseteq DOMAIN definitions'
      BY <1>4
    <3>3. (OfFile(id, m) \/ Generated(id, m))' /\ ManifestLoads(id, m)' /\ maps'[id] = ParsedMaps(id, m)'
      BY <1>3, <1>6
    <3> HIDE DEF type, parsed
    <3> QED BY <2>1, <3>1, <3>2, <3>3 DEF LoadedRight
  <2>2. CASE k \in DOMAIN names
    <3>0. PICK n : n = manifests[names[k]]
      OBVIOUS
    <3>1. LoadedRight(k) /\ k \in DOMAIN maps
      BY <2>2 DEF KeptInv
    <3>2. /\ k \in DOMAIN main' /\ names'[k] = main'[k].module /\ names'[k] \in DOMAIN manifests'
          /\ manifests'[names'[k]] = n
      BY <3>0, <1>1, <1>2, <1>5, <2>2
    <3>3. Range(n.provides) \subseteq DOMAIN definitions'
      BY <3>0, <1>4, <3>1 DEF LoadedRight
    <3>4. (OfFile(k, n) \/ Generated(k, n)) /\ ManifestLoads(k, n) /\ maps'[k] = ParsedMaps(k, n)
      BY <3>0, <1>3, <1>5, <2>2, <3>1 DEF LoadedRight
    <3>5. (OfFile(k, n)' \/ Generated(k, n)') /\ ManifestLoads(k, n)' /\ maps'[k] = ParsedMaps(k, n)'
      BY <1>6, <3>4
    <3> QED BY <3>2, <3>3, <3>5 DEF LoadedRight
  <2> QED BY <1>2, <1>7, <2>1, <2>2
<1>8. /\ DOMAIN cache' = {type} \cup {id} \cup DOMAIN cache
      /\ cache'[type] = Commands(m)
      /\ id # type => cache'[id] = EmptyMap
      /\ \A t \in DOMAIN cache : t # type /\ t # id => cache'[t] = cache[t]
  <2> DEFINE cmds == [i \in DOMAIN m.provides |-> ResolveInterface(m.provides[i]).cmds]
             between == Put(cache, id, EmptyMap)
  <2>1. cache' = Put(between, type, cmds) /\ cmds = Commands(m)
    BY DEF LoadAndValidateManifest, Cached, Commands
  <2>2. /\ DOMAIN between = {id} \cup DOMAIN cache /\ between[id] = EmptyMap
        /\ \A t \in DOMAIN cache : t # id => between[t] = cache[t]
    BY DEF Put
  <2> HIDE DEF type, cmds, between
  <2>3. /\ DOMAIN cache' = {type} \cup DOMAIN between /\ cache'[type] = cmds
        /\ \A t \in DOMAIN between : t # type => cache'[t] = between[t]
    BY <2>1 DEF Put
  <2> QED BY <2>1, <2>2, <2>3
<1>9. \A i : Order(i)' = Order(i)
  BY DEF Order
<1>10. \A i \in DOMAIN main : Order(i) \in Nat
  BY OrderIsNumber DEF KeptInv
<1> DEFINE S == DOMAIN names
           S1 == DOMAIN names \cup {id}
<1>11. ~EmptiedBy(S1, type)
  BY <1>5, <1>10 DEF EmptiedBy
<1>12. id # type => EmptiedBy(S1, id) \/ \A k \in S : main[k].module # id
  BY DEF EmptiedBy
<1>13. \A t : t # type /\ t # id => (EmptiedBy(S1, t) <=> EmptiedBy(S, t))
  BY DEF EmptiedBy
<1>14. \A t : EmptiedBy(DOMAIN names, t)' <=> EmptiedBy(S1, t)
  BY <1>2, <1>9 DEF EmptiedBy
<1>15. CacheRight'
  <2> SUFFICES ASSUME NEW k \in DOMAIN names', NEW t, t = names'[k]
               PROVE  /\ t \in DOMAIN cache'
                      /\ EmptiedBy(S1, t) => cache'[t] = EmptyMap
                      /\ ~EmptiedBy(S1, t) => cache'[t] = Commands(manifests'[t])
    BY <1>14 DEF CacheRight, Commands
  <2>1. CASE t = type
    BY <1>1, <1>8, <1>11, <2>1
  <2>2. CASE t # type
    <3>1. k \in S /\ t = names[k] /\ t = main[k].module /\ manifests'[t] = manifests[t]
      BY <1>2, <1>5, <2>2
    <3>2. /\ t \in DOMAIN cache
          /\ EmptiedBy(S, t) => cache[t] = EmptyMap
          /\ ~EmptiedBy(S, t) => cache[t] = Commands(manifests[t])
      BY <3>1 DEF KeptInv, CacheRight
    <3>3. CASE t = id
      BY <1>8, <1>12, <2>2, <3>1, <3>3
    <3>4. CASE t # id
      BY <1>8, <1>13, <2>2, <3>1, <3>2, <3>4
    <3> QED BY <3>3, <3>4
  <2> QED BY <2>1, <2>2
<1>16. FileShape(main)' /\ DOMAIN names' \subseteq DOMAIN main' /\ DOMAIN maps' = DOMAIN names'
  BY <1>2, <1>3 DEF KeptInv
<1> QED BY <1>2, <1>4, <1>7, <1>15, <1>16 DEF KeptInv

(* The loop over the manifests has seen the ids before those in todo.       *)
LoadingInv ==
  /\ DOMAIN names = (DOMAIN main \ todo) \ Probes(main)
  /\ probe = Probes(main) \ todo
  /\ \A p, q \in probe : p = q
  /\ \A i \in DOMAIN main \ todo, k \in todo : Position(i) < Position(k)
  /\ resolved = {}

ResolvingInv ==
  /\ AllLoaded
  /\ \A id \in DOMAIN main \ todo : Resolvable(id)
  /\ resolved = Connections(main, DOMAIN main \ todo)

ConfigInv ==
  /\ stage \in {"unread", "manifests", "resolving", "loaded", "rejected"}
  /\ KeptInv
  /\ todo \subseteq DOMAIN main /\ probe \subseteq DOMAIN main
  /\ resolved \subseteq Connections(main, DOMAIN main)
  /\ stage = "manifests" => LoadingInv
  /\ stage \in {"resolving", "loaded"} => ResolvingInv
  /\ stage = "loaded" => todo = {}
  /\ stage = "rejected" => ~WellFormed(main)

LEMMA KeptUnchanged ==
  ASSUME KeptInv, UNCHANGED <<main, manifests, names, cache, definitions, maps>>
  PROVE  KeptInv'
<1>1. \A k, n : /\ OfFile(k, n)' <=> OfFile(k, n)
                /\ Generated(k, n)' <=> Generated(k, n)
                /\ ManifestLoads(k, n)' <=> ManifestLoads(k, n)
                /\ ParsedMaps(k, n)' = ParsedMaps(k, n)
  BY DEF OfFile, Generated, ManifestLoads, ParsedMaps
<1>2. ASSUME NEW k \in DOMAIN names PROVE LoadedRight(k)'
  <2>1. LoadedRight(k)
    BY <1>2 DEF KeptInv
  <2>2. PICK n : n = manifests[names[k]]
    OBVIOUS
  <2>3. /\ manifests'[names'[k]] = n
        /\ OfFile(k, n)' \/ Generated(k, n)'
        /\ ManifestLoads(k, n)' /\ maps'[k] = ParsedMaps(k, n)'
    BY <1>1, <2>1, <2>2 DEF LoadedRight
  <2>4. /\ k \in DOMAIN main' /\ names'[k] = main'[k].module /\ names'[k] \in DOMAIN manifests'
        /\ Range(n.provides) \subseteq DOMAIN definitions'
    BY <2>1, <2>2 DEF LoadedRight
  <2> QED BY <2>3, <2>4 DEF LoadedRight
<1>3. CacheRight'
  <2>1. CacheRight
    BY DEF KeptInv
  <2>2. \A t : EmptiedBy(DOMAIN names, t)' <=> EmptiedBy(DOMAIN names, t)
    BY DEF EmptiedBy, Order
  <2> QED BY <2>1, <2>2 DEF CacheRight, Commands
<1>4. /\ FileShape(main)' /\ DOMAIN names' \subseteq DOMAIN main' /\ DOMAIN maps' = DOMAIN names'
      /\ \A i \in DOMAIN definitions' : definitions'[i] = ResolveInterface(i)
  BY DEF KeptInv
<1> QED BY <1>2, <1>3, <1>4 DEF KeptInv

(* A step that rejects, rightly.                                            *)
LEMMA Rejected ==
  ASSUME ConfigInv, ~WellFormed(main), stage' = "rejected",
         UNCHANGED <<main, probe, manifests, names, cache, definitions, maps, resolved>>,
         todo' \subseteq DOMAIN main
  PROVE  ConfigInv'
<1>1. KeptInv'
  BY KeptUnchanged DEF ConfigInv
<1>2. /\ stage' \in {"unread", "manifests", "resolving", "loaded", "rejected"}
      /\ todo' \subseteq DOMAIN main' /\ probe' \subseteq DOMAIN main'
      /\ resolved' \subseteq Connections(main', DOMAIN main') /\ ~WellFormed(main')
  BY DEF ConfigInv
<1> QED BY <1>1, <1>2 DEF ConfigInv

LEMMA TodoFirst ==
  ASSUME ConfigInv, todo # {}
  PROVE  /\ First(todo) \in todo /\ First(todo) \in DOMAIN main
         /\ \A k \in todo \ {First(todo)} : Position(First(todo)) < Position(k)
<1>1. todo \subseteq DOMAIN main /\ DOMAIN main \subseteq ToSet(KeyOrder)
  BY DEF ConfigInv, KeptInv, FileShape
<1>2. todo \subseteq ToSet(KeyOrder)
  BY <1>1
<1>3. First(todo) \in todo /\ \A k \in todo \ {First(todo)} : Position(First(todo)) < Position(k)
  BY <1>2, FirstOf
<1> QED BY <1>1, <1>3

LEMMA LoadModuleInv == ConfigInv /\ LoadModule => ConfigInv'
<1> SUFFICES ASSUME ConfigInv, LoadModule PROVE ConfigInv'
  OBVIOUS
<1> DEFINE id == First(todo)
           type == main[id].module
<1>1. stage = "manifests" /\ todo # {} /\ LoadingInv /\ KeptInv /\ FileShape(main)
  BY DEF LoadModule, ConfigInv, KeptInv
<1>2. /\ id \in todo /\ id \in DOMAIN main
      /\ \A k \in todo \ {id} : Position(id) < Position(k)
  BY <1>1, TodoFirst
<1> HIDE DEF id
<1>3. \A i \in DOMAIN main \ (todo \ {id}), k \in todo \ {id} : Position(i) < Position(k)
  BY <1>1, <1>2 DEF LoadingInv
<1>4. id \in Probes(main) <=> type = ProbeModule
  BY <1>2 DEF Probes
<1>5. CASE /\ type = ProbeModule /\ probe = {} /\ probe' = {id} /\ todo' = todo \ {id}
           /\ UNCHANGED <<main, manifests, names, cache, definitions, maps, resolved, stage>>
  <2>1. KeptInv'
    BY <1>1, <1>5, KeptUnchanged
  <2>2. probe' = Probes(main) \ todo' /\ \A p, q \in probe' : p = q
    BY <1>1, <1>2, <1>4, <1>5 DEF LoadingInv
  <2>3. DOMAIN names' = (DOMAIN main \ todo') \ Probes(main)
    BY <1>1, <1>2, <1>4, <1>5 DEF LoadingInv
  <2>4. LoadingInv'
    BY <1>1, <1>3, <1>5, <2>2, <2>3 DEF LoadingInv
  <2>5. todo' \subseteq DOMAIN main' /\ probe' \subseteq DOMAIN main' /\ resolved' \subseteq Connections(main', DOMAIN main')
        /\ stage' = "manifests"
    BY <1>1, <1>2, <1>5 DEF ConfigInv
  <2> QED BY <2>1, <2>4, <2>5 DEF ConfigInv
<1>6. CASE type = ProbeModule /\ probe # {} /\ Reject
  <2>1. PICK p \in probe : TRUE
    BY <1>6
  <2>2. p \in Probes(main) /\ p # id /\ id \in Probes(main)
    BY <1>1, <1>2, <1>4, <1>6 DEF LoadingInv
  <2>3. ~WellFormed(main)
    BY <1>1, <2>2, WellFormedSays
  <2> QED BY <1>6, <2>3, Rejected DEF Reject, ConfigInv
<1>7. CASE /\ type \in DOMAIN ManifestFiles /\ ManifestLoads(id, ManifestFiles[type])
           /\ LoadAndValidateManifest(id, ManifestFiles[type])
           /\ todo' = todo \ {id}
           /\ UNCHANGED <<main, probe, resolved, stage>>
  <2> DEFINE m == ManifestFiles[type]
  <2>1. OfFile(id, m) /\ id \notin Probes(main)
    BY <1>4, <1>7, ConfigConstants DEF OfFile
  <2>2. id \in DOMAIN main \ DOMAIN names
    BY <1>1, <1>2 DEF LoadingInv
  <2>3. ASSUME NEW k \in DOMAIN names PROVE Order(k) < Order(id)
    <3>1. k \in DOMAIN main /\ k \notin Probes(main) /\ Position(k) < Position(id)
      BY <1>1, <1>2, <2>3 DEF LoadingInv
    <3>2. main[k].module # ProbeModule /\ main[id].module # ProbeModule
      BY <1>2, <2>1, <3>1 DEF Probes
    <3> QED BY <1>1, <1>2, <3>1, <3>2, OrderIsNumber
  <2>4. KeptInv' /\ DOMAIN names' = DOMAIN names \cup {id}
    BY <1>1, <1>7, <2>1, <2>2, <2>3, OneMore
  <2>5. DOMAIN names' = (DOMAIN main \ todo') \ Probes(main) /\ probe' = Probes(main) \ todo'
    BY <1>1, <1>2, <1>7, <2>1, <2>4 DEF LoadingInv
  <2>6. LoadingInv'
    BY <1>1, <1>3, <1>7, <2>5 DEF LoadingInv
  <2>7. todo' \subseteq DOMAIN main' /\ probe' \subseteq DOMAIN main' /\ resolved' \subseteq Connections(main', DOMAIN main')
        /\ stage' = "manifests"
    BY <1>1, <1>7 DEF ConfigInv
  <2> QED BY <2>4, <2>6, <2>7 DEF ConfigInv
<1>8. CASE /\ type # ProbeModule
           /\ type \in DOMAIN ManifestFiles => ~ManifestLoads(id, ManifestFiles[type])
           /\ Reject
  <2>1. ~WellFormed(main)
    BY <1>1, <1>2, <1>8, BadModule
  <2> QED BY <1>8, <2>1, Rejected DEF Reject, ConfigInv
<1> QED BY <1>5, <1>6, <1>7, <1>8 DEF LoadModule, id

LEMMA LoadedProbe ==
  ASSUME ConfigInv, stage = "manifests", todo = {}, NEW p \in probe
  PROVE  /\ OthersLoaded(p) /\ p \in DOMAIN main \ DOMAIN names
         /\ DOMAIN names = DOMAIN main \ {p}
         /\ \A k \in DOMAIN names : k \notin Probes(main) /\ Order(k) < Order(p)
<1>1. LoadingInv /\ KeptInv /\ FileShape(main)
  BY DEF ConfigInv, KeptInv
<1>2. Probes(main) = {p} /\ DOMAIN names = DOMAIN main \ {p} /\ p \in DOMAIN main
  BY <1>1 DEF LoadingInv, Probes
<1>3. ASSUME NEW k \in DOMAIN names
      PROVE  /\ k \notin Probes(main) /\ Order(k) < Order(p)
             /\ OfFile(k, Manifest(k)) /\ ManifestLoads(k, Manifest(k))
  <2>1. k \notin Probes(main) /\ k \in DOMAIN main
    BY <1>2, <1>3
  <2>2. main[k].module # ProbeModule /\ main[p].module = ProbeModule
    BY <1>2, <2>1 DEF Probes
  <2>3. Order(k) < Order(p)
    BY <1>1, <1>2, <2>1, <2>2, OrderIsNumber
  <2>4. LoadedRight(k)
    BY <1>1, <1>3 DEF KeptInv
  <2>5. manifests[names[k]] = Manifest(k)
    BY <2>4 DEF LoadedRight, Manifest
  <2>6. (OfFile(k, Manifest(k)) \/ Generated(k, Manifest(k))) /\ ManifestLoads(k, Manifest(k))
    BY <2>4, <2>5 DEF LoadedRight
  <2> QED BY <2>1, <2>3, <2>6, ProbeOrFile
<1> QED BY <1>2, <1>3 DEF OthersLoaded, Others

(* With all modules loaded the loader starts to resolve.                    *)
LEMMA ToResolve ==
  ASSUME ConfigInv, stage = "manifests", todo = {}, KeptInv', DOMAIN names' = DOMAIN main,
         \A p, q \in Probes(main) : p = q,
         stage' = "resolving", todo' = DOMAIN main, UNCHANGED <<main, probe, resolved>>
  PROVE  ConfigInv'
<1>1. resolved = {} /\ probe \subseteq DOMAIN main
  BY DEF ConfigInv, LoadingInv
<1>2. AllLoaded'
  BY DEF AllLoaded, KeptInv
<1>3. DOMAIN main' \ todo' = {}
  OBVIOUS
<1>4. Connections(main', DOMAIN main' \ todo') = {}
  BY <1>3, ConnectionParts
<1>5. ResolvingInv'
  BY <1>1, <1>2, <1>3, <1>4 DEF ResolvingInv
<1> QED BY <1>1, <1>5 DEF ConfigInv

LEMMA LoadProbeInv == ConfigInv /\ LoadProbe => ConfigInv'
<1> SUFFICES ASSUME ConfigInv, LoadProbe PROVE ConfigInv'
  OBVIOUS
<1>1. /\ stage = "manifests" /\ todo = {} /\ todo' = DOMAIN main /\ UNCHANGED <<main, probe, resolved>>
      /\ LoadingInv /\ KeptInv /\ FileShape(main)
  BY DEF LoadProbe, ConfigInv, KeptInv
<1>2. CASE probe = {} /\ UNCHANGED <<manifests, names, cache, definitions, maps>> /\ stage' = "resolving"
  <2>1. DOMAIN names' = DOMAIN main /\ \A p, q \in Probes(main) : p = q
    BY <1>1, <1>2 DEF LoadingInv
  <2>2. KeptInv'
    BY <1>1, <1>2, KeptUnchanged
  <2> QED BY <1>1, <1>2, <2>1, <2>2, ToResolve
<1>3. ASSUME NEW p \in probe,
             ProbeFits(p), ManifestLoads(p, ProbeManifest(p)),
             LoadAndValidateManifest(p, ProbeManifest(p)), stage' = "resolving"
      PROVE  ConfigInv'
  <2>1. /\ OthersLoaded(p) /\ p \in DOMAIN main \ DOMAIN names /\ DOMAIN names = DOMAIN main \ {p}
        /\ \A k \in DOMAIN names : k \notin Probes(main) /\ Order(k) < Order(p)
    BY <1>1, LoadedProbe
  <2>2. Generated(p, ProbeManifest(p))
    BY <1>3, <2>1, ManifestGenerated
  <2>3. KeptInv' /\ DOMAIN names' = DOMAIN names \cup {p}
    BY <1>1, <1>3, <2>1, <2>2, OneMore
  <2>4. \A i, q \in Probes(main) : i = q
    BY <2>1 DEF OthersLoaded
  <2> QED BY <1>1, <1>3, <2>1, <2>3, <2>4, ToResolve
<1>4. ASSUME NEW p \in probe,
             ProbeFits(p) => ~ManifestLoads(p, ProbeManifest(p)), stage' = "rejected",
             UNCHANGED <<manifests, names, cache, definitions, maps>>
      PROVE  ConfigInv'
  <2>1. OthersLoaded(p)
    BY <1>1, LoadedProbe
  <2>2. ~WellFormed(main)
    BY <1>1, <1>4, <2>1, ProbeMustFit
  <2> QED BY <1>1, <1>4, <2>2, Rejected
<1> QED BY <1>2, <1>3, <1>4 DEF LoadProbe

LEMMA ResolvableUnchanged ==
  ASSUME UNCHANGED <<main, manifests>>
  PROVE  \A id : Resolvable(id)' <=> Resolvable(id)
  BY DEF Resolvable, RequirementMet, TargetFits, Manifest, Connected

LEMMA ResolveModuleInv == ConfigInv /\ ResolveModule => ConfigInv'
<1> SUFFICES ASSUME ConfigInv, ResolveModule PROVE ConfigInv'
  OBVIOUS
<1> DEFINE id == First(todo)
<1>1. stage = "resolving" /\ todo # {} /\ ResolvingInv /\ AllLoaded /\ KeptInv
  BY DEF ResolveModule, ConfigInv, ResolvingInv
<1>2. id \in todo /\ id \in DOMAIN main
  BY <1>1, TodoFirst
<1> HIDE DEF id
<1>3. CASE /\ Resolvable(id)
           /\ resolved' = resolved \cup Connections(main, {id})
           /\ todo' = todo \ {id}
           /\ UNCHANGED <<main, probe, manifests, names, cache, definitions, maps, stage>>
  <2>1. KeptInv'
    BY <1>1, <1>3, KeptUnchanged
  <2>2. AllLoaded'
    BY <1>1, <1>3, <2>1 DEF AllLoaded, KeptInv
  <2>3. \A i : Resolvable(i)' <=> Resolvable(i)
    BY <1>3, ResolvableUnchanged
  <2>4. \A i \in DOMAIN main' \ todo' : Resolvable(i)'
    BY <1>1, <1>2, <1>3, <2>3 DEF ResolvingInv
  <2>5. resolved' = Connections(main, DOMAIN main \ todo')
    <3>1. \A x : x \in Connections(main, DOMAIN main \ todo') <=>
                   x \in Connections(main, DOMAIN main \ todo) \/ x \in Connections(main, {id})
      <4>1. DOMAIN main \ todo' = (DOMAIN main \ todo) \cup {id}
        BY <1>2, <1>3, <1>1 DEF ConfigInv
      <4> QED BY <4>1, ConnectionsElement
    <3> QED BY <1>1, <1>3, <3>1 DEF ResolvingInv
  <2>6. ResolvingInv'
    BY <1>3, <2>2, <2>4, <2>5 DEF ResolvingInv
  <2>7. resolved' \subseteq Connections(main, DOMAIN main)
    BY <2>5, ConnectionParts
  <2>8. todo' \subseteq DOMAIN main' /\ probe' \subseteq DOMAIN main' /\ stage' = "resolving"
    BY <1>1, <1>3 DEF ConfigInv
  <2> QED BY <1>3, <2>1, <2>6, <2>7, <2>8 DEF ConfigInv
<1>4. CASE ~Resolvable(id) /\ Reject
  <2>1. ~WellFormed(main)
    BY <1>1, <1>2, <1>4, WellFormedResolves
  <2> QED BY <1>4, <2>1, Rejected DEF Reject, ConfigInv
<1> QED BY <1>3, <1>4 DEF ResolveModule, id

LEMMA LoadedInv == ConfigInv /\ Loaded => ConfigInv'
<1> SUFFICES ASSUME ConfigInv, Loaded PROVE ConfigInv'
  OBVIOUS
<1>1. /\ stage = "resolving" /\ todo = {} /\ stage' = "loaded"
      /\ UNCHANGED <<main, todo, probe, manifests, names, cache, definitions, maps, resolved>>
      /\ ResolvingInv /\ KeptInv
  BY DEF Loaded, ConfigInv
<1>2. KeptInv'
  BY <1>1, KeptUnchanged
<1>3. AllLoaded'
  BY <1>1, <1>2 DEF AllLoaded, KeptInv, ResolvingInv
<1>4. \A i : Resolvable(i)' <=> Resolvable(i)
  BY <1>1, ResolvableUnchanged
<1>5. ResolvingInv'
  BY <1>1, <1>3, <1>4 DEF ResolvingInv
<1> QED BY <1>1, <1>2, <1>5 DEF ConfigInv

ConfigShapes == \A path \in DOMAIN files : FileShape(files[path].modules)

LEMMA SettingsFile ==
  ASSUME StartInv, phase \in {"loading", "running"}
  PROVE  rs.config_file \in DOMAIN files
<1>1. PICK f : SameNames(f) /\ rs = RuntimeSettings(f, env, options.prefix, options.config)
  BY DEF StartInv, ManagerInv
<1>2. rs.config_file # NoPath
  BY DEF StartInv, CompleteInv
<1>3. rs.config_file = ConfigFile(f, options.prefix, options.config)
  BY <1>1, Fields DEF RuntimeSettings
<1>4. PICK path : rs.config_file = AssertFile(f, path)
  BY <1>2, <1>3, FoundFile
<1> QED BY <1>1, <1>2, <1>4 DEF AssertFile, SameNames

LEMMA InitConfigInv == StartInit => ConfigInv /\ ConfigShapes
<1> SUFFICES ASSUME StartInit PROVE ConfigInv /\ ConfigShapes
  OBVIOUS
<1>1. PICK s \in Starts : files = s.files
  BY DEF StartInit
<1>2. ConfigShapes
  BY <1>1, StartupConstants, RangeElement DEF ConfigShapes
<1>3. /\ main = EmptyMap /\ todo = {} /\ probe = {} /\ resolved = {} /\ names = EmptyMap
      /\ definitions = EmptyMap /\ maps = EmptyMap /\ stage = "unread"
  BY DEF StartInit, Init
<1>4. DOMAIN EmptyMap = {}
  BY DEF EmptyMap
<1>5. KeptInv
  BY <1>3, <1>4 DEF KeptInv, FileShape, CacheRight
<1> QED BY <1>2, <1>3, <1>5 DEF ConfigInv

LEMMA ReadConfigInv ==
  ASSUME NEW c, FileShape(c), ReadConfig(c)
  PROVE  ConfigInv'
<1>1. /\ main' = c /\ todo' = DOMAIN c /\ probe' = {} /\ resolved' = {} /\ names' = EmptyMap
      /\ definitions' = EmptyMap /\ maps' = EmptyMap /\ stage' = "manifests"
  BY DEF ReadConfig
<1>2. DOMAIN EmptyMap = {}
  BY DEF EmptyMap
<1>3. KeptInv'
  BY <1>1, <1>2 DEF KeptInv, CacheRight
<1>4. Probes(main') \subseteq DOMAIN main'
  BY DEF Probes
<1>5. LoadingInv'
  BY <1>1, <1>2, <1>4 DEF LoadingInv
<1> QED BY <1>1, <1>3, <1>5 DEF ConfigInv

LEMMA ConfigUnchanged == ConfigInv /\ UNCHANGED vars => ConfigInv'
<1> SUFFICES ASSUME ConfigInv, UNCHANGED vars PROVE ConfigInv'
  OBVIOUS
<1>1. UNCHANGED <<main, todo, probe, manifests, names, cache, definitions, maps, resolved, stage>>
  BY DEF vars
<1>2. KeptInv'
  BY <1>1, KeptUnchanged DEF ConfigInv
<1>3. LoadingInv' <=> LoadingInv
  BY <1>1 DEF LoadingInv
<1>4. ResolvingInv => ResolvingInv'
  <2>1. ResolvingInv => AllLoaded'
    BY <1>1, <1>2 DEF AllLoaded, KeptInv, ResolvingInv
  <2> QED BY <1>1, <2>1, ResolvableUnchanged DEF ResolvingInv
<1> QED BY <1>1, <1>2, <1>3, <1>4 DEF ConfigInv

LEMMA RestartConfigInv == ConfigInv /\ RestartModules => ConfigInv'
<1> SUFFICES ASSUME ConfigInv, RestartModules PROVE ConfigInv'
  OBVIOUS
<1>1. /\ UNCHANGED <<main, todo, probe, manifests, names, cache, definitions, maps, resolved>>
      /\ stage' = "unread"
  BY DEF RestartModules
<1>2. KeptInv'
  BY <1>1, KeptUnchanged DEF ConfigInv
<1> QED BY <1>1, <1>2 DEF ConfigInv

LEMMA NextConfigInv ==
  ASSUME StartInv, ConfigShapes, ConfigInv, [StartNext]_<<startupVars, vars>>
  PROVE  ConfigInv' /\ ConfigShapes'
<1>1. CASE ReadSettings
  BY <1>1, ConfigUnchanged DEF ReadSettings, ConfigShapes
<1>2. CASE ReadConfigFile
  <2>1. UNCHANGED files /\ phase = "loading"
    BY <1>2 DEF ReadConfigFile
  <2>2. FileShape(files[rs.config_file].modules)
    BY <2>1, SettingsFile DEF ConfigShapes
  <2>3. ReadConfig(files[rs.config_file].modules) \/ UNCHANGED vars
    BY <1>2 DEF ReadConfigFile
  <2> QED BY <2>1, <2>2, <2>3, ReadConfigInv, ConfigUnchanged DEF ConfigShapes
<1>3. CASE LoadConfig
  BY <1>3, LoadModuleInv, LoadProbeInv, ResolveModuleInv, LoadedInv
     DEF LoadConfig, Load, startupVars, ConfigShapes
<1>4. CASE ConfigRejected
  BY <1>4, ConfigUnchanged DEF ConfigRejected, ConfigShapes
<1>5. CASE StartModules
  BY <1>5, ConfigUnchanged DEF StartModules, ConfigShapes
<1>6. CASE RestartModules
  BY <1>6, RestartConfigInv DEF RestartModules, ConfigShapes
<1>7. ASSUME NEW id \in DOMAIN children, ReadOwnSettings(id) \/ ReadOwnConfig(id)
      PROVE  ConfigInv' /\ ConfigShapes'
  BY <1>7, ConfigUnchanged DEF ReadOwnSettings, ReadOwnConfig, ConfigShapes
<1>8. ASSUME NEW content \in Contents, Save(content)
      PROVE  ConfigInv' /\ ConfigShapes'
  <2>1. UNCHANGED vars /\ files' = [files EXCEPT ![rs.config_file] = content] /\ FileShape(content.modules)
    BY <1>8, StartupConstants DEF Save
  <2>2. \A path \in DOMAIN files' : files'[path] = files[path] \/ files'[path] = content
    BY <2>1
  <2> QED BY <2>1, <2>2, ConfigUnchanged DEF ConfigShapes
<1>9. CASE UNCHANGED <<startupVars, vars>>
  BY <1>9, ConfigUnchanged DEF startupVars, ConfigShapes
<1> QED BY <1>1, <1>2, <1>3, <1>4, <1>5, <1>6, <1>7, <1>8, <1>9 DEF StartNext

LEMMA ConfigInductive == StartSpec => [](ConfigInv /\ ConfigShapes)
<1>1. StartInit => ConfigInv /\ ConfigShapes
  BY InitConfigInv
<1>2. StartInv /\ (ConfigInv /\ ConfigShapes) /\ [StartNext]_<<startupVars, vars>> => (ConfigInv /\ ConfigShapes)'
  BY NextConfigInv
<1> QED BY <1>1, <1>2, Inductive, PTL DEF StartSpec

-----------------------------------------------------------------------------
(* What a loaded config is good for                                         *)

(* A value that was parsed is of a kind its type admits.                    *)
LEMMA ParsedEntry ==
  ASSUME NEW id, LoadedRight(id), NEW o \in DOMAIN manifests[names[id]].config,
         NEW e \in DOMAIN manifests[names[id]].config[o]
  PROVE  LET type == manifests[names[id]].config[o][e].type
         IN /\ type \in {"boolean", "integer", "number", "string"}
            /\ maps[id][o][e] \in Admitted(type)
<1>1. PICK m : m = manifests[names[id]]
  OBVIOUS
<1>2. /\ OfFile(id, m) \/ Generated(id, m)
      /\ ManifestLoads(id, m) /\ maps[id] = ParsedMaps(id, m)
      /\ o \in DOMAIN m.config /\ e \in DOMAIN m.config[o]
  BY <1>1 DEF LoadedRight
<1>3. m.config[o][e].type \in {"boolean", "integer", "number", "string"}
  <2>1. CASE OfFile(id, m)
    BY <1>2, <2>1, ConfigConstants DEF OfFile
  <2>2. CASE Generated(id, m)
    BY <1>2, <2>2 DEF Generated, EmptyMap
  <2> QED BY <1>2, <2>1, <2>2
<1>4. maps[id][o][e] = Entry(m.config[o], Values(main, id, o), e)
  BY <1>2 DEF ParsedMaps, ParseConfigMap
<1>5. Entry(m.config[o], Values(main, id, o), e) \in Admitted(m.config[o][e].type)
  BY <1>2 DEF ManifestLoads, ConfigMapParses
<1> QED BY <1>1, <1>3, <1>4, <1>5

LEMMA ParsedDomain ==
  ASSUME NEW id, LoadedRight(id)
  PROVE  /\ DOMAIN maps[id] = DOMAIN manifests[names[id]].config
         /\ \A o \in DOMAIN maps[id] : DOMAIN maps[id][o] = DOMAIN manifests[names[id]].config[o]
  BY DEF LoadedRight, ParsedMaps, ParseConfigMap

LEMMA InvType == ConfigInv => TypeOK
<1> SUFFICES ASSUME ConfigInv PROVE TypeOK
  OBVIOUS
<1>1. ASSUME NEW id \in DOMAIN names
      PROVE  /\ names[id] \in DOMAIN manifests
             /\ DOMAIN maps[id] = DOMAIN manifests[names[id]].config
             /\ Range(manifests[names[id]].provides) \subseteq DOMAIN definitions
             /\ \A o \in DOMAIN maps[id] : Range(maps[id][o]) \subseteq Kinds
  <2>1. LoadedRight(id)
    BY <1>1 DEF ConfigInv, KeptInv
  <2>2. ASSUME NEW o \in DOMAIN maps[id], NEW v \in Range(maps[id][o]) PROVE v \in Kinds
    <3>1. PICK e \in DOMAIN maps[id][o] : v = maps[id][o][e]
      BY RangeElement
    <3> DEFINE type == manifests[names[id]].config[o][e].type
    <3>2. type \in {"boolean", "integer", "number", "string"} /\ v \in Admitted(type)
      BY <2>1, <3>1, ParsedDomain, ParsedEntry
    <3> HIDE DEF type
    <3> QED BY <3>2 DEF Admitted, Kinds
  <2> QED BY <2>1, <2>2, ParsedDomain DEF LoadedRight
<1> QED BY <1>1 DEF ConfigInv, KeptInv, TypeOK

LEMMA InvLoaded ==
  ASSUME ConfigInv, stage = "loaded"
  PROVE  /\ AllLoaded /\ \A id \in DOMAIN main : Resolvable(id)
         /\ resolved = Connections(main, DOMAIN main)
<1>1. ResolvingInv /\ DOMAIN main \ todo = DOMAIN main
  BY DEF ConfigInv
<1> QED BY <1>1 DEF ResolvingInv

LEMMA InvAccepts == ConfigInv => AcceptsWellFormed
<1> SUFFICES ASSUME ConfigInv PROVE AcceptsWellFormed
  OBVIOUS
<1>1. stage = "loaded" => WellFormed(main)
  BY InvLoaded, ResolvedIsWellFormed
<1> QED BY <1>1 DEF ConfigInv, AcceptsWellFormed

LEMMA InvValues == ConfigInv => ValuesTyped
<1> SUFFICES ASSUME ConfigInv, stage = "loaded",
                    NEW id \in DOMAIN maps, NEW o \in DOMAIN maps[id], NEW e \in DOMAIN maps[id][o]
             PROVE  LET type == Manifest(id).config[o][e].type
                    IN ConfigEntry(maps[id][o][e], type) = CppType(type)
  BY DEF ValuesTyped
<1>1. LoadedRight(id) /\ Manifest(id) = manifests[names[id]]
  BY DEF ConfigInv, KeptInv, LoadedRight, Manifest
<1> DEFINE type == Manifest(id).config[o][e].type
           kind == maps[id][o][e]
<1>2. type \in {"boolean", "integer", "number", "string"} /\ kind \in Admitted(type)
  BY <1>1, ParsedDomain, ParsedEntry
<1> HIDE DEF type, kind
<1>3. ConfigEntry(kind, type) = CppType(type)
  <2>1. CASE type = "boolean"
    BY <1>2, <2>1 DEF Admitted, ConfigEntry, CppType
  <2>2. CASE type = "integer"
    BY <1>2, <2>2 DEF Admitted, ConfigEntry, CppType
  <2>3. CASE type = "number"
    BY <1>2, <2>3 DEF Admitted, ConfigEntry, CppType
  <2>4. CASE type = "string"
    BY <1>2, <2>4 DEF Admitted, ConfigEntry, CppType
  <2> QED BY <1>2, <2>1, <2>2, <2>3, <2>4
<1> QED BY <1>3 DEF type, kind

LEMMA InvCalls == ConfigInv => CallsFindTheirCommands
<1> SUFFICES ASSUME ConfigInv, stage = "loaded", NEW x \in resolved
             PROVE  LET target == Target(x[1], x[2], x[3] - 1)
                    IN /\ target = End(main, x)
                       /\ HasCommands(target.module, target.impl) <=> ~Emptied(names[target.module])
                       /\ HasCommands(target.module, target.impl) =>
                            GetModuleCmds(target.module, target.impl)
                              = definitions[Manifest(x[1]).requires[x[2]].interface].cmds
  BY DEF CallsFindTheirCommands
<1>1. /\ AllLoaded /\ x \in Connections(main, DOMAIN main) /\ FileShape(main)
      /\ \A id \in DOMAIN main : Resolvable(id)
  BY InvLoaded DEF AllLoaded
<1> DEFINE id == x[1]
           q == x[2]
           cs == main[id].connections[q]
           r == Manifest(id).requires[q]
           t == End(main, x).module
           i == End(main, x).impl
<1>2. /\ id \in DOMAIN main /\ q \in DOMAIN main[id].connections /\ x[3] \in DOMAIN cs
      /\ End(main, x) = cs[x[3]]
  BY <1>1, ConnectionParts DEF End
<1>3. q \in DOMAIN Manifest(id).requires /\ Connected(id, q) /\ RequirementMet(id, q)
  BY <1>1, <1>2 DEF Resolvable, Connected
<1>4. CountFits(r, Len(cs)) /\ TargetFits(r, End(main, x))
  BY <1>2, <1>3 DEF RequirementMet
<1>5. Len(cs) \in Nat /\ x[3] \in 1..Len(cs)
  BY <1>1, <1>2 DEF FileShape, IsList
<1>6. Target(id, q, x[3] - 1) = End(main, x)
  <2>1. CASE Single(r)
    <3>1. r.min = 1 /\ r.max = 1
      BY <2>1 DEF Single
    <3>2. Len(cs) <= 1
      BY <1>4, <3>1, Zenon DEF CountFits
    <3>3. \A k, n \in Nat : n <= 1 /\ k \in 1..n => k = 1
      OBVIOUS
    <3>4. x[3] = 1
      BY <1>5, <3>2, <3>3
    <3> QED BY <1>2, <2>1, <3>4 DEF Target
  <2>2. CASE ~Single(r)
    <3>1. (x[3] - 1) + 1 = x[3]
      BY <1>5
    <3> QED BY <1>2, <2>2, <3>1 DEF Target
  <2> QED BY <2>1, <2>2
<1>7. /\ t \in DOMAIN main /\ i \in DOMAIN Manifest(t).provides
      /\ Manifest(t).provides[i] = r.interface
  BY <1>4 DEF TargetFits
<1>8. /\ t \in DOMAIN names /\ names[t] = main[t].module /\ Manifest(t) = manifests[names[t]]
      /\ names[t] \in DOMAIN cache /\ Range(Manifest(t).provides) \subseteq DOMAIN definitions
      /\ EmptiedBy(DOMAIN names, names[t]) => cache[names[t]] = EmptyMap
      /\ ~EmptiedBy(DOMAIN names, names[t]) => cache[names[t]] = Commands(Manifest(t))
  <2>1. t \in DOMAIN names /\ LoadedRight(t) /\ CacheRight
    BY <1>1, <1>7 DEF AllLoaded, ConfigInv, KeptInv
  <2>2. names[t] = main[t].module /\ Manifest(t) = manifests[names[t]]
    BY <2>1 DEF LoadedRight, Manifest
  <2>3. Range(Manifest(t).provides) \subseteq DOMAIN definitions
    BY <2>1, <2>2 DEF LoadedRight
  <2> QED BY <2>1, <2>2, <2>3 DEF CacheRight
<1>9. Emptied(names[t]) <=> EmptiedBy(DOMAIN names, names[t])
  BY <1>1 DEF AllLoaded, Emptied, EmptiedBy
<1>10. definitions[r.interface] = ResolveInterface(r.interface)
  <2>1. r.interface \in DOMAIN definitions
    BY <1>7, <1>8, RangeElement
  <2> QED BY <2>1 DEF ConfigInv, KeptInv
<1> HIDE DEF t, i, r, id, q, cs
<1>11. HasCommands(t, i) <=> ~Emptied(names[t])
  BY <1>7, <1>8, <1>9 DEF HasCommands, Commands, EmptyMap
<1>12. HasCommands(t, i) => GetModuleCmds(t, i) = definitions[r.interface].cmds
  <2>1. SUFFICES ASSUME HasCommands(t, i) PROVE GetModuleCmds(t, i) = definitions[r.interface].cmds
    OBVIOUS
  <2>2. cache[names[t]] = Commands(Manifest(t))
    BY <1>8, <1>9, <1>11, <2>1
  <2>3. cache[names[t]][i] = ResolveInterface(r.interface).cmds
    BY <1>7, <2>2 DEF Commands
  <2> QED BY <1>10, <2>3 DEF GetModuleCmds
<1> QED BY <1>6, <1>11, <1>12 DEF t, i, r, id, q

(* Whatever the files hold, what the loader keeps of a module it is through  *)
(* with is complete, and stays so when the modules restart                   *)
(* (Config::load_and_validate_manifest, config.cpp:236-367).                 *)
THEOREM ConfigTypeCorrect == StartSpec => []TypeOK
  BY ConfigInductive, InvType, PTL

(* The loader accepts the well-formed configs and no others: the order of    *)
(* the modules, the stage at which a check is made and the manifest that is  *)
(* generated for the probe make no difference (Config::Config,               *)
(* config.cpp:392-543).                                                      *)
THEOREM LoaderAcceptsWellFormed == StartSpec => []AcceptsWellFormed
  BY ConfigInductive, InvAccepts, PTL

(* In a loaded config each value, default or not, is stored as the C++ type  *)
(* a module reads it as (get_module_configs, parse_config_map).              *)
THEOREM LoadedValuesTyped == StartSpec => []ValuesTyped
  BY ConfigInductive, InvValues, PTL

(* In a loaded config a Requirement and its index lead to the connection the *)
(* config lists there and to the commands of the interface it asks for; they *)
(* are missing exactly when a later module called like the target's type has *)
(* emptied the cache (Everest::call_cmd, get_cmd_definition, config.cpp:239).*)
THEOREM LoadedCallsFindTheirCommands == StartSpec => []CallsFindTheirCommands
  BY ConfigInductive, InvCalls, PTL

-----------------------------------------------------------------------------
(* Modules boot from an unchanged file: the inductive invariant BootInv      *)

ChildBoots(id) ==
  LET child == children[id]
  IN /\ id \in DOMAIN main
     /\ \/ Overridden(child)
        \/ /\ child.rs \in {NotYet, rs} /\ child.main \in {NotYet, main}
           /\ child.phase # "exited" /\ (child.phase = "configured" => child.rs = rs)

(* As long as the file is the one the manager has read, it is that of main.  *)
BootInv ==
  /\ saves \in Nat /\ (phase = "start" => stage = "unread")
  /\ saves = 0 =>
       /\ phase # "start" => rs = RuntimeSettings(files, env, options.prefix, options.config)
       /\ phase \in {"loading", "running"} => ~Throws(files, rs)
       /\ phase \in {"loading", "running"} /\ stage # "unread" =>
            files[rs.config_file].form = "object" /\ main = files[rs.config_file].modules
       /\ phase = "running" => stage = "loaded"
       /\ \A id \in DOMAIN children : ChildBoots(id)

LEMMA InitBootInv == StartInit => BootInv
  BY DEF StartInit, Init, BootInv, EmptyMap

(* A step that changes none of what the files, main and the children say.   *)
LEMMA BootUnchanged ==
  ASSUME BootInv, UNCHANGED <<files, env, options, rs, phase, children, saves, main>>,
         stage = "unread" => stage' = "unread", phase = "running" => stage' = stage
  PROVE  BootInv'
<1>1. \A id \in DOMAIN children : ChildBoots(id)' <=> ChildBoots(id)
  BY DEF ChildBoots, Overridden
<1> QED BY <1>1 DEF BootInv

LEMMA BootWithoutChildren ==
  ASSUME BootInv, UNCHANGED <<files, env, options, rs, saves>>, DOMAIN children' = {},
         phase # "start", phase' \in {"loading", "exited"}, phase' = "loading" => phase \in {"loading", "running"},
         phase' = "exited" \/ stage' = "unread"
  PROVE  BootInv'
  BY DEF BootInv

(* A step of one module's process.                                          *)
LEMMA BootOneChild ==
  ASSUME BootInv, UNCHANGED <<files, env, options, rs, phase, saves, vars>>,
         NEW id \in DOMAIN children, NEW child, children' = [children EXCEPT ![id] = child],
         saves = 0 => \/ Overridden(child)
                      \/ /\ child.rs \in {NotYet, rs} /\ child.main \in {NotYet, main}
                         /\ child.phase # "exited" /\ (child.phase = "configured" => child.rs = rs)
  PROVE  BootInv'
<1>1. UNCHANGED <<main, stage>>
  BY DEF vars
<1>2. ASSUME saves = 0, NEW k \in DOMAIN children PROVE ChildBoots(k)'
  <2>1. ChildBoots(k)
    BY <1>2 DEF BootInv
  <2>2. CASE k = id
    <3>1. children'[k] = child
      BY <2>2
    <3> QED BY <1>1, <1>2, <2>1, <3>1 DEF ChildBoots, Overridden
  <2>3. CASE k # id
    <3>1. children'[k] = children[k]
      BY <2>3
    <3> QED BY <1>1, <2>1, <3>1 DEF ChildBoots, Overridden
  <2> QED BY <2>2, <2>3
<1> QED BY <1>1, <1>2 DEF BootInv

LEMMA ReadSettingsBoot == StartInv /\ BootInv /\ ReadSettings => BootInv'
<1> SUFFICES ASSUME StartInv, BootInv, ReadSettings PROVE BootInv'
  OBVIOUS
<1>1. DOMAIN children' = {}
  BY DEF ReadSettings, StartInv, ChildrenInv
<1>2. UNCHANGED <<files, env, options, saves, stage, main>>
  BY DEF ReadSettings, vars
<1>3. /\ rs' = RuntimeSettings(files, env, options.prefix, options.config)
      /\ phase' = "exited" \/ (phase' = "loading" /\ ~Throws(files, rs'))
  BY DEF ReadSettings
<1> QED BY <1>1, <1>2, <1>3 DEF BootInv, ReadSettings

LEMMA ReadConfigFileBoot == StartInv /\ BootInv /\ ReadConfigFile => BootInv'
<1> SUFFICES ASSUME StartInv, BootInv, ReadConfigFile PROVE BootInv'
  OBVIOUS
<1> DEFINE content == files[rs.config_file]
<1>1. /\ UNCHANGED <<files, env, options, rs, saves, children>> /\ phase = "loading" /\ stage = "unread"
      /\ DOMAIN children = {}
  BY DEF ReadConfigFile, StartInv, ChildrenInv
<1>2. CASE content.form = "object" /\ ReadConfig(content.modules) /\ UNCHANGED phase
  <2>1. main' = content.modules
    BY <1>2 DEF ReadConfig
  <2> QED BY <1>1, <1>2, <2>1 DEF BootInv
<1>3. CASE phase' = "exited" /\ UNCHANGED vars
  <2>1. DOMAIN children' = {}
    BY <1>1
  <2> QED BY <1>1, <1>3, <2>1, BootWithoutChildren
<1> QED BY <1>2, <1>3 DEF ReadConfigFile

LEMMA LoadConfigBoot == BootInv /\ LoadConfig => BootInv'
<1> SUFFICES ASSUME BootInv, LoadConfig PROVE BootInv'
  OBVIOUS
<1>1. UNCHANGED <<files, env, options, rs, phase, children, saves>> /\ phase = "loading" /\ Load
  BY DEF LoadConfig, startupVars, processVars
<1>2. UNCHANGED main /\ stage # "unread"
  BY <1>1 DEF Load, LoadModule, LoadProbe, ResolveModule, Loaded, Reject
<1> QED BY <1>1, <1>2, BootUnchanged

LEMMA StartModulesBoot == StartInv /\ BootInv /\ StartModules => BootInv'
<1> SUFFICES ASSUME StartInv, BootInv, StartModules PROVE BootInv'
  OBVIOUS
<1>1. /\ UNCHANGED <<files, env, options, rs, saves, main, stage>> /\ phase = "loading" /\ stage = "loaded"
      /\ DOMAIN children = {}
  BY DEF StartModules, vars, StartInv, ChildrenInv
<1>2. CASE phase' = "exited" /\ UNCHANGED children
  <2>1. DOMAIN children' = {}
    BY <1>1, <1>2
  <2> QED BY <1>1, <1>2, <2>1, BootWithoutChildren
<1>3. CASE phase' = "running" /\ children' = [id \in Spawned |-> Process(Programs[main[id].module])]
  <2>1. ASSUME NEW id \in DOMAIN children' PROVE ChildBoots(id)'
    <3> DEFINE l == Programs[main[id].module]
    <3>1. children'[id] = Process(l) /\ id \in DOMAIN main'
      BY <1>1, <1>3, <2>1 DEF Spawned
    <3> HIDE DEF l
    <3>2. Process(l).rs = NotYet /\ Process(l).main = NotYet /\ Process(l).phase = "spawned"
      BY DEF Process
    <3>3. /\ children'[id].rs = NotYet /\ children'[id].main = NotYet /\ children'[id].phase = "spawned"
      BY <3>1, <3>2
    <3> QED BY <3>1, <3>3 DEF ChildBoots
  <2> QED BY <1>1, <1>3, <2>1 DEF BootInv
<1> QED BY <1>2, <1>3 DEF StartModules

LEMMA ReadOwnSettingsBoot ==
  ASSUME StartInv, BootInv, NEW id \in DOMAIN children, ReadOwnSettings(id)
  PROVE  BootInv'
<1> DEFINE own == RuntimeSettings(files, env, children[id].given.prefix, children[id].given.config)
           end == IF Throws(files, own) THEN "exited" ELSE "configured"
           child == [children[id] EXCEPT !.rs = own, !.phase = end]
<1>1. UNCHANGED <<files, env, options, rs, phase, saves, vars>> /\ phase = "running"
  BY DEF ReadOwnSettings
<1>2. IsProcess(children[id]) /\ GivenInv(children[id])
  BY DEF StartInv, ChildrenInv
<1>3. children' = [children EXCEPT ![id] = child]
  BY DEF ReadOwnSettings
<1>4. ASSUME saves = 0, ~Overridden(children[id]) PROVE own = rs /\ end = "configured"
  <2>1. rs = RuntimeSettings(files, env, options.prefix, options.config) /\ ~Throws(files, rs)
    BY <1>1, <1>4 DEF BootInv
  <2>2. children[id].given.prefix = rs.prefix /\ children[id].given.config = rs.config_file
    BY <1>2, <1>4 DEF GivenInv
  <2>3. rs.prefix # NoPath /\ rs.config_file # NoPath
    BY <1>1 DEF StartInv, CompleteInv
  <2>4. own = rs
    BY <2>1, <2>2, <2>3, SameAgain
  <2> QED BY <2>1, <2>4
<1> HIDE DEF own, end
<1>5. /\ child.rs = own /\ child.phase = end /\ child.main = children[id].main
      /\ child.language = children[id].language
  BY <1>2 DEF IsProcess
<1>6. Overridden(child) <=> Overridden(children[id])
  BY <1>5 DEF Overridden
<1>7. saves = 0 => Overridden(children[id]) \/ children[id].main \in {NotYet, main}
  BY DEF BootInv, ChildBoots
<1> HIDE DEF child
<1>8. saves = 0 => \/ Overridden(child)
                   \/ /\ child.rs \in {NotYet, rs} /\ child.main \in {NotYet, main}
                      /\ child.phase # "exited" /\ (child.phase = "configured" => child.rs = rs)
  BY <1>4, <1>5, <1>6, <1>7
<1> QED BY <1>1, <1>3, <1>8, BootOneChild

LEMMA ReadOwnConfigBoot ==
  ASSUME StartInv, ConfigInv, BootInv, NEW id \in DOMAIN children, ReadOwnConfig(id)
  PROVE  BootInv'
<1> DEFINE content == files[children[id].rs.config_file]
           boots == content.form = "object" /\ WellFormed(content.modules) /\ id \in DOMAIN content.modules
           end == IF boots THEN "booted" ELSE "exited"
           child == [children[id] EXCEPT !.main = content.modules, !.phase = end]
<1>1. /\ UNCHANGED <<files, env, options, rs, phase, saves, vars>> /\ phase = "running"
      /\ children[id].phase = "configured"
  BY DEF ReadOwnConfig
<1>2. IsProcess(children[id])
  BY DEF StartInv, ChildrenInv
<1>3. children' = [children EXCEPT ![id] = child]
  BY DEF ReadOwnConfig
<1>4. ASSUME saves = 0, ~Overridden(children[id])
      PROVE  children[id].rs = rs /\ content.modules = main /\ end = "booted"
  <2>1. id \in DOMAIN main /\ children[id].rs = rs
    BY <1>1, <1>4 DEF BootInv, ChildBoots
  <2>2. /\ stage = "loaded" /\ files[rs.config_file].form = "object"
        /\ main = files[rs.config_file].modules
    BY <1>1, <1>4 DEF BootInv
  <2>3. WellFormed(main)
    BY <2>2, InvAccepts DEF AcceptsWellFormed
  <2> QED BY <2>1, <2>2, <2>3
<1> HIDE DEF content, end
<1>5. /\ child.rs = children[id].rs /\ child.phase = end /\ child.main = content.modules
      /\ child.language = children[id].language
  BY <1>2 DEF IsProcess
<1>6. Overridden(child) <=> Overridden(children[id])
  BY <1>5 DEF Overridden
<1> HIDE DEF child
<1>8. saves = 0 => \/ Overridden(child)
                   \/ /\ child.rs \in {NotYet, rs} /\ child.main \in {NotYet, main}
                      /\ child.phase # "exited" /\ (child.phase = "configured" => child.rs = rs)
  BY <1>4, <1>5, <1>6
<1> QED BY <1>1, <1>3, <1>8, BootOneChild

LEMMA NextBootInv ==
  ASSUME StartInv, ConfigInv, BootInv, [StartNext]_<<startupVars, vars>>
  PROVE  BootInv'
<1>1. CASE ReadSettings
  BY <1>1, ReadSettingsBoot
<1>2. CASE ReadConfigFile
  BY <1>2, ReadConfigFileBoot
<1>3. CASE LoadConfig
  BY <1>3, LoadConfigBoot
<1>4. CASE ConfigRejected
  <2>1. DOMAIN children' = {}
    BY <1>4 DEF ConfigRejected, StartInv, ChildrenInv
  <2> QED BY <1>4, <2>1, BootWithoutChildren DEF ConfigRejected
<1>5. CASE StartModules
  BY <1>5, StartModulesBoot
<1>6. CASE RestartModules
  <2>1. DOMAIN children' = {}
    BY <1>6 DEF RestartModules, EmptyMap
  <2> QED BY <1>6, <2>1, BootWithoutChildren DEF RestartModules
<1>7. ASSUME NEW id \in DOMAIN children, ReadOwnSettings(id) \/ ReadOwnConfig(id)
      PROVE  BootInv'
  BY <1>7, ReadOwnSettingsBoot, ReadOwnConfigBoot
<1>8. ASSUME NEW content \in Contents, Save(content)
      PROVE  BootInv'
  <2>1. saves \in Nat /\ saves' = saves + 1 /\ UNCHANGED <<phase, stage>>
    BY <1>8 DEF Save, processVars, vars, BootInv
  <2>2. saves' \in Nat /\ saves' # 0
    BY <2>1
  <2> QED BY <2>1, <2>2 DEF BootInv
<1>9. CASE UNCHANGED <<startupVars, vars>>
  BY <1>9, BootUnchanged DEF startupVars, processVars, vars
<1> QED BY <1>1, <1>2, <1>3, <1>4, <1>5, <1>6, <1>7, <1>8, <1>9 DEF StartNext

LEMMA BootInductive == StartSpec => []BootInv
<1>1. StartInv /\ (ConfigInv /\ ConfigShapes) /\ BootInv /\ [StartNext]_<<startupVars, vars>> => BootInv'
  BY NextBootInv
<1> QED BY <1>1, InitBootInv, Inductive, ConfigInductive, PTL DEF StartSpec

(* A module whose manager has started it finds the same settings and config, *)
(* and boots, as long as the file is not changed and the environment does    *)
(* not lead it elsewhere: for every file, and any number of restarts         *)
(* (start_modules, ModuleLoader).                                            *)
THEOREM UnchangedFileBoots == StartSpec => []UnchangedConfigBoots
<1>1. BootInv => UnchangedConfigBoots
  BY DEF BootInv, ChildBoots, UnchangedConfigBoots
<1> QED BY <1>1, BootInductive, PTL

=============================================================================
