------------------------------- MODULE Config -------------------------------
(***************************************************************************)
(* The loader of a config, lib/config.cpp: manifests and their interfaces  *)
(* in the order of the module ids, the manifest generated for the          *)
(* ProbeModule, the config values, the connections; and the lookups by     *)
(* which a module finds the target of a command and its own values.        *)
(*                                                                         *)
(* A text file is what the loader reads from it.  An exception of the      *)
(* constructor leaves no object behind, so that a rejected config has no   *)
(* state but that.                                                         *)
(***************************************************************************)
EXTENDS Naturals, FiniteSets, SequencesExt

CONSTANTS
  KeyOrder,       \* module ids in the order a json object is iterated
  ManifestFiles,  \* type -> provides, requires and config of its manifest
  InterfaceFiles, \* interface -> its commands and references to errors
  ErrorFiles      \* namespace -> the names it lists

ProbeModule == "ProbeModule"
ModuleOwner == "!module"
Unset       == "unset"   \* no value and no default
WholeList   == "*"       \* a reference without a name
Kinds       == {"bool", "int", "float", "string"}
EmptyMap    == [x \in {} |-> x]

\* map[key] = value, and the same for each key of another map
Put(map, key, value) == [k \in {key} \cup DOMAIN map |-> IF k = key THEN value ELSE map[k]]
PutAll(map, other) ==
  [k \in DOMAIN other \cup DOMAIN map |-> IF k \in DOMAIN other THEN other[k] ELSE map[k]]

IsList(s) == Len(s) \in Nat /\ DOMAIN s = 1..Len(s)

\* The manifests are as schemas/manifest.yaml has them.
ASSUME ConfigConstants ==
  /\ IsList(KeyOrder) /\ IsInjective(KeyOrder)
  /\ ProbeModule \notin DOMAIN ManifestFiles
  /\ \A t \in DOMAIN ManifestFiles :
       /\ ManifestFiles[t].provides # EmptyMap
       /\ DOMAIN ManifestFiles[t].config = DOMAIN ManifestFiles[t].provides \cup {ModuleOwner}
       /\ \A o \in DOMAIN ManifestFiles[t].config : \A e \in DOMAIN ManifestFiles[t].config[o] :
            ManifestFiles[t].config[o][e].type \in {"boolean", "integer", "number", "string"}
       /\ \A q \in DOMAIN ManifestFiles[t].requires :
            ManifestFiles[t].requires[q].min \in Nat /\ ManifestFiles[t].requires[q].max \in Nat

VARIABLES
  main,       \* active_modules
  todo,       \* ids the loop of the current stage has not reached
  probe,      \* the id of the ProbeModule seen so far
  manifests,  \* manifests by type, as validated
  names,      \* module_names: the type of an id
  cache,      \* module_config_cache: the commands of implementations; keyed by id and by type
  definitions,\* interface_definitions
  maps,       \* config_maps by id
  resolved,   \* connections that have been given the interface they were checked for
  stage

vars == <<main, todo, probe, manifests, names, cache, definitions, maps, resolved, stage>>

-----------------------------------------------------------------------------
(* Interfaces and the errors they refer to *)

\* The errors of a reference: all of a list, or the first of that name, if any.
ResolveErrorRef(ref) ==
  LET listed == {n \in DOMAIN ErrorFiles[ref.namespace] :
                   ref.name \in {WholeList, ErrorFiles[ref.namespace][n]}}
      taken  == IF ref.name = WholeList THEN listed
                ELSE {n \in listed : \A k \in listed : n <= k}
  IN {<<ref.namespace, n>> : n \in taken}

\* replace_error_refs: a missing file is an exception, as is a name that two
\* references, or two entries of a list, have in common.
ErrorName(at) == <<at[1], ErrorFiles[at[1]][at[2]]>>

ErrorRefsReplaceable(refs) ==
  /\ \A r \in DOMAIN refs : refs[r].namespace \in DOMAIN ErrorFiles
  /\ \A r, s \in DOMAIN refs : \A x \in ResolveErrorRef(refs[r]), y \in ResolveErrorRef(refs[s]) :
       ErrorName(x) = ErrorName(y) => <<r, x>> = <<s, y>>

ReplaceErrorRefs(refs) ==
  UNION {{ErrorName(x) : x \in ResolveErrorRef(refs[r])} : r \in DOMAIN refs}

InterfaceLoads(i) ==
  i \in DOMAIN InterfaceFiles /\ ErrorRefsReplaceable(InterfaceFiles[i].errors)

ResolveInterface(i) ==
  [cmds |-> InterfaceFiles[i].cmds, errors |-> ReplaceErrorRefs(InterfaceFiles[i].errors)]

-----------------------------------------------------------------------------
(* Config values *)

Admitted(type) ==
  CASE type = "boolean" -> {"bool"}
    [] type = "integer" -> {"int"}
    [] type = "number"  -> {"int", "float"}
    [] type = "string"  -> {"string"}

ConfigSchemaValid(schema) ==
  \A e \in DOMAIN schema : schema[e].default \in Admitted(schema[e].type) \cup {Unset}

Entry(schema, map, e) == IF e \in DOMAIN map THEN map[e] ELSE schema[e].default

ConfigMapParses(schema, map) ==
  /\ DOMAIN map \subseteq DOMAIN schema
  /\ \A e \in DOMAIN schema : Entry(schema, map, e) \in Admitted(schema[e].type)

ParseConfigMap(schema, map) == [e \in DOMAIN schema |-> Entry(schema, map, e)]

Values(c, id, owner) ==
  IF owner \in DOMAIN c[id].values THEN c[id].values[owner] ELSE EmptyMap

-----------------------------------------------------------------------------
(* The file *)

\* What the schema of the config file admits: lists of connections, and values
\* of the four kinds.
FileShape(c) ==
  /\ DOMAIN c \subseteq ToSet(KeyOrder)
  /\ \A id \in DOMAIN c :
       /\ \A q \in DOMAIN c[id].connections : IsList(c[id].connections[q])
       /\ \A o \in DOMAIN c[id].values : Range(c[id].values[o]) \subseteq Kinds

\* The iteration over the ids of a json object: the first of those it has left.
Position(id) == CHOOSE n \in DOMAIN KeyOrder : KeyOrder[n] = id
First(ids)   == CHOOSE i \in ids : \A k \in ids : Position(i) <= Position(k)

\* A Config is constructed again for a restart of the modules.
ReadConfig(c) ==
  /\ stage = "unread"
  /\ main' = c /\ todo' = DOMAIN c
  /\ probe' = {} /\ resolved' = {}
  /\ manifests' = EmptyMap /\ names' = EmptyMap /\ cache' = EmptyMap
  /\ definitions' = EmptyMap /\ maps' = EmptyMap
  /\ stage' = "manifests"

-----------------------------------------------------------------------------
(* Loading manifests *)

Reject ==
  /\ stage' = "rejected"
  /\ UNCHANGED <<main, todo, probe, manifests, names, cache, definitions, maps, resolved>>

\* load_and_validate_manifest of a module whose type has manifest m.
ManifestLoads(id, m) ==
  /\ \A o \in DOMAIN m.config : ConfigSchemaValid(m.config[o])
  /\ \A i \in DOMAIN m.provides : InterfaceLoads(m.provides[i])
  /\ DOMAIN main[id].values \subseteq DOMAIN m.config
  /\ \A o \in DOMAIN m.config : ConfigMapParses(m.config[o], Values(main, id, o))

\* The cache of a type survives until a module with that id is loaded.
Cached(id, type, m) ==
  Put(Put(cache, id, EmptyMap),
      type, [i \in DOMAIN m.provides |-> ResolveInterface(m.provides[i]).cmds])

LoadAndValidateManifest(id, m) ==
  LET type == main[id].module
  IN /\ manifests' = Put(manifests, type, m)
     /\ names' = Put(names, id, type)
     /\ cache' = Cached(id, type, m)
     /\ definitions' = PutAll(definitions, [i \in Range(m.provides) |-> ResolveInterface(i)])
     /\ maps' = Put(maps, id, [o \in DOMAIN m.config |->
                                ParseConfigMap(m.config[o], Values(main, id, o))])

\* One pass of the loop over the modules.
LoadModule ==
  /\ stage = "manifests" /\ todo # {}
  /\ LET id   == First(todo)
         type == main[id].module
     IN \/ /\ type = ProbeModule /\ probe = {}
           /\ probe' = {id}
           /\ todo' = todo \ {id}
           /\ UNCHANGED <<main, manifests, names, cache, definitions, maps, resolved, stage>>
        \/ type = ProbeModule /\ probe # {} /\ Reject
        \/ /\ type \in DOMAIN ManifestFiles /\ ManifestLoads(id, ManifestFiles[type])
           /\ LoadAndValidateManifest(id, ManifestFiles[type])
           /\ todo' = todo \ {id}
           /\ UNCHANGED <<main, probe, resolved, stage>>
        \/ /\ type # ProbeModule
           /\ type \in DOMAIN ManifestFiles => ~ManifestLoads(id, ManifestFiles[type])
           /\ Reject

-----------------------------------------------------------------------------
(* The ProbeModule *)

\* Connections of the ids in S: <<id, requirement, position>>.
Connections(c, S) ==
  UNION {UNION {{<<i, q, n>> : n \in DOMAIN c[i].connections[q]} :
                  q \in DOMAIN c[i].connections} : i \in S}

End(c, x) == c[x[1]].connections[x[2]][x[3]]

\* get_provides_for_probe_module: what the others connect to, as <<implementation, interface>>.
Others(p) == DOMAIN main \ {p}

ConnectionsDeclared(p) ==
  \A x \in Connections(main, Others(p)) : x[2] \in DOMAIN manifests[main[x[1]].module].requires

ProbeOffers(p) ==
  LET asked == {<<End(main, x).impl, manifests[main[x[1]].module].requires[x[2]].interface>> :
                  x \in {y \in Connections(main, Others(p)) : End(main, y).module = p}}
  IN IF asked = {} THEN {<<"none", "empty">>} ELSE asked

\* A set of pairs as a function, and whether it is one.
Functional(pairs) == \A x, y \in pairs : x[1] = y[1] => x = y
AsMap(pairs) == [k \in {x[1] : x \in pairs} |-> (CHOOSE x \in pairs : x[1] = k)[2]]

\* get_requirements_for_probe_module; it sees the provides of the probe itself.
ProvidesOf(p, id) ==
  IF id = p THEN AsMap(ProbeOffers(p)) ELSE manifests[main[id].module].provides

ProbeTargetsExist(p) ==
  \A x \in Connections(main, {p}) :
    /\ End(main, x).module \in DOMAIN main
    /\ End(main, x).impl \in DOMAIN ProvidesOf(p, End(main, x).module)

ProbeAsks(p) ==
  {<<x[2], ProvidesOf(p, End(main, x).module)[End(main, x).impl]>> : x \in Connections(main, {p})}

\* The generated manifest; the bounds of a requirement are the schema's defaults.
ProbeManifest(p) ==
  LET provides == AsMap(ProbeOffers(p))
      asks     == AsMap(ProbeAsks(p))
  IN [provides |-> provides,
      requires |-> [q \in DOMAIN asks |-> [interface |-> asks[q], min |-> 1, max |-> 1]],
      config   |-> [o \in DOMAIN provides \cup {ModuleOwner} |-> EmptyMap]]

ProbeFits(p) ==
  /\ ConnectionsDeclared(p) /\ Functional(ProbeOffers(p))
  /\ ProbeTargetsExist(p) /\ Functional(ProbeAsks(p))

\* Behind the loop: the probe, then the iteration starts again to resolve.
LoadProbe ==
  /\ stage = "manifests" /\ todo = {}
  /\ \/ /\ probe = {}
        /\ UNCHANGED <<manifests, names, cache, definitions, maps>>
        /\ stage' = "resolving"
     \/ \E p \in probe :
          /\ ProbeFits(p) /\ ManifestLoads(p, ProbeManifest(p))
          /\ LoadAndValidateManifest(p, ProbeManifest(p))
          /\ stage' = "resolving"
     \/ \E p \in probe :
          /\ ProbeFits(p) => ~ManifestLoads(p, ProbeManifest(p))
          /\ stage' = "rejected"
          /\ UNCHANGED <<manifests, names, cache, definitions, maps>>
  /\ todo' = DOMAIN main
  /\ UNCHANGED <<main, probe, resolved>>

-----------------------------------------------------------------------------
(* resolve_all_requirements *)

Manifest(id) == manifests[main[id].module]

Connected(id, q) == q \in DOMAIN main[id].connections

CountFits(r, n) == n >= r.min /\ n <= r.max

\* Mutant of TargetFits: the interface of the target is not compared.
TargetExists(r, c) ==
  /\ c.module \in DOMAIN main
  /\ c.impl \in DOMAIN Manifest(c.module).provides

TargetFits(r, c) ==
  /\ c.module \in DOMAIN main
  /\ c.impl \in DOMAIN Manifest(c.module).provides
  /\ Manifest(c.module).provides[c.impl] = r.interface

RequirementMet(id, q) ==
  LET r  == Manifest(id).requires[q]
      cs == main[id].connections[q]
  IN IF Connected(id, q)
     THEN CountFits(r, Len(cs)) /\ \A n \in DOMAIN cs : TargetFits(r, cs[n])
     ELSE r.min < 1

Resolvable(id) ==
  /\ DOMAIN main[id].connections \subseteq DOMAIN Manifest(id).requires
  /\ \A q \in DOMAIN Manifest(id).requires : RequirementMet(id, q)

ResolveModule ==
  /\ stage = "resolving" /\ todo # {}
  /\ LET id == First(todo)
     IN \/ /\ Resolvable(id)
           /\ resolved' = resolved \cup Connections(main, {id})
           /\ todo' = todo \ {id}
           /\ UNCHANGED <<main, probe, manifests, names, cache, definitions, maps, stage>>
        \/ ~Resolvable(id) /\ Reject

Loaded ==
  /\ stage = "resolving" /\ todo = {}
  /\ stage' = "loaded"
  /\ UNCHANGED <<main, todo, probe, manifests, names, cache, definitions, maps, resolved>>

Init ==
  /\ main = EmptyMap /\ todo = {} /\ probe = {} /\ resolved = {}
  /\ manifests = EmptyMap /\ names = EmptyMap /\ cache = EmptyMap
  /\ definitions = EmptyMap /\ maps = EmptyMap
  /\ stage = "unread"

\* The constructor behind the reading of the file; Startup has the whole.
Load == LoadModule \/ LoadProbe \/ ResolveModule \/ Loaded

-----------------------------------------------------------------------------
(* What a module asks of the config it has loaded *)

\* Mutant of Single: the upper bound is not looked at.
SingleIfOneRequired(r) == r.min = 1

\* resolve_requirement returns one connection if exactly one is required, else
\* the list; call_cmd takes the connection of its Requirement's index.
Single(r) == r.min = 1 /\ r.max = 1

Target(id, q, index) ==
  IF Single(Manifest(id).requires[q]) THEN main[id].connections[q][1]
  ELSE main[id].connections[q][index + 1]

\* get_cmd_definition: by the type's name in the cache, or an exception.
HasCommands(id, impl) ==
  /\ id \in DOMAIN names
  /\ names[id] \in DOMAIN cache
  /\ impl \in DOMAIN cache[names[id]]

GetModuleCmds(id, impl) == cache[names[id]][impl]

\* Mutant of ConfigEntry: a number without fraction is stored as it was written.
ConfigEntryAsWritten(kind, type) ==
  CASE kind = "string" -> "string"
    [] kind = "float" -> "double"
    [] kind = "int" -> "int"
    [] kind = "bool" -> "bool"

\* get_module_configs: the alternative of ConfigEntry a value is stored as.
ConfigEntry(kind, type) ==
  CASE kind = "string" -> "string"
    [] kind = "float" -> "double"
    [] kind = "int" -> IF type = "number" THEN "double" ELSE "int"
    [] kind = "bool" -> "bool"

-----------------------------------------------------------------------------
(* Which configs load, stated of the files *)

Probes(c) == {i \in DOMAIN c : c[i].module = ProbeModule}

Wanted(c, x) == ManifestFiles[c[x[1]].module].requires[x[2]].interface

Clients(c, id) == {x \in Connections(c, DOMAIN c \ {id}) : End(c, x).module = id}

Implementations(c, id) ==
  IF id \notin Probes(c) THEN DOMAIN ManifestFiles[c[id].module].provides
  ELSE IF Clients(c, id) = {} THEN {"none"}
  ELSE {End(c, x).impl : x \in Clients(c, id)}

\* The interfaces of an implementation: one, unless the probe's clients disagree.
Offered(c, id, impl) ==
  IF id \notin Probes(c) THEN {ManifestFiles[c[id].module].provides[impl]}
  ELSE IF Clients(c, id) = {} THEN {"empty"}
  ELSE {Wanted(c, x) : x \in {y \in Clients(c, id) : End(c, y).impl = impl}}

ValuesSound(schema, map) ==
  /\ \A e \in DOMAIN map : e \in DOMAIN schema
  /\ \A e \in DOMAIN schema :
       /\ e \notin DOMAIN map => schema[e].default # Unset
       /\ {schema[e].default} \cup {map[k] : k \in {e} \cap DOMAIN map}
            \subseteq Admitted(schema[e].type) \cup {Unset}

ModuleSound(c, id) ==
  LET m == ManifestFiles[c[id].module]
  IN /\ c[id].module \in DOMAIN ManifestFiles
     /\ \A o \in DOMAIN c[id].values : o \in DOMAIN m.config
     /\ \A o \in DOMAIN m.config : ValuesSound(m.config[o], Values(c, id, o))
     /\ \A q \in DOMAIN c[id].connections : q \in DOMAIN m.requires
     /\ \A q \in DOMAIN m.requires :
          Cardinality({x \in Connections(c, {id}) : x[2] = q})
            \in m.requires[q].min..m.requires[q].max

ProbeSound(c, id) ==
  /\ \A o \in DOMAIN c[id].values : o = ModuleOwner \/ o \in Implementations(c, id)
  /\ \A o \in DOMAIN c[id].values : DOMAIN c[id].values[o] = {}
  /\ \A q \in DOMAIN c[id].connections : Len(c[id].connections[q]) = 1

ConnectionSound(c, x) ==
  LET end == End(c, x)
  IN /\ end.module \in DOMAIN c /\ end.impl \in Implementations(c, end.module)
     /\ x[1] \notin Probes(c) => Offered(c, end.module, end.impl) = {Wanted(c, x)}

WellFormed(c) ==
  /\ Cardinality(Probes(c)) <= 1
  /\ \A id \in DOMAIN c : IF id \in Probes(c) THEN ProbeSound(c, id) ELSE ModuleSound(c, id)
  /\ \A x \in Connections(c, DOMAIN c) : ConnectionSound(c, x)
  /\ \A id \in DOMAIN c : \A impl \in Implementations(c, id) :
       \A i \in Offered(c, id, impl) : InterfaceLoads(i)

-----------------------------------------------------------------------------
(* Properties *)

\* What the loader keeps of the modules it has loaded is complete: a type, a
\* manifest, interfaces, and a value for each entry of each config map.
TypeOK ==
  /\ stage \in {"unread", "manifests", "resolving", "loaded", "rejected"}
  /\ todo \cup probe \cup DOMAIN names \subseteq DOMAIN main
  /\ DOMAIN maps = DOMAIN names
  /\ \A id \in DOMAIN names :
       /\ names[id] \in DOMAIN manifests
       /\ DOMAIN maps[id] = DOMAIN manifests[names[id]].config
       /\ Range(manifests[names[id]].provides) \subseteq DOMAIN definitions
       /\ \A o \in DOMAIN maps[id] : Range(maps[id][o]) \subseteq Kinds
  /\ resolved \subseteq Connections(main, DOMAIN main)

\* The loader, with its order of modules, the generated manifest and the checks
\* spread over its stages, accepts exactly the configs whose connections each
\* join two ends of one interface, whose counts and values are as the manifests
\* demand, and whose clients of the probe agree (Config::Config).
AcceptsWellFormed ==
  /\ stage = "loaded" => WellFormed(main)
  /\ stage = "rejected" => ~WellFormed(main)

\* Loading a module empties the cache of a type that has its id, which only a
\* later module of that type fills again.  The probe is loaded last.
Order(id) ==
  IF main[id].module = ProbeModule THEN Len(KeyOrder) + 1
  ELSE Position(id)

Emptied(type) ==
  /\ type \in DOMAIN main /\ main[type].module # type
  /\ \A id \in DOMAIN main : main[id].module = type => Order(id) < Order(type)

\* In a loaded config the index of a Requirement leads call_cmd to the connection
\* the config lists there, and from it to the commands of the interface the
\* caller's manifest names; only a type whose cache has been emptied has none
\* (Everest::call_cmd, get_cmd_definition, config.cpp:239).
CallsFindTheirCommands ==
  stage = "loaded" =>
    \A x \in resolved :
      LET target == Target(x[1], x[2], x[3] - 1)
      IN /\ target = End(main, x)
         /\ HasCommands(target.module, target.impl) <=> ~Emptied(names[target.module])
         /\ HasCommands(target.module, target.impl) =>
              GetModuleCmds(target.module, target.impl)
                = definitions[Manifest(x[1]).requires[x[2]].interface].cmds

\* A module reads each of its values as the C++ type of the manifest's type,
\* whatever the config writes: a number without fraction is still a double.
CppType(type) ==
  CASE type = "boolean" -> "bool"
    [] type = "integer" -> "int"
    [] type = "number"  -> "double"
    [] type = "string"  -> "string"

ValuesTyped ==
  stage = "loaded" =>
    \A id \in DOMAIN maps : \A o \in DOMAIN maps[id] : \A e \in DOMAIN maps[id][o] :
      LET type == Manifest(id).config[o][e].type
      IN ConfigEntry(maps[id][o][e], type) = CppType(type)

=============================================================================
