------------------------------ MODULE MCConfig ------------------------------
(* Configs: ids a, b and meter, of which meter is also a type.  A manager with a    *)
(* single connection, a list of one or two and an optional one; meters     *)
(* whose values are missing, defaulted, of a wrong kind or unknown; the    *)
(* probe as a client, a server and both; manifests that do not load.       *)
(* Starts: the check of each of them; and managers that run a few modules, *)
(* with all kinds of options, settings, environments and installations.    *)
EXTENDS Startup

End1(m, i) == [module |-> m, impl |-> i]
Plain(t) == [module |-> t, connections |-> EmptyMap, values |-> EmptyMap]
Schema(t, d) == [type |-> t, default |-> d]
NoConfig(impls) == [o \in impls \cup {ModuleOwner} |-> EmptyMap]

MCKeyOrder == <<"a", "b", "meter">>

MCErrorFiles == ("power" :> <<"Over", "Under">>) @@ ("twice" :> <<"Same", "Same">>)
Ref(ns, n) == [namespace |-> ns, name |-> n]
Intf(cmds, refs) == [cmds |-> cmds, errors |-> refs]
MCInterfaceFiles ==
  ("power" :> Intf({"read"}, <<Ref("power", WholeList), Ref("twice", "Same")>>)) @@
  ("ctrl" :> Intf({"start"}, <<Ref("power", "Over"), Ref("power", "Gone")>>)) @@
  ("empty" :> Intf({}, <<>>)) @@
  ("again" :> Intf({}, <<Ref("power", "Over"), Ref("power", WholeList)>>)) @@
  ("same" :> Intf({}, <<Ref("twice", WholeList)>>))

Man(p, r, c) == [provides |-> p, requires |-> r, config |-> c]
Req(i, lo, hi) == [interface |-> i, min |-> lo, max |-> hi]
Faulty(i) == Man("main" :> i, EmptyMap, NoConfig({"main"}))
MCManifestFiles ==
  ("Manager" :> Man("ctl" :> "ctrl",
     ("one" :> Req("power", 1, 1)) @@ ("some" :> Req("power", 1, 2)) @@ ("opt" :> Req("ctrl", 0, 1)),
     NoConfig({"ctl"}))) @@
  ("meter" :> Man(("main" :> "power") @@ ("ctl" :> "ctrl"), EmptyMap,
     ("main" :> ("gain" :> Schema("number", "int"))) @@ ("ctl" :> EmptyMap) @@
     (ModuleOwner :> (("addr" :> Schema("integer", Unset)) @@ ("on" :> Schema("boolean", Unset)))))) @@
  ("BadDefault" :> Man("main" :> "power", EmptyMap,
     ("main" :> ("gain" :> Schema("integer", "string"))) @@ (ModuleOwner :> EmptyMap))) @@
  ("Sim" :> Faulty("ctrl")) @@ ("Cell" :> Faulty("empty")) @@ ("Hollow" :> Faulty("empty")) @@
  ("Again" :> Faulty("again")) @@ ("Same" :> Faulty("same")) @@ ("NoFile" :> Faulty("none"))

Addr(k) == ModuleOwner :> (("addr" :> k) @@ ("on" :> "bool"))
MeterValues ==
  {Addr("int"), Addr("int") @@ ("main" :> ("gain" :> "float")), Addr("float"), EmptyMap,
   Addr("int") @@ ("main" :> ("gian" :> "int")), Addr("int") @@ ("gone" :> EmptyMap)}
Meters == {[Plain("meter") EXCEPT !.values = v] : v \in MeterValues}
Manifestless == {Plain(t) : t \in {"BadDefault", "Again", "Same", "NoFile", "Missing"}}

Ends == {End1("a", "main"), End1("b", "main"), End1("meter", "main"), End1("b", "ctl"), End1("c", "main")}
Lists == {<<>>} \cup {<<e>> : e \in Ends} \cup {<<End1("a", "main"), e>> : e \in Ends}
           \cup {<<e, End1("b", "main")>> : e \in Ends}
Probing ==
  {[Plain(ProbeModule) EXCEPT !.connections = c, !.values = v] :
     c \in {EmptyMap, "q" :> <<>>, "q" :> <<End1("a", "none")>>} \cup {"q" :> <<e>> : e \in Ends}
             \cup {"q" :> <<End1("meter", "main"), e>> : e \in Ends},
     v \in {EmptyMap, "main" :> EmptyMap, ModuleOwner :> ("gain" :> "int")}}

Optional(c) == {c, c @@ ("opt" :> <<End1("b", "ctl")>>), c @@ ("opt" :> <<End1("b", "main")>>),
                c @@ ("extra" :> <<End1("b", "main")>>)}
Managers ==
  {[Plain("Manager") EXCEPT !.connections = c] :
     c \in UNION {Optional(("one" :> l) @@ ("some" :> k)) : l \in Lists, k \in Lists}
             \cup {EmptyMap, "some" :> <<End1("a", "main")>>}}

\* A manager on i and x and y on the other ids.
Placed(M, X, Y) ==
  UNION {{(p[1] :> m) @@ (p[2] :> x) @@ (p[3] :> y) : m \in M, x \in X, y \in Y} :
           p \in {<<"a", "b", "meter">>, <<"meter", "a", "b">>, <<"b", "a", "meter">>}}

GoodMeter == [Plain("meter") EXCEPT !.values = Addr("int")]
GoodManagers ==
  {[Plain("Manager") EXCEPT !.connections = ("one" :> <<e>>) @@ ("some" :> <<e>>) @@ c] :
     e \in Ends, c \in {EmptyMap, "opt" :> <<End1("a", "main")>>}}

MCConfigs ==
  Placed(Managers, {GoodMeter}, {GoodMeter, Plain(ProbeModule)})
    \cup Placed(GoodManagers, Meters, Meters \cup Manifestless \cup Probing)
    \cup {("a" :> x) @@ ("b" :> y) : x, y \in Probing \cup Meters}

MCPrograms == ("Manager" :> "cpp") @@ ("Cell" :> "cpp") @@ ("meter" :> "javascript") @@ ("Sim" :> "python")

\* Installations in /opt, which is the default, /usr and /home, where /ev is a
\* link to /opt, and c is one to a config file of a relative name.
MCPREFIX == <<"/", "opt">>
Home == <<"/", "home">>
InstalledDirs(p) ==
  {p, Sysconf(p), p \o <<"share", "everest">>, p \o <<"libexec", "everest", "modules">>}
    \cup {p \o <<"share", "everest", d>> : d \in {"schemas", "interfaces", "types", "errors", "www"}}
MCDirs == UNION {InstalledDirs(p) : p \in {MCPREFIX, Usr, Home}} \cup {<<"/", "types">>}

Default(p) == Sysconf(p) \o <<"default", ".yaml">>
Named(p)   == Sysconf(p) \o <<"cfg", ".yaml">>
Logs       == {Sysconf(p) \o <<"default_logging", ".cfg">> : p \in {MCPREFIX, Usr, Home}}
Links      == (<<"/", "ev">> :> MCPREFIX) @@ (<<"c", ".yaml">> :> Named(Home))

Content(f, s, c) == [form |-> f, settings |-> s, modules |-> c]
Text == Content("other", NoMap, EmptyMap)
AllFiles == {Default(p) : p \in {MCPREFIX, Usr, Home}} \cup {Named(p) : p \in {MCPREFIX, Usr, Home}} \cup Logs
MCReal == Links @@ [p \in MCDirs \cup AllFiles |-> p]

\* All config files have content x, but those in /home have y.
Files(x, y) ==
  [p \in AllFiles |-> IF p \in Logs THEN Text
                      ELSE IF p \in {Default(Home), Named(Home)} THEN y ELSE x]

Options(p, c, m, u) == [prefix |-> p, config |-> c, mode |-> m, unspawned |-> u]
Start(f, e, o) == [files |-> f, env |-> e, options |-> o]

Checked(c) == LET x == Content("object", NoMap, c)
              IN Start(Files(x, x), NoMap, Options(NoPath, NoPath, "check", {}))

MCSettings ==
  {NoMap, "prefix" :> Home, "prefix" :> <<"ev">>, "types_dir" :> <<"/", "types">>,
   "www_dir" :> <<"share", "everest">>, "www_dir" :> <<"www">>, "controller_port" :> Wrong,
   "validate_schema" :> <<"true">>, "mqtt_external_prefix" :> <<"everest", "/">>,
   ("telemetry_prefix" :> <<"t", "/">>) @@ ("logging_config_file" :> <<"etc", "gone">>)}
Environments ==
  {NoMap, "EV_VALIDATE_SCHEMA" :> <<"0">>, "EV_PREFIX" :> Home, "EV_CONF_FILE" :> <<"cfg">>,
   ("MQTT_SERVER_ADDRESS" :> <<"broker">>) @@ ("MQTT_SERVER_PORT" :> <<"1">>),
   "MQTT_SERVER_PORT" :> Wrong}
PrefixOptions == {NoPath, Home, <<"/", "ev">>, Usr, <<"/", "types">>, <<"gone">>}
ConfigNames == {NoPath, <<"cfg">>, <<"c", ".yaml">>, Named(MCPREFIX), <<"gone", ".yaml">>}

One(t) == "b" :> IF t = "meter" THEN GoodMeter ELSE Plain(t)
Three == ("a" :> [Plain("Manager") EXCEPT !.connections =
                    ("one" :> <<End1("b", "main")>>) @@ ("some" :> <<End1("b", "main")>>)])
           @@ ("b" :> GoodMeter) @@ ("meter" :> Plain("Sim"))

\* A manager of one module, of any of the languages.
Lone(t, s, e, p, n) ==
  Start(Files(Content("object", s, One(t)), Content("object", "validate_schema" :> <<"true">>, One("Cell"))),
        e, Options(p, n, "run", {}))
Alone ==
  {Lone(t, s, e, NoPath, <<"cfg">>) : t \in {"Cell", "meter", "Sim"}, s \in MCSettings, e \in Environments}
    \cup {Lone(t, s, NoMap, p, n) : t \in {"Cell", "meter"}, s \in {NoMap, "prefix" :> Home},
                                      p \in PrefixOptions, n \in ConfigNames}
Together ==
  {Start(Files(Content("object", s, Three), Text), NoMap, Options(NoPath, NoPath, m, u)) :
     s \in {NoMap, "validate_schema" :> <<"true">>}, m \in {"run", "dumpmanifests"}, u \in {{}, {"meter"}}}
Unusual ==
  {Start(Files(Content(f, NoMap, EmptyMap), Text), NoMap, Options(NoPath, NoPath, "run", {})) :
     f \in {"null", "other", "broken", "object"}}
    \cup {Lone("Hollow", NoMap, NoMap, NoPath, NoPath)}

MCStarts == {Checked(c) : c \in MCConfigs} \cup Alone \cup Together \cup Unusual

MCContents ==
  {Content("object", "validate_schema" :> <<b>>, One("meter")) : b \in {"true", "false"}}
    \cup {Content("object", NoMap, "a" :> Plain("Cell")), Content("broken", NoMap, EmptyMap)}
=============================================================================
