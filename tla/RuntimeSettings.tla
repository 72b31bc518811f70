--------------------------- MODULE RuntimeSettings ---------------------------
(***************************************************************************)
(* The RuntimeSettings of a process (lib/runtime.cpp): where the config    *)
(* file and the directories are and which broker to use, from two strings  *)
(* of the command line, the environment, the "settings" of the config file *)
(* and the file system.  Every process of an EVerest system derives them   *)
(* for itself.                                                             *)
(*                                                                         *)
(* A path is the sequence of its names, with "/" as the first of an        *)
(* absolute one; other strings are sequences of their pieces.  The empty   *)
(* path is one that is not set, and stands for the exception where a       *)
(* constructor must have one.                                              *)
(***************************************************************************)
EXTENDS SequencesExt

CONSTANTS
  PREFIX, \* defaults::PREFIX, the installation of the build
  Real,   \* fs::canonical, for the paths that exist
  Dirs    \* the canonical paths of directories

NoPath   == <<>>
Root     == <<"/">>
Usr      == <<"/", "usr">>
Wrong    == <<"not of this type">>  \* a value the json library refuses to convert
NoMap    == [x \in {} |-> x]

ASSUME FileSystem ==
  /\ \A p \in DOMAIN Real : Real[p] \in DOMAIN Real /\ Real[Real[p]] = Real[p]
  /\ NoPath \notin DOMAIN Real

Absolute(path) == path # NoPath /\ Head(path) = "/"

\* fs::path's operator/, and get_prefixed_path_from_json
Join(path, next) == IF Absolute(next) THEN next ELSE path \o next

\* Files are contents by their canonical paths.
AssertDir(path) ==
  IF path \in DOMAIN Real /\ Real[path] \in Dirs THEN Real[path] ELSE NoPath

AssertFile(files, path) ==
  IF path \in DOMAIN Real /\ Real[path] \in DOMAIN files
  THEN Real[path] ELSE NoPath

\* The configuration of an installation in /usr is not below it.
Sysconf(prefix) == Join(IF prefix = Usr THEN Root ELSE prefix, <<"etc", "everest">>)

\* What is no file is a short name, also with an extension: has_extension looks
\* at the member, which is still empty, and at its stem.
ConfigFile(files, prefix, config) ==
  LET given == AssertFile(files, config)
      base  == AssertDir(IF prefix = NoPath THEN PREFIX ELSE prefix)
      name  == IF config = NoPath THEN <<"default", ".yaml">> ELSE Append(config, ".yaml")
  IN CASE given # NoPath -> given
       [] given = NoPath /\ base # NoPath -> AssertFile(files, Join(Sysconf(base), name))
       [] OTHER -> NoPath

\* A file that is null counts as empty; other forms are refused (Throws).
Settings(files, file) ==
  IF file # NoPath /\ files[file].form = "object" THEN files[file].settings ELSE NoMap

Prefix(prefix, settings) ==
  CASE prefix # NoPath -> AssertDir(prefix)
    [] prefix = NoPath /\ "prefix" \in DOMAIN settings ->
         IF Absolute(settings.prefix) THEN AssertDir(settings.prefix) ELSE NoPath
    [] OTHER -> AssertDir(PREFIX)

Defaults ==
  [controller_port |-> <<"8849">>, controller_rpc_timeout_ms |-> <<"2000">>,
   mqtt_broker_host |-> <<"localhost">>, mqtt_broker_port |-> <<"1883">>,
   mqtt_everest_prefix |-> <<"everest">>, mqtt_external_prefix |-> <<>>,
   telemetry_prefix |-> <<"everest-telemetry">>, telemetry_enabled |-> <<"false">>,
   validate_schema |-> <<"false">>, run_as_user |-> <<>>]

Environment == [mqtt_broker_host |-> "MQTT_SERVER_ADDRESS", mqtt_broker_port |-> "MQTT_SERVER_PORT"]

WithSlash(s) == IF s = <<>> \/ Last(s) = "/" THEN s ELSE Append(s, "/")

\* The setting or its default, unless the environment has it.
Setting(env, settings, n) ==
  LET read == IF n \in DOMAIN settings THEN settings[n] ELSE Defaults[n]
  IN CASE n \in DOMAIN Environment /\ Environment[n] \in DOMAIN env -> env[Environment[n]]
       [] n \in {"mqtt_everest_prefix", "telemetry_prefix"} -> WithSlash(read)
       [] OTHER -> read

\* Everything else follows from the config file and the prefix.
Derived(files, env, prefix, file, settings) ==
  LET etc  == AssertDir(Sysconf(prefix))
      data == AssertDir(Join(prefix, <<"share", "everest">>))
      default ==
        [configs_dir |-> etc, schemas_dir |-> Append(data, "schemas"),
         interfaces_dir |-> Append(data, "interfaces"),
         modules_dir |-> Join(prefix, <<"libexec", "everest", "modules">>),
         types_dir |-> Append(data, "types"), errors_dir |-> Append(data, "errors"),
         www_dir |-> Append(data, "www")]
  IN [prefix |-> prefix, config_file |-> file, config |-> settings, etc_dir |-> etc, data_dir |-> data,
      dirs |-> [n \in DOMAIN default |->
                  AssertDir(IF n \in DOMAIN settings THEN Join(prefix, settings[n]) ELSE default[n])],
      logging_config_file |->
        AssertFile(files, IF "logging_config_file" \in DOMAIN settings
                         THEN Join(prefix, settings.logging_config_file)
                         ELSE Join(Sysconf(prefix), <<"default_logging", ".cfg">>)),
      plain |-> [n \in DOMAIN Defaults |-> Setting(env, settings, n)]]

RuntimeSettings(files, env, prefix, config) ==
  LET file     == ConfigFile(files, prefix, config)
      settings == Settings(files, file)
  IN Derived(files, env, Prefix(prefix, settings), file, settings)

\* Whether the constructor throws instead.
Throws(files, rs) ==
  \/ NoPath \in {rs.prefix, rs.config_file, rs.etc_dir, rs.data_dir, rs.logging_config_file}
  \/ files[rs.config_file].form \notin {"object", "null"}
  \/ \E n \in DOMAIN rs.dirs : rs.dirs[n] = NoPath
  \/ \E n \in DOMAIN rs.config : n \in DOMAIN Defaults /\ rs.config[n] = Wrong
  \/ rs.plain.mqtt_broker_port = Wrong
  \/ rs.plain.mqtt_everest_prefix = rs.plain.mqtt_external_prefix

=============================================================================
