------------------------------- MODULE Startup -------------------------------
(***************************************************************************)
(* From the command line of the manager to its modules: boot and           *)
(* start_modules (manager.cpp), and what the processes of the modules find *)
(* out for themselves (ModuleLoader, everestjs, everestpy).                *)
(*                                                                         *)
(* A module's process is not handed the settings or the config.  It gets   *)
(* two paths and derives and loads both again, from files that may have    *)
(* changed since.                                                          *)
(***************************************************************************)
EXTENDS Config, RuntimeSettings

CONSTANTS
  Starts,      \* the files, the environment and the options of a manager
  Contents,    \* what the config file may be changed to
  Programs,    \* the language of a type's program, if it has one
  MaxSaves,    \* bound: changes of the config file
  MaxRestarts, \* bound: restarts of the modules
  NotYet

ASSUME StartupConstants ==
  /\ MaxSaves \in Nat /\ MaxRestarts \in Nat
  /\ \A s \in Starts : \A c \in Range(s.files) : FileShape(c.modules)
  /\ \A c \in Contents : FileShape(c.modules)
  /\ Range(Programs) \subseteq {"cpp", "javascript", "python"}

VARIABLES
  files,    \* contents of the files
  env,      \* the manager's environment, which all processes inherit
  options,  \* prefix and config, the mode, and the modules not to spawn
  rs,       \* the manager's RuntimeSettings
  phase,    \* where boot is
  children, \* the processes of the modules by module id
  saves, restarts \* counters of the bounds

processVars == <<env, options, rs, phase, children, restarts>>
startupVars == <<files, processVars, saves>>

StartInit ==
  /\ \E s \in Starts : files = s.files /\ env = s.env /\ options = s.options
  /\ rs = NotYet /\ phase = "start" /\ children = EmptyMap
  /\ saves = 0 /\ restarts = 0
  /\ Init

-----------------------------------------------------------------------------
(* boot *)

\* --dumpmanifests ends the manager before it has looked at the config.
ReadSettings ==
  /\ phase = "start"
  /\ rs' = RuntimeSettings(files, env, options.prefix, options.config)
  /\ phase' = IF Throws(files, rs') \/ options.mode = "dumpmanifests" THEN "exited" ELSE "loading"
  /\ UNCHANGED <<files, env, options, children, saves, restarts, vars>>

\* Config(rs, true) reads the file anew; null, which RuntimeSettings accepts, has
\* no modules.
ReadConfigFile ==
  /\ phase = "loading" /\ stage = "unread"
  /\ LET content == files[rs.config_file]
     IN \/ /\ content.form = "object"
           /\ ReadConfig(content.modules) /\ UNCHANGED phase
        \/ /\ content.form # "object"
           /\ phase' = "exited" /\ UNCHANGED vars
  /\ UNCHANGED <<files, env, options, rs, children, saves, restarts>>

LoadConfig == phase = "loading" /\ Load /\ UNCHANGED startupVars

\* The exception of the constructor ends the manager, also at a restart.
ConfigRejected ==
  /\ phase = "loading" /\ stage = "rejected"
  /\ phase' = "exited"
  /\ UNCHANGED <<files, env, options, rs, children, saves, restarts, vars>>

Spawned == DOMAIN main \ options.unspawned

\* Mutant of CppArguments: the path of the config file would do.
CppWithoutPrefix == [prefix |-> NoPath, config |-> rs.config_file, validate |-> <<>>]

\* exec_cpp_module
CppArguments == [prefix |-> rs.prefix, config |-> rs.config_file, validate |-> <<>>]

Inherited(name, value) == IF name \in DOMAIN env THEN env[name] ELSE value

\* EV_VALIDATE_SCHEMA is replaced when the settings ask for it, and stays as it is
\* when they do not.
Validation ==
  IF rs.plain.validate_schema = <<"true">> THEN <<"1">> ELSE Inherited("EV_VALIDATE_SCHEMA", <<>>)

\* Mutants of ScriptEnvironment: without EV_VALIDATE_SCHEMA, and with the name
\* the manager was given.
ScriptWithoutValidate ==
  [prefix   |-> Inherited("EV_PREFIX", rs.prefix),
   config   |-> Inherited("EV_CONF_FILE", rs.config_file),
   validate |-> Inherited("EV_VALIDATE_SCHEMA", <<>>)]
ScriptWithShortName ==
  [prefix   |-> Inherited("EV_PREFIX", rs.prefix),
   config   |-> Inherited("EV_CONF_FILE", options.config),
   validate |-> Validation]

\* exec_javascript_module and exec_python_module: setenv replaces neither of the
\* paths.
ScriptEnvironment ==
  [prefix   |-> Inherited("EV_PREFIX", rs.prefix),
   config   |-> Inherited("EV_CONF_FILE", rs.config_file),
   validate |-> Validation]

Process(language) ==
  [language |-> language, phase |-> "spawned", rs |-> NotYet, main |-> NotYet,
   given    |-> IF language = "cpp" THEN CppArguments ELSE ScriptEnvironment]

\* start_modules looks for all programs before it spawns the first; --check
\* ends the manager instead.
StartModules ==
  /\ phase = "loading" /\ stage = "loaded"
  /\ \/ /\ options.mode = "check"
        /\ phase' = "exited" /\ UNCHANGED children
     \/ /\ options.mode # "check"
        /\ \E id \in Spawned : main[id].module \notin DOMAIN Programs
        /\ phase' = "exited" /\ UNCHANGED children
     \/ /\ options.mode # "check"
        /\ \A id \in Spawned : main[id].module \in DOMAIN Programs
        /\ phase' = "running"
        /\ children' = [id \in Spawned |-> Process(Programs[main[id].module])]
  /\ UNCHANGED <<files, env, options, rs, saves, restarts, vars>>

\* restart_modules: the modules are gone and the config is read again, but not
\* the settings.
RestartModules ==
  /\ phase = "running" /\ restarts < MaxRestarts
  /\ phase' = "loading" /\ stage' = "unread"
  /\ children' = EmptyMap /\ restarts' = restarts + 1
  /\ UNCHANGED <<files, env, options, rs, saves>>
  /\ UNCHANGED <<main, todo, probe, manifests, names, cache, definitions, maps, resolved>>

-----------------------------------------------------------------------------
(* The process of a module *)

\* RuntimeSettings of ModuleLoader::parse_command_line, boot_module and
\* RuntimeSession.
ReadOwnSettings(id) ==
  /\ phase = "running" /\ id \in DOMAIN children /\ children[id].phase = "spawned"
  /\ LET given == children[id].given
         own   == RuntimeSettings(files, env, given.prefix, given.config)
     IN children' = [children EXCEPT ![id].rs = own,
                                     ![id].phase = IF Throws(files, own) THEN "exited" ELSE "configured"]
  /\ UNCHANGED <<files, env, options, rs, phase, saves, restarts, vars>>

\* Config(rs), which accepts what the manager's would; then the module's id
\* must be there.
ReadOwnConfig(id) ==
  /\ phase = "running" /\ id \in DOMAIN children /\ children[id].phase = "configured"
  /\ LET content == files[children[id].rs.config_file]
         boots   == /\ content.form = "object" /\ WellFormed(content.modules)
                    /\ id \in DOMAIN content.modules
     IN children' = [children EXCEPT ![id].main = content.modules,
                                     ![id].phase = IF boots THEN "booted" ELSE "exited"]
  /\ UNCHANGED <<files, env, options, rs, phase, saves, restarts, vars>>

\* The admin panel or a hand changes the config file while modules are to run.
Save(content) ==
  /\ phase \in {"loading", "running"} /\ options.mode = "run" /\ saves < MaxSaves
  /\ files' = [files EXCEPT ![rs.config_file] = content]
  /\ saves' = saves + 1
  /\ UNCHANGED <<processVars, vars>>

StartNext ==
  \/ ReadSettings \/ ReadConfigFile \/ LoadConfig \/ ConfigRejected
  \/ StartModules \/ RestartModules
  \/ \E id \in DOMAIN children : ReadOwnSettings(id) \/ ReadOwnConfig(id)
  \/ \E content \in Contents : Save(content)

StartSpec == StartInit /\ [][StartNext]_<<startupVars, vars>>

-----------------------------------------------------------------------------
(* Properties *)

\* The manager's environment leads a JavaScript or Python module elsewhere.
Overridden(child) ==
  child.language # "cpp" /\ {"EV_PREFIX", "EV_CONF_FILE"} \cap DOMAIN env # {}

\* Whether the Everest object of a module checks what it sends and receives:
\* JavaScript modules ask the environment, in which "0" is true.
Validates(child) ==
  IF child.language = "javascript" THEN child.given.validate # <<>>
  ELSE child.rs.plain.validate_schema = <<"true">>

\* Whatever the options of the manager, the links on the way and the changes of
\* the file, the modules find the settings the manager has, as long as they read
\* the same from the file.
SameSettings ==
  \A id \in DOMAIN children :
    LET child == children[id]
    IN \/ child.rs \in {NotYet, rs}
       \/ Overridden(child) \/ child.rs.config # rs.config

\* The loader has accepted the config, so every module it spawns boots with that
\* config, as long as nobody changes the file.
UnchangedConfigBoots ==
  saves = 0 =>
    \A id \in DOMAIN children :
      LET child == children[id]
      IN Overridden(child) \/ (child.main \in {NotYet, main} /\ child.phase # "exited")

\* A module that validates has loaded the types for that, which the Config of
\* its own settings does (config.cpp:442), and one that has validates: unless
\* its settings are not the manager's, who keeps those of before a restart, or
\* the environment has EV_VALIDATE_SCHEMA already.
ValidatesWithTypes ==
  \A id \in DOMAIN children :
    LET child == children[id]
    IN \/ child.rs = NotYet
       \/ Validates(child) <=> child.rs.plain.validate_schema = <<"true">>
       \/ /\ child.language = "javascript"
          /\ \/ "EV_VALIDATE_SCHEMA" \in DOMAIN env
             \/ Overridden(child) \/ child.rs.config # rs.config

=============================================================================
