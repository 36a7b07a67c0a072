--------------------------- MODULE DataDirMigration ---------------------------
(***************************************************************************)
(* amp-panel data-dir migrate, data-dir use and configure --data-dir: the  *)
(* command moves or redirects the panel to another directory while systemd *)
(* runs the service.  The configuration is three things that are written   *)
(* one after the other: the environment file, the override with            *)
(* ReadWritePaths, and what systemd has loaded of it.  Every step may      *)
(* fail, the administrator may interrupt the command, and the host may     *)
(* lose its power.                                                         *)
(*                                                                         *)
(* The contents of a file are named by the write that made them.  Not      *)
(* modelled: control.xml, status.xml and another name of the settings.     *)
(***************************************************************************)
EXTENDS Integers, FiniteSets

CONSTANTS
  Dirs,           \* data directories
  Absent,         \* no such file
  Torn,           \* a file that was cut off while it was written
  None,
  MaxWrites,      \* bound on writes of the running panel
  MaxCommands,    \* bound on commands
  MaxFailures,    \* bound on failing steps
  MaxCuts         \* bound on interrupted commands and reboots

Files == {"measurements.db", "other.db", "persisted_state.json", "xml_mapping.json"}
Data == {"database", "state", "mapping"}
Content == Nat \cup {Absent, Torn}
Paths == [dir : Dirs, database : {"measurements.db", "other.db"}, mapping : Dirs]

ASSUME DataDirAssumption ==
  /\ Absent \notin Nat /\ Torn \notin Nat /\ Absent # Torn
  /\ None \notin Dirs
  /\ MaxWrites \in Nat /\ MaxCommands \in Nat /\ MaxFailures \in Nat /\ MaxCuts \in Nat

VARIABLES
  files,      \* files[d][f]
  env,        \* paths in amp-panel.env
  override,   \* ReadWritePaths in paths.conf
  loaded,     \* ReadWritePaths systemd has loaded
  service,    \* is the panel up, should it be, and with which paths was it started
  cli,        \* the running command
  expected,   \* history: the data the panel last wrote or was told to use
  chosen,     \* history: other paths were chosen and the panel not yet started with them
  left,       \* history: data a migration did not take along
  half,       \* history: the configuration was written in part
  stamp,
  count       \* commands, failures and cuts so far

hostVars == <<env, override, loaded>>
ghostVars == <<expected, chosen, left, half>>
vars == <<files, hostVars, service, cli, ghostVars, stamp, count>>

FileOf(k, p) ==
  CASE k = "database" -> p.database
    [] k = "state" -> "persisted_state.json"
    [] k = "mapping" -> "xml_mapping.json"
DirOf(k, p) == IF k = "mapping" THEN p.mapping ELSE p.dir
Held(k, p) == files[DirOf(k, p)][FileOf(k, p)]

NoCommand == [name |-> "none", step |-> "idle", dest |-> None, paths |-> None]

\* A configured panel that runs.  DATABASE_FILE may have another name, and the
\* mapping may be elsewhere.
Init ==
  /\ env \in Paths
  /\ override = env.dir /\ loaded = env.dir
  /\ files = [d \in Dirs |-> [f \in Files |->
                IF \E k \in Data : d = DirOf(k, env) /\ f = FileOf(k, env) THEN 1 ELSE Absent]]
  /\ service = [up |-> TRUE, wanted |-> TRUE, paths |-> env]
  /\ cli = NoCommand
  /\ expected = [k \in Data |-> 1]
  /\ chosen = FALSE /\ left = {} /\ half = FALSE
  /\ stamp = 1
  /\ count = [commands |-> 0, failures |-> 0, cuts |-> 0]

-----------------------------------------------------------------------------
\* The panel.  Files outside the data directory are read-only for it.
Write(k) ==
  /\ service.up
  /\ DirOf(k, service.paths) = service.paths.dir
  /\ Held(k, service.paths) \in Nat
  /\ stamp < MaxWrites
  /\ stamp' = stamp + 1
  /\ files' = [files EXCEPT ![service.paths.dir][FileOf(k, service.paths)] = stamp + 1]
  /\ expected' = [expected EXCEPT ![k] = stamp + 1]
  /\ UNCHANGED <<hostVars, service, cli, chosen, left, half, count>>

\* systemd starts the panel and restarts it while it fails: it fails as long as
\* its directory is not writable.  A new database and new settings are created.
Fresh(c) == IF c = Absent THEN 0 ELSE c
ServiceStarts ==
  /\ service.wanted /\ ~service.up
  /\ env.dir = loaded
  /\ service' = [service EXCEPT !.up = TRUE, !.paths = env]
  /\ files' = [files EXCEPT ![env.dir][env.database] = Fresh(@),
                            ![env.dir]["persisted_state.json"] = Fresh(@)]
  /\ IF chosen
     THEN /\ expected' = [k \in Data |-> IF k = "mapping" THEN Held(k, env) ELSE Fresh(Held(k, env))]
          /\ left' = {} /\ chosen' = FALSE
     ELSE UNCHANGED <<expected, left, chosen>>
  /\ UNCHANGED <<hostVars, cli, half, stamp, count>>

-----------------------------------------------------------------------------
\* _update_data_paths, and what configure --data-dir sets.
Moved(d) ==
  [dir |-> d, database |-> "measurements.db",
   mapping |-> IF env.mapping = env.dir THEN d ELSE env.mapping]
Configured(d) == [env EXCEPT !.dir = d, !.database = "measurements.db"]

Begin(name, d) ==
  /\ cli = NoCommand
  /\ count.commands < MaxCommands
  /\ name = "migrate" => d # env.dir
  /\ count' = [count EXCEPT !.commands = @ + 1]
  /\ cli' = [name |-> name, dest |-> d,
             step |-> IF name = "migrate" THEN "check" ELSE "prepare",
             paths |-> IF name = "configure" THEN Configured(d) ELSE Moved(d)]
  /\ UNCHANGED <<files, hostVars, service, ghostVars, stamp>>

At(step) == cli.step = step
Goes(step) == cli' = [cli EXCEPT !.step = step]

\* Mutant: a directory with settings only counts as empty.
ConflictsDatabase(d) == files[d]["measurements.db"] # Absent
Conflicts(d) == \E f \in {"measurements.db", "persisted_state.json"} : files[d][f] # Absent

Check ==
  /\ At("check")
  /\ ~Conflicts(cli.dest)
  /\ Goes("stop")
  /\ UNCHANGED <<files, hostVars, service, ghostVars, stamp, count>>

\* Mutant: the panel writes on while its files are copied.
StopNot ==
  /\ At("stop")
  /\ Goes("measurements.db")
  /\ UNCHANGED <<files, hostVars, service, ghostVars, stamp, count>>
Stop ==
  /\ At("stop")
  /\ service' = [service EXCEPT !.up = FALSE, !.wanted = FALSE]
  /\ Goes("measurements.db")
  /\ UNCHANGED <<files, hostVars, ghostVars, stamp, count>>

\* One file, through a temporary file of the destination.
Copy(f, next) ==
  /\ At(f)
  /\ files' = IF files[env.dir][f] = Absent THEN files
              ELSE [files EXCEPT ![cli.dest][f] = files[env.dir][f]]
  /\ Goes(next)
  /\ UNCHANGED <<hostVars, service, ghostVars, stamp, count>>

\* prepare_data_directory: the packaged mapping where there is none.
LacksMapping == cli.paths.mapping = cli.dest /\ files[cli.dest]["xml_mapping.json"] = Absent
Prepare ==
  /\ At("prepare")
  /\ files' = IF LacksMapping THEN [files EXCEPT ![cli.dest]["xml_mapping.json"] = 0] ELSE files
  /\ Goes("env")
  /\ UNCHANGED <<hostVars, service, ghostVars, stamp, count>>

\* What a migration does not copy.
Uncopied ==
  (IF env.database # "measurements.db" THEN {"database"} ELSE {})
  \cup (IF env.mapping = env.dir THEN {"mapping"} ELSE {})

WriteEnv ==
  /\ At("env")
  /\ env' = cli.paths
  /\ left' = IF cli.name = "migrate" THEN left \cup Uncopied ELSE left
  /\ chosen' = (chosen \/ cli.name # "migrate")
  /\ half' = TRUE
  /\ Goes("system")
  /\ UNCHANGED <<files, override, loaded, service, expected, stamp, count>>

WriteSystem ==
  /\ At("system")
  /\ override' = cli.dest
  /\ Goes("daemon")
  /\ UNCHANGED <<files, env, loaded, service, ghostVars, stamp, count>>

\* Mutant: systemd is not told of the new override.
ReloadSkipped ==
  /\ At("daemon")
  /\ half' = FALSE
  /\ \/ Goes("restart")
     \/ cli.name = "configure" /\ cli' = NoCommand
  /\ UNCHANGED <<files, hostVars, service, expected, chosen, left, stamp, count>>
\* configure --no-start ends here.
DaemonReload ==
  /\ At("daemon")
  /\ loaded' = override
  /\ half' = FALSE
  /\ \/ Goes("restart")
     \/ cli.name = "configure" /\ cli' = NoCommand
  /\ UNCHANGED <<files, env, override, service, expected, chosen, left, stamp, count>>

Restart ==
  /\ At("restart")
  /\ service' = [service EXCEPT !.up = FALSE, !.wanted = TRUE]
  /\ cli' = NoCommand
  /\ UNCHANGED <<files, hostVars, ghostVars, stamp, count>>

\* What a step leaves behind that did not succeed.
Partial ==
  /\ override' \in IF At("system") THEN {override, cli.dest} ELSE {override}
  /\ service' \in {service} \cup
       IF At("stop") \/ At("restart") THEN {[service EXCEPT !.up = FALSE]} ELSE {}

\* The data-dir commands start the panel after a failure, configure does not.
\* Mutant: neither does.
FailsSilently ==
  /\ cli # NoCommand /\ ~At("start")
  /\ At("check") \/ count.failures < MaxFailures
  /\ count' = [count EXCEPT !.failures = IF At("check") THEN @ ELSE @ + 1]
  /\ At("check") => Conflicts(cli.dest)
  /\ Partial
  /\ cli' = NoCommand
  /\ UNCHANGED <<files, env, loaded, ghostVars, stamp>>
Fails ==
  /\ cli # NoCommand /\ ~At("start")
  /\ At("check") \/ count.failures < MaxFailures
  /\ count' = [count EXCEPT !.failures = IF At("check") THEN @ ELSE @ + 1]
  /\ At("check") => Conflicts(cli.dest)
  /\ Partial
  /\ IF cli.name = "configure" THEN cli' = NoCommand ELSE Goes("start")
  /\ UNCHANGED <<files, env, loaded, ghostVars, stamp>>

StartAfterFailure ==
  /\ At("start")
  /\ service' = [service EXCEPT !.wanted = TRUE]
  /\ cli' = NoCommand
  /\ UNCHANGED <<files, hostVars, ghostVars, stamp, count>>

-----------------------------------------------------------------------------
Cut ==
  /\ count.cuts < MaxCuts
  /\ count' = [count EXCEPT !.cuts = @ + 1]
  /\ cli' = NoCommand
  /\ override' \in IF At("system") THEN {override, cli.dest} ELSE {override}
  /\ files' \in {files} \cup
       IF At("prepare") /\ LacksMapping
       THEN {[files EXCEPT ![cli.dest]["xml_mapping.json"] = Torn]} ELSE {}
  /\ UNCHANGED <<env, ghostVars, stamp>>

\* Ctrl-C: nothing is started again.
Interrupt ==
  /\ cli # NoCommand
  /\ Cut
  /\ UNCHANGED <<loaded, service>>

\* Power loss; systemd reads the override and starts the enabled service.
Reboot ==
  /\ Cut
  /\ loaded' = override'
  /\ service' = [service EXCEPT !.up = FALSE, !.wanted = TRUE]

Command ==
  \/ Check \/ Stop
  \/ Copy("measurements.db", "persisted_state.json") \/ Copy("persisted_state.json", "prepare")
  \/ Prepare \/ WriteEnv \/ WriteSystem \/ DaemonReload \/ Restart
  \/ Fails \/ StartAfterFailure

Next ==
  \/ \E k \in Data : Write(k)
  \/ ServiceStarts
  \/ \E name \in {"migrate", "use", "configure"}, d \in Dirs : Begin(name, d)
  \/ Command
  \/ Interrupt \/ Reboot

Spec == Init /\ [][Next]_vars
\* A command runs on by itself, and systemd starts what is wanted.
FairSpec == Spec /\ WF_vars(Command) /\ WF_vars(ServiceStarts)

-----------------------------------------------------------------------------
MigrateSteps == {"check", "stop", "measurements.db", "persisted_state.json"}
Steps == MigrateSteps \cup {"prepare", "env", "system", "daemon", "restart", "start"}
Commands ==
  {NoCommand} \cup [name : {"migrate", "use", "configure"}, step : Steps, dest : Dirs, paths : Paths]

\* Every variable has its type; only a mapping is ever cut off.
TypeOK ==
  /\ files \in [Dirs -> [Files -> Content]]
  /\ \A d \in Dirs, f \in Files : files[d][f] = Torn => f = "xml_mapping.json"
  /\ env \in Paths /\ override \in Dirs /\ loaded \in Dirs
  /\ service \in [up : BOOLEAN, wanted : BOOLEAN, paths : Paths]
  /\ cli \in Commands
  /\ expected \in [Data -> Content]
  /\ chosen \in BOOLEAN /\ half \in BOOLEAN
  /\ left \subseteq Data
  /\ stamp \in Nat
  /\ count \in [commands : Nat, failures : Nat, cuts : Nat]

\* Wherever a migration fails, is interrupted or loses power, the panel never
\* runs on a database or settings other than those it wrote last, if they have
\* their usual names.
CarriesData == service.up => \A k \in Data \ left : Held(k, service.paths) = expected[k]

\* No command replaces a database or settings that are there: only the running
\* panel writes them.
NeverOverwrites ==
  [][\A d \in Dirs, f \in Files \ {"xml_mapping.json"} :
       files[d][f] # Absent /\ ~(service.up /\ service.paths.dir = d)
         => files'[d][f] = files[d][f]]_vars

\* Between commands environment, override and systemd agree on the directory,
\* unless the last command stopped between writing the first and loading the last.
Agree == cli = NoCommand /\ ~half => env.dir = override /\ override = loaded

\* A migration that stopped the panel brings it up again, also when it fails,
\* unless it is interrupted or fails half way through the configuration.
ComesBack ==
  cli.name = "migrate" /\ At("measurements.db")
    ~> service.up \/ count.cuts > 0 \/ env.dir # loaded

\* data_dir_command: "Move managed persistent data to a validated directory".
MovesEverything == service.up => \A k \in Data : Held(k, service.paths) = expected[k]
=============================================================================
