----------------------------- MODULE DataDirProofs -----------------------------
(***************************************************************************)
(* Proofs about DataDirMigration: types, the data the panel runs on, what  *)
(* no command overwrites, and the three parts of the configuration.        *)
(***************************************************************************)
EXTENDS DataDirMigration, TLAPS

Commanded == [name : {"migrate", "use", "configure"}, step : Steps, dest : Dirs, paths : Paths]

\* A command at a step is not NoCommand, and goes on to steps.
LEMMA AtSteps ==
  ASSUME TypeOK, NEW s \in Steps, At(s)
  PROVE  cli \in Commanded /\ cli # NoCommand
  BY DEF TypeOK, At, Steps, MigrateSteps, Commands, Commanded, NoCommand

LEMMA GoesTyped ==
  ASSUME TypeOK, NEW s \in Steps, NEW n \in Steps, At(s), Goes(n)
  PROVE  cli' \in Commanded /\ cli' \in Commands
  BY AtSteps DEF Goes, Commanded, Commands

LEMMA NoCommandTyped == NoCommand \in Commands
  BY DEF Commands

\* A file gets contents that it may have.
FilesTyped(fs) ==
  /\ fs \in [Dirs -> [Files -> Content]]
  /\ \A d \in Dirs, f \in Files : fs[d][f] = Torn => f = "xml_mapping.json"

LEMMA PutTyped ==
  ASSUME FilesTyped(files), NEW d \in Dirs, NEW f \in Files, NEW c \in Content,
         c = Torn => f = "xml_mapping.json"
  PROVE  FilesTyped([files EXCEPT ![d][f] = c])
  BY DEF FilesTyped

LEMMA PathsTyped ==
  ASSUME TypeOK, NEW p \in Paths, NEW k \in Data
  PROVE  DirOf(k, p) \in Dirs /\ FileOf(k, p) \in Files /\ Held(k, p) \in Content
  BY DEF TypeOK, Paths, Data, DirOf, FileOf, Files, Held

LEMMA FreshTyped ==
  ASSUME NEW c \in Content
  PROVE  Fresh(c) \in Content /\ Fresh(c) # Absent /\ (Fresh(c) = Torn => c = Torn)
  BY DataDirAssumption DEF Fresh, Content

LEMMA TypeInit == Init => TypeOK
<1> SUFFICES ASSUME Init PROVE TypeOK
  OBVIOUS
<1>1. files \in [Dirs -> [Files -> Content]]
  BY DEF Init, Content
<1>2. \A d \in Dirs, f \in Files : files[d][f] # Torn
  BY DataDirAssumption DEF Init
<1>3. expected \in [Data -> Content]
  BY DEF Init, Content
<1> QED
  BY <1>1, <1>2, <1>3, NoCommandTyped DEF Init, TypeOK, Paths

LEMMA TypeWrite ==
  ASSUME TypeOK, NEW k \in Data, Write(k)
  PROVE  TypeOK'
<1>1. service.paths \in Paths /\ service.paths.dir \in Dirs
  BY DEF TypeOK, Paths
<1>2. FileOf(k, service.paths) \in Files
  BY <1>1, PathsTyped
<1>3. stamp + 1 \in Nat /\ stamp + 1 \in Content /\ stamp + 1 # Torn
  BY DataDirAssumption DEF TypeOK, Content
<1>4. FilesTyped(files')
  BY <1>1, <1>2, <1>3, PutTyped DEF Write, FilesTyped, TypeOK
<1>5. expected' \in [Data -> Content]
  BY <1>3 DEF Write, TypeOK
<1> QED
  BY <1>3, <1>4, <1>5 DEF TypeOK, Write, FilesTyped, hostVars

LEMMA TypeStarts ==
  ASSUME TypeOK, ServiceStarts
  PROVE  TypeOK'
<1>1. env \in Paths /\ env.dir \in Dirs /\ env.database \in Files /\ "persisted_state.json" \in Files
  BY DEF TypeOK, Paths, Files
<1> PICK fs : fs = [files EXCEPT ![env.dir][env.database] = Fresh(@)]
  OBVIOUS
<1>2. FilesTyped(fs)
  <2>1. files[env.dir][env.database] \in Content /\ env.database # "xml_mapping.json"
    BY <1>1 DEF TypeOK, Paths
  <2>2. Fresh(files[env.dir][env.database]) \in Content
         /\ Fresh(files[env.dir][env.database]) # Torn
    BY <1>1, <2>1, FreshTyped DEF TypeOK
  <2>3. fs = [files EXCEPT ![env.dir][env.database] = Fresh(files[env.dir][env.database])]
    OBVIOUS
  <2> QED
    BY <1>1, <2>2, <2>3, PutTyped DEF FilesTyped, TypeOK
<1>3. FilesTyped(files')
  <2>1. files' = [fs EXCEPT ![env.dir]["persisted_state.json"] = Fresh(files[env.dir]["persisted_state.json"])]
    BY DEF ServiceStarts
  <2>2. files[env.dir]["persisted_state.json"] \in Content \ {Torn}
    BY <1>1 DEF TypeOK
  <2>3. Fresh(files[env.dir]["persisted_state.json"]) \in Content \ {Torn}
    BY <2>2, FreshTyped
  <2> QED
    BY <1>1, <1>2, <2>1, <2>3 DEF FilesTyped
<1>4. expected' \in [Data -> Content]
  <2>1. \A k \in Data : Held(k, env) \in Content /\ Fresh(Held(k, env)) \in Content
    BY <1>1, PathsTyped, FreshTyped
  <2> QED
    BY <2>1 DEF ServiceStarts, TypeOK
<1>5. service' \in [up : BOOLEAN, wanted : BOOLEAN, paths : Paths]
  BY <1>1 DEF ServiceStarts, TypeOK
<1>6. chosen' \in BOOLEAN /\ left' \subseteq Data
  BY DEF ServiceStarts, TypeOK
<1> QED
  BY <1>3, <1>4, <1>5, <1>6 DEF TypeOK, ServiceStarts, FilesTyped, hostVars

LEMMA NewPathsTyped ==
  ASSUME TypeOK, NEW d \in Dirs
  PROVE  Moved(d) \in Paths /\ Configured(d) \in Paths
  BY DEF TypeOK, Moved, Configured, Paths

LEMMA TypeBegin ==
  ASSUME TypeOK, NEW name \in {"migrate", "use", "configure"}, NEW d \in Dirs, Begin(name, d)
  PROVE  TypeOK'
<1>1. cli' \in Commands
  <2>1. (IF name = "migrate" THEN "check" ELSE "prepare") \in Steps
    BY DEF Steps, MigrateSteps
  <2>2. (IF name = "configure" THEN Configured(d) ELSE Moved(d)) \in Paths
    BY NewPathsTyped
  <2> QED
    BY <2>1, <2>2 DEF Begin, Commands
<1>2. count' \in [commands : Nat, failures : Nat, cuts : Nat]
  BY DEF Begin, TypeOK
<1> QED
  BY <1>1, <1>2 DEF TypeOK, Begin, hostVars, ghostVars

LEMMA TypeCopy ==
  ASSUME TypeOK, NEW f \in {"measurements.db", "persisted_state.json"},
         NEW n \in {"persisted_state.json", "prepare"}, Copy(f, n)
  PROVE  TypeOK'
<1>1. f \in Steps /\ n \in Steps /\ f \in Files
  BY DEF Steps, MigrateSteps, Files
<1>2. cli \in Commanded /\ cli' \in Commands
  BY <1>1, AtSteps, GoesTyped DEF Copy
<1>3. files[env.dir][f] \in Content \ {Torn}
  BY <1>1 DEF TypeOK, Paths
<1>4. FilesTyped(files')
  BY <1>1, <1>2, <1>3, PutTyped DEF Copy, Commanded, FilesTyped, TypeOK
<1> QED
  BY <1>2, <1>4 DEF TypeOK, Copy, FilesTyped, hostVars, ghostVars

LEMMA TypePrepare ==
  ASSUME TypeOK, Prepare
  PROVE  TypeOK'
<1>1. "prepare" \in Steps /\ "env" \in Steps /\ "xml_mapping.json" \in Files
  BY DEF Steps, Files
<1>2. cli \in Commanded /\ cli' \in Commands
  BY <1>1, AtSteps, GoesTyped DEF Prepare
<1>3. 0 \in Content
  BY DEF Content
<1>4. FilesTyped(files')
  BY <1>1, <1>2, <1>3, PutTyped DEF Prepare, Commanded, FilesTyped, TypeOK
<1> QED
  BY <1>2, <1>4 DEF TypeOK, Prepare, FilesTyped, hostVars, ghostVars

\* What a cut or a failed step leaves of override and files.
LEMMA TypeCut ==
  ASSUME TypeOK, Interrupt \/ Reboot
  PROVE  TypeOK'
<1>1. cli \in Commands /\ cli' \in Commands
  BY NoCommandTyped DEF TypeOK, Interrupt, Reboot, Cut
<1>2. override' \in Dirs
  <2>1. At("system") => cli.dest \in Dirs
    BY AtSteps DEF Steps, Commanded
  <2> QED
    BY <2>1 DEF Interrupt, Reboot, Cut, TypeOK
<1>3. FilesTyped(files')
  <2>1. At("prepare") => cli.dest \in Dirs
    BY AtSteps DEF Steps, Commanded
  <2>2. Torn \in Content /\ "xml_mapping.json" \in Files
    BY DEF Content, Files
  <2>3. CASE files' = files
    BY <2>3 DEF FilesTyped, TypeOK
  <2>4. CASE files' # files
    <3>1. At("prepare") /\ files' = [files EXCEPT ![cli.dest]["xml_mapping.json"] = Torn]
      BY <2>4 DEF Interrupt, Reboot, Cut
    <3> QED
      BY <2>1, <2>2, <3>1, PutTyped DEF FilesTyped, TypeOK
  <2> QED
    BY <2>3, <2>4
<1>4. loaded' \in Dirs /\ service' \in [up : BOOLEAN, wanted : BOOLEAN, paths : Paths]
  BY <1>2 DEF Interrupt, Reboot, TypeOK
<1>5. count' \in [commands : Nat, failures : Nat, cuts : Nat]
  BY DEF Interrupt, Reboot, Cut, TypeOK
<1> QED
  BY <1>1, <1>2, <1>3, <1>4, <1>5 DEF TypeOK, Interrupt, Reboot, Cut, FilesTyped, ghostVars

LEMMA TypeFails ==
  ASSUME TypeOK, Fails
  PROVE  TypeOK'
<1>1. cli # NoCommand /\ cli \in Commanded
  BY DEF Fails, TypeOK, Commands, Commanded
<1>2. cli' \in Commands
  BY <1>1, NoCommandTyped DEF Fails, Goes, Commands, Commanded, Steps
<1>3. override' \in Dirs
  BY <1>1 DEF Fails, Partial, TypeOK, Commanded
<1>4. service' \in [up : BOOLEAN, wanted : BOOLEAN, paths : Paths]
  BY DEF Fails, Partial, TypeOK
<1>5. count' \in [commands : Nat, failures : Nat, cuts : Nat]
  BY DEF Fails, TypeOK
<1> QED
  BY <1>2, <1>3, <1>4, <1>5 DEF TypeOK, Fails, ghostVars

LEMMA TypeCommand ==
  ASSUME TypeOK, Command
  PROVE  TypeOK'
<1>1. {"check", "stop", "measurements.db", "env", "system", "daemon", "restart", "start"} \subseteq Steps
  BY DEF Steps, MigrateSteps
<1>2. CASE Check
  BY <1>1, <1>2, GoesTyped DEF Check, TypeOK, hostVars, ghostVars
<1>3. CASE Stop
  BY <1>1, <1>3, GoesTyped DEF Stop, TypeOK, hostVars, ghostVars
<1>4. CASE Copy("measurements.db", "persisted_state.json")
  BY <1>4, TypeCopy
<1>5. CASE Copy("persisted_state.json", "prepare")
  BY <1>5, TypeCopy
<1>6. CASE Prepare
  BY <1>6, TypePrepare
<1>7. CASE WriteEnv
  <2>1. cli \in Commanded /\ cli' \in Commands
    BY <1>1, <1>7, AtSteps, GoesTyped DEF WriteEnv
  <2>2. env' \in Paths
    BY <1>7, <2>1 DEF WriteEnv, Commanded
  <2>3. left' \subseteq Data
    BY <1>7 DEF WriteEnv, TypeOK, Uncopied, Data
  <2>4. chosen' \in BOOLEAN
    BY <1>7 DEF WriteEnv, TypeOK
  <2> QED
    BY <1>7, <2>1, <2>2, <2>3, <2>4 DEF WriteEnv, TypeOK
<1>8. CASE WriteSystem
  BY <1>1, <1>8, AtSteps, GoesTyped DEF WriteSystem, Commanded, TypeOK, ghostVars
<1>9. CASE DaemonReload
  <2>1. cli' \in Commands
    BY <1>1, <1>9, GoesTyped, NoCommandTyped DEF DaemonReload
  <2> QED
    BY <1>9, <2>1 DEF DaemonReload, TypeOK
<1>10. CASE Restart
  BY <1>10, NoCommandTyped DEF Restart, TypeOK, hostVars, ghostVars
<1>11. CASE Fails
  BY <1>11, TypeFails
<1>12. CASE StartAfterFailure
  BY <1>12, NoCommandTyped DEF StartAfterFailure, TypeOK, hostVars, ghostVars
<1> QED
  BY <1>2, <1>3, <1>4, <1>5, <1>6, <1>7, <1>8, <1>9, <1>10, <1>11, <1>12 DEF Command

LEMMA TypeStep == TypeOK /\ [Next]_vars => TypeOK'
<1> SUFFICES ASSUME TypeOK, [Next]_vars PROVE TypeOK'
  OBVIOUS
<1>1. CASE Next
  BY <1>1, TypeWrite, TypeStarts, TypeBegin, TypeCommand, TypeCut DEF Next
<1>2. CASE UNCHANGED vars
  BY <1>2 DEF vars, hostVars, ghostVars, TypeOK
<1> QED
  BY <1>1, <1>2

\* Every variable has its type, and only a mapping is ever cut off, whatever
\* command fails or is interrupted.
THEOREM TypeCorrect == Spec => []TypeOK
  BY TypeInit, TypeStep, PTL DEF Spec

-----------------------------------------------------------------------------
\* The inductive invariant.  What each step of a command knows of its paths.
Preparing == MigrateSteps \cup {"prepare", "env"}
PathsKnown ==
  /\ cli.step \in MigrateSteps => cli.name = "migrate"
  /\ cli.step \in Preparing =>
       cli.paths = IF cli.name = "configure" THEN Configured(cli.dest) ELSE Moved(cli.dest)
  /\ cli.step \in Preparing /\ cli.name = "migrate" => cli.dest # env.dir
  /\ cli.step \in {"system", "daemon"} => half /\ env.dir = cli.dest
  /\ At("daemon") => override = cli.dest

\* A migration that stopped the panel keeps it stopped to its end.
Stopped == {"measurements.db", "persisted_state.json", "prepare", "env", "system", "daemon", "restart"}
StandsStill ==
  cli.name = "migrate" /\ cli.step \in Stopped => ~service.up /\ ~service.wanted

\* What a migration found at its destination, and what it has brought there.
Copied ==
  /\ cli.step \in {"stop", "measurements.db"} => files[cli.dest]["measurements.db"] = Absent
  /\ cli.step \in {"stop", "measurements.db", "persisted_state.json"}
       => files[cli.dest]["persisted_state.json"] = Absent
  /\ cli.name = "migrate" /\ cli.step \in {"persisted_state.json", "prepare", "env"}
       => files[cli.dest]["measurements.db"] = files[env.dir]["measurements.db"]
  /\ cli.name = "migrate" /\ cli.step \in {"prepare", "env"}
       => files[cli.dest]["persisted_state.json"] = files[env.dir]["persisted_state.json"]

\* Files that are there because the panel or a command made them.
Present ==
  /\ service.up => files[service.paths.dir]["persisted_state.json"] # Absent
  /\ Held("mapping", env) # Absent
  /\ Held("mapping", service.paths) # Absent
  /\ At("env") => Held("mapping", cli.paths) # Absent

\* The paths in the environment file lead to the expected data unless others
\* were chosen.
Known ==
  /\ expected["database"] # Absent /\ expected["state"] # Absent
  /\ ~chosen => \A k \in Data \ left : Held(k, env) = expected[k]
  /\ service.up /\ ~chosen => service.paths = env

Consistent == ~half => env.dir = override /\ override = loaded

IInv ==
  /\ TypeOK /\ PathsKnown /\ StandsStill /\ Copied
  /\ Present /\ Known /\ CarriesData /\ Consistent

LEMMA InvInit == Init => IInv
<1> SUFFICES ASSUME Init PROVE IInv
  OBVIOUS
<1>1. TypeOK
  BY TypeInit
<1>2. \A k \in Data : Held(k, env) = 1
  BY DEF Init, Held, DirOf, FileOf, Data, Paths, Files
<1>3. PathsKnown /\ StandsStill /\ Copied
  BY DEF Init, NoCommand, PathsKnown, StandsStill, Copied, Preparing, MigrateSteps, Stopped, At
<1>4. Present /\ Known /\ CarriesData
  <2>1. files[env.dir]["persisted_state.json"] = 1
    BY <1>2 DEF Held, DirOf, FileOf, Data
  <2>2. 1 # Absent
    BY DataDirAssumption
  <2> QED
    BY <1>2, <2>1, <2>2 DEF Init, NoCommand, Present, Known, CarriesData, Data, At
<1> QED
  BY <1>1, <1>3, <1>4 DEF Init, IInv, Consistent

LEMMA InvWrite ==
  ASSUME IInv, NEW k \in Data, Write(k)
  PROVE  IInv'
<1>1. TypeOK /\ TypeOK'
  BY TypeWrite DEF IInv
<1>2. PICK p \in Paths, f \in Files :
        /\ p = service.paths /\ f = FileOf(k, p)
        /\ files' = [files EXCEPT ![p.dir][f] = stamp + 1]
        /\ p.dir \in Dirs
  BY <1>1, PathsTyped DEF Write, TypeOK, Paths
<1>3. stamp + 1 \in Nat /\ stamp + 1 # Absent
  BY <1>1, DataDirAssumption DEF TypeOK
<1>4. \A d \in Dirs, g \in Files :
        files'[d][g] = IF d = p.dir /\ g = f THEN stamp + 1 ELSE files[d][g]
  BY <1>1, <1>2 DEF TypeOK
<1>5. PathsKnown' /\ StandsStill' /\ Consistent'
  BY DEF IInv, Write, PathsKnown, StandsStill, Consistent, At, Moved, Configured, hostVars
<1>6. Copied'
  <2>1. CASE cli.step \in {"check", "stop"}
    <3>1. cli.dest \in Dirs /\ (cli.step = "stop" => cli.dest # p.dir)
      BY <1>1, <1>2, <2>1 DEF IInv, Copied, Present, Write, TypeOK, Commands, NoCommand
    <3> QED
      BY <1>4, <2>1, <3>1 DEF IInv, Copied, Write, Files
  <2>2. CASE cli.step \notin {"check", "stop"}
    BY <2>2 DEF IInv, Copied, Write, PathsKnown, StandsStill, MigrateSteps, Stopped
  <2> QED
    BY <2>1, <2>2
<1>7. Present'
  <2>1. \A d \in Dirs, g \in Files : files[d][g] # Absent => files'[d][g] # Absent
    BY <1>3, <1>4
  <2>2. At("env") => cli.paths \in Paths
    BY <1>1, AtSteps DEF Steps, Commanded
  <2> QED
    BY <1>1, <1>2, <2>1, <2>2
    DEF IInv, Present, Write, TypeOK, Paths, Files, Held, DirOf, FileOf, At, hostVars
<1>8. \A j \in Data : Held(j, p)' = IF j = k THEN stamp + 1 ELSE Held(j, p)
  <2>1. DirOf(k, p) = p.dir
    BY <1>2 DEF Write
  <2> QED
    BY <1>2, <1>4, <2>1 DEF Held, DirOf, FileOf, Data, Paths, Files
<1>9. \A j \in Data : expected'[j] = IF j = k THEN stamp + 1 ELSE expected[j]
  BY <1>1 DEF Write, TypeOK
<1>10. CarriesData'
  <2>1. service' = service /\ left' = left /\ service.up
    BY DEF Write
  <2>2. \A j \in Data \ left : Held(j, p) = expected[j]
    BY <1>2, <2>1 DEF IInv, CarriesData
  <2> QED
    BY <1>2, <1>8, <1>9, <2>1, <2>2 DEF CarriesData, Held
<1>11. Known'
  <2>1. chosen' = chosen /\ left' = left /\ service' = service /\ env' = env /\ service.up
    BY DEF Write, hostVars
  <2>2. expected'["database"] # Absent /\ expected'["state"] # Absent
    BY <1>3, <1>9 DEF IInv, Known, Data
  <2>3. ~chosen => env = p
    BY <1>2, <2>1 DEF IInv, Known
  <2>4. ~chosen => \A j \in Data \ left : Held(j, p) = expected[j]
    BY <2>3 DEF IInv, Known
  <2> QED
    BY <1>2, <1>8, <1>9, <2>1, <2>2, <2>3, <2>4 DEF Known, Held
<1> QED
  BY <1>1, <1>5, <1>6, <1>7, <1>10, <1>11 DEF IInv

LEMMA InvStarts ==
  ASSUME IInv, ServiceStarts
  PROVE  IInv'
<1>1. TypeOK /\ TypeOK'
  BY TypeStarts DEF IInv
<1>2. PICK p \in Paths : p = env /\ p.dir \in Dirs /\ p.mapping \in Dirs
                         /\ p.database \in {"measurements.db", "other.db"}
  BY <1>1 DEF TypeOK, Paths
<1>3. \A d \in Dirs, g \in Files :
        files'[d][g] = IF d = p.dir /\ g \in {p.database, "persisted_state.json"}
                       THEN Fresh(files[d][g]) ELSE files[d][g]
  BY <1>1, <1>2 DEF ServiceStarts, TypeOK, Files
<1>4. \A c : Fresh(c) # Absent /\ (c # Absent => Fresh(c) = c)
  BY DataDirAssumption DEF Fresh
<1>5. PathsKnown' /\ Consistent'
  BY DEF IInv, ServiceStarts, PathsKnown, Consistent, At, Moved, Configured, hostVars
<1>6. StandsStill'
  BY DEF IInv, ServiceStarts, StandsStill
<1>7. Copied'
  <2>1. CASE cli.step = "stop"
    <3>1. cli.dest \in Dirs /\ cli.dest # p.dir
      BY <1>1, <1>2, <2>1
      DEF IInv, PathsKnown, Preparing, MigrateSteps, TypeOK, Commands, NoCommand
    <3> QED
      BY <1>3, <2>1, <3>1 DEF IInv, Copied, ServiceStarts, Files
  <2>2. CASE cli.step # "stop"
    BY <2>2 DEF IInv, Copied, ServiceStarts, PathsKnown, StandsStill, MigrateSteps, Stopped
  <2> QED
    BY <2>1, <2>2
<1>8. Present'
  <2>1. \A d \in Dirs, g \in Files : files[d][g] # Absent => files'[d][g] # Absent
    BY <1>3, <1>4
  <2>2. files'[p.dir]["persisted_state.json"] # Absent
    BY <1>2, <1>3, <1>4 DEF Files
  <2>3. At("env") => cli.paths \in Paths
    BY <1>1, AtSteps DEF Steps, Commanded
  <2>4. service'.paths = p /\ env' = p /\ cli' = cli
    BY <1>1, <1>2 DEF ServiceStarts, TypeOK, hostVars
  <2> QED
    BY <1>2, <2>1, <2>2, <2>3, <2>4 DEF IInv, Present, Paths, Files, Held, DirOf, FileOf, At
<1>9. \A k \in Data : Held(k, p)' = IF k = "mapping" THEN Held(k, p) ELSE Fresh(Held(k, p))
  BY <1>2, <1>3 DEF Held, DirOf, FileOf, Data, Files
<1>10. /\ \A k \in Data \ left' : Held(k, p)' = expected'[k]
       /\ expected'["database"] # Absent /\ expected'["state"] # Absent
  <2>1. CASE chosen
    BY <1>2, <1>4, <1>9, <2>1 DEF ServiceStarts, Data
  <2>2. CASE ~chosen
    <3>1. expected' = expected /\ left' = left
      BY <2>2 DEF ServiceStarts
    <3>2. expected["database"] # Absent /\ expected["state"] # Absent
      BY DEF IInv, Known
    <3>3. \A k \in Data \ left : Held(k, p) = expected[k]
      BY <1>2, <2>2 DEF IInv, Known
    <3> QED
      BY <1>4, <1>9, <3>1, <3>2, <3>3 DEF Data
  <2> QED
    BY <2>1, <2>2
<1>11. ~chosen' /\ service'.up /\ service'.paths = p /\ env' = p
  BY <1>1, <1>2 DEF ServiceStarts, TypeOK, hostVars
<1>12. Known' /\ CarriesData'
  BY <1>2, <1>10, <1>11 DEF Known, CarriesData, Held, DirOf, FileOf
<1> QED
  BY <1>1, <1>5, <1>6, <1>7, <1>8, <1>12 DEF IInv

\* A step that leaves files, paths and history alone keeps what depends on them.
LEMMA InvHost ==
  ASSUME IInv, UNCHANGED <<files, env, expected, chosen, left>>,
         service'.paths = service.paths, service'.up => service.up
  PROVE  /\ Known' /\ CarriesData'
         /\ (At("env")' => Held("mapping", cli.paths)' # Absent) => Present'
<1>1. Known' /\ CarriesData'
  BY DEF IInv, Known, CarriesData, Held
<1>2. /\ files'[service'.paths.dir] = files[service.paths.dir]
      /\ Held("mapping", env)' = Held("mapping", env)
      /\ Held("mapping", service.paths)' = Held("mapping", service.paths)
  BY DEF Held
<1> QED
  BY <1>1, <1>2 DEF IInv, Present

LEMMA InvBegin ==
  ASSUME IInv, NEW name \in {"migrate", "use", "configure"}, NEW d \in Dirs, Begin(name, d)
  PROVE  IInv'
<1>1. TypeOK /\ TypeOK'
  BY TypeBegin DEF IInv
<1>2. cli' = [name |-> name, dest |-> d, step |-> IF name = "migrate" THEN "check" ELSE "prepare",
              paths |-> IF name = "configure" THEN Configured(d) ELSE Moved(d)]
  BY DEF Begin
<1>3. UNCHANGED <<files, env, override, loaded, service, expected, chosen, left, half>>
  BY DEF Begin, hostVars, ghostVars
<1>4. PathsKnown'
  BY <1>2, <1>3 DEF Begin, PathsKnown, Preparing, MigrateSteps, At, Moved, Configured
<1>5. StandsStill' /\ Copied'
  BY <1>2 DEF StandsStill, Copied, Stopped
<1>6. Present'
  BY <1>2, <1>3 DEF IInv, Present, Held, DirOf, FileOf, At
<1>7. Known' /\ CarriesData'
  BY <1>3, InvHost
<1>8. Consistent'
  BY <1>3 DEF IInv, Consistent
<1> QED
  BY <1>1, <1>4, <1>5, <1>6, <1>7, <1>8 DEF IInv

LEMMA InvCheck ==
  ASSUME IInv, Check
  PROVE  IInv'
<1>1. TypeOK /\ TypeOK' /\ cli \in Commanded
  BY TypeCommand, AtSteps DEF IInv, Check, Command, Steps, MigrateSteps
<1>2. cli' = [cli EXCEPT !.step = "stop"]
  BY DEF Check, Goes
<1>3. UNCHANGED <<files, env, override, loaded, service, expected, chosen, left, half>>
  BY DEF Check, hostVars, ghostVars
<1>4. PathsKnown'
  BY <1>1, <1>2, <1>3 DEF IInv, Check, PathsKnown, Preparing, MigrateSteps, At, Moved, Configured, Commanded
<1>5. StandsStill' /\ Consistent'
  BY <1>1, <1>2, <1>3 DEF IInv, StandsStill, Stopped, Consistent, Commanded
<1>6. Copied'
  <2>1. cli'.dest = cli.dest /\ cli'.step = "stop"
    BY <1>1, <1>2 DEF Commanded
  <2>2. files[cli.dest]["measurements.db"] = Absent /\ files[cli.dest]["persisted_state.json"] = Absent
    BY DEF Check, Conflicts
  <2> QED
    BY <1>3, <2>1, <2>2 DEF Copied
<1>7. Known' /\ CarriesData' /\ Present'
  BY <1>1, <1>2, <1>3, InvHost DEF At, Commanded
<1> QED
  BY <1>1, <1>4, <1>5, <1>6, <1>7 DEF IInv

LEMMA InvStop ==
  ASSUME IInv, Stop
  PROVE  IInv'
<1>1. TypeOK /\ TypeOK' /\ cli \in Commanded
  BY TypeCommand, AtSteps DEF IInv, Stop, Command, Steps, MigrateSteps
<1>2. cli' = [cli EXCEPT !.step = "measurements.db"]
  BY DEF Stop, Goes
<1>3. UNCHANGED <<files, env, override, loaded, expected, chosen, left, half>>
  BY DEF Stop, hostVars, ghostVars
<1>4. ~service'.up /\ ~service'.wanted /\ service'.paths = service.paths
  BY <1>1 DEF Stop, TypeOK
<1>5. PathsKnown'
  BY <1>1, <1>2, <1>3 DEF IInv, Stop, PathsKnown, Preparing, MigrateSteps, At, Moved, Configured, Commanded
<1>6. StandsStill' /\ Consistent'
  BY <1>3, <1>4 DEF IInv, StandsStill, Consistent
<1>7. Copied'
  BY <1>1, <1>2, <1>3 DEF IInv, Stop, At, Copied, Commanded
<1>8. Known' /\ CarriesData' /\ Present'
  BY <1>1, <1>2, <1>3, <1>4, InvHost DEF At, Commanded
<1> QED
  BY <1>1, <1>5, <1>6, <1>7, <1>8 DEF IInv

\* The two copies of a migration: the destination is another directory than the
\* one of the environment file, and has no such file.
LEMMA InvCopy ==
  ASSUME IInv, NEW f, NEW n,
         \/ f = "measurements.db" /\ n = "persisted_state.json"
         \/ f = "persisted_state.json" /\ n = "prepare",
         Copy(f, n)
  PROVE  IInv'
<1>1. TypeOK /\ TypeOK' /\ cli \in Commanded /\ f \in Files
  BY TypeCopy, AtSteps DEF IInv, Copy, Steps, MigrateSteps, Files
<1>2. cli' = [cli EXCEPT !.step = n] /\ cli.step = f /\ cli.name = "migrate"
  BY DEF IInv, PathsKnown, MigrateSteps, Copy, Goes, At
<1>3. UNCHANGED <<env, override, loaded, service, expected, chosen, left, half>>
  BY DEF Copy, hostVars, ghostVars
<1>4. PICK p \in Paths : p = env /\ p.dir \in Dirs /\ p.mapping \in Dirs
                         /\ p.database \in {"measurements.db", "other.db"}
  BY <1>1 DEF TypeOK, Paths
<1>5. cli.dest \in Dirs /\ cli.dest # p.dir /\ files[cli.dest][f] = Absent
  BY <1>1, <1>2, <1>4 DEF IInv, PathsKnown, Preparing, MigrateSteps, Copied, Commanded
<1>6. \A d \in Dirs, g \in Files :
        files'[d][g] = IF d = cli.dest /\ g = f THEN files[p.dir][f] ELSE files[d][g]
  BY <1>1, <1>4, <1>5 DEF Copy, TypeOK
<1>7. ~service.up /\ ~service.wanted
  BY <1>2 DEF IInv, StandsStill, Stopped
<1>8. PathsKnown'
  BY <1>1, <1>2, <1>3 DEF IInv, PathsKnown, Preparing, MigrateSteps, At, Moved, Configured, Commanded
<1>9. StandsStill' /\ Consistent' /\ CarriesData'
  BY <1>3, <1>7 DEF IInv, StandsStill, Consistent, CarriesData
<1>10. Copied'
  BY <1>1, <1>2, <1>3, <1>4, <1>5, <1>6 DEF IInv, Copied, Commanded, Files
<1>11. \A k \in Data : Held(k, p)' = Held(k, p)
  BY <1>1, <1>4, <1>5, <1>6 DEF Held, DirOf, FileOf, Data, Files
<1>12. Known'
  BY <1>3, <1>4, <1>7, <1>11 DEF IInv, Known, Held
<1>13. Present'
  <2>1. \A d \in Dirs : files'[d]["xml_mapping.json"] = files[d]["xml_mapping.json"]
    BY <1>6 DEF Files
  <2>2. service.paths.mapping \in Dirs /\ n # "env"
    BY <1>1 DEF TypeOK, Paths
  <2> QED
    BY <1>1, <1>2, <1>3, <1>4, <1>7, <2>1, <2>2
    DEF IInv, Present, Held, DirOf, FileOf, At, Commanded
<1> QED
  BY <1>1, <1>8, <1>9, <1>10, <1>12, <1>13 DEF IInv

\* A mapping that was absent is none the panel has held.
LEMMA MappingPut ==
  ASSUME IInv, LacksMapping, cli.dest \in Dirs, NEW c \in Content, c # Absent,
         files' = [files EXCEPT ![cli.dest]["xml_mapping.json"] = c],
         UNCHANGED <<env, expected, chosen, left>>,
         service'.paths = service.paths, service'.up => service.up
  PROVE  /\ Known' /\ CarriesData'
         /\ \A d \in Dirs : files[d]["xml_mapping.json"] # Absent =>
              files'[d]["xml_mapping.json"] = files[d]["xml_mapping.json"]
         /\ \A d \in Dirs, g \in Files \ {"xml_mapping.json"} : files'[d][g] = files[d][g]
<1>1. \A d \in Dirs, g \in Files :
        files'[d][g] = IF d = cli.dest /\ g = "xml_mapping.json" THEN c ELSE files[d][g]
  BY DEF IInv, TypeOK, Files
<1>2. \A d \in Dirs : files[d]["xml_mapping.json"] # Absent =>
        files'[d]["xml_mapping.json"] = files[d]["xml_mapping.json"]
  BY <1>1 DEF LacksMapping, Files
<1>3. \A d \in Dirs, g \in Files \ {"xml_mapping.json"} : files'[d][g] = files[d][g]
  BY <1>1
<1>4. \A p \in Paths : Held("mapping", p) # Absent => \A k \in Data : Held(k, p)' = Held(k, p)
  BY <1>2, <1>3 DEF Held, DirOf, FileOf, Data, Files, Paths
<1>5. env \in Paths /\ service.paths \in Paths
  BY DEF IInv, TypeOK
<1>6. \A k \in Data : Held(k, env)' = Held(k, env) /\ Held(k, service.paths)' = Held(k, service.paths)
  BY <1>4, <1>5 DEF IInv, Present, Held
<1> QED
  BY <1>2, <1>3, <1>6 DEF IInv, Known, CarriesData

LEMMA InvPrepare ==
  ASSUME IInv, Prepare
  PROVE  IInv'
<1>1. TypeOK /\ TypeOK' /\ cli \in Commanded
  BY TypePrepare, AtSteps DEF IInv, Prepare, Steps, MigrateSteps
<1>2. cli' = [cli EXCEPT !.step = "env"] /\ cli.step = "prepare" /\ cli.dest \in Dirs
      /\ cli'.paths = cli.paths /\ cli'.dest = cli.dest /\ cli'.name = cli.name /\ cli'.step = "env"
  BY <1>1 DEF Prepare, Goes, At, Commanded
<1>3. UNCHANGED <<env, override, loaded, service, expected, chosen, left, half>>
  BY DEF Prepare, hostVars, ghostVars
<1>4. 0 \in Content /\ 0 # Absent
  BY DataDirAssumption DEF Content
<1>5. /\ Known' /\ CarriesData'
      /\ \A d \in Dirs : files[d]["xml_mapping.json"] # Absent =>
           files'[d]["xml_mapping.json"] = files[d]["xml_mapping.json"]
      /\ \A d \in Dirs, g \in Files \ {"xml_mapping.json"} : files'[d][g] = files[d][g]
  <2>1. CASE LacksMapping
    BY <1>2, <1>3, <1>4, <2>1, MappingPut DEF Prepare
  <2>2. CASE ~LacksMapping
    BY <1>3, <2>2 DEF IInv, Prepare, Known, CarriesData, Held
  <2> QED
    BY <2>1, <2>2
<1>6. PathsKnown'
  BY <1>2, <1>3 DEF IInv, PathsKnown, Preparing, MigrateSteps, At, Moved, Configured
<1>7. StandsStill' /\ Consistent'
  BY <1>2, <1>3 DEF IInv, StandsStill, Stopped, Consistent
<1>8. env \in Paths /\ env.dir \in Dirs /\ env.mapping \in Dirs
      /\ service.paths \in Paths /\ service.paths.dir \in Dirs /\ service.paths.mapping \in Dirs
  BY <1>1 DEF TypeOK, Paths
<1>9. Copied'
  <2>1. \A d \in Dirs : /\ files'[d]["measurements.db"] = files[d]["measurements.db"]
                        /\ files'[d]["persisted_state.json"] = files[d]["persisted_state.json"]
    BY <1>5 DEF Files
  <2> QED
    BY <1>2, <1>3, <1>8, <2>1 DEF IInv, Copied
<1>10. files'[cli.paths.mapping]["xml_mapping.json"] # Absent
  <2>1. CASE LacksMapping
    BY <1>1, <1>2, <1>4, <2>1 DEF Prepare, LacksMapping, TypeOK, Files
  <2>2. CASE ~LacksMapping
    <3>1. files' = files
      BY <2>2 DEF Prepare
    <3>2. cli.paths.mapping = cli.dest \/ cli.paths.mapping = env.mapping
      <4>1. cli.paths = Configured(cli.dest) \/ cli.paths = Moved(cli.dest)
        BY <1>2 DEF IInv, PathsKnown, Preparing
      <4>2. Configured(cli.dest).mapping = env.mapping
        BY <1>8 DEF Configured, Paths
      <4> QED
        BY <4>1, <4>2 DEF Moved
    <3> QED
      BY <2>2, <3>1, <3>2 DEF IInv, Present, LacksMapping, Held, DirOf, FileOf
  <2> QED
    BY <2>1, <2>2
<1>11. Present'
  <2>1. service.up => files'[service.paths.dir]["persisted_state.json"] # Absent
    BY <1>5, <1>8 DEF IInv, Present, Files
  <2>2. /\ files'[env.mapping]["xml_mapping.json"] # Absent
        /\ files'[service.paths.mapping]["xml_mapping.json"] # Absent
    BY <1>5, <1>8 DEF IInv, Present, Held, DirOf, FileOf
  <2> QED
    BY <1>2, <1>3, <1>10, <2>1, <2>2 DEF Present, Held, DirOf, FileOf
<1> QED
  BY <1>1, <1>5, <1>6, <1>7, <1>9, <1>11 DEF IInv

LEMMA InvWriteEnv ==
  ASSUME IInv, WriteEnv
  PROVE  IInv'
<1>1. TypeOK /\ TypeOK' /\ cli \in Commanded
  BY TypeCommand, AtSteps DEF IInv, WriteEnv, Command, Steps, MigrateSteps
<1>2. cli.step = "env" /\ cli.dest \in Dirs
      /\ cli'.paths = cli.paths /\ cli'.dest = cli.dest /\ cli'.name = cli.name /\ cli'.step = "system"
  BY <1>1 DEF WriteEnv, Goes, At, Commanded
<1>3. UNCHANGED <<files, override, loaded, service, expected>> /\ half' /\ env' = cli.paths
  BY DEF WriteEnv
<1>4. cli.paths = IF cli.name = "configure" THEN Configured(cli.dest) ELSE Moved(cli.dest)
  BY <1>2 DEF IInv, PathsKnown, Preparing
<1>5. PathsKnown' /\ Consistent' /\ Copied'
  BY <1>2, <1>3, <1>4, <1>1 
  DEF PathsKnown, Preparing, MigrateSteps, At, Moved, Configured, Consistent, Copied, TypeOK, Paths
<1>6. StandsStill'
  BY <1>2, <1>3 DEF IInv, StandsStill, Stopped
<1>7. Present'
  BY <1>2, <1>3 DEF IInv, Present, Held, DirOf, FileOf, At
<1>8. expected'["database"] # Absent /\ expected'["state"] # Absent
  BY <1>3 DEF IInv, Known
<1>9. ~chosen' => ~chosen /\ cli.name = "migrate" /\ left' = left \cup Uncopied /\ ~service.up
  BY <1>2 DEF WriteEnv, IInv, StandsStill, Stopped
<1>10. ~chosen' => \A k \in Data \ left' : Held(k, cli.paths) = expected[k]
  <2> SUFFICES ASSUME ~chosen', NEW k \in Data \ left' PROVE Held(k, cli.paths) = expected[k]
    OBVIOUS
  <2>1. Held(k, env) = expected[k] /\ k \notin Uncopied
    BY <1>9 DEF IInv, Known
  <2>2. cli.paths = Moved(cli.dest)
    BY <1>4, <1>9
  <2>3. files[cli.dest]["measurements.db"] = files[env.dir]["measurements.db"]
        /\ files[cli.dest]["persisted_state.json"] = files[env.dir]["persisted_state.json"]
    BY <1>2, <1>9 DEF IInv, Copied
  <2>4. CASE k = "database"
    <3>1. env.database = "measurements.db"
      BY <2>1, <2>4 DEF Uncopied
    <3> QED
      BY <2>1, <2>2, <2>3, <2>4, <3>1 DEF Moved, Held, DirOf, FileOf
  <2>5. CASE k = "state"
    BY <2>1, <2>2, <2>3, <2>5 DEF Moved, Held, DirOf, FileOf
  <2>6. CASE k = "mapping"
    <3>1. env.mapping # env.dir
      BY <2>1, <2>6 DEF Uncopied
    <3> QED
      BY <2>1, <2>2, <2>6, <3>1 DEF Moved, Held, DirOf, FileOf
  <2> QED
    BY <2>4, <2>5, <2>6 DEF Data
<1>11. Known'
  BY <1>3, <1>8, <1>9, <1>10 DEF Known, Held
<1>12. CarriesData'
  <2>1. left \subseteq left'
    BY DEF WriteEnv
  <2> QED
    BY <1>3, <2>1 DEF IInv, CarriesData, Held
<1> QED
  BY <1>1, <1>5, <1>6, <1>7, <1>11, <1>12 DEF IInv

LEMMA InvFails ==
  ASSUME IInv, Fails \/ StartAfterFailure \/ Restart
  PROVE  IInv'
<1>1. TypeOK /\ TypeOK'
  BY TypeCommand DEF IInv, Command
<1>2. UNCHANGED <<files, env, loaded, expected, chosen, left, half>>
  BY DEF Fails, StartAfterFailure, Restart, hostVars, ghostVars
<1>3. cli'.step = "start" \/ cli' = NoCommand
  BY <1>1 DEF TypeOK, Commands, Fails, StartAfterFailure, Restart, Goes, NoCommand
<1>4. service'.paths = service.paths /\ (service'.up => service.up)
  BY <1>1 DEF TypeOK, Fails, Partial, StartAfterFailure, Restart
<1>5. PathsKnown' /\ StandsStill' /\ Copied' /\ ~At("env")'
  BY <1>3 DEF NoCommand, PathsKnown, Preparing, MigrateSteps, StandsStill, Stopped, Copied, At
<1>6. Known' /\ CarriesData' /\ Present'
  BY <1>2, <1>4, <1>5, InvHost
<1>7. Consistent'
  <2>1. ~half => override' = override
    BY DEF IInv, PathsKnown, Fails, Partial, StartAfterFailure, Restart, hostVars, At
  <2> QED
    BY <1>2, <2>1 DEF IInv, Consistent
<1> QED
  BY <1>1, <1>5, <1>6, <1>7 DEF IInv

LEMMA InvSystem ==
  ASSUME IInv, WriteSystem \/ DaemonReload
  PROVE  IInv'
<1>1. TypeOK /\ TypeOK' /\ cli \in Commanded
  BY TypeCommand, AtSteps DEF IInv, WriteSystem, DaemonReload, Command, Steps, MigrateSteps
<1>2. UNCHANGED <<files, env, service, expected, chosen, left>>
  BY DEF WriteSystem, DaemonReload, ghostVars
<1>3. \/ cli.step = "system" /\ cli'.step = "daemon" /\ override' = cli.dest /\ half' = half
         /\ cli'.name = cli.name /\ cli'.dest = cli.dest
      \/ cli.step = "daemon" /\ cli'.step \in {"restart", "idle"} /\ override' = override
         /\ loaded' = override /\ (cli'.name = cli.name \/ cli' = NoCommand)
  BY <1>1 DEF WriteSystem, DaemonReload, Goes, At, Commanded, NoCommand, ghostVars
<1>4. PathsKnown' /\ Copied' /\ ~At("env")'
  BY <1>2, <1>3 DEF IInv, PathsKnown, Preparing, MigrateSteps, Copied, At
<1>5. StandsStill'
  BY <1>2, <1>3 DEF IInv, StandsStill, Stopped, NoCommand
<1>6. Known' /\ CarriesData' /\ Present'
  BY <1>2, <1>4, InvHost
<1>7. Consistent'
  BY <1>2, <1>3 DEF IInv, PathsKnown, Consistent, At
<1> QED
  BY <1>1, <1>4, <1>5, <1>6, <1>7 DEF IInv

LEMMA InvCut ==
  ASSUME IInv, Interrupt \/ Reboot
  PROVE  IInv'
<1>1. TypeOK /\ TypeOK'
  BY TypeCut DEF IInv
<1>2. cli' = NoCommand /\ UNCHANGED <<env, expected, chosen, left, half>>
  BY DEF Interrupt, Reboot, Cut, ghostVars
<1>3. service'.paths = service.paths /\ (service'.up => service.up)
  BY <1>1 DEF TypeOK, Interrupt, Reboot
<1>4. PathsKnown' /\ StandsStill' /\ Copied' /\ ~At("env")'
  BY <1>2 DEF NoCommand, PathsKnown, Preparing, MigrateSteps, StandsStill, Stopped, Copied, At
<1>5. Consistent'
  <2>1. ~half => override' = override
    BY DEF IInv, PathsKnown, Interrupt, Reboot, Cut, At
  <2> QED
    BY <1>2, <2>1 DEF IInv, Consistent, Interrupt, Reboot
<1>6. CASE files' = files
  BY <1>1, <1>2, <1>3, <1>4, <1>5, <1>6, InvHost DEF IInv
<1>7. CASE files' # files
  <2>1. At("prepare") /\ LacksMapping
        /\ files' = [files EXCEPT ![cli.dest]["xml_mapping.json"] = Torn]
    BY <1>7 DEF Interrupt, Reboot, Cut
  <2>2. cli.dest \in Dirs /\ Torn \in Content /\ Torn # Absent
    BY <1>1, <2>1, AtSteps, DataDirAssumption DEF Steps, Commanded, Content
  <2>3. /\ Known' /\ CarriesData'
        /\ \A d \in Dirs : files[d]["xml_mapping.json"] # Absent =>
             files'[d]["xml_mapping.json"] = files[d]["xml_mapping.json"]
        /\ \A d \in Dirs, g \in Files \ {"xml_mapping.json"} : files'[d][g] = files[d][g]
    BY <1>2, <1>3, <2>1, <2>2, MappingPut
  <2>4. env.mapping \in Dirs /\ service.paths.dir \in Dirs /\ service.paths.mapping \in Dirs
    BY <1>1 DEF TypeOK, Paths
  <2>5. service.up => files'[service.paths.dir]["persisted_state.json"] # Absent
    BY <2>3, <2>4 DEF IInv, Present, Files
  <2>6. /\ files'[env.mapping]["xml_mapping.json"] # Absent
        /\ files'[service.paths.mapping]["xml_mapping.json"] # Absent
    BY <2>3, <2>4 DEF IInv, Present, Held, DirOf, FileOf
  <2>7. Present'
    BY <1>2, <1>3, <1>4, <2>5, <2>6 DEF Present, Held, DirOf, FileOf
  <2> QED
    BY <1>1, <1>4, <1>5, <2>3, <2>7 DEF IInv
<1> QED
  BY <1>6, <1>7

LEMMA InvStep == IInv /\ [Next]_vars => IInv'
<1> SUFFICES ASSUME IInv, [Next]_vars PROVE IInv'
  OBVIOUS
<1>1. CASE Next
  <2>1. CASE Command
    BY <2>1, InvCheck, InvStop, InvCopy, InvPrepare, InvWriteEnv, InvSystem, InvFails DEF Command
  <2> QED
    BY <1>1, <2>1, InvWrite, InvStarts, InvBegin, InvCut DEF Next
<1>2. CASE UNCHANGED vars
  <2>1. TypeOK'
    BY <1>2, TypeStep DEF IInv
  <2>2. Known' /\ CarriesData' /\ Present'
    BY <1>2, InvHost DEF IInv, Present, Held, DirOf, FileOf, At, vars, hostVars, ghostVars
  <2> QED
    BY <1>2, <2>1, <2>2 
    DEF IInv, PathsKnown, StandsStill, Copied, Consistent, At, Moved, Configured, vars, hostVars, ghostVars
<1> QED
  BY <1>1, <1>2

THEOREM Invariance == Spec => []IInv
  BY InvInit, InvStep, PTL DEF Spec

\* Wherever a migration fails, is interrupted or loses power, the panel never
\* runs on other data than it wrote last: the destination gets what the panel
\* left while it stands still, and the paths lead there only afterwards.
THEOREM CarriesDataCorrect == Spec => []CarriesData
  BY Invariance, PTL DEF IInv

\* Between commands environment file, override and systemd name one directory,
\* unless a command stopped half way through writing them.
THEOREM AgreeCorrect == Spec => []Agree
<1>1. IInv => Agree
  BY DEF IInv, Consistent, Agree
<1> QED
  BY <1>1, Invariance, PTL

\* No command replaces a database or settings that are there.
THEOREM NeverOverwritesCorrect == Spec => NeverOverwrites
<1> DEFINE Overwrites == \E d \in Dirs, f \in Files \ {"xml_mapping.json"} :
             /\ files[d][f] # Absent /\ ~(service.up /\ service.paths.dir = d)
             /\ files'[d][f] # files[d][f]
<1>1. IInv /\ [Next]_vars => ~Overwrites
  <2> SUFFICES ASSUME IInv, [Next]_vars, NEW d \in Dirs, NEW f \in Files \ {"xml_mapping.json"},
                      files[d][f] # Absent, ~(service.up /\ service.paths.dir = d)
               PROVE  files'[d][f] = files[d][f]
    OBVIOUS
  <2>1. TypeOK
    BY DEF IInv
  <2>2. ASSUME NEW k \in Data, Write(k) PROVE files'[d][f] = files[d][f]
    BY <2>1, <2>2 DEF Write, TypeOK, Paths
  <2>3. CASE ServiceStarts
    BY <2>1, <2>3 DEF ServiceStarts, TypeOK, Paths, Files, Fresh
  <2>4. ASSUME NEW g \in {"measurements.db", "persisted_state.json"}, NEW n, Copy(g, n)
        PROVE  files'[d][f] = files[d][f]
    <3>1. files[cli.dest][g] = Absent
      BY <2>4 DEF IInv, Copied, Copy, At
    <3> QED
      BY <2>1, <2>4, <3>1 DEF Copy, TypeOK
  <2>5. CASE Prepare \/ Interrupt \/ Reboot
    BY <2>1, <2>5 DEF Prepare, Interrupt, Reboot, Cut, TypeOK
  <2>6. CASE files' = files
    BY <2>6
  <2> QED
    BY <2>2, <2>3, <2>4, <2>5, <2>6
    DEF Next, Command, Begin, Check, Stop, WriteEnv, WriteSystem, DaemonReload, Restart, Fails,
        StartAfterFailure, vars
<1>2. ~Overwrites => \A d \in Dirs, f \in Files \ {"xml_mapping.json"} :
        files[d][f] # Absent /\ ~(service.up /\ service.paths.dir = d) => files'[d][f] = files[d][f]
  OBVIOUS
<1> QED
  BY <1>1, <1>2, Invariance, PTL DEF Spec, NeverOverwrites
=============================================================================
