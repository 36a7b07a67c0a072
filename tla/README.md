# Amplifier Panel: a TLA+ model of its core

Amplifier Panel is a FastAPI service that shows and controls satellite-ground
amplifiers.  It exchanges two XML files with a device daemon, keeps measurements
in SQLite, latches alarms, writes an audit trail to Syslog, keeps users and settings
in a JSON file and changes the host's network through a privileged agent.  This
directory holds TLA+ modules of the parts whose correctness depends on order, failure
and concurrency, the TLC configurations that check them, and proofs that TLAPS checks.

    tlc -workers 2 -config <file>.cfg <MC module>     model-check one question
    tlapm <Module>Proofs.tla                          check the proofs of a module

`PROJECT.json` lists the runs, the mutants (one plausible bug per property, which
the property must catch), the lines of source every definition models, the hazards
and the theorems.

## 1. The system

One process with an event loop and several threads, a privileged agent for the
network, and a command-line tool that runs beside it.  `state.py` holds the shared
memory behind one plain lock, `state_lock`, which a holder cannot take again, and a
second one, `persist_lock`, for the settings file.  Everything that survives a restart
is in files or SQLite.

| Part | State | Operations | Talks to |
|---|---|---|---|
| Poll of status.xml (`xml_status.py`, `runtime.py`, `state.py`) | the file and its modification time; `device_live`, the inventory | the `xml_reader_loop` thread polls: open, stat, parse, inventory, and per device alarms, publish, live values | mapping store, alarms, history, control reconcile |
| Alarms (`alarms.py`) | `active_alarms` (memory only); limits in the mapping | `evaluate` by the poller, `acknowledge` and limit changes by API threads | Syslog, SNMP traps |
| Device control (`xml_control.py`, `control_requests.py`, `database.py`) | `control.xml` (one request), `control_requests` (100 rows a device) | `PUT /control` by API threads; `reconcile` after each poll | the device through two files, Syslog |
| History (`database.py`, `device_statistics.py`) | `device_snapshots`, `device_hourly_statistics`, the limit, `discarded_records` | insert, complete an hour, prune, apply a new limit, statistics, CSV | poller, diagnostics API |
| Users and logins (`auth.py`, `security.py`, `state.py`) | `access_users`, sessions, failed attempts | login, logout, create, update and delete users | the settings file, RADIUS |
| Settings (`diagnostics.py`, `devices.py`, `state.py`) | SNMP and service settings, layouts, one JSON file, rewritten whole | change in memory, save, then restart the agent, wake the heartbeat, prune | SNMP agent, heartbeat, history |
| Mapping store (`xml_mapping_store.py`) | `xml_mapping.json` and its revision | replace, replace if unchanged, update | poll, alarms, control |
| Network (`network.py`, `tools/network_agent.py`, `dashboard-network.js`) | NetworkManager's checkpoints, the agent's tokens, what the browser waits for | apply, confirm with retries, expiry, restart of the agent | NetworkManager over D-Bus |
| SNMP agent (`snmp.py`) | its thread, the published snapshot | start, stop, refresh, trap | live values, settings |
| Heartbeat, lifespan (`main.py`) | threads | start, stop | all |
| NTP, RADIUS, Syslog, configuration | caches, sockets | queries | external servers |
| Command-line tool (`tools/amp_panel_cli.py`) | the data directory, environment file, systemd override | configure, use or migrate a data directory, merge packaged metadata | systemd, the files of the running panel |
| Dashboard (`static/js`) | what the browser shows | polls and forms | API |

The hard behaviour, part by part, and what makes the part correct:

* **Poll.**  The daemon replaces the file at any moment, also between two system
  calls of one poll, and the API the mapping it is read with; a section can be invalid, vanish or come back; a history write
  can fail after the parse and before the live update; an uncaught exception ends
  the thread for good.  Correct: values and times were published, every change
  that is shown was stored, a usable file reaches the screen and an unusable one
  disconnects.
* **Alarms.**  `evaluate` decides under the lock and sends after it; operators
  acknowledge and change limits in between; a device can leave the inventory with
  open alarms.  Correct: the list behaves as a latch and Syslog tells the same story.
* **Control.**  Build, write, audit and record are four steps of one handler and
  others' steps fall between them; `reconcile` reads two files one after the other;
  the process can die between commit and audit.  Correct: history never claims what
  did not happen, the audit trail has every transition once, final answers stay.
* **History.**  Rows go by number, summaries by hour, and limits change while a write
  holds the old one.  Correct: statistics count each row of a range once.
* **Users.**  Two administrators change each other; a handler changes memory before it
  validates and saves; other handlers save the same file without `state_lock`, so that
  `json.dumps` walks the list while it changes; the password check of a login runs
  outside the lock.  Correct: an active administrator is always left in memory, one who
  can log in after a restart in the file, and an account has one session.
* **Settings.**  The object of the SNMP settings is replaced and taken when a save is
  called, the others are read when it writes; an agent thread may be late or dead when
  it is stopped.  Correct: file, agent and heartbeat follow memory.
* **Mapping.**  Two editors, operators and a tool without the lock write one document.
  Correct: no accepted change is lost, and the document stays one the poll can read.
* **Network.**  Any command can fail or time out after it worked, answers get lost
  while the address changes, the agent forgets its tokens when it restarts.  Correct:
  unconfirmed settings always have something that restores them.
* **Data directory.**  Three parts of the configuration are written one after the
  other, and every step may fail, be interrupted or lose its power.  Correct: the panel
  runs on its own data, nothing is overwritten, and it comes up again.

## 2. Modules

| Module | Models | Actions ↔ code |
|---|---|---|
| `AlarmLatch` | the promise of the alarm list, one key at a time: absent, raised, acknowledged, normal | abstract |
| `Alarms` | the poller's evaluation with everything that may come between its steps | `LoadMapping`, `ReadStatus`/`ReadFails`, `SetDeviceInventory`, `Evaluate` (the part under `state_lock`), `PublishOpened`, `PublishCleared`, `EvaluateReturns` are `poll_once` and `evaluate`; `Acknowledge`, `UpdateAlarmSettings`, `UpdateXmlMapping` the API; `WriteStatus` the daemon; `Restart` |
| `DevicePoll` | one `status.xml` on its way to history and live values | `Open`, `Parse`/`ParseFails`, `SetDeviceInventory`, `SkipUnchanged`/`StoreChanged`/`StoreFails`/`PublishRaises`, `UpdateDeviceLive`, `ReportIssues`, `PollReturns`; `ReplaceFile`, `RemoveFile`, `EditMapping` what changes under it |
| `ControlExchange` | a control request from the API to its last audit entry | `BuildControl`, `WriteControl`/`WriteFails`, `AuditRequest`, `RecordControlRequest`/`RecordFails` are `PUT /control`; `DeviceReads`, `DeviceAnswers`, `AckVanishes` the device; `StatusChanges` whether polls get as far as `reconcile`; `ReadAcknowledgement`, `GetControlStatus`, `UpdateRow`/`UpdateFails`, `AuditTransition` are `reconcile`; `Crash` |
| `HistoryStore` | snapshots, hourly summaries, retention and statistics | `BeginWrite`, `CommitWrite`/`WriteFails`, `SetLimit`, `ApplyLimit`/`ApplyFails`, `Restart`; the operators `FullHours`, `Summarised`, `RawRows`, `Tally` are the query |
| `CommitConfirmed` | the promise of a guarded change, one interface at a time: settled, on trial, offered, doomed | abstract |
| `NetworkChange` | a guarded network change between dashboard, agent and NetworkManager | `AskApply`, `AskConfirm`, `GiveUp`, `LoseAnswer` the browser; `Receive`, `Check`, `Create`, `Modify`, `Register`, `Lookup`, `Destroy` and their failures the agent; `Expire` NetworkManager; `AgentRestart` |
| `AccessControl` | users, logins, sessions and the file of the users | `LoginBegins` … `Verify`, `Reject`, `Admit` are `login`, cut where it leaves the lock; `Authorise`, `Decline`, `Logout` the session checks; `CreateUser`, `UpdateUser`, `UpdateRejected`, `DeleteUser` with `Save`/`SaveFails` the handlers; `DumpBegins`, `DumpReads`, `DumpWrites`, `DumpFails` a save by a handler without `state_lock`, user by user and, where a user changes while he is read (`Mixed`, `Met`), key by key; `Restart` |
| `PanelSettings` | SNMP, service and layout settings, their file, the agent thread and the heartbeat | `PostSnmp`, `PutService`, `PutLayout`, `Call`, `SaveSettings`/`SaveSettingsFails`, `Undo` the handlers; `Close`, `Join`, `Forget`, `CheckEnabled`, `Look`, `Clear`, `Launch` are `close_snmp` and `init_snmp`, step by step because no lock holds them together; `AgentOpens`, `AgentStops`, `AgentRaises` the thread; `Heartbeat`; `PanelRestart` |
| `MappingStore` | `xml_mapping.json` and its writers | `Load`, `AskField`, `AskLimit` what a client starts from; `Enter`, `Refuse`, `Commit`/`CommitFails` a request under `_write_lock`; `ToolReads`, `ToolWrites` the merge of packaged metadata (`MergedSection`); `Poll` |
| `DataDirMigration` | `data-dir migrate`, `data-dir use` and `configure --data-dir` | `Begin`, `Check`, `Stop`, `Copy`, `Prepare`, `WriteEnv`, `WriteSystem`, `DaemonReload`, `Restart`, `Fails`, `StartAfterFailure` the command; `Write`, `ServiceStarts` the panel under systemd; `Interrupt`, `Reboot` |

An `MC...` module of each adds what TLC needs (values of constants, symmetry), and the
modules `AlarmsProofs`, `ControlProofs`, `DataDirProofs`, `DevicePollProofs`,
`HistoryProofs`, `MappingProofs`, `NetworkProofs` and `PersistedStateProofs` hold the
theorems; the last one is about both modules of the settings file, `AccessControl` and
`PanelSettings`, which is why the second has names of its own (`SettingsSpec`,
`SettingsTypeOK`).

**Refinements.**  `Alarms` implements `AlarmLatch` with `latched` of a key read off the
alarm list.  `NetworkChange` implements `CommitConfirmed` with everything read off what is
real: an interface is settled unless NetworkManager has a checkpoint for it, its
permanent settings are the ones the checkpoint saved, and it is on trial while the agent
works under that checkpoint, offered while its token is known or being confirmed, doomed
otherwise.  So a change that is kept was offered first, was not changed after that, and
was not doomed in between by a failure, an expired token or a restart of the agent.

**Granularity.**  Code under a lock is one step if nothing else can see its middle:
an SQLite transaction, `evaluate`'s body, `set_device_inventory`.  What happens before
the lock is taken or after it is released is a step of its own.  Where a lock is held
across a save that others' saves can see (`AccessControl`, `PanelSettings`), change and
save are two steps with the lock between them.  The agent's server has one thread, but
what it asks of NetworkManager are several steps, because time passes and NetworkManager
acts between them.

**What data became.**  A measurement is a model value, or a small number in `Alarms`
where limits compare it.  A summary is the set of rows it accumulated (count, sum,
minimum and maximum are functions of it), so "exact" can be said without arithmetic.
A request's state and message are one value.  A token is its checkpoint's number.  A
user is role, activity and a password: none, a set one, or a hash with the salt of
another.  A mapping is a set of sections with owner, key, XML section, indexes (its own
and its entry's), fields, and whether packaged metadata is missing; in `DevicePoll` it is
what it makes of a text (`Decode`).  A file of the data directory is the
number of the write that made it.  Addresses, names, XML and JSON text are gone; a
rejected document is one value.

**How the parts meet.**  The poll is in three modules, cut where the parts share
nothing but the file.  `Alarms` and `DevicePoll` both have the inventory and the
reader thread; `Alarms` keeps what limits see, `DevicePoll` what history and
live values see.  `ControlExchange` runs once in each poll and needs only the
acknowledgement.  `HistoryStore` takes over where `DevicePoll` calls
`write_device_snapshot`; `DevicePoll` keeps of it the newest row and that a
write may fail.  The settings file is in two modules, cut by its content:
`AccessControl` has the users, whose walk can be torn, `PanelSettings` the settings,
whose object can be stale.  `MappingStore` produces what `Alarms` reads in
`LoadMapping`: one valid document after another.  `DataDirMigration` sees all files of
the panel from outside, each as the last write to it.

**History variables.**  Some modules remember what the code does not, to say what a
property is about: `acked` and `lost` (control), `removed` (history), `expected`
(mapping and data directory), `published`, `inForce` and `last` (poll); and `raced`,
`excused`, `ahead`, `torn`, `unsaved`, `deaf`, `apart`, `overlap`, `collided`, `left`,
`half`, `chosen`.  The latter mark the cases in which the code does
not keep a promise; each is named with its property in the module and listed in
section 5.  No action's guard
reads the latter; `chosen` and `last` decide what the other history variables become, `acked` is
also what the modelled device remembers of its answers, and `published` the times the
daemon has used.

## 3. What the runs check

| Run | Question | Bounds, and why they are enough |
|---|---|---|
| `alarms` | Latch refinement, events agree with the list, no settled alarm stays, the value explains the message; a lasting violation is announced | one device, one field, both limits of {1, 2}, readings below, between and above, every block the validator accepts, one mapping change at any moment, one restart.  Keys of different fields never meet in `evaluate`; the proofs cover any number |
| `control_safety` | What history and audit say is what happened | two threads, two requests, one row kept, lost acknowledgements, one SQLite failure, one crash: two writers, an overwritten request, a late answer and a pruned row all occur |
| `control_live` | Order of rows, final answers stay, the current request is answered or times out while status.xml can be read | one thread, two rows kept, failure and crash, a device that keeps its acknowledgement, polls that fail at any time.  About 0.7 million states |
| `history` | Statistics of every range, retention, the counter | two devices, two hours of two instants, four rows, limits 0–2 changed at any moment, a failure, restarts.  Every range is asked in every state |
| `poll` | Genuine, stored and up-to-date values | one device with good, faulty and oversize contents, three texts read with two mappings (under the second one a field is missing, one is too long, one section clashes), two mapping edits, a file renamed between `open` and `stat`, a stale limit of one tick in three, a failed write, a restart: an edit and its reversal at one file time, and a race in the same poll, all occur.  Devices of one poll share nothing but the thread.  About 0.8 million states |
| `poll_doc_recovers` | The docstring of `xml_reader_loop`: failed reads recover | two devices, one oversize section, no failures |
| `network` | Guard of unconfirmed changes, one change at a time, truthful success, refinement of `CommitConfirmed`, rollback | two dashboards on one interface, two checkpoints of two ticks in four, a request in service and one waiting, one restart.  NetworkManager keeps interfaces apart |
| `access` | An administrator remains in memory, one who can log in remains on disk, the file follows memory, one session per account, bounded attempts | two threads and a save without the lock, two administrators of whom one has no password, both modes, three requests, a failed write or a restart: two threads can delete each other's user around a torn walk, a walk can be in a user whose password changes, a restart can change the mode, and two logins can verify at once.  About 1.2 million states |
| `settings` | File, agent and heartbeat follow the settings in memory | two threads and the event loop, three requests, four agent threads, a failed save, one late or dead agent, a restart: requests meet in every pair.  About half a million states |
| `mapping` | No lost edit, valid at every poll, an added field fits, others and indexes stay | two threads, two profiles in five documents (without index, under another's XML section with half of its limits edited, in an entry with the other's key, two in one entry without or with exchanged indexes), a packaged index in a section and one in an entry, two changes, one run of the tool, one failed write.  About 2 million states |
| `datadir` | The panel keeps its data, no overwriting, an agreeing configuration, the panel comes back | two directories with every choice of database name and mapping directory, two commands, a failing step and an interruption or power loss anywhere: a second command meets everything the first left behind |
| `datadir_doc_moves` | The docstring of `data_dir_command`: persistent data is moved | as `datadir`, nothing fails |

Bounds called `Max...` limit what would grow for ever: the clock, restarts,
failures, requests, edits, stored rows.  Where a deadline matters an action is only
offered while the bounded clock can still reach it (`BuildControl`, `MayCheckpoint`), so
that nothing looks unanswered because time ended.  Deadlock is checked everywhere but in
`poll` and `datadir` with their companions and in `settings`: the reader thread may
really end; a host on which no command runs and whose panel has written its last value
stands still, as does a panel whose agent and heartbeat are settled and that gets no
more requests.

**Types.**  Modules with proofs have their type correctness as a theorem and no run
repeats it, but for the one of `PanelSettings`, which its run checks as well: its layout
handler must know what to go back to.

**Fairness.**  Only what the code's own loops give: the reader thread polls again
while the process lives (`xml_reader_loop`, `WF` on the poller's steps), and reconciles
only in polls that could read status.xml (`ReadAcknowledgement` needs `usable`); an API
handler that was started goes on; the clock ticks; the agent's commands all have a
timeout and NetworkManager's timer runs (`FairSpec` of `NetworkChange`); a command of
the tool runs on by itself and systemd starts what is wanted (`FairSpec` of
`DataDirMigration`; the unit has `Restart=`).  The device, the daemon, operators,
dashboards, failures and crashes are under no obligation.

**Mutants.**  Each property has an operator named in a `Mutant:` comment next to the
definition it would replace: a dropped guard, a swapped order, a missing reset.
No specification uses them.

## 4. What is proved

For every value of the constants, under the assumptions named in the modules:

* **Alarms** (`AlarmsProofs`).  Types, `NoSettledAlarm`, `Explained`, `EventsAgree`, and
  that `Alarms` implements `AlarmLatch`; also `AlarmsOfInventory`, `LeavesWhenSettled` and
  `AcknowledgedStays`, which the refinement makes redundant as runs.  `EventsAgree` is
  not inductive alone: it needs `PollerDiscipline` (nothing is left to publish outside
  "publish"), which says where the program counter stands while events are collected and
  not yet sent.
* **Control** (`ControlProofs`).  Types, `HistoryHonest`, `AuditedOnce`: the invariant
  adds `HandlersFresh` (a request in a handler has no row, no other handler, and was
  audited before it is recorded) and `VerdictHonest` (what the poller is about to store
  was answered, or is past its deadline).  `HistoryOrdered`: among more rows than the limit
  the oldest has at least as many newer ones, so pruning leaves no more than the limit.
  `FinalStays`, if the acknowledgement does not vanish: `Finality` says that the device
  which answered the request in `control.xml` reads it still and that a final answer is
  the only one, `PollerCurrent` that the poller has it before it looks at the row.
* **History** (`HistoryProofs`).  Types, `DiscardedCovers`, `OldestGoFirst` without
  further assumption; `SummariesExact` and `ExactStatistics` if file times never go
  back (`Monotone`).  The invariant adds that row numbers identify rows, that every
  device with rows has a newest one, and, under `Monotone`, that numbers and times
  have the same order.  That assumption is real: see section 5.
* **Poll** (`DevicePollProofs`).  Types, `Genuine`, `LiveInHistory` and `OnlyOnChange`, with
  the file replaced and the mapping edited at any moment, also between `open` and `stat`.
  The invariant adds that the daemon's files have increasing times (`FilesOrdered`), that
  what a poll reads is one file under one mapping and that its time is not that file's
  only if the poll raced, and then later (`ReadDocument`), and that whatever carries the
  time of the poll in progress already shows the same values unless the section was read
  otherwise under that time (`LiveFollowsPoll`): that is when a change goes unstored.
* **Network** (`NetworkProofs`).  Types, `Guarded`, `OneChange`, `TruthfulSuccess`,
  and that `NetworkChange` implements `CommitConfirmed`.  The first invariant numbers checkpoints, keeps at most one on an interface, has the
  checkpoint of a change exist while it is made, and no token alive while the agent
  works: that is why looking for a pending change and registering one need no common
  lock.  The second, `Dialogue`, ties each request to the one dashboard that waits
  for it, so that an answer never reaches a later request of the same dashboard.  The
  refinement needs no more than the first: `Shows` says what the mapping gives for an
  interface with its one checkpoint and for one without, and then a step dooms changes
  (`Dropped`), adds a checkpoint (`Opened`), takes one away (`Settled`) or works under
  one (`Tried`).
* **Users** (`PersistedStateProofs`).  Types, `AdminRemains`, `AdminOnDisk`, `FileCurrent`,
  `OneSession`, `RateBounded`.  `DumpHonest` says what a save without the lock will
  write: a walk that is not torn meets at most one change, because the thread that made
  it waits for `persist_lock` before it can release `state_lock`; so the file differs
  from memory in no more than one user, who may be a mixture of before and after.
  `AdminInFile` follows, and `AdminOnDisk` from it and `FileCurrent`, case by case of what
  `Merge` makes of the file.  `RateBounded` counts
  recorded failures together with the logins that may still add one.
* **Settings** (`PersistedStateProofs`).  Types, `FileFollows`, `AgentFollows`,
  `HeartbeatCurrent`.  `RequestsFit` says at which steps a request of each kind can be, and
  that the event loop has the service settings and the threads the others.  `SectionsFollow` replaces
  "when all is quiet" by what holds at every step: a section of the file differs from
  memory only while a request for it is before its save or is taken back, or after a
  failure.  `AgentInv` does the same for the agent: while requests do not meet, one thread
  lives, one request restarts it, and the step of that request says what is left of the
  old thread and what the new one serves; with nobody restarting, the live thread serves
  the settings in memory.
* **Data directory** (`DataDirProofs`).  Types, `CarriesData`, `Agree`,
  `NeverOverwrites`.  The invariant says for every step of a command what is known of its
  paths, that the panel stands still from `Stop` to the restart, that the files copied so
  far equal their sources, and that the paths of the environment file lead to the
  expected data unless others were chosen.
* **Mapping** (`MappingProofs`).  Types, `NoLostEdit`, `Readable`, `AddFits`,
  `KeepsOthers`, `StableIndex`.  `MergedValid` is the core of `Readable`: what the tool adds
  to two sections cannot clash unless one of them has it already (`Taken`), because two
  packaged indexes differ and the index of an entry goes to a section that is alone in
  it.  The holder of the lock has read the current file, unless
  the tool came between; keys differ in every document, so there are fewer sections than
  indexes and `FreeIndexIsFree` follows by the pigeonhole principle.

Each invariant was checked by TLC before it was proved.  Only model-checked are: liveness
(`ViolationsReported`, `CurrentAnswered`, `FollowsFile`, `RolledBack`, `ComesBack`), which
the prover cannot treat under fairness.  No module uses recursion.

**Assumptions about the outside.**  Two files of the daemon have different
modification times.  The device handles an identifier once (README.md:384), so that
a final answer is not followed by another (`DeviceAnswers`).  NetworkManager refuses a second checkpoint on an
interface, and its timer is not over while `nmcli` runs: the three commands between
checkpoint and change take at most 3 × 15 of the 60 seconds.  SQLite transactions are
atomic and durable.  Renaming a file replaces it in one step.  systemd restarts a service
that fails and reads its overrides when the host starts.

## 5. Known divergences

Found while modelling.  Two have a run that shows them (`findings` in PROJECT.json):

* `xml_status.py:360`: a section whose JSON exceeds 1 MB ends the reader thread;
  `xml_reader_loop`'s docstring says failed reads recover (`poll_doc_recovers`).
* `amp_panel_cli.py:1190`: a migration copies the database and the settings and leaves the
  mapping with the operators' alarm limits behind; the docstring says persistent data is
  moved (`datadir_doc_moves`).  A database with another name is left behind as well.

The others are visible in the models, or excluded by a named constant or history variable:

* `alarms.py:64` leaves `target` of a known alarm as it was when the limit changes; the
  dashboard then explains a value by a limit it does not violate.
* `alarms.py:21` treats a missing value and a disabled block as a return to range and
  announces CLEARED (README.md:350-351 speaks of the valid range).
* `state.py:227` drops the alarms of a vanished section without an event or an
  acknowledgement (README.md:355-356); `forgotten` in `Alarms` marks them.
* `xml_control.py:120`: a request replaced in `control.xml` before its answer stays
  pending in the history, although README.md:404-405 promises a timeout.
* `devices.py:262` ignores a failed insert: that request is written and audited but
  has no row, and no later state of it reaches Syslog (README.md:432).
* `xml_status.py:346-349` returns before `reconcile()` (353) when status.xml is missing,
  stale or malformed or the mapping cannot be loaded: while a daemon is dead a recorded
  request stays pending in the history, and Syslog has no timeout for it, although
  README.md:404-405 promises one.  `GET /control/status` computes it for the answer only.
  `CurrentAnswered` therefore speaks of requests during which status.xml stays readable.
* `xml_status.py:339-340` opens the file and then takes its time by path.  A file
  renamed in between gives its time to the old values (`raced`); what the next poll then
  reads under that time is shown, and not stored by `runtime.py:50-54` (`Reread`).
* `xml_status.py:337` loads the mapping at every poll (README.md:342-343), while
  `runtime.py:50` stores nothing under a time it has seen: after an edit of the mapping the
  dashboard shows new values of the same file that the history never gets, and after its
  reversal a later file may add a row equal to the newest one (README.md:444-445).
  `LiveInHistory` and `OnlyOnChange` except such sections (`Reread`, `excused`) until their
  next stored change.
* After a restart, or when a section comes back, the first reading is stored even if it
  equals the last row (README.md:444-445); `OnlyOnChange` says so by its exception.
* `database.py:97-115`: after the file time went back once, a summary counts rows that
  are gone, so "exact" statistics are not (`Monotone = FALSE`).
* `database.py:136` reads the limit before the lock: a row may be pruned after the
  administrator has set 0 for unlimited (README.md:454).
* `database.py:116` counts removed records inside a transaction that may be rolled
  back; the counter may exceed what was removed (hence `DiscardedCovers` and no equality).
* `network_agent.py:391`: when only the answer to a confirmation is lost the dashboard
  announces a rollback that never comes.
* `expires_in_seconds` counts from the registration of the token, NetworkManager's time
  from the checkpoint: the last seconds the dashboard shows may already be over.
* `auth.py:218` changes a user before the password is validated and the file saved: a
  rejected or failed update stays in memory (`ahead`), and a later save stores it.
* `state.py:179` serialises the live user list without `state_lock`: a save of a layout may
  store a list that never was, even one without an administrator if two changes meet it
  (`torn`), or, within one change, an old password hash with a new salt (`auth.py:231`),
  which passes for a password and verifies nothing.  The save of the change itself puts
  that right; a crash before it, or its failure, does not (`AdminOnDisk`).
* `security.py:29-33` counts administrators who have no password.  Those of RADIUS mode
  have none; once the only administrator with a password is demoted or deleted, a restart
  in local mode lets nobody in, and `merge_access_users` bootstraps no one while any user,
  of any role, has a password (`state.py:104-116`).  The exception of `AdminOnDisk`; the
  docstrings of `update_access_user` and `delete_access_user` speak of preserving an
  administrator and required access.
* `diagnostics.py:466` re-binds the SNMP settings: a layout save called before it writes
  the old ones over the new.  A failed save of settings leaves the new ones in memory
  (`unsaved`), and the heartbeat keeps its old interval (`deaf`).  A layout is put back
  after an `OSError` only (`devices.py:325`, `362`); a `RuntimeError`, of a dictionary that
  grew while it was serialised, leaves it in memory as well.
* `snmp.py:332-357`: two SNMP requests at once, or a thread that does not end within two
  seconds, leave an agent with the old community or none (`apart`).  The next such request that meets no
  other puts it right, whatever went wrong before it, unless a second thread is still
  alive: the proof of `AgentFollows` showed that `apart` need not last longer.  A device removed
  while `snmp.py:117` looks it up ends the agent, and nothing starts it again.
  A stopped agent leaves its UDP transport to the garbage collector (`snmp.py:327`).
* `amp_panel_cli.py:664` merges metadata without the writers' lock (`overlap`), and may give
  a section an index that another has, or an entry with two sections one for both, after
  which every poll fails and the API refuses to load or change the mapping (`collided`).
  It would do the same with a limit of writes that contradicts an edited one; the
  packaged mapping has none today.  A profile that was added through the API has its
  index at the entry; the packaged index of the section then overrules it, although the
  docstring (665) says that customizations are not replaced (`Overruled`).
* `amp_panel_cli.py:738` copies the packaged mapping under its final name; a copy that was
  cut off is kept (`Torn`).  A command that is cut between the environment file and the
  reload of systemd leaves a service that cannot write its directory (`half`).

## 6. Not modelled, and why

* **Password hashing, RADIUS packets, configuration**, the formatting of Syslog and SNMP packets,
  HTML and charts are pure functions or pure I/O: no order of steps can break them.
  Validation of control values and of network addresses is a refusal.
* **NTP status cache**: every query replaces one value under a lock after it was
  answered; it is for display, and no other state depends on it.
* **History API and CSV export**: long-range sampling and CSV are queries without state.
  Whether the export lock is released when a response is never started depends on
  Starlette, which the repository does not contain.
* **Order of the shutdown**: `main.py:83` waits two seconds for the reader thread and then
  closes the database it may still use.  The process ends; what that leaves in files and
  SQLite is what the crash and restart actions leave.
* **Installation part of the tool**: checks, service commands and output call systemd or
  print.
* **Dashboard**: beyond the confirmation of network changes it renders what the API
  returns.

## 7. What would come next

1. A module composing `Alarms`, `DevicePoll` and `ControlExchange` over one reader thread,
   for the snapshots `list_devices` takes one after another (`devices.py:138`).
2. An abstract history, a log with retention, that `HistoryStore` refines.
3. Sampling of long ranges as pure operators against a reference definition.
