----------------------------- MODULE PanelSettings -----------------------------
(***************************************************************************)
(* The settings of the panel in memory and in persisted_state.json, and    *)
(* what follows from them: the SNMP agent thread, which a request stops    *)
(* and starts again, and the heartbeat, which a request wakes.             *)
(*                                                                         *)
(* SNMP settings are replaced by a new object and service settings changed *)
(* in place, both under state_lock until they are saved.  A layout is      *)
(* changed under state_lock and saved without it.  save_persisted_state    *)
(* takes the SNMP object when it is called and reads the others when it    *)
(* writes.  The service request runs on the event loop, as the heartbeat   *)
(* does; the others run in threads.                                        *)
(***************************************************************************)
EXTENDS Integers, FiniteSets

CONSTANTS
  Communities,    \* settings of an enabled agent
  Off,            \* settings with enabled = False
  Periods,        \* service settings with a heartbeat
  Never,          \* service settings without one
  Layouts,        \* live fields or chart layout of a device
  Workers,        \* API worker threads
  Loop,           \* the event loop
  Nothing,        \* neither an actor nor a setting
  MaxAgents,      \* bound on agent threads
  MaxChanges,     \* bound on requests
  MaxUnsaved,     \* bound on failing saves
  MaxFaults,      \* bound on agents that end by themselves or end too late
  MaxRestarts     \* bound on restarts of the process

Actors == Workers \cup {Loop}
Intervals == Periods \cup {Never}
Snmp == Communities \cup {Off}
Settings == [snmp : Snmp, service : Intervals, layout : Layouts]
Ids == 1..MaxAgents

ASSUME SettingsAssumption ==
  /\ Off \notin Communities /\ Nothing \notin Actors /\ Loop \notin Workers
  /\ Never \notin Periods /\ Layouts # {} /\ Nothing \notin Layouts
  /\ MaxAgents \in Nat \ {0} /\ MaxChanges \in Nat
  /\ MaxUnsaved \in Nat /\ MaxFaults \in Nat /\ MaxRestarts \in Nat

VARIABLES
  memory,     \* the settings in memory
  stored,     \* the settings in persisted_state.json
  held,       \* who holds state_lock across a save, or Nothing
  caller,     \* what each thread and the event loop are doing
  agents,     \* agent threads of this process, by number
  tracked,    \* snmp_thread: the number of a thread, or 0
  stop,       \* stop_event of snmp.py
  beat,       \* the interval the heartbeat waits with
  woken,      \* heartbeat_settings_changed
  deaf,       \* history: a change of the service settings failed to be saved and woke nobody
  unsaved,    \* history: sections whose last change failed to be saved, or was undone
  apart,      \* history: agent and settings may differ: requests met, or a fault
  count

saveVars == <<memory, stored, held, unsaved>>
agentVars == <<agents, tracked, stop>>
beatVars == <<beat, woken, deaf>>
settingsVars == <<saveVars, caller, agentVars, beatVars, apart, count>>

NoRequest == [step |-> "idle", op |-> "none", snmp |-> Nothing, before |-> Nothing, agent |-> 0]
NoAgent == [step |-> "none", snmp |-> Nothing]
Alive(i) == i \in Ids /\ agents[i].step \in {"started", "running"}
Unused == {i \in Ids : agents[i].step = "none"}

\* lifespan: the settings are saved, the agent is started and the heartbeat waits.
Started(s) ==
  /\ memory' = s /\ stored' = s
  /\ held' = Nothing
  /\ caller' = [a \in Actors |-> NoRequest]
  /\ agents' = [i \in Ids |-> IF i = 1 /\ s.snmp # Off
                              THEN [NoAgent EXCEPT !.step = "started"] ELSE NoAgent]
  /\ tracked' = IF s.snmp # Off THEN 1 ELSE 0
  /\ stop' = FALSE
  /\ beat' = s.service /\ woken' = FALSE /\ deaf' = FALSE
  /\ unsaved' = {} /\ apart' = FALSE

SettingsInit ==
  /\ memory \in Settings
  /\ stored = memory
  /\ held = Nothing
  /\ caller = [a \in Actors |-> NoRequest]
  /\ agents = [i \in Ids |-> IF i = 1 /\ memory.snmp # Off
                             THEN [NoAgent EXCEPT !.step = "started"] ELSE NoAgent]
  /\ tracked = IF memory.snmp # Off THEN 1 ELSE 0
  /\ stop = FALSE
  /\ beat = memory.service /\ woken = FALSE /\ deaf = FALSE
  /\ unsaved = {} /\ apart = FALSE
  /\ count = [requests |-> 0, failures |-> 0, faults |-> 0, restarts |-> 0]

At(a, step) == caller[a].step = step
Goes(a, step) == caller' = [caller EXCEPT ![a].step = step]
Ends(a) == caller' = [caller EXCEPT ![a] = NoRequest]

Begins(a) ==
  /\ caller[a] = NoRequest
  /\ held = Nothing
  /\ count.requests < MaxChanges
  /\ count' = [count EXCEPT !.requests = @ + 1]

-----------------------------------------------------------------------------
\* update_snmp_settings, until it is saved.
Restarting(a) == caller[a].op = "snmp"
PostSnmp(a, s) ==
  /\ a \in Workers
  /\ Begins(a)
  /\ memory' = [memory EXCEPT !.snmp = s]
  /\ held' = a
  /\ caller' = [caller EXCEPT ![a] = [NoRequest EXCEPT !.step = "save", !.op = "snmp", !.snmp = s]]
  /\ apart' = \/ \E b \in Actors : Restarting(b)
              \/ \E i \in Ids : Alive(i) /\ i # tracked
  /\ UNCHANGED <<stored, agentVars, beatVars, unsaved>>

\* update_service_diagnostics_settings
PutService(s) ==
  /\ Begins(Loop)
  /\ memory' = [memory EXCEPT !.service = s]
  /\ held' = Loop
  /\ caller' = [caller EXCEPT ![Loop] =
       [NoRequest EXCEPT !.step = "save", !.op = "service", !.snmp = memory.snmp]]
  /\ UNCHANGED <<stored, agentVars, beatVars, unsaved, apart>>

\* update_live_fields, update_chart_layout: the lock is released again.
\* Mutant: the layout in force is not remembered.
PutLayoutForgets(a, l) ==
  /\ a \in Workers
  /\ Begins(a)
  /\ memory' = [memory EXCEPT !.layout = l]
  /\ caller' = [caller EXCEPT ![a] = [NoRequest EXCEPT !.step = "call", !.op = "layout"]]
  /\ UNCHANGED <<stored, held, agentVars, beatVars, unsaved, apart>>
PutLayout(a, l) ==
  /\ a \in Workers
  /\ Begins(a)
  /\ memory' = [memory EXCEPT !.layout = l]
  /\ caller' = [caller EXCEPT ![a] =
       [NoRequest EXCEPT !.step = "call", !.op = "layout", !.before = memory.layout]]
  /\ UNCHANGED <<stored, held, agentVars, beatVars, unsaved, apart>>

Call(a) ==
  /\ At(a, "call")
  /\ caller' = [caller EXCEPT ![a].step = "save", ![a].snmp = memory.snmp]
  /\ UNCHANGED <<saveVars, agentVars, beatVars, apart, count>>

\* save_persisted_state under persist_lock.
\* Mutant: nothing but the section of the request is written anew.
PayloadOfCaller(a) == [stored EXCEPT ![caller[a].op] = memory[caller[a].op]]
Payload(a) == [memory EXCEPT !.snmp = caller[a].snmp]

SaveSettings(a) ==
  /\ At(a, "save")
  /\ stored' = Payload(a)
  /\ unsaved' = IF caller[a].snmp = memory.snmp THEN {} ELSE {"snmp"}
  /\ held' = IF held = a THEN Nothing ELSE held
  /\ CASE caller[a].op = "snmp" -> Goes(a, "close") /\ UNCHANGED woken
       [] caller[a].op = "service" -> Ends(a) /\ woken' = TRUE
       [] caller[a].op = "layout" -> Ends(a) /\ UNCHANGED woken
  /\ UNCHANGED <<memory, agentVars, beat, deaf, apart, count>>

\* SNMP and service settings stay in memory; a layout is put back if the file
\* cannot be written, and stays if its dictionary grew while it was read
\* (RuntimeError).
SaveSettingsFails(a) ==
  /\ At(a, "save")
  /\ count.failures < MaxUnsaved
  /\ count' = [count EXCEPT !.failures = @ + 1]
  /\ held' = IF held = a THEN Nothing ELSE held
  /\ unsaved' = unsaved \cup {caller[a].op}
  /\ apart' = (apart \/ caller[a].op = "snmp")
  /\ deaf' = (deaf \/ caller[a].op = "service")
  /\ (caller[a].op = "layout" /\ Goes(a, "undo")) \/ Ends(a)
  /\ UNCHANGED <<memory, stored, agentVars, beat, woken>>

Undo(a) ==
  /\ At(a, "undo")
  /\ held = Nothing
  /\ memory' = [memory EXCEPT !.layout = caller[a].before]
  /\ unsaved' = unsaved \cup {"layout"}
  /\ Ends(a)
  /\ UNCHANGED <<stored, held, agentVars, beatVars, apart, count>>

-----------------------------------------------------------------------------
\* close_snmp
AfterClose(a) == IF caller[a].snmp = Off THEN Ends(a) ELSE Goes(a, "check")

\* Mutant: nobody waits for the agent.
CloseAtOnce(a) ==
  /\ At(a, "close")
  /\ stop' = TRUE
  /\ IF tracked = 0 THEN AfterClose(a) ELSE Goes(a, "forget")
  /\ UNCHANGED <<saveVars, agents, tracked, beatVars, apart, count>>
Close(a) ==
  /\ At(a, "close")
  /\ stop' = TRUE
  /\ IF tracked = 0
     THEN AfterClose(a)
     ELSE caller' = [caller EXCEPT ![a].step = "join", ![a].agent = tracked]
  /\ UNCHANGED <<saveVars, agents, tracked, beatVars, apart, count>>

\* The thread ends within two seconds, or the wait does.
Join(a) ==
  /\ At(a, "join")
  /\ \/ ~Alive(caller[a].agent) /\ UNCHANGED <<apart, count>>
     \/ /\ Alive(caller[a].agent)
        /\ count.faults < MaxFaults
        /\ count' = [count EXCEPT !.faults = @ + 1]
        /\ apart' = TRUE
  /\ Goes(a, "forget")
  /\ UNCHANGED <<saveVars, agentVars, beatVars>>

\* snmp_thread may be gone by now: the request ends with an AttributeError.
Forget(a) ==
  /\ At(a, "forget")
  /\ IF tracked = 0 THEN Ends(a) ELSE AfterClose(a)
  /\ tracked' = IF Alive(tracked) THEN tracked ELSE 0
  /\ UNCHANGED <<saveVars, agents, stop, beatVars, apart, count>>

-----------------------------------------------------------------------------
\* init_snmp
CheckEnabled(a) ==
  /\ At(a, "check")
  /\ held = Nothing
  /\ IF memory.snmp = Off THEN Ends(a) ELSE Goes(a, "look")
  /\ UNCHANGED <<saveVars, agentVars, beatVars, apart, count>>

Look(a) ==
  /\ At(a, "look")
  /\ IF Alive(tracked) THEN Ends(a) ELSE Goes(a, "clear")
  /\ UNCHANGED <<saveVars, agentVars, beatVars, apart, count>>

Clear(a) ==
  /\ At(a, "clear")
  /\ stop' = FALSE
  /\ Goes(a, "launch")
  /\ UNCHANGED <<saveVars, agents, tracked, beatVars, apart, count>>

Launch(a) ==
  /\ At(a, "launch")
  /\ Unused # {}
  /\ LET i == CHOOSE j \in Unused : \A k \in Unused : j <= k
     IN  /\ agents' = [agents EXCEPT ![i].step = "started"]
         /\ tracked' = i
  /\ Ends(a)
  /\ UNCHANGED <<saveVars, stop, beatVars, apart, count>>

\* _snmp_agent_loop reads the settings and opens the port; while another agent
\* has it, the thread may end, or go on without.
AgentOpens(i) ==
  /\ agents[i].step = "started"
  /\ held = Nothing
  /\ \/ agents' = [agents EXCEPT ![i] = [step |-> "running", snmp |-> memory.snmp]]
     \/ /\ \E j \in Ids : agents[j].step = "running"
        /\ agents' = [agents EXCEPT ![i] = [NoAgent EXCEPT !.step = "ended"]]
  /\ UNCHANGED <<saveVars, caller, tracked, stop, beatVars, apart, count>>

AgentStops(i) ==
  /\ agents[i].step = "running"
  /\ stop
  /\ agents' = [agents EXCEPT ![i] = [NoAgent EXCEPT !.step = "ended"]]
  /\ UNCHANGED <<saveVars, caller, tracked, stop, beatVars, apart, count>>

\* The inventory changed while the values were read: KeyError ends the agent.
AgentRaises(i) ==
  /\ agents[i].step = "running"
  /\ count.faults < MaxFaults
  /\ count' = [count EXCEPT !.faults = @ + 1]
  /\ agents' = [agents EXCEPT ![i] = [NoAgent EXCEPT !.step = "ended"]]
  /\ apart' = TRUE
  /\ UNCHANGED <<saveVars, caller, tracked, stop, beatVars>>

-----------------------------------------------------------------------------
\* syslog_heartbeat_loop: woken, or after the interval, it reads the settings
\* again, without another request of the loop between the two.
\* Mutant: the interval is read once.
HeartbeatKeeps ==
  /\ woken \/ beat # Never
  /\ caller[Loop] = NoRequest /\ held = Nothing
  /\ woken' = FALSE /\ deaf' = FALSE
  /\ UNCHANGED <<saveVars, caller, agentVars, beat, apart, count>>
Heartbeat ==
  /\ woken \/ beat # Never
  /\ caller[Loop] = NoRequest /\ held = Nothing
  /\ beat' = memory.service
  /\ woken' = FALSE /\ deaf' = FALSE
  /\ UNCHANGED <<saveVars, caller, agentVars, apart, count>>

PanelRestart ==
  /\ count.restarts < MaxRestarts
  /\ count' = [count EXCEPT !.restarts = @ + 1]
  /\ Started(stored)

Agent(i) == AgentOpens(i) \/ AgentStops(i) \/ AgentRaises(i)
SettingsRequest(a) ==
  \/ \E s \in Snmp : PostSnmp(a, s)
  \/ \E l \in Layouts : PutLayout(a, l)
  \/ Call(a) \/ SaveSettings(a) \/ SaveSettingsFails(a) \/ Undo(a)
  \/ Close(a) \/ Join(a) \/ Forget(a)
  \/ CheckEnabled(a) \/ Look(a) \/ Clear(a) \/ Launch(a)

SettingsNext ==
  \/ \E a \in Actors : SettingsRequest(a)
  \/ \E s \in Intervals : PutService(s)
  \/ \E i \in Ids : Agent(i)
  \/ Heartbeat
  \/ PanelRestart

SettingsSpec == SettingsInit /\ [][SettingsNext]_settingsVars

-----------------------------------------------------------------------------
SettingsHandlers ==
  [step : {"idle", "call", "save", "undo", "close", "join", "forget", "check", "look", "clear", "launch"},
   op : {"none", "snmp", "service", "layout"}, snmp : Snmp \cup {Nothing},
   before : Layouts \cup {Nothing}, agent : 0..MaxAgents]

\* Every variable has its type.
SettingsTypeOK ==
  /\ memory \in Settings /\ stored \in Settings
  /\ held \in Actors \cup {Nothing}
  /\ caller \in [Actors -> SettingsHandlers]
  /\ agents \in [Ids -> [step : {"none", "started", "running", "ended"}, snmp : Snmp \cup {Nothing}]]
  /\ tracked \in 0..MaxAgents
  /\ stop \in BOOLEAN /\ beat \in Intervals /\ woken \in BOOLEAN /\ deaf \in BOOLEAN
  /\ unsaved \subseteq {"snmp", "service", "layout"}
  /\ apart \in BOOLEAN
  /\ count \in [requests : Nat, failures : Nat, faults : Nat, restarts : Nat]

Quiet == \A a \in Actors : caller[a] = NoRequest
Settled == Quiet /\ \A i \in Ids : agents[i].step # "started" /\ ~(agents[i].step = "running" /\ stop)

\* Between requests the file has what memory has, section by section, so that
\* a restart changes nothing: unless the last save of the section failed, was
\* undone, or was written by a layout request that began before it.
FileFollows == Quiet => \A s \in {"snmp", "service", "layout"} \ unsaved : stored[s] = memory[s]

\* Between requests one agent runs, with the current settings, if SNMP is
\* enabled and none if it is not: unless requests met, a save failed, or an
\* agent ended by itself or not in time.
AgentFollows ==
  Settled /\ ~apart =>
    IF memory.snmp = Off
    THEN \A i \in Ids : ~Alive(i)
    ELSE /\ Alive(tracked) /\ agents[tracked].snmp = memory.snmp
         /\ \A i \in Ids : Alive(i) => i = tracked

\* The heartbeat waits with the interval in force, or is about to look at it:
\* unless that interval was refused to the caller because it could not be saved.
HeartbeatCurrent ==
  caller[Loop] = NoRequest /\ ~deaf => woken \/ beat = memory.service
=============================================================================
