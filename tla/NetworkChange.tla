---------------------------- MODULE NetworkChange ----------------------------
(***************************************************************************)
(* A guarded network change.  The dashboard asks the API, and the API asks *)
(* the privileged agent, which makes a NetworkManager checkpoint, changes  *)
(* the interface and hands out a token; the dashboard must send the token  *)
(* back, over the changed interface, or NetworkManager rolls the change    *)
(* back when the checkpoint's time is over.                                *)
(*                                                                         *)
(* The agent serves one request at a time; a request whose sender has      *)
(* given up is still served.  The API only forwards, with a timeout, so it *)
(* is part of the way between dashboard and agent.                         *)
(***************************************************************************)
EXTENDS Integers, Sequences, FiniteSets

CONSTANTS
  Admins,       \* dashboards of administrators
  Interfaces,
  Settings,     \* configurations of an interface
  None,
  Rollback,     \* CHECKPOINT_TIMEOUT_SECONDS
  Margin,       \* by how much the dashboard's retries end before it
  MaxTime,      \* bound on the clock
  MaxChanges,   \* bound on the checkpoints ever made
  MaxInbox,     \* bound on the requests waiting for the agent
  MaxCrashes    \* bound on restarts of the agent

ASSUME NetworkAssumption ==
  /\ Rollback \in Nat \ {0} /\ Margin \in 0..Rollback
  /\ MaxTime \in Nat /\ MaxChanges \in Nat /\ MaxInbox \in Nat /\ MaxCrashes \in Nat
  /\ None \notin Interfaces /\ None \notin Admins

Ids == 1..MaxChanges
Times == 0..(MaxTime + Rollback)

VARIABLES
  now,
  config,       \* the configuration of each interface
  checkpoints,  \* NetworkManager's, with what they restore and when
  made,         \* how many checkpoints there have been; it numbers them
  pending,      \* _pending_checkpoints; the token is the checkpoint's number
  inbox,        \* requests that reached the agent's socket
  agent,        \* the request it serves and the step it is at
  browser,      \* what each dashboard waits for, and what it was told last
  confirmed,    \* history: the last settings of each interface that a
                \*   confirmation, or the start, made permanent
  committed,    \* history: the changes made permanent
  crashes

networkVars == <<config, checkpoints, made, confirmed, committed>>
vars == <<now, networkVars, pending, inbox, agent, browser, crashes>>

Resting == [step |-> "idle", from |-> None, interface |-> None, setting |-> None, id |-> 0]
Waiting == [step |-> "idle", id |-> 0, until |-> 0, told |-> "nothing"]

Init ==
  /\ now = 0
  /\ config \in [Interfaces -> Settings]
  /\ checkpoints = {} /\ made = 0
  /\ pending = {}
  /\ inbox = <<>>
  /\ agent = Resting
  /\ browser = [a \in Admins |-> Waiting]
  /\ confirmed = config
  /\ committed = {}
  /\ crashes = 0

Tick ==
  /\ now < MaxTime
  /\ now' = now + 1
  /\ UNCHANGED <<networkVars, pending, inbox, agent, browser, crashes>>

-----------------------------------------------------------------------------
\* The dashboard.  An apply that gets no answer is given up; a confirmation
\* that gets none is sent again until the dashboard's own deadline.
Send(request) ==
  /\ Len(inbox) < MaxInbox
  /\ inbox' = Append(inbox, request)

ApplyRequest(a, i, s) ==
  [step |-> "check", from |-> a, interface |-> i, setting |-> s, id |-> 0]
ConfirmRequest(a) ==
  [step |-> "lookup", from |-> a, interface |-> None, setting |-> None, id |-> browser[a].id]

AskApply(a, i, s) ==
  /\ browser[a].step = "idle"
  /\ Send(ApplyRequest(a, i, s))
  /\ browser' = [browser EXCEPT ![a] = [Waiting EXCEPT !.step = "applying"]]
  /\ UNCHANGED <<now, networkVars, pending, agent, crashes>>

AskConfirm(a) ==
  /\ browser[a].step = "retry"
  /\ now < browser[a].until
  /\ Send(ConfirmRequest(a))
  /\ browser' = [browser EXCEPT ![a].step = "confirming"]
  /\ UNCHANGED <<now, networkVars, pending, agent, crashes>>

Tell(a, what) == [browser EXCEPT ![a].step = "idle", ![a].until = 0, ![a].told = what]

GiveUp(a) ==
  /\ browser[a].step = "retry"
  /\ now >= browser[a].until
  /\ browser' = Tell(a, "restored")
  /\ UNCHANGED <<now, networkVars, pending, inbox, agent, crashes>>

\* The connection breaks, or a timeout of the dashboard or of the API fires:
\* the agent will serve the request and nobody will see the answer.
Unheard(a, request) == IF request.from = a THEN [request EXCEPT !.from = None] ELSE request

LoseAnswer(a) ==
  /\ \/ browser[a].step = "applying" /\ browser' = Tell(a, "failed")
     \/ browser[a].step = "confirming" /\ browser' = [browser EXCEPT ![a].step = "retry"]
  /\ inbox' = [k \in DOMAIN inbox |-> Unheard(a, inbox[k])]
  /\ agent' = Unheard(a, agent)
  /\ UNCHANGED <<now, networkVars, pending, crashes>>

-----------------------------------------------------------------------------
\* The agent.
Answer(b) ==
  /\ agent' = Resting
  /\ browser' = IF agent.from = None THEN browser ELSE b

\* HTTP 400: an apply fails, a confirmation is not repeated.
Refusal ==
  Tell(agent.from, IF browser[agent.from].step = "applying" THEN "failed" ELSE "restored")

At(step) == agent.step = step
Go(step) == agent' = [agent EXCEPT !.step = step]

Receive ==
  /\ At("idle")
  /\ inbox # <<>>
  /\ agent' = Head(inbox)
  /\ inbox' = Tail(inbox)
  /\ UNCHANGED <<now, networkVars, pending, browser, crashes>>

Unexpired == {c \in pending : c.expires > now}

\* Mutant: a pending change does not keep another one out.
NeverPending == FALSE
SomePending == Unexpired # {}

\* _ensure_no_pending_checkpoint and the validation; any of the commands that
\* read the network's state may fail.
Check ==
  /\ At("check")
  /\ pending' = Unexpired
  /\ \/ ~SomePending /\ Go("create") /\ UNCHANGED browser
     \/ Answer(Refusal)
  /\ UNCHANGED <<now, networkVars, inbox, crashes>>

\* NetworkManager keeps one checkpoint per interface.  The bounded clock must
\* be able to end it.
MayCheckpoint(i) ==
  /\ \A c \in checkpoints : c.interface # i
  /\ made < MaxChanges
  /\ now + Rollback <= MaxTime
\* Mutant: no timeout, which NetworkManager takes for no rollback.
CheckpointForever(i) ==
  [id |-> made + 1, interface |-> i, saved |-> config[i], deadline |-> MaxTime + Rollback]
CheckpointOf(i) ==
  [id |-> made + 1, interface |-> i, saved |-> config[i], deadline |-> now + Rollback]

\* Mutant: the checkpoint is made after the change.
CreateLate ==
  /\ At("create")
  /\ MayCheckpoint(agent.interface)
  /\ checkpoints' = checkpoints \cup {[CheckpointOf(agent.interface) EXCEPT !.saved = agent.setting]}
  /\ made' = made + 1
  /\ agent' = [agent EXCEPT !.step = "modify", !.id = made + 1]
  /\ UNCHANGED <<now, config, confirmed, committed, pending, inbox, browser, crashes>>
Create ==
  /\ At("create")
  /\ MayCheckpoint(agent.interface)
  /\ checkpoints' = checkpoints \cup {CheckpointOf(agent.interface)}
  /\ made' = made + 1
  /\ agent' = [agent EXCEPT !.step = "modify", !.id = made + 1]
  /\ UNCHANGED <<now, config, confirmed, committed, pending, inbox, browser, crashes>>

\* busctl may fail, or time out after NetworkManager has made the checkpoint.
CreateFails ==
  /\ At("create")
  /\ Answer(Refusal)
  /\ \/ /\ MayCheckpoint(agent.interface)
        /\ checkpoints' = checkpoints \cup {CheckpointOf(agent.interface)}
        /\ made' = made + 1
     \/ UNCHANGED <<checkpoints, made>>
  /\ UNCHANGED <<now, config, confirmed, committed, pending, inbox, crashes>>

\* connection add, modify and up, and reading the state back.
Modify ==
  /\ At("modify")
  /\ config' = [config EXCEPT ![agent.interface] = agent.setting]
  /\ Go("register")
  /\ UNCHANGED <<now, checkpoints, made, confirmed, committed, pending, inbox, browser, crashes>>

\* Any of them may fail, before or after the change.
ModifyFails ==
  /\ At("modify")
  /\ \/ config' = [config EXCEPT ![agent.interface] = agent.setting]
     \/ UNCHANGED config
  /\ Go("rollback")
  /\ UNCHANGED <<now, checkpoints, made, confirmed, committed, pending, inbox, browser, crashes>>

Restored(c) == [config EXCEPT ![c.interface] = c.saved]

\* A failed CheckpointRollback is ignored.
RollbackChange ==
  /\ At("rollback")
  /\ \/ \E c \in checkpoints :
          c.id = agent.id /\ config' = Restored(c) /\ checkpoints' = checkpoints \ {c}
     \/ UNCHANGED <<config, checkpoints>>
  /\ Answer(Refusal)
  /\ UNCHANGED <<now, made, confirmed, committed, pending, inbox, crashes>>

\* The token's time starts now, the checkpoint's has started before the change.
Register ==
  /\ At("register")
  /\ pending' = pending \cup
       {[id |-> agent.id, interface |-> agent.interface, expires |-> now + Rollback]}
  /\ Answer([browser EXCEPT ![agent.from] =
       [step |-> "retry", id |-> agent.id, until |-> now + Rollback - Margin, told |-> "nothing"]])
  /\ UNCHANGED <<now, networkVars, inbox, crashes>>

\* Mutant: whether the token is known is left to NetworkManager.
LookupNothing ==
  /\ At("lookup")
  /\ pending' = Unexpired
  /\ \/ Go("destroy") /\ UNCHANGED browser
     \/ Answer(Refusal)
  /\ UNCHANGED <<now, networkVars, inbox, crashes>>
\* confirm_network_settings: the token must be known, and the client must have
\* come over the changed interface, or locally.
Lookup ==
  /\ At("lookup")
  /\ pending' = Unexpired
  /\ \/ (\E c \in pending' : c.id = agent.id) /\ Go("destroy") /\ UNCHANGED browser
     \/ Answer(Refusal)
  /\ UNCHANGED <<now, networkVars, inbox, crashes>>

Kept(c) ==
  /\ checkpoints' = checkpoints \ {c}
  /\ confirmed' = [confirmed EXCEPT ![c.interface] = config[c.interface]]
  /\ committed' = committed \cup {c.id}

Destroy ==
  /\ At("destroy")
  /\ \E c \in checkpoints : c.id = agent.id /\ Kept(c)
  /\ pending' = {c \in pending : c.id # agent.id}
  /\ Answer(Tell(agent.from, "confirmed"))
  /\ UNCHANGED <<now, config, made, inbox, crashes>>

\* Mutant: a failed CheckpointDestroy is taken for a success.
DestroyIgnored ==
  /\ At("destroy")
  /\ pending' = {c \in pending : c.id # agent.id}
  /\ Answer(Tell(agent.from, "confirmed"))
  /\ UNCHANGED <<now, networkVars, inbox, crashes>>
\* The checkpoint is gone, or busctl fails or times out, perhaps after
\* NetworkManager has kept the change; the token stays.
DestroyFails ==
  /\ At("destroy")
  /\ \/ \E c \in checkpoints : c.id = agent.id /\ Kept(c)
     \/ UNCHANGED <<checkpoints, confirmed, committed>>
  /\ Answer(Refusal)
  /\ UNCHANGED <<now, config, made, pending, inbox, crashes>>

\* The agent's process ends and is started again: senders get an error.
AgentRestart ==
  /\ crashes < MaxCrashes
  /\ crashes' = crashes + 1
  /\ agent' = Resting
  /\ inbox' = <<>>
  /\ pending' = {}
  /\ browser' = [a \in Admins |->
       CASE browser[a].step = "applying" -> [browser[a] EXCEPT !.step = "idle", !.told = "failed"]
         [] browser[a].step = "confirming" -> [browser[a] EXCEPT !.step = "retry"]
         [] OTHER -> browser[a]]
  /\ UNCHANGED <<now, networkVars>>

-----------------------------------------------------------------------------
\* NetworkManager rolls back by itself.  The commands before the change take
\* at most 45 of the 60 seconds, so the time is not over while it is made.
Expire(c) ==
  /\ now >= c.deadline
  /\ ~(At("modify") /\ agent.id = c.id)
  /\ config' = Restored(c)
  /\ checkpoints' = checkpoints \ {c}
  /\ UNCHANGED <<now, made, confirmed, committed, pending, inbox, agent, browser, crashes>>

-----------------------------------------------------------------------------
Dashboard(a) ==
  \/ \E i \in Interfaces, s \in Settings : AskApply(a, i, s)
  \/ AskConfirm(a) \/ GiveUp(a) \/ LoseAnswer(a)

Agent ==
  \/ Receive \/ Check \/ Create \/ CreateFails \/ Modify \/ ModifyFails \/ RollbackChange
  \/ Register \/ Lookup \/ Destroy \/ DestroyFails

NetworkManager == \E c \in checkpoints : Expire(c)

Next == Tick \/ (\E a \in Admins : Dashboard(a)) \/ Agent \/ AgentRestart \/ NetworkManager

Spec == Init /\ [][Next]_vars

\* Every command of the agent has a timeout, and time and NetworkManager go on.
FairSpec == Spec /\ WF_vars(Tick) /\ WF_vars(Agent) /\ WF_vars(NetworkManager)

-----------------------------------------------------------------------------
Steps == {"idle", "check", "create", "modify", "register", "rollback", "lookup", "destroy"}
Requests ==
  [step : Steps, from : Admins \cup {None}, interface : Interfaces \cup {None},
   setting : Settings \cup {None}, id : 0..MaxChanges]
Checkpoints == [id : Ids, interface : Interfaces, saved : Settings, deadline : Times]
Tokens == [id : Ids, interface : Interfaces, expires : Times]
Views ==
  [step : {"idle", "applying", "retry", "confirming"}, id : 0..MaxChanges, until : Times,
   told : {"nothing", "failed", "confirmed", "restored"}]

TypeOK ==
  /\ now \in 0..MaxTime
  /\ config \in [Interfaces -> Settings] /\ confirmed \in [Interfaces -> Settings]
  /\ checkpoints \subseteq Checkpoints
  /\ made \in 0..MaxChanges
  /\ pending \subseteq Tokens
  /\ inbox \in Seq(Requests) /\ Len(inbox) <= MaxInbox
  /\ agent \in Requests
  /\ browser \in [Admins -> Views]
  /\ committed \subseteq Ids
  /\ crashes \in 0..MaxCrashes

\* Whatever fails or is lost, and even without the agent, an interface has
\* settings that somebody confirmed, or a checkpoint that will restore them.
Guarded ==
  /\ \A i \in Interfaces :
       config[i] # confirmed[i] => \E c \in checkpoints : c.interface = i
  /\ \A c \in checkpoints : c.saved = confirmed[c.interface]

\* One change at a time waits for its confirmation.
OneChange == Cardinality(pending) <= 1

\* The dashboard says "confirmed" only of a change that is permanent.
TruthfulSuccess == \A a \in Admins : browser[a].told = "confirmed" => browser[a].id \in committed

\* An unconfirmed change does not last.
RolledBack == \A i \in Interfaces : config[i] # confirmed[i] ~> config[i] = confirmed[i]

-----------------------------------------------------------------------------
\* What is promised of an interface, read off NetworkManager's checkpoints, the
\* tokens and the request the agent is at.
Checked(i) == \E c \in checkpoints : c.interface = i
CheckpointOn(i) == CHOOSE c \in checkpoints : c.interface = i

PhaseOf(c) ==
  IF agent.step \in {"modify", "register"} /\ agent.id = c.id THEN "trial"
  ELSE IF (At("destroy") /\ agent.id = c.id) \/ \E t \in pending : t.id = c.id THEN "offered"
  ELSE "doomed"

Permanent == [i \in Interfaces |-> IF Checked(i) THEN CheckpointOn(i).saved ELSE config[i]]
Phase == [i \in Interfaces |-> IF Checked(i) THEN PhaseOf(CheckpointOn(i)) ELSE "settled"]

Commit == INSTANCE CommitConfirmed
  WITH running <- config, permanent <- Permanent, phase <- Phase

\* Requests, commands, tokens and rollbacks in any order implement it: what becomes
\* permanent is what an administrator was offered, unchanged since.
ImplementsCommit == Commit!Spec
=============================================================================
