---------------------------- MODULE NetworkProofs ----------------------------
(***************************************************************************)
(* Proofs for NetworkChange: type correctness, the guard of every          *)
(* unconfirmed change, at most one pending change and the truth of         *)
(* "confirmed", for any number of dashboards, interfaces, changes, lost    *)
(* answers and restarts of the agent.                                      *)
(***************************************************************************)
EXTENDS NetworkChange, SequenceTheorems, FiniteSetTheorems, TLAPS

Changing == {"create", "modify", "register", "rollback"}
Numbered == {"modify", "register", "rollback"}

\* What waits for the agent is an apply or a confirmation, and what an apply
\* is to change is known.
Applicable(r) == r.interface \in Interfaces /\ r.setting \in Settings
WellFormed ==
  /\ \A k \in DOMAIN inbox :
       /\ inbox[k].step \in {"check", "lookup"}
       /\ inbox[k].step = "check" => Applicable(inbox[k])
  /\ agent.step \in Changing \cup {"check"} => Applicable(agent)

\* Checkpoints are numbered, and an interface has one at most.
Unique ==
  /\ \A c \in checkpoints : c.id <= made
  /\ \A c, d \in checkpoints : c.id = d.id \/ c.interface = d.interface => c = d
Numbers ==
  /\ Unique
  /\ agent.step \in Numbered => agent.id \in 1..made

\* While the agent changes an interface, its checkpoint exists and no other
\* change is pending.
Covered ==
  agent.step = "modify" =>
    \E c \in checkpoints : c.id = agent.id /\ c.interface = agent.interface
Clear == agent.step \in Changing => pending = {}

\* The set of pending changes is finite, so that counting it means something.
PendingFinite == IsFiniteSet(pending)

IInv ==
  TypeOK /\ WellFormed /\ Numbers /\ Covered /\ Clear /\ Guarded /\ OneChange /\ PendingFinite

-----------------------------------------------------------------------------
\* Telling a dashboard something keeps the type of what dashboards are told.
LEMMA TellTypes ==
  ASSUME TypeOK, NEW a \in Admins, NEW what \in {"failed", "confirmed", "restored"}
  PROVE  Tell(a, what) \in [Admins -> Views]
<1>1. browser \in [Admins -> Views] /\ 0 \in Times
  BY NetworkAssumption DEF TypeOK, Times
<1>2. [browser[a] EXCEPT !.step = "idle", !.until = 0, !.told = what] \in Views
  BY <1>1 DEF Views
<1>3. Tell(a, what) = [browser EXCEPT ![a] = [browser[a] EXCEPT !.step = "idle", !.until = 0, !.told = what]]
  BY <1>1 DEF Tell, Views
<1>. QED BY <1>1, <1>2, <1>3

\* So does an answer of the agent, whoever waits for it.
LEMMA AnswerTypes ==
  ASSUME TypeOK, NEW b, agent.from # None => b \in [Admins -> Views], Answer(b)
  PROVE  agent' \in Requests /\ browser' \in [Admins -> Views]
<1>1. Resting \in Requests
  BY NetworkAssumption DEF Requests, Resting, Steps
<1>. QED BY <1>1 DEF TypeOK, Answer

\* A refusal is told to a dashboard that waits.
LEMMA RefusalTypes == ASSUME TypeOK PROVE agent.from # None => Refusal \in [Admins -> Views]
<1>. SUFFICES ASSUME agent.from # None PROVE Refusal \in [Admins -> Views]
  OBVIOUS
<1>1. agent.from \in Admins
  BY DEF TypeOK, Requests
<1>. QED BY <1>1, TellTypes DEF Refusal

\* The next step of the agent's request.
LEMMA GoTypes ==
  ASSUME TypeOK, NEW s \in Steps, Go(s)
  PROVE  agent' \in Requests /\ agent'.step = s /\ agent'.id = agent.id
         /\ agent'.interface = agent.interface /\ agent'.setting = agent.setting
         /\ agent'.from = agent.from
BY DEF TypeOK, Requests, Go

\* A request that is put in the inbox.
LEMMA SendTypes ==
  ASSUME TypeOK, NEW r \in Requests, Send(r)
  PROVE  /\ inbox' \in Seq(Requests) /\ Len(inbox') <= MaxInbox
         /\ Len(inbox') = Len(inbox) + 1 /\ inbox'[Len(inbox')] = r
         /\ \A k \in DOMAIN inbox' : k = Len(inbox') \/ (k \in DOMAIN inbox /\ inbox'[k] = inbox[k])
<1>1. inbox \in Seq(Requests) /\ Len(inbox) \in Nat /\ Len(inbox) < MaxInbox /\ MaxInbox \in Nat
  BY NetworkAssumption DEF TypeOK, Send
<1>2. inbox' = Append(inbox, r)
  BY DEF Send
<1>. QED BY <1>1, <1>2, AppendProperties

\* Forgetting a sender changes nothing else of a request.
LEMMA UnheardTypes ==
  ASSUME NEW a \in Admins, NEW r \in Requests
  PROVE  /\ Unheard(a, r) \in Requests
         /\ Unheard(a, r).step = r.step /\ Unheard(a, r).interface = r.interface
         /\ Unheard(a, r).setting = r.setting /\ Unheard(a, r).id = r.id
         /\ Unheard(a, r).from = IF r.from = a THEN None ELSE r.from
BY DEF Unheard, Requests

\* A checkpoint that NetworkManager may make is one.
LEMMA CheckpointTypes ==
  ASSUME TypeOK, NEW i \in Interfaces, MayCheckpoint(i)
  PROVE  CheckpointOf(i) \in Checkpoints /\ made + 1 \in 0..MaxChanges
<1>1. now \in Nat /\ made \in Nat /\ made < MaxChanges /\ MaxChanges \in Nat /\ config[i] \in Settings
  BY NetworkAssumption DEF TypeOK, MayCheckpoint
<1>2. now + Rollback \in Times /\ made + 1 \in Ids
  BY <1>1, NetworkAssumption DEF MayCheckpoint, Times, Ids, TypeOK
<1>. QED BY <1>1, <1>2 DEF CheckpointOf, Checkpoints

\* A rollback leaves settings on every interface.
LEMMA RestoredTypes ==
  ASSUME TypeOK, NEW c \in checkpoints
  PROVE  Restored(c) \in [Interfaces -> Settings]
BY DEF TypeOK, Checkpoints, Restored

-----------------------------------------------------------------------------
\* The steps of a dashboard keep the types.
LEMMA DashboardTypes ==
  ASSUME TypeOK, NEW a \in Admins, Dashboard(a)
  PROVE  TypeOK'
<1>. USE DEF networkVars
<1>0. Len(inbox) \in Nat /\ DOMAIN inbox = 1..Len(inbox) /\ agent \in Requests
  BY DEF TypeOK
<1>1. ASSUME NEW i \in Interfaces, NEW s \in Settings, AskApply(a, i, s) PROVE TypeOK'
  <2>1. ApplyRequest(a, i, s) \in Requests
    BY NetworkAssumption DEF Requests, ApplyRequest, Steps
  <2>2. [Waiting EXCEPT !.step = "applying"] \in Views
    BY NetworkAssumption DEF Views, Waiting, Times
  <2>3. browser' \in [Admins -> Views]
    BY <1>1, <2>2 DEF AskApply, TypeOK
  <2>4. inbox' \in Seq(Requests) /\ Len(inbox') <= MaxInbox
    BY <1>1, <2>1, SendTypes DEF AskApply
  <2>. QED BY <1>1, <2>3, <2>4 DEF AskApply, TypeOK
<1>2. CASE AskConfirm(a)
  <2>1. browser[a] \in Views
    BY DEF TypeOK
  <2>2. ConfirmRequest(a) \in Requests
    BY <2>1 DEF Requests, ConfirmRequest, Steps, Views
  <2>3. browser' \in [Admins -> Views]
    BY <1>2, <2>1 DEF AskConfirm, TypeOK, Views
  <2>4. inbox' \in Seq(Requests) /\ Len(inbox') <= MaxInbox
    BY <1>2, <2>2, SendTypes DEF AskConfirm
  <2>. QED BY <1>2, <2>3, <2>4 DEF AskConfirm, TypeOK
<1>3. CASE GiveUp(a)
  <2>1. browser' \in [Admins -> Views]
    BY <1>3, TellTypes DEF GiveUp
  <2>. QED BY <1>3, <2>1 DEF GiveUp, TypeOK
<1>4. CASE LoseAnswer(a)
  <2>1. browser' \in [Admins -> Views]
    <3>1. CASE browser' = Tell(a, "failed")
      BY <3>1, TellTypes
    <3>2. CASE browser' = [browser EXCEPT ![a].step = "retry"]
      BY <3>2 DEF TypeOK, Views
    <3>. QED BY <1>4, <3>1, <3>2 DEF LoseAnswer
  <2>2. \A k \in DOMAIN inbox : inbox[k] \in Requests
    BY <1>0 DEF TypeOK
  <2>3. inbox' = [k \in 1..Len(inbox) |-> Unheard(a, inbox[k])]
    BY <1>0, <1>4 DEF LoseAnswer
  <2>4. inbox' \in Seq(Requests) /\ Len(inbox') = Len(inbox)
    <3>1. \A k \in 1..Len(inbox) : Unheard(a, inbox[k]) \in Requests
      BY <1>0, <2>2, UnheardTypes
    <3>. QED BY <1>0, <2>3, <3>1
  <2>5. agent' \in Requests
    BY <1>0, <1>4, UnheardTypes DEF LoseAnswer
  <2>. QED BY <1>4, <2>1, <2>4, <2>5 DEF LoseAnswer, TypeOK
<1>. QED BY <1>1, <1>2, <1>3, <1>4 DEF Dashboard

\* The steps of the agent keep the types.
LEMMA AgentTypes ==
  ASSUME TypeOK, WellFormed, Numbers, Agent
  PROVE  TypeOK'
<1>. USE DEF networkVars
<1>0. /\ agent \in Requests /\ Unexpired \subseteq pending
      /\ {"create", "register", "rollback", "destroy"} \subseteq Steps
      /\ agent.from # None => agent.from \in Admins
  BY DEF TypeOK, Unexpired, Steps, Requests
<1>1. CASE Receive
  <2>1. inbox \in Seq(Requests) /\ Len(inbox) \in Nat /\ Len(inbox) # 0
    BY <1>1, EmptySeq DEF Receive, TypeOK
  <2>2. agent' \in Requests
    BY <1>1, <2>1, HeadTailProperties DEF Receive
  <2>3. inbox' \in Seq(Requests) /\ Len(inbox') <= MaxInbox
    BY <1>1, <2>1, HeadTailProperties, NetworkAssumption DEF Receive, TypeOK
  <2>. QED BY <1>1, <2>2, <2>3 DEF Receive, TypeOK
<1>2. CASE Check
  <2>1. agent' \in Requests /\ browser' \in [Admins -> Views]
    <3>1. CASE Go("create") /\ UNCHANGED browser
      BY <1>0, <3>1, GoTypes DEF TypeOK
    <3>2. CASE Answer(Refusal)
      BY <3>2, RefusalTypes, AnswerTypes
    <3>. QED BY <1>2, <3>1, <3>2 DEF Check
  <2>. QED BY <1>0, <1>2, <2>1 DEF Check, TypeOK
<1>3. CASE Create
  <2>1. agent.interface \in Interfaces
    BY <1>3 DEF Create, At, WellFormed, Changing, Applicable
  <2>2. CheckpointOf(agent.interface) \in Checkpoints /\ made + 1 \in 0..MaxChanges
    BY <1>3, <2>1, CheckpointTypes DEF Create
  <2>3. agent' \in Requests
    BY <1>0, <1>3, <2>2 DEF Create, Requests, Steps
  <2>. QED BY <1>3, <2>2, <2>3 DEF Create, TypeOK
<1>4. CASE CreateFails
  <2>1. agent.interface \in Interfaces
    BY <1>4 DEF CreateFails, At, WellFormed, Changing, Applicable
  <2>2. checkpoints' \subseteq Checkpoints /\ made' \in 0..MaxChanges
    <3>1. CASE MayCheckpoint(agent.interface)
      BY <1>4, <2>1, <3>1, CheckpointTypes DEF CreateFails, TypeOK
    <3>2. CASE UNCHANGED <<checkpoints, made>>
      BY <3>2 DEF TypeOK
    <3>. QED BY <1>4, <3>1, <3>2 DEF CreateFails
  <2>3. agent' \in Requests /\ browser' \in [Admins -> Views]
    BY <1>4, RefusalTypes, AnswerTypes DEF CreateFails
  <2>. QED BY <1>4, <2>2, <2>3 DEF CreateFails, TypeOK
<1>5. CASE Modify \/ ModifyFails
  <2>1. agent.setting \in Settings
    BY <1>5 DEF Modify, ModifyFails, At, WellFormed, Changing, Applicable
  <2>2. config' \in [Interfaces -> Settings]
    BY <1>5, <2>1 DEF Modify, ModifyFails, TypeOK
  <2>3. agent' \in Requests
    BY <1>0, <1>5, GoTypes DEF Modify, ModifyFails
  <2>. QED BY <1>5, <2>2, <2>3 DEF Modify, ModifyFails, TypeOK
<1>6. CASE RollbackChange
  <2>1. config' \in [Interfaces -> Settings] /\ checkpoints' \subseteq checkpoints
    BY <1>6, RestoredTypes DEF RollbackChange, TypeOK
  <2>2. agent' \in Requests /\ browser' \in [Admins -> Views]
    BY <1>6, RefusalTypes, AnswerTypes DEF RollbackChange
  <2>. QED BY <1>6, <2>1, <2>2 DEF RollbackChange, TypeOK
<1>7. CASE Register
  <2>1. agent.id \in Ids /\ agent.interface \in Interfaces
    <3>1. agent.step = "register"
      BY <1>7 DEF Register, At
    <3>2. agent.id \in 1..made /\ made \in 0..MaxChanges
      BY <3>1 DEF Numbers, Numbered, TypeOK
    <3>3. agent.interface \in Interfaces
      BY <3>1 DEF WellFormed, Changing, Applicable
    <3>. QED BY <3>2, <3>3, NetworkAssumption DEF Ids
  <2>2. now + Rollback \in Times /\ now + Rollback - Margin \in Times
    BY NetworkAssumption DEF TypeOK, Times
  <2>. DEFINE token == [id |-> agent.id, interface |-> agent.interface, expires |-> now + Rollback]
              view == [step |-> "retry", id |-> agent.id, until |-> now + Rollback - Margin,
                       told |-> "nothing"]
  <2>3. token \in Tokens
    BY <2>1, <2>2 DEF Tokens
  <2>4. view \in Views
    BY <2>1, <2>2 DEF Views, Ids
  <2>5. pending' = pending \cup {token} /\ Answer([browser EXCEPT ![agent.from] = view])
    BY <1>7 DEF Register
  <2>. HIDE DEF token, view
  <2>6. [browser EXCEPT ![agent.from] = view] \in [Admins -> Views]
    BY <2>4 DEF TypeOK
  <2>7. agent' \in Requests /\ browser' \in [Admins -> Views]
    BY <2>5, <2>6, AnswerTypes
  <2>. QED BY <1>7, <2>3, <2>5, <2>7 DEF Register, TypeOK
<1>8. CASE Lookup
  <2>1. agent' \in Requests /\ browser' \in [Admins -> Views]
    <3>1. CASE Go("destroy") /\ UNCHANGED browser
      BY <1>0, <3>1, GoTypes DEF TypeOK
    <3>2. CASE Answer(Refusal)
      BY <3>2, RefusalTypes, AnswerTypes
    <3>. QED BY <1>8, <3>1, <3>2 DEF Lookup
  <2>. QED BY <1>0, <1>8, <2>1 DEF Lookup, TypeOK
<1>9. CASE Destroy \/ DestroyFails
  <2>1. /\ checkpoints' \subseteq checkpoints /\ confirmed' \in [Interfaces -> Settings]
        /\ committed' \subseteq Ids
    BY <1>9 DEF Destroy, DestroyFails, Kept, TypeOK, Checkpoints
  <2>2. agent' \in Requests /\ browser' \in [Admins -> Views]
    <3>1. CASE Answer(Tell(agent.from, "confirmed"))
      BY <1>0, <3>1, TellTypes, AnswerTypes
    <3>2. CASE Answer(Refusal)
      BY <3>2, RefusalTypes, AnswerTypes
    <3>. QED BY <1>9, <3>1, <3>2 DEF Destroy, DestroyFails
  <2>3. pending' \subseteq pending
    BY <1>9 DEF Destroy, DestroyFails
  <2>. QED BY <1>9, <2>1, <2>2, <2>3 DEF Destroy, DestroyFails, TypeOK
<1>. QED BY <1>1, <1>2, <1>3, <1>4, <1>5, <1>6, <1>7, <1>8, <1>9 DEF Agent

\* Every step keeps the types.
LEMMA TypeStep == TypeOK /\ WellFormed /\ Numbers /\ [Next]_vars => TypeOK'
<1>. SUFFICES ASSUME TypeOK, WellFormed, Numbers, [Next]_vars PROVE TypeOK'
  OBVIOUS
<1>. USE DEF networkVars
<1>1. CASE UNCHANGED vars
  BY <1>1 DEF vars, TypeOK
<1>2. CASE Tick
  BY <1>2, NetworkAssumption DEF Tick, TypeOK
<1>3. ASSUME NEW a \in Admins, Dashboard(a) PROVE TypeOK'
  BY <1>3, DashboardTypes
<1>4. CASE Agent
  BY <1>4, AgentTypes
<1>5. CASE AgentRestart
  <2>0. /\ crashes < MaxCrashes /\ crashes' = crashes + 1 /\ inbox' = <<>> /\ pending' = {}
        /\ agent' = Resting /\ UNCHANGED <<now, networkVars>>
    BY <1>5, Zenon DEF AgentRestart
  <2>1. Resting \in Requests
    BY NetworkAssumption DEF Requests, Resting, Steps
  <2>2. browser' \in [Admins -> Views]
    BY <1>5 DEF AgentRestart, TypeOK, Views
  <2>3. inbox' \in Seq(Requests) /\ Len(inbox') <= MaxInbox
    BY <2>0, EmptySeq, NetworkAssumption
  <2>4. crashes' \in 0..MaxCrashes
    BY <2>0, NetworkAssumption DEF TypeOK
  <2>. QED BY <2>0, <2>1, <2>2, <2>3, <2>4 DEF TypeOK
<1>6. ASSUME NEW c \in checkpoints, Expire(c) PROVE TypeOK'
  BY <1>6, RestoredTypes DEF Expire, TypeOK
<1>. QED BY <1>1, <1>2, <1>3, <1>4, <1>5, <1>6 DEF Next, NetworkManager

-----------------------------------------------------------------------------
\* What the environment of the agent does to it and its inbox.
LEMMA DashboardKeeps ==
  ASSUME TypeOK, NEW a \in Admins, Dashboard(a)
  PROVE  /\ UNCHANGED <<networkVars, pending>>
         /\ agent'.step = agent.step /\ agent'.interface = agent.interface
         /\ agent'.setting = agent.setting /\ agent'.id = agent.id
<1>1. agent \in Requests
  BY DEF TypeOK
<1>2. CASE LoseAnswer(a)
  BY <1>1, <1>2, UnheardTypes DEF LoseAnswer
<1>. QED BY <1>2 DEF Dashboard, AskApply, AskConfirm, GiveUp

\* A restart of the agent leaves NetworkManager alone and forgets all requests.
LEMMA RestartKeeps ==
  ASSUME AgentRestart
  PROVE  UNCHANGED networkVars /\ pending' = {} /\ inbox' = <<>> /\ agent' = Resting
BY Zenon DEF AgentRestart

\* Every step keeps the requests well formed.
LEMMA WellFormedStep == TypeOK /\ WellFormed /\ [Next]_vars => WellFormed'
<1>. SUFFICES ASSUME TypeOK, WellFormed, [Next]_vars PROVE WellFormed'
  OBVIOUS
<1>. USE DEF Applicable
<1>0. /\ inbox \in Seq(Requests) /\ Len(inbox) \in Nat /\ DOMAIN inbox = 1..Len(inbox)
      /\ agent \in Requests
  BY DEF TypeOK
<1>1. CASE UNCHANGED vars \/ Tick \/ (\E c \in checkpoints : Expire(c))
  BY <1>1 DEF vars, Tick, Expire, WellFormed
<1>2. ASSUME NEW a \in Admins, Dashboard(a) PROVE WellFormed'
  <2>1. agent'.step \in Changing \cup {"check"} => Applicable(agent')
    BY <1>2, DashboardKeeps DEF WellFormed
  <2>2. ASSUME NEW i \in Interfaces, NEW s \in Settings, AskApply(a, i, s) PROVE WellFormed'
    <3>1. ApplyRequest(a, i, s) \in Requests
      BY NetworkAssumption DEF Requests, ApplyRequest, Steps
    <3>2. Send(ApplyRequest(a, i, s))
      BY <2>2 DEF AskApply
    <3>3. ApplyRequest(a, i, s).step = "check" /\ Applicable(ApplyRequest(a, i, s))
      BY DEF ApplyRequest
    <3>4. \A k \in DOMAIN inbox' :
            inbox'[k].step \in {"check", "lookup"} /\ (inbox'[k].step = "check" => Applicable(inbox'[k]))
      BY <3>1, <3>2, <3>3, SendTypes DEF WellFormed
    <3>. QED BY <2>1, <3>4 DEF WellFormed
  <2>3. CASE AskConfirm(a)
    <3>1. ConfirmRequest(a) \in Requests
      BY DEF Requests, ConfirmRequest, Steps, TypeOK, Views
    <3>2. Send(ConfirmRequest(a))
      BY <2>3 DEF AskConfirm
    <3>3. ConfirmRequest(a).step = "lookup"
      BY DEF ConfirmRequest
    <3>4. \A k \in DOMAIN inbox' :
            inbox'[k].step \in {"check", "lookup"} /\ (inbox'[k].step = "check" => Applicable(inbox'[k]))
      BY <3>1, <3>2, <3>3, SendTypes DEF WellFormed
    <3>. QED BY <2>1, <3>4 DEF WellFormed
  <2>4. CASE GiveUp(a)
    BY <2>4 DEF GiveUp, WellFormed
  <2>5. CASE LoseAnswer(a)
    <3>1. /\ DOMAIN inbox' = DOMAIN inbox
          /\ \A k \in DOMAIN inbox : inbox'[k] = Unheard(a, inbox[k]) /\ inbox[k] \in Requests
      BY <1>0, <2>5 DEF LoseAnswer
    <3>2. \A k \in DOMAIN inbox :
            /\ inbox'[k].step = inbox[k].step /\ inbox'[k].interface = inbox[k].interface
            /\ inbox'[k].setting = inbox[k].setting
      BY <3>1, UnheardTypes
    <3>. QED BY <2>1, <3>1, <3>2 DEF WellFormed
  <2>. QED BY <1>2, <2>2, <2>3, <2>4, <2>5 DEF Dashboard
<1>3. CASE Receive
  <2>1. inbox # <<>> /\ agent' = Head(inbox) /\ inbox' = Tail(inbox)
    BY <1>3 DEF Receive
  <2>2. Len(inbox) # 0
    BY <1>0, <2>1, EmptySeq
  <2>3. agent' = inbox[1] /\ 1 \in DOMAIN inbox
    BY <1>0, <2>1, <2>2, HeadTailProperties
  <2>4. Len(inbox') = Len(inbox) - 1 /\ \A k \in 1..Len(inbox') : inbox'[k] = inbox[k + 1]
    BY <1>0, <2>1, HeadTailProperties
  <2>5. DOMAIN inbox' = 1..Len(inbox')
    BY <1>0, <2>1, HeadTailProperties
  <2>6. \A k \in DOMAIN inbox' : k + 1 \in DOMAIN inbox /\ inbox'[k] = inbox[k + 1]
    BY <1>0, <2>2, <2>4, <2>5
  <2>. QED BY <2>3, <2>6 DEF WellFormed, Changing
<1>4. ASSUME Agent, ~Receive PROVE WellFormed'
  <2>1. inbox' = inbox
    BY <1>4 DEF Agent, Check, Create, CreateFails, Modify, ModifyFails, RollbackChange, Register,
      Lookup, Destroy, DestroyFails
  <2>2. \/ agent' = Resting
        \/ /\ agent.step \in Changing \cup {"check"}
           /\ agent'.interface = agent.interface /\ agent'.setting = agent.setting
        \/ agent'.step = "destroy"
    BY <1>0, <1>4 DEF Agent, Check, Create, CreateFails, Modify, ModifyFails, RollbackChange,
      Register, Lookup, Destroy, DestroyFails, At, Go, Answer, Changing, Requests
  <2>. QED BY <2>1, <2>2 DEF WellFormed, Resting, Changing
<1>5. CASE AgentRestart
  <2>1. DOMAIN inbox' = {}
    BY <1>5, RestartKeeps
  <2>. QED BY <1>5, <2>1, RestartKeeps DEF WellFormed, Resting, Changing
<1>. QED BY <1>1, <1>2, <1>3, <1>4, <1>5 DEF Next, NetworkManager

-----------------------------------------------------------------------------
\* NetworkManager's three operations keep every unconfirmed change guarded.
LEMMA NewCheckpoint ==
  ASSUME TypeOK, Unique, Guarded, NEW i \in Interfaces, MayCheckpoint(i),
         checkpoints' = checkpoints \cup {CheckpointOf(i)}, made' = made + 1,
         UNCHANGED <<config, confirmed>>
  PROVE  Unique' /\ Guarded'
<1>. DEFINE n == CheckpointOf(i)
<1>1. n.id = made + 1 /\ n.interface = i /\ n.saved = config[i]
  BY DEF CheckpointOf
<1>2. \A c \in checkpoints : c.interface # i
  BY DEF MayCheckpoint
<1>3. config[i] = confirmed[i]
  BY <1>2 DEF Guarded
<1>4. made \in Nat /\ \A c \in checkpoints : c.id \in Nat /\ c.id <= made
  BY NetworkAssumption DEF TypeOK, Unique, Checkpoints, Ids
<1>5. \A c \in checkpoints' : c \in checkpoints \/ c = n
  OBVIOUS
<1>. HIDE DEF n
<1>6. Unique'
  BY <1>1, <1>2, <1>4, <1>5 DEF Unique
<1>7. Guarded'
  BY <1>1, <1>3, <1>5 DEF Guarded
<1>. QED BY <1>6, <1>7

\* A rollback gives the interface its confirmed settings back.
LEMMA RestoreCheckpoint ==
  ASSUME TypeOK, Unique, Guarded, NEW c \in checkpoints,
         config' = Restored(c), checkpoints' = checkpoints \ {c},
         UNCHANGED <<made, confirmed>>
  PROVE  Unique' /\ Guarded'
<1>1. Unique'
  BY DEF Unique
<1>2. config'[c.interface] = confirmed[c.interface] /\ c.interface \in Interfaces
  BY DEF Restored, Guarded, TypeOK, Checkpoints
<1>3. \A i \in Interfaces : i # c.interface => config'[i] = config[i]
  BY DEF Restored, TypeOK
<1>4. ASSUME NEW i \in Interfaces, config'[i] # confirmed'[i]
      PROVE  \E d \in checkpoints' : d.interface = i
  <2>1. i # c.interface /\ config[i] # confirmed[i]
    BY <1>2, <1>3, <1>4
  <2>. QED BY <2>1 DEF Guarded
<1>5. \A d \in checkpoints' : d.saved = confirmed'[d.interface]
  BY DEF Guarded
<1>. QED BY <1>1, <1>4, <1>5 DEF Guarded

\* CheckpointDestroy makes the present settings the confirmed ones.
LEMMA KeepCheckpoint ==
  ASSUME TypeOK, Unique, Guarded, NEW c \in checkpoints, Kept(c), UNCHANGED <<config, made>>
  PROVE  Unique' /\ Guarded'
<1>1. /\ checkpoints' = checkpoints \ {c} /\ c.interface \in Interfaces
      /\ confirmed' = [confirmed EXCEPT ![c.interface] = config[c.interface]]
  BY DEF Kept, TypeOK, Checkpoints
<1>2. Unique'
  BY <1>1 DEF Unique
<1>3. confirmed'[c.interface] = config[c.interface]
  BY <1>1 DEF TypeOK
<1>4. \A i \in Interfaces : i # c.interface => confirmed'[i] = confirmed[i]
  BY <1>1 DEF TypeOK
<1>5. \A d \in checkpoints' : d \in checkpoints /\ d.interface # c.interface /\ d.interface \in Interfaces
  BY <1>1 DEF Unique, TypeOK, Checkpoints
<1>6. ASSUME NEW i \in Interfaces, config'[i] # confirmed'[i]
      PROVE  \E d \in checkpoints' : d.interface = i
  <2>1. i # c.interface /\ config[i] # confirmed[i]
    BY <1>3, <1>4, <1>6
  <2>. QED BY <1>1, <2>1 DEF Guarded
<1>7. \A d \in checkpoints' : d.saved = confirmed'[d.interface]
  BY <1>4, <1>5 DEF Guarded
<1>. QED BY <1>2, <1>6, <1>7 DEF Guarded

\* Every step keeps each unconfirmed change guarded.
LEMMA GuardStep ==
  TypeOK /\ WellFormed /\ Numbers /\ Covered /\ Guarded /\ [Next]_vars
    => Numbers' /\ Covered' /\ Guarded'
<1>. SUFFICES ASSUME TypeOK, WellFormed, Numbers, Covered, Guarded, [Next]_vars
              PROVE  Numbers' /\ Covered' /\ Guarded'
  OBVIOUS
<1>. USE DEF networkVars
<1>0. agent \in Requests /\ Unique /\ made \in Nat
  BY NetworkAssumption DEF TypeOK, Numbers
<1>1. CASE UNCHANGED vars \/ Tick
  BY <1>1 DEF vars, Tick, Numbers, Unique, Covered, Guarded
<1>2. ASSUME NEW a \in Admins, Dashboard(a) PROVE Numbers' /\ Covered' /\ Guarded'
  BY <1>2, DashboardKeeps DEF Numbers, Unique, Covered, Guarded
<1>3. CASE Receive \/ Check \/ Lookup
  <2>1. UNCHANGED networkVars
    BY <1>3 DEF Receive, Check, Lookup
  <2>2. agent'.step \notin Numbered
    <3>1. CASE Receive
      <4>1. agent' = inbox[1] /\ 1 \in DOMAIN inbox
        <5>1. inbox \in Seq(Requests) /\ inbox # <<>> /\ agent' = Head(inbox)
          BY <3>1 DEF Receive, TypeOK
        <5>. QED BY <5>1, EmptySeq, HeadTailProperties
      <4>. QED BY <4>1 DEF WellFormed, Numbered
    <3>2. CASE Check \/ Lookup
      BY <1>0, <3>2 DEF Check, Lookup, Go, Answer, Resting, Numbered, Requests
    <3>. QED BY <1>3, <3>1, <3>2
  <2>. QED BY <1>0, <2>1, <2>2 DEF Numbers, Numbered, Unique, Covered, Guarded
<1>4. CASE Create
  <2>1. agent.interface \in Interfaces
    BY <1>4 DEF Create, At, WellFormed, Changing, Applicable
  <2>2. Unique' /\ Guarded'
    BY <1>0, <1>4, <2>1, NewCheckpoint DEF Create
  <2>3. agent'.id = made + 1 /\ agent'.interface = agent.interface /\ made' = made + 1
    BY <1>0, <1>4 DEF Create, Requests
  <2>4. CheckpointOf(agent.interface) \in checkpoints'
    BY <1>4 DEF Create
  <2>5. Covered'
    BY <2>3, <2>4 DEF Covered, CheckpointOf
  <2>. QED BY <1>0, <2>2, <2>3, <2>5 DEF Numbers
<1>5. CASE CreateFails
  <2>1. agent.interface \in Interfaces
    BY <1>5 DEF CreateFails, At, WellFormed, Changing, Applicable
  <2>2. Unique' /\ Guarded'
    <3>1. CASE UNCHANGED <<checkpoints, made>>
      BY <1>0, <1>5, <3>1 DEF CreateFails, Unique, Guarded
    <3>2. CASE ~UNCHANGED <<checkpoints, made>>
      BY <1>0, <1>5, <2>1, <3>2, NewCheckpoint DEF CreateFails
    <3>. QED BY <3>1, <3>2
  <2>. QED BY <1>5, <2>2 DEF CreateFails, Answer, Resting, Numbers, Numbered, Covered
<1>6. CASE Modify \/ ModifyFails
  <2>1. agent.step = "modify" /\ agent.interface \in Interfaces
    BY <1>6 DEF Modify, ModifyFails, At, WellFormed, Changing, Applicable
  <2>2. PICK c \in checkpoints : c.id = agent.id /\ c.interface = agent.interface
    BY <2>1 DEF Covered
  <2>3. /\ UNCHANGED <<checkpoints, made, confirmed>>
        /\ \A i \in Interfaces : i # agent.interface => config'[i] = config[i]
        /\ agent'.step # "modify" /\ agent'.id = agent.id
    BY <1>0, <1>6 DEF Modify, ModifyFails, TypeOK, Go, Requests
  <2>4. Guarded'
    BY <2>2, <2>3 DEF Guarded
  <2>. QED BY <1>0, <2>1, <2>3, <2>4 DEF Numbers, Numbered, Unique, Covered
<1>7. CASE RollbackChange
  <2>1. Unique' /\ Guarded'
    <3>1. CASE UNCHANGED <<config, checkpoints>>
      BY <1>0, <1>7, <3>1 DEF RollbackChange, Unique, Guarded
    <3>2. CASE \E c \in checkpoints :
                 c.id = agent.id /\ config' = Restored(c) /\ checkpoints' = checkpoints \ {c}
      BY <1>0, <1>7, <3>2, RestoreCheckpoint DEF RollbackChange
    <3>. QED BY <1>7, <3>1, <3>2 DEF RollbackChange
  <2>. QED BY <1>7, <2>1 DEF RollbackChange, Answer, Resting, Numbers, Numbered, Covered
<1>8. CASE Register
  <2>1. UNCHANGED networkVars /\ agent' = Resting
    BY <1>8 DEF Register, Answer
  <2>. QED BY <1>0, <2>1 DEF Resting, Numbers, Numbered, Unique, Covered, Guarded
<1>9. CASE Destroy \/ DestroyFails
  <2>1. Unique' /\ Guarded'
    <3>1. CASE UNCHANGED <<checkpoints, confirmed, committed>>
      BY <1>0, <1>9, <3>1 DEF Destroy, DestroyFails, Unique, Guarded
    <3>2. CASE \E c \in checkpoints : c.id = agent.id /\ Kept(c)
      BY <1>0, <1>9, <3>2, KeepCheckpoint DEF Destroy, DestroyFails
    <3>. QED BY <1>9, <3>1, <3>2 DEF Destroy, DestroyFails
  <2>. QED BY <1>9, <2>1 DEF Destroy, DestroyFails, Answer, Resting, Numbers, Numbered, Covered
<1>10. CASE AgentRestart
  BY <1>0, <1>10, RestartKeeps DEF Resting, Numbers, Numbered, Unique, Covered, Guarded
<1>11. ASSUME NEW c \in checkpoints, Expire(c) PROVE Numbers' /\ Covered' /\ Guarded'
  <2>1. Unique' /\ Guarded'
    BY <1>0, <1>11, RestoreCheckpoint DEF Expire
  <2>2. Covered'
    BY <1>11 DEF Expire, At, Covered
  <2>. QED BY <1>11, <2>1, <2>2 DEF Expire, Numbers
<1>. QED BY <1>1, <1>2, <1>3, <1>4, <1>5, <1>6, <1>7, <1>8, <1>9, <1>10, <1>11
     DEF Next, Agent, NetworkManager

-----------------------------------------------------------------------------
\* At most one is kept by leaving some out.
LEMMA FewerPending ==
  ASSUME OneChange, IsFiniteSet(pending), pending' \subseteq pending
  PROVE  IsFiniteSet(pending') /\ OneChange'
<1>1. IsFiniteSet(pending') /\ Cardinality(pending') <= Cardinality(pending)
  BY FS_Subset
<1>2. Cardinality(pending') \in Nat /\ Cardinality(pending) \in Nat
  BY <1>1, FS_CardinalityType
<1>. QED BY <1>1, <1>2 DEF OneChange

\* Every step leaves at most one change pending, and none while the agent works.
LEMMA PendingStep ==
  TypeOK /\ WellFormed /\ Clear /\ PendingFinite /\ OneChange /\ [Next]_vars
    => Clear' /\ PendingFinite' /\ OneChange'
<1>. SUFFICES ASSUME TypeOK, WellFormed, Clear, PendingFinite, OneChange, [Next]_vars
              PROVE  Clear' /\ PendingFinite' /\ OneChange'
  OBVIOUS
<1>. USE DEF networkVars, PendingFinite
<1>0. agent \in Requests /\ Unexpired \subseteq pending
  BY DEF TypeOK, Unexpired
<1>1. CASE UNCHANGED vars \/ Tick \/ (\E c \in checkpoints : Expire(c))
  BY <1>1 DEF vars, Tick, Expire, Clear, OneChange
<1>2. ASSUME NEW a \in Admins, Dashboard(a) PROVE Clear' /\ PendingFinite' /\ OneChange'
  BY <1>2, DashboardKeeps DEF Clear, OneChange
<1>3. CASE Receive
  <2>1. agent' = inbox[1] /\ 1 \in DOMAIN inbox
    <3>1. inbox \in Seq(Requests) /\ inbox # <<>> /\ agent' = Head(inbox)
      BY <1>3 DEF Receive, TypeOK
    <3>. QED BY <3>1, EmptySeq, HeadTailProperties
  <2>. QED BY <1>3, <2>1 DEF Receive, WellFormed, Clear, Changing, OneChange
<1>4. CASE Check
  <2>1. Clear'
    <3>1. CASE ~SomePending /\ Go("create")
      BY <1>4, <3>1 DEF Check, SomePending, Clear
    <3>2. CASE Answer(Refusal)
      BY <3>2 DEF Answer, Resting, Clear, Changing
    <3>. QED BY <1>4, <3>1, <3>2 DEF Check
  <2>2. pending' \subseteq pending
    BY <1>0, <1>4 DEF Check
  <2>. QED BY <2>1, <2>2, FewerPending
<1>5. ASSUME Create \/ Modify \/ ModifyFails PROVE Clear' /\ PendingFinite' /\ OneChange'
  <2>1. agent.step \in Changing /\ pending' = pending
    BY <1>5 DEF Create, Modify, ModifyFails, At, Changing
  <2>. QED BY <2>1 DEF Clear, OneChange
<1>6. CASE CreateFails \/ RollbackChange
  BY <1>6 DEF CreateFails, RollbackChange, Answer, Resting, Clear, Changing, OneChange
<1>7. CASE Register
  <2>1. pending = {}
    BY <1>7 DEF Register, At, Clear, Changing
  <2>2. PICK t : pending' = {t}
    BY <1>7, <2>1 DEF Register
  <2>3. Cardinality({t}) = 1 /\ IsFiniteSet({t})
    BY FS_Singleton
  <2>4. agent' = Resting
    BY <1>7 DEF Register, Answer
  <2>. QED BY <2>2, <2>3, <2>4 DEF OneChange, Clear, Resting, Changing
<1>8. CASE Lookup
  <2>1. pending' \subseteq pending
    BY <1>0, <1>8 DEF Lookup
  <2>2. agent'.step \notin Changing
    BY <1>0, <1>8 DEF Lookup, Go, Answer, Resting, Changing, Requests
  <2>. QED BY <2>1, <2>2, FewerPending DEF Clear
<1>9. CASE Destroy \/ DestroyFails
  <2>1. pending' \subseteq pending /\ agent' = Resting
    BY <1>9 DEF Destroy, DestroyFails, Answer
  <2>. QED BY <2>1, FewerPending DEF Clear, Resting, Changing
<1>10. CASE AgentRestart
  BY <1>10, RestartKeeps, FewerPending DEF Clear, Resting, Changing
<1>. QED BY <1>1, <1>2, <1>3, <1>4, <1>5, <1>6, <1>7, <1>8, <1>9, <1>10
     DEF Next, Agent, NetworkManager

-----------------------------------------------------------------------------
\* With nothing asked for, the invariant holds.
LEMMA InitIInv == Init => IInv
<1>. SUFFICES ASSUME Init PROVE IInv
  OBVIOUS
<1>1. Resting \in Requests /\ Waiting \in Views /\ 0 \in Times
  BY NetworkAssumption DEF Resting, Requests, Steps, Waiting, Views, Times
<1>2. inbox \in Seq(Requests) /\ Len(inbox) = 0 /\ DOMAIN inbox = {}
  BY EmptySeq DEF Init
<1>3. TypeOK
  BY <1>1, <1>2, NetworkAssumption DEF Init, TypeOK
<1>4. PendingFinite /\ OneChange
  BY FS_EmptySet DEF Init, PendingFinite, OneChange
<1>5. WellFormed /\ Numbers /\ Covered /\ Clear /\ Guarded
  BY <1>2 DEF Init, WellFormed, Numbers, Unique, Covered, Clear, Guarded, Resting, Changing, Numbered
<1>. QED BY <1>3, <1>4, <1>5 DEF IInv

\* Every step keeps the invariant.
LEMMA NextIInv == IInv /\ [Next]_vars => IInv'
BY TypeStep, WellFormedStep, GuardStep, PendingStep DEF IInv

\* The inductive invariant, with the shape of requests and the numbering of
\* checkpoints that the other theorems need, holds in every reachable state.
THEOREM Invariance == Spec => []IInv
BY InitIInv, NextIInv, PTL DEF Spec

\* Every variable of dashboard, agent and NetworkManager keeps its type.
THEOREM TypeCorrect == Spec => []TypeOK
BY Invariance, PTL DEF IInv

\* network_agent.py, apply_network_settings: whatever fails, is lost or restarts,
\* unconfirmed settings have a checkpoint that restores the confirmed ones.
THEOREM GuardedCorrect == Spec => []Guarded
BY Invariance, PTL DEF IInv

\* _ensure_no_pending_checkpoint: one change at most waits for its confirmation,
\* although looking for one and registering one are far apart.
THEOREM OneChangeCorrect == Spec => []OneChange
BY Invariance, PTL DEF IInv

-----------------------------------------------------------------------------
\* Who is answered: a request whose sender still waits is the only one of that
\* sender, and the sender is at the step the request answers.
Confirming == {"lookup", "destroy"}
Heard(r) ==
  r.from # None =>
    /\ browser[r.from].step = IF r.step \in Confirming THEN "confirming" ELSE "applying"
    /\ r.step \in Confirming => browser[r.from].id = r.id
Alone ==
  /\ \A k \in DOMAIN inbox : inbox[k].from # None => inbox[k].from # agent.from
  /\ \A j, k \in DOMAIN inbox : j # k /\ inbox[j].from # None => inbox[j].from # inbox[k].from
Told ==
  \A a \in Admins :
    browser[a].told = "confirmed" => browser[a].step = "idle" /\ browser[a].id \in committed
Dialogue == Heard(agent) /\ (\A k \in DOMAIN inbox : Heard(inbox[k])) /\ Alone /\ Told

\* The permanent changes only ever become more.
LEMMA CommittedGrows == [Next]_vars => committed \subseteq committed'
<1>. SUFFICES ASSUME [Next]_vars PROVE committed \subseteq committed'
  OBVIOUS
<1>. USE DEF networkVars
<1>1. CASE UNCHANGED vars \/ Tick \/ (\E c \in checkpoints : Expire(c))
  BY <1>1 DEF vars, Tick, Expire
<1>2. CASE AgentRestart
  BY <1>2, RestartKeeps
<1>3. CASE \E a \in Admins : Dashboard(a)
  BY <1>3 DEF Dashboard, AskApply, AskConfirm, GiveUp, LoseAnswer
<1>4. CASE Agent
  BY <1>4 DEF Agent, Receive, Check, Create, CreateFails, Modify, ModifyFails, RollbackChange,
    Register, Lookup, Destroy, DestroyFails, Kept
<1>. QED BY <1>1, <1>2, <1>3, <1>4 DEF Next, NetworkManager

\* The sender of a request is a dashboard, or no longer there.
LEMMA Senders ==
  ASSUME TypeOK
  PROVE  agent.from \in Admins \cup {None} /\ \A k \in DOMAIN inbox : inbox[k].from \in Admins \cup {None}
<1>1. agent \in Requests /\ DOMAIN inbox = 1..Len(inbox) /\ \A k \in DOMAIN inbox : inbox[k] \in Requests
  BY DEF TypeOK
<1>. QED BY <1>1 DEF Requests

\* An answer reaches its sender only, and nobody else waits for it.
LEMMA AnswerDialogue ==
  ASSUME TypeOK, Dialogue, NEW b, Answer(b), inbox' = inbox, committed \subseteq committed',
         \A a \in Admins : a # agent.from => b[a] = browser[a],
         agent.from # None /\ b[agent.from].told = "confirmed" =>
           b[agent.from].step = "idle" /\ b[agent.from].id \in committed'
  PROVE  Dialogue'
<1>1. agent' = Resting /\ Resting.from = None
  BY DEF Answer, Resting
<1>2. \A a \in Admins : a # agent.from => browser'[a] = browser[a]
  BY DEF Answer
<1>3. \A k \in DOMAIN inbox : inbox[k].from \in Admins \cup {None}
  BY Senders
<1>4. \A k \in DOMAIN inbox' : Heard(inbox[k])'
  BY <1>2, <1>3 DEF Dialogue, Alone, Heard
<1>5. Told'
  <2>1. ASSUME NEW a \in Admins, browser'[a].told = "confirmed"
        PROVE  browser'[a].step = "idle" /\ browser'[a].id \in committed'
    <3>1. CASE a = agent.from
      <4>1. agent.from # None /\ browser' = b
        BY <3>1, NetworkAssumption DEF Answer
      <4>. QED BY <2>1, <3>1, <4>1
    <3>2. CASE a # agent.from
      BY <1>2, <2>1, <3>2 DEF Dialogue, Told
    <3>. QED BY <3>1, <3>2
  <2>. QED BY <2>1 DEF Told
<1>. QED BY <1>1, <1>4, <1>5 DEF Dialogue, Heard, Alone

\* Tell changes the view of one dashboard.
LEMMA TellOne ==
  ASSUME TypeOK, NEW a \in Admins, NEW what
  PROVE  /\ \A d \in Admins : d # a => Tell(a, what)[d] = browser[d]
         /\ Tell(a, what)[a].step = "idle" /\ Tell(a, what)[a].told = what
         /\ Tell(a, what)[a].id = browser[a].id
BY DEF Tell, TypeOK, Views

\* A refusal confirms nothing.
LEMMA RefusalDialogue ==
  ASSUME TypeOK, Dialogue, Answer(Refusal), inbox' = inbox, committed \subseteq committed'
  PROVE  Dialogue'
<1>1. CASE agent.from = None
  <2>1. Answer(browser)
    BY <1>1 DEF Answer
  <2>. QED BY <1>1, <2>1, AnswerDialogue
<1>2. CASE agent.from # None
  <2>1. agent.from \in Admins
    BY <1>2 DEF TypeOK, Requests
  <2>2. PICK what \in {"failed", "restored"} : Refusal = Tell(agent.from, what)
    BY DEF Refusal
  <2>3. Answer(Tell(agent.from, what))
    BY <2>2
  <2>4. /\ \A d \in Admins : d # agent.from => Tell(agent.from, what)[d] = browser[d]
        /\ Tell(agent.from, what)[agent.from].told # "confirmed"
    BY <2>1, <2>2, TellOne
  <2>. QED BY <2>3, <2>4, AnswerDialogue
<1>. QED BY <1>1, <1>2

\* The agent goes on with the same request.
LEMMA GoDialogue ==
  ASSUME TypeOK, Dialogue, UNCHANGED <<browser, inbox>>, committed \subseteq committed',
         agent'.from = agent.from,
         agent.step \in Confirming => agent'.step \in Confirming /\ agent'.id = agent.id,
         agent.step \notin Confirming => agent'.step \notin Confirming
  PROVE  Dialogue'
<1>1. Heard(agent)'
  BY DEF Dialogue, Heard
<1>2. \A k \in DOMAIN inbox' : Heard(inbox[k])'
  BY DEF Dialogue, Heard
<1>. QED BY <1>1, <1>2 DEF Dialogue, Alone, Told

\* The agent answers the dashboard that asked, and confirms what is permanent.
LEMMA AgentDialogue ==
  ASSUME TypeOK, WellFormed, Dialogue, Agent, committed \subseteq committed'
  PROVE  Dialogue'
<1>. USE DEF networkVars
<1>0. /\ agent \in Requests /\ inbox \in Seq(Requests) /\ Len(inbox) \in Nat
      /\ DOMAIN inbox = 1..Len(inbox)
      /\ agent.from # None => agent.from \in Admins
  BY DEF TypeOK, Requests
<1>1. CASE Receive
  <2>1. inbox # <<>> /\ agent' = Head(inbox) /\ inbox' = Tail(inbox) /\ browser' = browser
    BY <1>1 DEF Receive
  <2>2. agent' = inbox[1] /\ 1 \in DOMAIN inbox
    BY <1>0, <2>1, EmptySeq, HeadTailProperties
  <2>3. \A k \in DOMAIN inbox' : k + 1 \in DOMAIN inbox /\ k + 1 # 1 /\ inbox'[k] = inbox[k + 1]
    BY <1>0, <2>1, EmptySeq, HeadTailProperties
  <2>4. \A j, k \in DOMAIN inbox' : j # k => j + 1 # k + 1
    BY <1>0, <2>1, EmptySeq, HeadTailProperties
  <2>5. Heard(agent)' /\ \A k \in DOMAIN inbox' : Heard(inbox[k])'
    BY <2>1, <2>2, <2>3 DEF Dialogue, Heard
  <2>6. Alone'
    BY <2>2, <2>3, <2>4 DEF Dialogue, Alone
  <2>. QED BY <2>1, <2>5, <2>6 DEF Dialogue, Told
<1>2. CASE Check
  <2>1. CASE Go("create") /\ UNCHANGED browser
    BY <1>0, <1>2, <2>1, GoDialogue DEF Check, At, Go, Confirming, Requests
  <2>2. CASE Answer(Refusal)
    BY <1>2, <2>2, RefusalDialogue DEF Check
  <2>. QED BY <1>2, <2>1, <2>2 DEF Check
<1>3. CASE Create \/ Modify \/ ModifyFails
  <2>1. UNCHANGED <<browser, inbox>> /\ agent.step \in {"create", "modify"}
    BY <1>3 DEF Create, Modify, ModifyFails, At
  <2>2. agent'.from = agent.from /\ agent'.step \in {"modify", "register", "rollback"}
    BY <1>0, <1>3 DEF Create, Modify, ModifyFails, Go, Requests
  <2>. QED BY <2>1, <2>2, GoDialogue DEF Confirming
<1>4. CASE CreateFails \/ RollbackChange \/ DestroyFails
  BY <1>4, RefusalDialogue DEF CreateFails, RollbackChange, DestroyFails
<1>5. CASE Register
  <2>. DEFINE b == [browser EXCEPT ![agent.from] =
                     [step |-> "retry", id |-> agent.id, until |-> now + Rollback - Margin,
                      told |-> "nothing"]]
  <2>1. Answer(b) /\ inbox' = inbox
    BY <1>5 DEF Register
  <2>2. \A a \in Admins : a # agent.from => b[a] = browser[a]
    BY DEF TypeOK
  <2>3. agent.from # None => b[agent.from].told = "nothing"
    BY <1>0 DEF TypeOK
  <2>. HIDE DEF b
  <2>. QED BY <2>1, <2>2, <2>3, AnswerDialogue
<1>6. CASE Lookup
  <2>1. CASE Go("destroy") /\ UNCHANGED browser
    BY <1>0, <1>6, <2>1, GoDialogue DEF Lookup, At, Go, Confirming, Requests
  <2>2. CASE Answer(Refusal)
    BY <1>6, <2>2, RefusalDialogue DEF Lookup
  <2>. QED BY <1>6, <2>1, <2>2 DEF Lookup
<1>7. CASE Destroy
  <2>1. agent.step = "destroy" /\ inbox' = inbox /\ Answer(Tell(agent.from, "confirmed"))
    BY <1>7 DEF Destroy, At
  <2>2. agent.id \in committed'
    BY <1>7 DEF Destroy, Kept
  <2>3. CASE agent.from = None
    <3>1. Answer(browser)
      BY <2>1, <2>3 DEF Answer
    <3>. QED BY <2>1, <2>3, <3>1, AnswerDialogue
  <2>4. CASE agent.from # None
    <3>1. browser[agent.from].id = agent.id
      BY <2>1, <2>4 DEF Dialogue, Heard, Confirming
    <3>2. /\ \A d \in Admins : d # agent.from => Tell(agent.from, "confirmed")[d] = browser[d]
          /\ Tell(agent.from, "confirmed")[agent.from].step = "idle"
          /\ Tell(agent.from, "confirmed")[agent.from].id = agent.id
      BY <1>0, <2>4, <3>1, TellOne
    <3>. QED BY <2>1, <2>2, <3>2, AnswerDialogue
  <2>. QED BY <2>3, <2>4
<1>. QED BY <1>1, <1>2, <1>3, <1>4, <1>5, <1>6, <1>7 DEF Agent

\* A dashboard that waits for nothing has nothing on its way.
LEMMA NothingSent ==
  ASSUME TypeOK, Dialogue, NEW a \in Admins, browser[a].step \in {"idle", "retry"}
  PROVE  agent.from # a /\ \A k \in DOMAIN inbox : inbox[k].from # a
BY NetworkAssumption DEF Dialogue, Heard

\* A dashboard that waits for nothing sends a request.
LEMMA SendDialogue ==
  ASSUME TypeOK, Dialogue, NEW a \in Admins, NEW r \in Requests, Send(r), r.from = a,
         browser[a].step \in {"idle", "retry"},
         UNCHANGED <<agent, committed>>,
         \A d \in Admins : d # a => browser'[d] = browser[d],
         browser'[a].told # "confirmed",
         browser'[a].step = IF r.step \in Confirming THEN "confirming" ELSE "applying",
         r.step \in Confirming => browser'[a].id = r.id
  PROVE  Dialogue'
<1>0. /\ DOMAIN inbox' = 1..Len(inbox') /\ DOMAIN inbox = 1..Len(inbox)
      /\ Len(inbox) \in Nat
  BY SendTypes DEF TypeOK
<1>1. /\ Len(inbox') = Len(inbox) + 1 /\ inbox'[Len(inbox')] = r
      /\ \A k \in DOMAIN inbox' : k = Len(inbox') \/ (k \in DOMAIN inbox /\ inbox'[k] = inbox[k])
  BY SendTypes
<1>2. agent.from # a /\ \A k \in DOMAIN inbox : inbox[k].from # a
  BY NothingSent
<1>3. /\ agent.from \in Admins \cup {None}
      /\ \A k \in DOMAIN inbox : inbox[k].from \in Admins \cup {None}
  BY Senders
<1>4. Heard(agent)'
  BY <1>2, <1>3 DEF Dialogue, Heard
<1>5. Heard(r)'
  BY DEF Heard
<1>6. \A k \in DOMAIN inbox : Heard(inbox[k])'
  <2>. SUFFICES ASSUME NEW k \in DOMAIN inbox, inbox'[k].from # None, inbox'[k] = inbox[k]
                PROVE  Heard(inbox[k])'
    <3>1. \A k \in DOMAIN inbox : k \in DOMAIN inbox' /\ k # Len(inbox')
      BY <1>0, <1>1
    <3>. QED BY <1>1, <3>1 DEF Heard
  <2>. QED BY <1>2, <1>3 DEF Dialogue, Heard
<1>7. \A k \in DOMAIN inbox' : Heard(inbox[k])'
  BY <1>1, <1>5, <1>6 DEF Heard
<1>8. Alone'
  BY <1>1, <1>2 DEF Dialogue, Alone
<1>9. Told'
  BY DEF Dialogue, Told
<1>. QED BY <1>4, <1>7, <1>8, <1>9 DEF Dialogue

\* The steps of a dashboard keep the dialogue.
LEMMA DashboardDialogue ==
  ASSUME TypeOK, Dialogue, NEW a \in Admins, Dashboard(a)
  PROVE  Dialogue'
<1>. USE DEF networkVars
<1>0. /\ agent \in Requests /\ DOMAIN inbox = 1..Len(inbox) /\ browser[a] \in Views
      /\ \A k \in DOMAIN inbox : inbox[k] \in Requests
  BY DEF TypeOK
<1>1. ASSUME NEW i \in Interfaces, NEW s \in Settings, AskApply(a, i, s) PROVE Dialogue'
  <2>1. ApplyRequest(a, i, s) \in Requests
    BY NetworkAssumption DEF Requests, ApplyRequest, Steps
  <2>2. /\ ApplyRequest(a, i, s).from = a /\ ApplyRequest(a, i, s).step \notin Confirming
        /\ Send(ApplyRequest(a, i, s)) /\ browser[a].step = "idle"
        /\ UNCHANGED <<agent, committed>>
    BY <1>1 DEF ApplyRequest, Confirming, AskApply
  <2>3. browser'[a].step = "applying" /\ browser'[a].told = "nothing"
    BY <1>1 DEF AskApply, TypeOK, Waiting
  <2>4. \A d \in Admins : d # a => browser'[d] = browser[d]
    BY <1>1 DEF AskApply, TypeOK
  <2>. QED BY <2>1, <2>2, <2>3, <2>4, SendDialogue
<1>2. CASE AskConfirm(a)
  <2>1. ConfirmRequest(a) \in Requests
    BY <1>0 DEF Requests, ConfirmRequest, Steps, Views
  <2>2. /\ ConfirmRequest(a).from = a /\ ConfirmRequest(a).step \in Confirming
        /\ ConfirmRequest(a).id = browser[a].id
        /\ Send(ConfirmRequest(a)) /\ browser[a].step = "retry"
        /\ UNCHANGED <<agent, committed>>
    BY <1>2 DEF ConfirmRequest, Confirming, AskConfirm
  <2>3. /\ browser'[a].step = "confirming" /\ browser'[a].told = browser[a].told
        /\ browser'[a].id = browser[a].id
    BY <1>0, <1>2 DEF AskConfirm, TypeOK, Views
  <2>4. browser[a].told # "confirmed"
    BY <2>2 DEF Dialogue, Told
  <2>5. \A d \in Admins : d # a => browser'[d] = browser[d]
    BY <1>2 DEF AskConfirm, TypeOK
  <2>. QED BY <2>1, <2>2, <2>3, <2>4, <2>5, SendDialogue
<1>3. CASE GiveUp(a)
  <2>1. agent.from # a /\ \A k \in DOMAIN inbox : inbox[k].from # a
    BY <1>3, NothingSent DEF GiveUp
  <2>2. UNCHANGED <<inbox, agent, committed>> /\ browser' = Tell(a, "restored")
    BY <1>3 DEF GiveUp
  <2>3. browser'[a].told = "restored" /\ \A d \in Admins : d # a => browser'[d] = browser[d]
    BY <2>2, TellOne
  <2>4. agent.from \in Admins \cup {None} /\ \A k \in DOMAIN inbox : inbox[k].from \in Admins \cup {None}
    BY Senders
  <2>5. Heard(agent)' /\ \A k \in DOMAIN inbox' : Heard(inbox[k])'
    BY <2>1, <2>2, <2>3, <2>4 DEF Dialogue, Heard
  <2>. QED BY <2>2, <2>3, <2>5 DEF Dialogue, Alone, Told
<1>4. CASE LoseAnswer(a)
  <2>1. /\ agent' = Unheard(a, agent) /\ DOMAIN inbox' = DOMAIN inbox
        /\ \A k \in DOMAIN inbox : inbox'[k] = Unheard(a, inbox[k])
        /\ committed' = committed
    BY <1>0, <1>4 DEF LoseAnswer
  <2>2. /\ agent'.step = agent.step /\ agent'.id = agent.id
        /\ agent'.from = IF agent.from = a THEN None ELSE agent.from
    BY <1>0, <2>1, UnheardTypes
  <2>3. \A k \in DOMAIN inbox :
          /\ inbox'[k].step = inbox[k].step /\ inbox'[k].id = inbox[k].id
          /\ inbox'[k].from = IF inbox[k].from = a THEN None ELSE inbox[k].from
    BY <1>0, <2>1, UnheardTypes
  <2>4. \A d \in Admins : d # a => browser'[d] = browser[d]
    <3>1. CASE browser' = Tell(a, "failed")
      BY <3>1, TellOne
    <3>2. CASE browser' = [browser EXCEPT ![a].step = "retry"]
      BY <3>2 DEF TypeOK
    <3>. QED BY <1>4, <3>1, <3>2 DEF LoseAnswer
  <2>5. browser'[a].told # "confirmed"
    <3>1. CASE browser' = Tell(a, "failed")
      BY <3>1, TellOne
    <3>2. CASE browser[a].step = "confirming" /\ browser' = [browser EXCEPT ![a].step = "retry"]
      BY <1>0, <3>2 DEF TypeOK, Dialogue, Told, Views
    <3>. QED BY <1>4, <3>1, <3>2 DEF LoseAnswer
  <2>6. agent.from \in Admins \cup {None} /\ \A k \in DOMAIN inbox : inbox[k].from \in Admins \cup {None}
    BY Senders
  <2>7. Heard(agent)'
    BY <2>2, <2>4, <2>6 DEF Dialogue, Heard
  <2>8. \A k \in DOMAIN inbox' : Heard(inbox[k])'
    BY <2>1, <2>3, <2>4, <2>6 DEF Dialogue, Heard
  <2>9. Alone'
    BY <2>1, <2>2, <2>3 DEF Dialogue, Alone
  <2>10. Told'
    BY <2>1, <2>4, <2>5 DEF Dialogue, Told
  <2>. QED BY <2>7, <2>8, <2>9, <2>10 DEF Dialogue
<1>. QED BY <1>1, <1>2, <1>3, <1>4 DEF Dashboard

\* Every step keeps the dialogue.
LEMMA DialogueStep == TypeOK /\ WellFormed /\ Dialogue /\ [Next]_vars => Dialogue'
<1>. SUFFICES ASSUME TypeOK, WellFormed, Dialogue, [Next]_vars PROVE Dialogue'
  OBVIOUS
<1>. USE DEF networkVars
<1>0. committed \subseteq committed'
  BY CommittedGrows
<1>1. CASE UNCHANGED vars \/ Tick \/ (\E c \in checkpoints : Expire(c))
  <2>1. UNCHANGED <<browser, inbox, agent, committed>>
    BY <1>1 DEF vars, Tick, Expire
  <2>. QED BY <2>1 DEF Dialogue, Heard, Alone, Told
<1>2. ASSUME NEW a \in Admins, Dashboard(a) PROVE Dialogue'
  BY <1>2, DashboardDialogue
<1>3. CASE Agent
  BY <1>0, <1>3, AgentDialogue
<1>4. CASE AgentRestart
  <2>1. agent'.from = None /\ DOMAIN inbox' = {}
    BY <1>4, RestartKeeps DEF Resting
  <2>2. Told'
    <3>1. \A a \in Admins :
            browser'[a].told = "confirmed" =>
              browser'[a] = browser[a] /\ browser[a].told = "confirmed"
      BY <1>4 DEF AgentRestart, TypeOK, Dialogue, Told, Views
    <3>. QED BY <1>0, <3>1 DEF Dialogue, Told
  <2>. QED BY <2>1, <2>2 DEF Dialogue, Heard, Alone
<1>. QED BY <1>1, <1>2, <1>3, <1>4 DEF Next, NetworkManager

\* dashboard-network.js, "Network settings applied and confirmed.": whatever
\* answers were lost before and whoever else changes the network, the change
\* is permanent.
THEOREM SuccessIsTrue == Spec => []TruthfulSuccess
<1>1. Init => Dialogue
  <2>1. Init => DOMAIN inbox = {} /\ agent.from = None /\ \A a \in Admins : browser[a].told = "nothing"
    BY EmptySeq DEF Init, Resting, Waiting
  <2>. QED BY <2>1 DEF Dialogue, Heard, Alone, Told
<1>2. IInv => TypeOK /\ WellFormed
  BY DEF IInv
<1>3. Dialogue => TruthfulSuccess
  BY DEF Dialogue, Told, TruthfulSuccess
<1>. QED BY <1>1, <1>2, <1>3, DialogueStep, Invariance, PTL DEF Spec

-----------------------------------------------------------------------------
\* What the mapping to CommitConfirmed shows of every interface: the phase of
\* its checkpoint and the settings it saved, or settled ones.
Shows ==
  /\ Phase = [i \in Interfaces |-> Phase[i]] /\ Permanent = [i \in Interfaces |-> Permanent[i]]
  /\ \A c \in checkpoints :
       c.interface \in Interfaces
         => Phase[c.interface] = PhaseOf(c) /\ Permanent[c.interface] = c.saved
  /\ \A i \in Interfaces :
       (\A c \in checkpoints : c.interface # i) => Phase[i] = "settled" /\ Permanent[i] = config[i]

LEMMA Shown == Unique => Shows
<1>. SUFFICES ASSUME Unique PROVE Shows
  OBVIOUS
<1>1. \A c \in checkpoints : CheckpointOn(c.interface) = c /\ Checked(c.interface)
  BY DEF Unique, CheckpointOn, Checked
<1>2. \A i \in Interfaces : (\A c \in checkpoints : c.interface # i) => ~Checked(i)
  BY DEF Checked
<1>3. Phase = [i \in Interfaces |-> IF Checked(i) THEN PhaseOf(CheckpointOn(i)) ELSE "settled"]
  BY DEF Phase
<1>4. Permanent = [i \in Interfaces |-> IF Checked(i) THEN CheckpointOn(i).saved ELSE config[i]]
  BY DEF Permanent
<1>. QED BY <1>1, <1>2, <1>3, <1>4 DEF Shows

LEMMA ShownNext == Unique' => Shows'
BY Shown, PTL

\* Every checkpoint has one of the three phases of a change.
LEMMA Phases == \A c : PhaseOf(c) \in {"trial", "offered", "doomed"}
BY DEF PhaseOf

\* A step that takes no checkpoint and no settings away only dooms changes.
LEMMA Dropped ==
  ASSUME TypeOK, Shows, Shows', UNCHANGED <<config, checkpoints>>,
         \A c \in checkpoints :
           PhaseOf(c)' = PhaseOf(c) \/ (PhaseOf(c) # "doomed" /\ PhaseOf(c)' = "doomed")
  PROVE  Commit!Next
<1>. DEFINE lost == {i \in Interfaces : Phase'[i] # Phase[i]}
<1>1. ASSUME NEW i \in Interfaces
      PROVE  /\ Permanent'[i] = Permanent[i]
             /\ Phase'[i] = Phase[i] \/ (Phase[i] \in {"trial", "offered"} /\ Phase'[i] = "doomed")
  <2>1. CASE \E c \in checkpoints : c.interface = i
    BY <2>1, Phases DEF Shows
  <2>2. CASE \A c \in checkpoints : c.interface # i
    BY <2>2 DEF Shows
  <2>. QED BY <2>1, <2>2
<1>2. \A i \in lost : Phase[i] \in {"trial", "offered"} /\ Phase'[i] = "doomed"
  BY <1>1
<1>3. Phase' = [i \in Interfaces |-> IF i \in lost THEN "doomed" ELSE Phase[i]]
  BY <1>2 DEF Shows
<1>4. Permanent' = Permanent
  BY <1>1 DEF Shows
<1>. HIDE DEF lost
<1>5. Commit!Drop(lost)
  BY <1>2, <1>3, <1>4 DEF Commit!Drop
<1>6. lost \in SUBSET Interfaces
  BY DEF lost
<1>. QED BY <1>5, <1>6 DEF Commit!Next

\* A checkpoint more opens a change, and it saves what is running.
LEMMA Opened ==
  ASSUME TypeOK, Shows, Shows', NEW i \in Interfaces, MayCheckpoint(i),
         NEW n, n = CheckpointOf(i), checkpoints' = checkpoints \cup {n}, UNCHANGED config,
         PhaseOf(n)' # "offered", \A c \in checkpoints : PhaseOf(c)' = PhaseOf(c)
  PROVE  Commit!Next
<1>1. n.interface = i /\ n.saved = config[i]
  BY DEF CheckpointOf
<1>2. \A c \in checkpoints : c.interface # i
  BY DEF MayCheckpoint
<1>3. Phase[i] = "settled" /\ Permanent[i] = config[i]
  BY <1>2 DEF Shows
<1>4. n \in checkpoints' /\ \A c \in checkpoints' : c \in checkpoints \/ c = n
  OBVIOUS
<1>5. Permanent'[i] = config[i] /\ Phase'[i] = PhaseOf(n)'
  BY <1>1, <1>4 DEF Shows
<1>. DEFINE p == PhaseOf(n)'
<1>6. p \in {"trial", "doomed"}
  BY DEF PhaseOf
<1>7. ASSUME NEW j \in Interfaces, j # i
      PROVE  Permanent'[j] = Permanent[j] /\ Phase'[j] = Phase[j]
  <2>1. CASE \E c \in checkpoints : c.interface = j
    BY <1>4, <2>1 DEF Shows
  <2>2. CASE \A c \in checkpoints : c.interface # j
    BY <1>1, <1>4, <1>7, <2>2 DEF Shows
  <2>. QED BY <2>1, <2>2
<1>8. Permanent' = Permanent
  BY <1>3, <1>5, <1>7 DEF Shows
<1>9. Phase' = [Phase EXCEPT ![i] = p]
  BY <1>5, <1>7 DEF Shows
<1>. HIDE DEF p
<1>10. Commit!Open(i)
  BY <1>3, <1>6, <1>8, <1>9 DEF Commit!Open
<1>. QED BY <1>10 DEF Commit!Next

\* A checkpoint less settles its interface: on the settings that were offered,
\* or on the permanent ones.
LEMMA Settled ==
  ASSUME TypeOK, Unique, Shows, Shows', NEW c \in checkpoints, checkpoints' = checkpoints \ {c},
         \A d \in checkpoints \ {c} : PhaseOf(d)' = PhaseOf(d),
         \/ config' = config /\ PhaseOf(c) = "offered"
         \/ config' = Restored(c)
  PROVE  Commit!Next
<1>. DEFINE i == c.interface
<1>1. i \in Interfaces /\ c.saved \in Settings
  BY DEF TypeOK, Checkpoints
<1>2. Phase[i] = PhaseOf(c) /\ Permanent[i] = c.saved
  BY <1>1 DEF Shows
<1>3. \A d \in checkpoints' : d \in checkpoints /\ d # c /\ d.interface # i
  BY DEF Unique
<1>. HIDE DEF i
<1>4. Phase'[i] = "settled" /\ Permanent'[i] = config'[i]
  BY <1>1, <1>3 DEF Shows
<1>5. \A j \in Interfaces : j # i => config'[j] = config[j]
  BY DEF Restored, TypeOK, i
<1>6. ASSUME NEW j \in Interfaces, j # i
      PROVE  Permanent'[j] = Permanent[j] /\ Phase'[j] = Phase[j]
  <2>1. \A d \in checkpoints : d.interface = j => d \in checkpoints' /\ d \in checkpoints \ {c}
    BY <1>6 DEF i
  <2>2. CASE \E d \in checkpoints : d.interface = j
    BY <2>1, <2>2 DEF Shows
  <2>3. CASE \A d \in checkpoints : d.interface # j
    BY <1>3, <1>5, <1>6, <2>3 DEF Shows
  <2>. QED BY <2>2, <2>3
<1>7. Phase' = [Phase EXCEPT ![i] = "settled"]
  BY <1>1, <1>4, <1>6 DEF Shows
<1>8. CASE config' = config /\ PhaseOf(c) = "offered"
  <2>1. Permanent' = [Permanent EXCEPT ![i] = config[i]]
    BY <1>1, <1>4, <1>6, <1>8 DEF Shows
  <2>2. Commit!Keep(i)
    BY <1>2, <1>7, <1>8, <2>1 DEF Commit!Keep
  <2>. QED BY <1>1, <2>2 DEF Commit!Next
<1>9. CASE config' = Restored(c)
  <2>1. config' = [config EXCEPT ![i] = Permanent[i]]
    BY <1>2, <1>9 DEF Restored, i
  <2>2. Permanent'[i] = Permanent[i]
    BY <1>1, <1>4, <2>1 DEF TypeOK
  <2>3. Permanent' = Permanent
    BY <1>1, <1>6, <2>2 DEF Shows
  <2>4. Phase[i] # "settled"
    BY <1>2, Phases
  <2>5. Commit!Undo(i)
    BY <1>7, <2>1, <2>3, <2>4 DEF Commit!Undo
  <2>. QED BY <1>1, <2>5 DEF Commit!Next
<1>. QED BY <1>8, <1>9

\* The settings of an interface that has a checkpoint are tried, or what was
\* tried is offered.
LEMMA Tried ==
  ASSUME TypeOK, Unique, Shows, Shows', NEW c \in checkpoints, UNCHANGED checkpoints,
         \A d \in checkpoints \ {c} : PhaseOf(d)' = PhaseOf(d), PhaseOf(c) = "trial",
         \/ /\ \E s \in Settings : config' = [config EXCEPT ![c.interface] = s]
            /\ PhaseOf(c)' # "offered"
         \/ config' = config /\ PhaseOf(c)' = "offered"
  PROVE  Commit!Next
<1>. DEFINE i == c.interface
<1>1. i \in Interfaces
  BY DEF TypeOK, Checkpoints
<1>2. Phase[i] = "trial" /\ Phase'[i] = PhaseOf(c)' /\ Permanent'[i] = Permanent[i]
  BY <1>1 DEF Shows
<1>3. \A d \in checkpoints : d # c => d.interface # i
  BY DEF Unique
<1>4. \A j \in Interfaces : j # i => config'[j] = config[j]
  BY DEF TypeOK
<1>. HIDE DEF i
<1>5. ASSUME NEW j \in Interfaces, j # i
      PROVE  Permanent'[j] = Permanent[j] /\ Phase'[j] = Phase[j]
  <2>1. CASE \E d \in checkpoints : d.interface = j
    <3>1. PICK d \in checkpoints : d.interface = j
      BY <2>1
    <3>2. d \in checkpoints \ {c}
      BY <1>5, <3>1 DEF i
    <3>. QED BY <3>1, <3>2 DEF Shows
  <2>2. CASE \A d \in checkpoints : d.interface # j
    BY <1>4, <1>5, <2>2 DEF Shows
  <2>. QED BY <2>1, <2>2
<1>6. Permanent' = Permanent
  BY <1>2, <1>5 DEF Shows
<1>. DEFINE p == PhaseOf(c)'
<1>7. p \in {"trial", "offered", "doomed"}
  BY DEF PhaseOf
<1>8. Phase' = [Phase EXCEPT ![i] = p]
  BY <1>2, <1>5 DEF Shows
<1>9. ASSUME NEW s \in Settings, config' = [config EXCEPT ![i] = s], p # "offered"
      PROVE  Commit!Next
  <2>. HIDE DEF p
  <2>1. Commit!Try(i, s)
    BY <1>2, <1>6, <1>7, <1>8, <1>9 DEF Commit!Try
  <2>. QED BY <1>1, <2>1 DEF Commit!Next
<1>10. CASE config' = config /\ p = "offered"
  <2>1. Commit!Offer(i)
    BY <1>2, <1>6, <1>8, <1>10 DEF Commit!Offer
  <2>. QED BY <1>1, <2>1 DEF Commit!Next
<1>. QED BY <1>9, <1>10 DEF i

-----------------------------------------------------------------------------
\* Requests that are no change any more only lose tokens, and a token that is
\* looked up successfully is one of those.
LEMMA RequestCommits ==
  ASSUME IInv, Shows, Shows', Receive \/ Check \/ Lookup
  PROVE  Commit!Next
<1>. USE DEF networkVars
<1>0. TypeOK /\ agent \in Requests /\ agent.step \in {"idle", "check", "lookup"}
  BY DEF IInv, TypeOK, Receive, Check, Lookup, At
<1>1. UNCHANGED <<config, checkpoints>> /\ pending' \subseteq pending
  BY DEF Receive, Check, Lookup, Unexpired
<1>2. /\ agent'.step \notin {"modify", "register"}
      /\ agent'.step = "destroy" => \E t \in pending' : t.id = agent'.id
  <2>1. CASE Receive
    <3>1. inbox \in Seq(Requests) /\ inbox # <<>> /\ agent' = Head(inbox)
      BY <1>0, <2>1 DEF Receive, TypeOK
    <3>2. agent' = inbox[1] /\ 1 \in DOMAIN inbox
      BY <3>1, EmptySeq, HeadTailProperties
    <3>. QED BY <3>2 DEF IInv, WellFormed
  <2>2. CASE Check
    BY <1>0, <2>2 DEF Check, Go, Answer, Resting, Requests
  <2>3. CASE Lookup
    BY <1>0, <2>3 DEF Lookup, Go, Answer, Resting, Requests
  <2>. QED BY <2>1, <2>2, <2>3
<1>3. ASSUME NEW c \in checkpoints
      PROVE  PhaseOf(c)' = PhaseOf(c) \/ (PhaseOf(c) # "doomed" /\ PhaseOf(c)' = "doomed")
  BY <1>0, <1>1, <1>2 DEF PhaseOf, At
<1>. QED BY <1>0, <1>1, <1>3, Dropped

\* A new checkpoint opens a change; a failed request leaves a doomed one.
LEMMA CreateCommits ==
  ASSUME IInv, Shows, Shows', Create \/ CreateFails
  PROVE  Commit!Next
<1>0. TypeOK /\ agent \in Requests /\ agent.step = "create" /\ pending = {} /\ pending' = pending
  BY DEF IInv, TypeOK, Create, CreateFails, At, Clear, Changing
<1>1. agent.interface \in Interfaces /\ config' = config
  BY <1>0 DEF IInv, WellFormed, Applicable, Changing, Create, CreateFails
<1>2. /\ made \in Nat
      /\ \A c \in checkpoints : c.id \in Nat /\ c.id <= made /\ PhaseOf(c) = "doomed"
  BY <1>0, NetworkAssumption DEF IInv, TypeOK, Checkpoints, Ids, Numbers, Unique, PhaseOf, At
<1>3. PICK n : n = CheckpointOf(agent.interface)
  OBVIOUS
<1>4. agent'.step \in {"modify", "idle"} /\ (agent'.step = "modify" => agent'.id = made + 1)
  <2>1. CASE Create
    <3>1. agent' = [agent EXCEPT !.step = "modify", !.id = made + 1]
      BY <2>1 DEF Create
    <3>. QED BY <1>0, <3>1 DEF Requests
  <2>2. CASE CreateFails
    BY <2>2 DEF CreateFails, Answer, Resting
  <2>. QED BY <2>1, <2>2
<1>5. \A c \in checkpoints : PhaseOf(c)' = PhaseOf(c)
  <2>1. \A c \in checkpoints : agent'.step = "modify" => agent'.id # c.id
    BY <1>2, <1>4
  <2>2. \A c \in checkpoints : PhaseOf(c)' = "doomed"
    BY <1>0, <1>4, <2>1 DEF PhaseOf, At
  <2>. QED BY <1>2, <2>2
<1>6. PhaseOf(n)' # "offered"
  BY <1>0, <1>4 DEF PhaseOf, At
<1>7. CASE MayCheckpoint(agent.interface) /\ checkpoints' = checkpoints \cup {n}
  BY <1>0, <1>1, <1>3, <1>5, <1>6, <1>7, Opened
<1>8. CASE checkpoints' = checkpoints
  BY <1>0, <1>1, <1>5, <1>8, Dropped
<1>. QED BY <1>3, <1>7, <1>8 DEF Create, CreateFails

\* The commands of a change try settings on the interface with its checkpoint.
LEMMA ModifyCommits ==
  ASSUME IInv, Shows, Shows', Modify \/ ModifyFails
  PROVE  Commit!Next
<1>0. /\ TypeOK /\ Unique /\ agent \in Requests /\ agent.step = "modify" /\ pending = {}
      /\ UNCHANGED <<checkpoints, pending>>
  BY DEF IInv, TypeOK, Numbers, Modify, ModifyFails, At, Clear, Changing
<1>1. agent.setting \in Settings
  BY <1>0 DEF IInv, WellFormed, Applicable, Changing
<1>2. PICK c \in checkpoints : c.id = agent.id /\ c.interface = agent.interface
  BY <1>0 DEF IInv, Covered
<1>3. agent'.step \in {"register", "rollback"} /\ agent'.id = agent.id
  BY <1>0 DEF Modify, ModifyFails, Go, Requests
<1>4. PhaseOf(c) = "trial" /\ PhaseOf(c)' # "offered"
  BY <1>0, <1>2, <1>3 DEF PhaseOf, At
<1>5. \A d \in checkpoints \ {c} : PhaseOf(d)' = PhaseOf(d)
  BY <1>0, <1>2, <1>3 DEF PhaseOf, At, Unique
<1>6. CASE config' = [config EXCEPT ![agent.interface] = agent.setting]
  BY <1>0, <1>1, <1>2, <1>4, <1>5, <1>6, Tried
<1>7. CASE config' = config /\ ModifyFails
  <2>1. agent'.step = "rollback"
    BY <1>0, <1>7 DEF ModifyFails, Go, Requests
  <2>2. PhaseOf(c)' = "doomed"
    BY <1>0, <2>1 DEF PhaseOf, At
  <2>. QED BY <1>0, <1>4, <1>5, <1>7, <2>2, Dropped
<1>. QED BY <1>6, <1>7 DEF Modify, ModifyFails

\* A token is an offer of what was tried, if its checkpoint is still there.
LEMMA RegisterCommits == ASSUME IInv, Shows, Shows', Register PROVE Commit!Next
<1>0. /\ TypeOK /\ Unique /\ agent \in Requests /\ agent.step = "register" /\ pending = {}
      /\ UNCHANGED <<config, checkpoints>>
  BY DEF IInv, TypeOK, Numbers, Register, networkVars, At, Clear, Changing
<1>1. agent' = Resting
  BY DEF Register, Answer
<1>2. \A c \in checkpoints : (\E t \in pending' : t.id = c.id) <=> c.id = agent.id
  BY <1>0 DEF Register
<1>3. \A c \in checkpoints :
        /\ c.id = agent.id => PhaseOf(c) = "trial" /\ PhaseOf(c)' = "offered"
        /\ c.id # agent.id => PhaseOf(c)' = PhaseOf(c)
  BY <1>0, <1>1, <1>2 DEF PhaseOf, At, Resting
<1>4. ASSUME NEW c \in checkpoints, c.id = agent.id PROVE Commit!Next
  <2>1. \A d \in checkpoints \ {c} : PhaseOf(d)' = PhaseOf(d)
    BY <1>0, <1>3, <1>4 DEF Unique
  <2>. QED BY <1>0, <1>3, <1>4, <2>1, Tried
<1>5. CASE \A c \in checkpoints : c.id # agent.id
  BY <1>0, <1>3, <1>5, Dropped
<1>. QED BY <1>4, <1>5

\* The agent's rollback undoes a change, unless it fails.
LEMMA RollbackCommits == ASSUME IInv, Shows, Shows', RollbackChange PROVE Commit!Next
<1>0. /\ TypeOK /\ Unique /\ agent \in Requests /\ agent.step = "rollback"
      /\ agent' = Resting /\ pending' = pending
  BY DEF IInv, TypeOK, Numbers, RollbackChange, Answer, At
<1>1. \A c \in checkpoints : PhaseOf(c)' = PhaseOf(c)
  BY <1>0 DEF PhaseOf, At, Resting
<1>2. CASE \E c \in checkpoints :
             c.id = agent.id /\ config' = Restored(c) /\ checkpoints' = checkpoints \ {c}
  BY <1>0, <1>1, <1>2, Settled
<1>3. CASE UNCHANGED <<config, checkpoints>>
  BY <1>0, <1>1, <1>3, Dropped
<1>. QED BY <1>2, <1>3 DEF RollbackChange

\* A confirmation keeps what was offered, whether its answer is a success or not.
LEMMA DestroyCommits == ASSUME IInv, Shows, Shows', Destroy \/ DestroyFails PROVE Commit!Next
<1>0. /\ TypeOK /\ Unique /\ agent \in Requests /\ agent.step = "destroy"
      /\ agent' = Resting /\ config' = config
      /\ pending' = pending \/ pending' = {t \in pending : t.id # agent.id}
  BY DEF IInv, TypeOK, Numbers, Destroy, DestroyFails, Answer, At
<1>1. \A c \in checkpoints : c.id # agent.id => PhaseOf(c)' = PhaseOf(c)
  BY <1>0 DEF PhaseOf, At, Resting
<1>2. \A c \in checkpoints : c.id = agent.id => PhaseOf(c) = "offered"
  BY <1>0 DEF PhaseOf, At
<1>3. ASSUME NEW c \in checkpoints, c.id = agent.id, Kept(c) PROVE Commit!Next
  <2>1. checkpoints' = checkpoints \ {c} /\ \A d \in checkpoints \ {c} : d.id # agent.id
    BY <1>0, <1>3 DEF Kept, Unique
  <2>. QED BY <1>0, <1>1, <1>2, <1>3, <2>1, Settled
<1>4. CASE UNCHANGED checkpoints /\ pending' = pending
  <2>1. \A c \in checkpoints : PhaseOf(c)' \in {"offered", "doomed"}
    BY <1>0 DEF PhaseOf, At, Resting
  <2>. QED BY <1>0, <1>1, <1>2, <1>4, <2>1, Dropped
<1>. QED BY <1>3, <1>4 DEF Destroy, DestroyFails

\* Every step is a step of CommitConfirmed or changes nothing it sees.
LEMMA CommitStep ==
  IInv /\ IInv' /\ [Next]_vars => [Commit!Next]_<<config, Permanent, Phase>>
<1>. SUFFICES ASSUME IInv, IInv', [Next]_vars, ~UNCHANGED <<config, Permanent, Phase>>
              PROVE  Commit!Next
  OBVIOUS
<1>. USE DEF networkVars
<1>0. TypeOK /\ Unique /\ Shows /\ Shows' /\ agent \in Requests
  BY Shown, ShownNext DEF IInv, Numbers, TypeOK
<1>1. CASE UNCHANGED vars \/ Tick
  <2>1. UNCHANGED <<config, checkpoints, pending, agent>>
    BY <1>1 DEF vars, Tick
  <2>. QED BY <1>0, <2>1, Dropped DEF PhaseOf, At
<1>2. ASSUME NEW a \in Admins, Dashboard(a) PROVE Commit!Next
  <2>1. \A c \in checkpoints : PhaseOf(c)' = PhaseOf(c)
    BY <1>0, <1>2, DashboardKeeps DEF PhaseOf, At
  <2>. QED BY <1>0, <1>2, <2>1, DashboardKeeps, Dropped
<1>3. CASE Agent
  BY <1>0, <1>3, RequestCommits, CreateCommits, ModifyCommits, RegisterCommits, RollbackCommits,
     DestroyCommits DEF Agent
<1>4. CASE AgentRestart
  <2>1. \A c \in checkpoints : PhaseOf(c)' = "doomed"
    BY <1>4, RestartKeeps DEF PhaseOf, At, Resting
  <2>. QED BY <1>0, <1>4, <2>1, RestartKeeps, Dropped
<1>5. ASSUME NEW c \in checkpoints, Expire(c) PROVE Commit!Next
  <2>1. UNCHANGED <<pending, agent>>
    BY <1>5 DEF Expire
  <2>2. \A d \in checkpoints : PhaseOf(d)' = PhaseOf(d)
    BY <2>1 DEF PhaseOf, At
  <2>. QED BY <1>0, <1>5, <2>2, Settled DEF Expire
<1>. QED BY <1>1, <1>2, <1>3, <1>4, <1>5 DEF Next, NetworkManager

\* network_agent.py, apply, confirm and _rollback: for any number of dashboards,
\* interfaces, lost answers and restarts, what becomes permanent is what an
\* administrator was offered, unchanged since, and everything else is undone
\* exactly.
THEOREM CommitImplemented == Spec => ImplementsCommit
<1>1. Init => Commit!Init
  <2>. SUFFICES ASSUME Init PROVE Commit!Init
    OBVIOUS
  <2>1. Shows /\ config \in [Interfaces -> Settings] /\ checkpoints = {}
    BY Shown, InitIInv DEF IInv, Numbers, Init
  <2>2. \A i \in Interfaces : Phase[i] = "settled" /\ Permanent[i] = config[i]
    BY <2>1 DEF Shows
  <2>. QED BY <2>1, <2>2 DEF Shows, Commit!Init
<1>2. IInv /\ IInv' /\ [Next]_vars => [Commit!Next]_<<config, Permanent, Phase>>
  BY CommitStep
<1>. QED BY <1>1, <1>2, Invariance, PTL DEF Spec, ImplementsCommit, Commit!Spec
=============================================================================
