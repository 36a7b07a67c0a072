--------------------------- MODULE ControlExchange ---------------------------
(***************************************************************************)
(* Device control: API threads write control.xml, audit and record the     *)
(* request; the device answers in status.xml; the poller thread reconciles *)
(* the two files with the request history in SQLite.  control.xml holds    *)
(* one request: a later one replaces it whether or not it was answered.    *)
(*                                                                         *)
(* A row's state and message are one value here: "awaiting" is the panel's *)
(* own pending, "accepted" a pending the device reported.                  *)
(***************************************************************************)
EXTENDS Integers, FiniteSets

CONSTANTS
  Ids,            \* request UUIDs, used once each
  Devices,
  Threads,        \* API worker threads
  Finals,         \* device answers other than pending; "invalid" is an unknown one
  None,
  Timeout,        \* XML_CONTROL_ACK_TIMEOUT_SECONDS
  HistoryLimit,   \* rows kept per device, 100 in the code
  Vanishing,      \* whether status.xml may lose the acknowledgement
  MaxTime,        \* bound on the clock
  MaxFailures,    \* bound on SQLite failures
  MaxCrashes      \* bound on process restarts

Outcomes == {"accepted"} \cup Finals
States == {"awaiting", "timeout"} \cup Outcomes
Answers == [id : Ids, outcome : Outcomes]
Verdicts == [id : Ids, state : States]

ASSUME ControlAssumption ==
  /\ None \notin Ids \cup Answers
  /\ Finals \subseteq {"applied", "rejected", "failed", "invalid"}
  /\ Timeout \in Nat
  /\ HistoryLimit \in Nat \ {0}
  /\ Vanishing \in BOOLEAN
  /\ MaxTime \in Nat /\ MaxFailures \in Nat /\ MaxCrashes \in Nat

VARIABLES
  now,
  issued,     \* id, device and created_at of the documents built so far
  control,    \* the request in control.xml
  seen,       \* the request the device read last
  ack,        \* the acknowledgement in status.xml
  acked,      \* history: every answer the device ever published
  usable,     \* a poll gets as far as reconcile: see StatusChanges
  handler,    \* what each API thread is doing, and for which request
  rows,       \* the control_requests table
  audited,    \* history: the last state Syslog has of each request
  pc,         \* the step of the poller within reconcile
  readAck,    \* the acknowledgement this reconcile read
  verdict,    \* the status it computed
  lost,       \* history: requests whose last audit a crash swallowed
  failures,
  crashes

deviceVars == <<seen, ack, acked, usable>>
pollVars == <<pc, readAck, verdict>>
boundVars == <<failures, crashes>>
vars == <<now, issued, control, deviceVars, handler, rows, audited, pollVars, lost, boundVars>>

Idle == [step |-> "idle", id |-> None]

Init ==
  /\ now = 0
  /\ issued = [i \in {} |-> None]
  /\ control = None
  /\ seen = None /\ ack = None /\ acked = {} /\ usable \in BOOLEAN
  /\ handler = [t \in Threads |-> Idle]
  /\ rows = [i \in {} |-> None]
  /\ audited = [i \in Ids |-> "none"]
  /\ pc = "idle" /\ readAck = None /\ verdict = None
  /\ lost = {}
  /\ failures = 0 /\ crashes = 0

Tick ==
  /\ now < MaxTime
  /\ now' = now + 1
  /\ UNCHANGED <<issued, control, deviceVars, handler, rows, audited, pollVars, lost, boundVars>>

-----------------------------------------------------------------------------
\* PUT /control.  build_control_xml fixes the identifier and the timestamp
\* before write_lock is taken, so two documents may be written out of order.
\* The bounded clock must still be able to reach the deadline.
BuildControl(t, i, d) ==
  /\ handler[t] = Idle
  /\ i \notin DOMAIN issued
  /\ now + Timeout < MaxTime
  /\ issued' = [j \in DOMAIN issued \cup {i} |->
                  IF j = i THEN [device |-> d, created |-> now] ELSE issued[j]]
  /\ handler' = [handler EXCEPT ![t] = [step |-> "write", id |-> i]]
  /\ UNCHANGED <<now, control, deviceVars, rows, audited, pollVars, lost, boundVars>>

WriteControl(t) ==
  /\ handler[t].step = "write"
  /\ control' = handler[t].id
  /\ handler' = [handler EXCEPT ![t].step = "audit"]
  /\ UNCHANGED <<now, issued, deviceVars, rows, audited, pollVars, lost, boundVars>>

\* An OSError leaves the old document; the request is neither audited nor kept.
WriteFails(t) ==
  /\ handler[t].step = "write"
  /\ handler' = [handler EXCEPT ![t] = Idle]
  /\ UNCHANGED <<now, issued, control, deviceVars, rows, audited, pollVars, lost, boundVars>>

AuditRequest(t) ==
  /\ handler[t].step = "audit"
  /\ audited' = [audited EXCEPT ![handler[t].id] = "awaiting"]
  /\ handler' = [handler EXCEPT ![t].step = "record"]
  /\ UNCHANGED <<now, issued, control, deviceVars, rows, pollVars, lost, boundVars>>

RowsOf(table, d) == {i \in DOMAIN table : table[i].device = d}
Newer(table, i) == {j \in RowsOf(table, table[i].device) : table[j].created > table[i].created}

\* created_ms: the clock, but always after the device's latest row.
Candidates(d) == {now} \cup {rows[j].created + 1 : j \in RowsOf(rows, d)}
\* Mutant: the clock alone.
ClockOnly(c, d) == c = now
NextCreated(c, d) == c >= now /\ \A j \in RowsOf(rows, d) : c > rows[j].created

\* The newest HistoryLimit rows of every device.
Pruned(table) ==
  [i \in {i \in DOMAIN table : Cardinality(Newer(table, i)) < HistoryLimit} |-> table[i]]

WithRow(i, row) == [j \in DOMAIN rows \cup {i} |-> IF j = i THEN row ELSE rows[j]]

RecordControlRequest(t) ==
  /\ handler[t].step = "record"
  /\ LET i == handler[t].id
         d == issued[i].device
     IN  \E c \in Candidates(d) :
           /\ NextCreated(c, d)
           /\ rows' = Pruned(WithRow(i, [device |-> d, created |-> c, state |-> "awaiting"]))
  /\ handler' = [handler EXCEPT ![t] = Idle]
  /\ UNCHANGED <<now, issued, control, deviceVars, audited, pollVars, lost, boundVars>>

\* A failed insert is rolled back and the handler ignores the result.
RecordFails(t) ==
  /\ handler[t].step = "record"
  /\ failures < MaxFailures
  /\ failures' = failures + 1
  /\ handler' = [handler EXCEPT ![t] = Idle]
  /\ UNCHANGED <<now, issued, control, deviceVars, rows, audited, pollVars, lost, crashes>>

-----------------------------------------------------------------------------
\* The device, as README.md asks of it: it reads control.xml, handles every
\* identifier once and publishes how far it got.
DeviceReads ==
  /\ control # None
  /\ seen' = control
  /\ UNCHANGED <<now, issued, control, ack, acked, usable, handler, rows, audited, pollVars, lost, boundVars>>

Settled(i) == \E a \in acked : a.id = i /\ a.outcome \in Finals

DeviceAnswers(o) ==
  /\ seen # None
  /\ IF Settled(seen) THEN [id |-> seen, outcome |-> o] \in acked /\ o \in Finals ELSE TRUE
  /\ ack' = [id |-> seen, outcome |-> o]
  /\ acked' = acked \cup {ack'}
  /\ UNCHANGED <<now, issued, control, seen, usable, handler, rows, audited, pollVars, lost, boundVars>>

\* status.xml without control_status, or control_status of no known form.
AckVanishes ==
  /\ Vanishing
  /\ ack' = None
  /\ UNCHANGED <<now, issued, control, seen, acked, usable, handler, rows, audited, pollVars, lost,
                 boundVars>>

\* status.xml goes missing, stale or malformed, the mapping cannot be loaded or
\* the reader thread has ended; or all of that is well again.  What changes
\* during a reconcile is the next poll's concern.
StatusChanges ==
  /\ pc = "idle"
  /\ usable' = ~usable
  /\ UNCHANGED <<now, issued, control, seen, ack, acked, handler, rows, audited, pollVars, lost,
                 boundVars>>

-----------------------------------------------------------------------------
\* control_requests.reconcile, which poll_once reaches after every successful
\* read of status.xml and only then.
ReadAcknowledgement ==
  /\ pc = "idle"
  /\ usable
  /\ pc' = "control"
  /\ readAck' = ack
  /\ UNCHANGED <<now, issued, control, deviceVars, handler, rows, audited, verdict, lost, boundVars>>

\* Mutant: any acknowledgement counts for the current request.
AnyAnswer(i) == readAck # None
Matches(i) == readAck # None /\ readAck.id = i

\* Mutant: the age is computed the wrong way round.
NegativeAge(i) == issued[i].created - now > Timeout
TimedOut(i) == now - issued[i].created > Timeout

\* Mutant: the deadline is looked at before the answer.
TimeoutFirst(i) ==
  IF TimedOut(i) THEN "timeout" ELSE IF Matches(i) THEN readAck.outcome ELSE "awaiting"
ControlState(i) ==
  IF Matches(i) THEN readAck.outcome ELSE IF TimedOut(i) THEN "timeout" ELSE "awaiting"

GetControlStatus ==
  /\ pc = "control"
  /\ IF control = None
       THEN pc' = "idle" /\ verdict' = None
       ELSE pc' = "update" /\ verdict' = [id |-> control, state |-> ControlState(control)]
  /\ readAck' = None
  /\ UNCHANGED <<now, issued, control, deviceVars, handler, rows, audited, lost, boundVars>>

\* Mutant: the row is updated, and audited, even when nothing changed.
AlwaysChanged == verdict.id \in DOMAIN rows
Changed == verdict.id \in DOMAIN rows /\ rows[verdict.id].state # verdict.state

UpdateRow ==
  /\ pc = "update"
  /\ IF Changed
       THEN /\ rows' = [rows EXCEPT ![verdict.id].state = verdict.state]
            /\ pc' = "audit"
            /\ UNCHANGED verdict
       ELSE pc' = "idle" /\ verdict' = None /\ UNCHANGED rows
  /\ UNCHANGED <<now, issued, control, deviceVars, handler, audited, readAck, lost, boundVars>>

UpdateFails ==
  /\ pc = "update"
  /\ failures < MaxFailures
  /\ failures' = failures + 1
  /\ pc' = "idle" /\ verdict' = None
  /\ UNCHANGED <<now, issued, control, deviceVars, handler, rows, audited, readAck, lost, crashes>>

AuditTransition ==
  /\ pc = "audit"
  /\ audited' = [audited EXCEPT ![verdict.id] = verdict.state]
  /\ lost' = lost \ {verdict.id}
  /\ pc' = "idle" /\ verdict' = None
  /\ UNCHANGED <<now, issued, control, deviceVars, handler, rows, readAck, boundVars>>

-----------------------------------------------------------------------------
\* The process stops between two steps; the files and committed rows stay.
Crash ==
  /\ crashes < MaxCrashes
  /\ crashes' = crashes + 1
  /\ handler' = [t \in Threads |-> Idle]
  /\ pc' = "idle" /\ readAck' = None /\ verdict' = None
  /\ lost' = lost \cup (IF pc = "audit" THEN {verdict.id} ELSE {})
  /\ UNCHANGED <<now, issued, control, deviceVars, rows, audited, failures>>

Request(t) ==
  \/ WriteControl(t) \/ WriteFails(t) \/ AuditRequest(t)
  \/ RecordControlRequest(t) \/ RecordFails(t)

Reconcile ==
  ReadAcknowledgement \/ GetControlStatus \/ UpdateRow \/ UpdateFails \/ AuditTransition

Next ==
  \/ Tick
  \/ \E t \in Threads, i \in Ids, d \in Devices : BuildControl(t, i, d)
  \/ \E t \in Threads : Request(t)
  \/ DeviceReads
  \/ \E o \in Outcomes : DeviceAnswers(o)
  \/ AckVanishes
  \/ StatusChanges
  \/ Reconcile
  \/ Crash

Spec == Init /\ [][Next]_vars

\* The clock runs, a handler that was started goes on, and the poller reconciles
\* as long as its polls get that far.
FairSpec ==
  /\ Spec
  /\ WF_vars(Tick)
  /\ \A t \in Threads : WF_vars(Request(t))
  /\ WF_vars(Reconcile)

-----------------------------------------------------------------------------
Rows == [device : Devices, created : Nat, state : States]

\* Every variable has its type; a handler past its first step has a document,
\* and so has every row and the request in control.xml.
TypeOK ==
  /\ now \in Nat
  /\ DOMAIN issued \subseteq Ids
  /\ \A i \in DOMAIN issued : issued[i] \in [device : Devices, created : Nat]
  /\ control \in DOMAIN issued \cup {None}
  /\ seen \in DOMAIN issued \cup {None}
  /\ acked \in SUBSET Answers
  /\ ack \in acked \cup {None}
  /\ usable \in BOOLEAN
  /\ \A t \in Threads :
       \/ handler[t] = Idle
       \/ handler[t] \in [step : {"write", "audit", "record"}, id : DOMAIN issued]
  /\ handler = [t \in Threads |-> handler[t]]
  /\ DOMAIN rows \subseteq DOMAIN issued
  /\ \A i \in DOMAIN rows : rows[i] \in Rows
  /\ audited \in [Ids -> States \cup {"none"}]
  /\ pc \in {"idle", "control", "update", "audit"}
  /\ readAck \in acked \cup {None}
  /\ pc \in {"idle", "control"} => verdict = None
  /\ pc \in {"update", "audit"} => verdict \in [id : DOMAIN issued, state : States]
  /\ lost \in SUBSET Ids
  /\ failures \in 0..MaxFailures
  /\ crashes \in 0..MaxCrashes

\* What the history says happened: an answer only if the device gave that
\* answer to that very request, a timeout only after the deadline, although the
\* two files are read one after the other while both are being replaced.
HistoryHonest ==
  \A i \in DOMAIN rows :
    /\ rows[i].state \in Outcomes => [id |-> i, outcome |-> rows[i].state] \in acked
    /\ rows[i].state = "timeout" => now - issued[i].created > Timeout

\* Syslog has every transition of the history, once: outside the step between
\* commit and audit its last entry is the row's state, and what is about to be
\* audited is new.  Only a crash within that step leaves a gap.
AuditedOnce ==
  /\ \A i \in DOMAIN rows :
       \/ audited[i] = rows[i].state
       \/ i \in lost
       \/ pc = "audit" /\ verdict = [id |-> i, state |-> rows[i].state]
  /\ pc = "audit" /\ verdict.id \notin lost => audited[verdict.id] # verdict.state

\* The newest requests of a device are well defined: its rows have different
\* creation times even within one tick or after the clock went nowhere, and no
\* more of them are kept than the limit.
HistoryOrdered ==
  \A d \in Devices :
    /\ Cardinality(RowsOf(rows, d)) <= HistoryLimit
    /\ \A i, j \in RowsOf(rows, d) : i # j => rows[i].created # rows[j].created

\* With a device that keeps its acknowledgement in status.xml, a final answer in
\* the history is never taken back by a later reconcile.
FinalStays ==
  [][\A i \in DOMAIN rows \cap DOMAIN rows' :
       rows[i].state \in Finals => rows'[i].state = rows[i].state]_vars

\* A recorded request that stays in control.xml while status.xml can be read
\* does not stay pending: it times out or shows an answer, and an answer that
\* stays in status.xml is shown.  While status.xml cannot be read nothing is
\* promised: its poll ends before reconcile, and the request stays pending.
CurrentAnswered ==
  \A i \in Ids :
    /\ <>[](control = i /\ i \in DOMAIN rows /\ usable) =>
         <>[](i \in DOMAIN rows /\ rows[i].state # "awaiting")
    /\ \A o \in Outcomes :
         <>[](control = i /\ i \in DOMAIN rows /\ usable /\ ack = [id |-> i, outcome |-> o])
           => <>[](i \in DOMAIN rows /\ rows[i].state = o)
=============================================================================
