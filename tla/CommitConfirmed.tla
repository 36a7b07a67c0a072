--------------------------- MODULE CommitConfirmed ---------------------------
(***************************************************************************)
(* What a guarded change promises, one interface at a time: its settings   *)
(* are settled, on trial, offered to an administrator for confirmation, or *)
(* doomed.  Only settings on trial are changed, what is offered stays as   *)
(* it is until it is kept or undone, and only what was offered is kept;    *)
(* everything else goes back to the permanent settings.  NetworkChange     *)
(* implements this module.                                                 *)
(***************************************************************************)
CONSTANTS Interfaces, Settings

VARIABLES
  running,      \* the settings an interface uses
  permanent,    \* the settings it goes back to unless the others are kept
  phase

Phases == {"settled", "trial", "offered", "doomed"}

Init ==
  /\ running \in [Interfaces -> Settings]
  /\ permanent = running
  /\ phase = [i \in Interfaces |-> "settled"]

\* A trial that is opened may already have failed.
Open(i) ==
  /\ phase[i] = "settled"
  /\ \E p \in {"trial", "doomed"} : phase' = [phase EXCEPT ![i] = p]
  /\ UNCHANGED <<running, permanent>>

Try(i, s) ==
  /\ phase[i] = "trial"
  /\ running' = [running EXCEPT ![i] = s]
  /\ \E p \in {"trial", "doomed"} : phase' = [phase EXCEPT ![i] = p]
  /\ UNCHANGED permanent

Offer(i) ==
  /\ phase[i] = "trial"
  /\ phase' = [phase EXCEPT ![i] = "offered"]
  /\ UNCHANGED <<running, permanent>>

\* Trials that cannot be confirmed any more.
Drop(lost) ==
  /\ \A i \in lost : phase[i] \in {"trial", "offered"}
  /\ phase' = [i \in Interfaces |-> IF i \in lost THEN "doomed" ELSE phase[i]]
  /\ UNCHANGED <<running, permanent>>

Keep(i) ==
  /\ phase[i] = "offered"
  /\ phase' = [phase EXCEPT ![i] = "settled"]
  /\ permanent' = [permanent EXCEPT ![i] = running[i]]
  /\ UNCHANGED running

Undo(i) ==
  /\ phase[i] # "settled"
  /\ phase' = [phase EXCEPT ![i] = "settled"]
  /\ running' = [running EXCEPT ![i] = permanent[i]]
  /\ UNCHANGED permanent

Next ==
  \/ \E i \in Interfaces :
       \/ Open(i) \/ Offer(i) \/ Keep(i) \/ Undo(i)
       \/ \E s \in Settings : Try(i, s)
  \/ \E lost \in SUBSET Interfaces : Drop(lost)

Spec == Init /\ [][Next]_<<running, permanent, phase>>
=============================================================================
