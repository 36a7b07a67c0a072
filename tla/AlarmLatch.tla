----------------------------- MODULE AlarmLatch -----------------------------
(***************************************************************************)
(* What the alarm list promises an operator, one key at a time: an alarm   *)
(* is absent, raised and waiting for an acknowledgement, raised and        *)
(* acknowledged, or back to normal but still waiting for its               *)
(* acknowledgement.  It only leaves the list when it is both acknowledged  *)
(* and normal, or when the panel forgets the device that owns it.          *)
(* Alarms implements this module.                                          *)
(***************************************************************************)
CONSTANTS Keys,      \* identities of the possible alarms
          Owners,    \* the devices that own them
          Owned(_)   \* the keys one device owns

VARIABLE latch

States == {"absent", "raised", "acknowledged", "normal"}

Init == latch = [k \in Keys |-> "absent"]

\* One complete observation of device d: exactly the keys of bad are violated.
After(state, violated) ==
  IF violated
    THEN IF state = "acknowledged" THEN "acknowledged" ELSE "raised"
    ELSE CASE state = "raised"       -> "normal"
           [] state = "acknowledged" -> "absent"
           [] OTHER                  -> state

Observe(d, bad) ==
  latch' = [k \in Keys |->
              IF k \in Owned(d) THEN After(latch[k], k \in bad) ELSE latch[k]]

Acknowledge(k) ==
  /\ latch[k] # "absent"
  /\ latch' = [latch EXCEPT ![k] = IF @ = "normal" THEN "absent" ELSE "acknowledged"]

\* The devices of gone left status.xml, or the process restarted.
Forget(gone) ==
  latch' = [k \in Keys |->
              IF \E d \in gone : k \in Owned(d) THEN "absent" ELSE latch[k]]

Next ==
  \/ \E d \in Owners : \E bad \in SUBSET Owned(d) : Observe(d, bad)
  \/ \E k \in Keys : Acknowledge(k)
  \/ \E gone \in SUBSET Owners : Forget(gone)

Spec == Init /\ [][Next]_latch

TypeOK == latch \in [Keys -> States]
=============================================================================
