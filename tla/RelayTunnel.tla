----------------------------- MODULE RelayTunnel -----------------------------
(***************************************************************************)
(* What the relay promises for each relay session, without sockets,        *)
(* goroutines or locks: a metered tunnel.  A session is offered, then      *)
(* paired once, then ended, or ended without being paired.  A frame is     *)
(* metered before it is delivered, both only while the session is paired,  *)
(* and after the end the account is charged what was metered, once.        *)
(***************************************************************************)
EXTENDS Integers

CONSTANTS Sids

VARIABLES phase, metered, delivered, charged

tunnelVars == <<phase, metered, delivered, charged>>

Init ==
    /\ phase = [i \in Sids |-> "none"]
    /\ metered = [i \in Sids |-> 0]
    /\ delivered = [i \in Sids |-> 0]
    /\ charged = [i \in Sids |-> 0]

Move(i, from, to) ==
    /\ phase[i] = from
    /\ phase' = [phase EXCEPT ![i] = to]
    /\ UNCHANGED <<metered, delivered, charged>>

Offer(i) == Move(i, "none", "offered")
Pair(i) == Move(i, "offered", "paired")
End(i) == Move(i, "offered", "ended") \/ Move(i, "paired", "ended")

Meter(i) ==
    /\ phase[i] = "paired"
    /\ metered' = [metered EXCEPT ![i] = @ + 1]
    /\ UNCHANGED <<phase, delivered, charged>>

Deliver(i) ==
    /\ phase[i] = "paired" /\ delivered[i] < metered[i]
    /\ delivered' = [delivered EXCEPT ![i] = @ + 1]
    /\ UNCHANGED <<phase, metered, charged>>

Charge(i) ==
    /\ phase[i] = "ended" /\ charged[i] = 0
    /\ charged' = [charged EXCEPT ![i] = metered[i]]
    /\ UNCHANGED <<phase, metered, delivered>>

Next == \E i \in Sids :
    Offer(i) \/ Pair(i) \/ End(i) \/ Meter(i) \/ Deliver(i) \/ Charge(i)

Spec == Init /\ [][Next]_tunnelVars
==============================================================================
