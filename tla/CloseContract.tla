---------------------------- MODULE CloseContract ----------------------------
(***************************************************************************)
(* What the two channel sets (peer.Peer and SecureRelayChannel) promise    *)
(* the code that listens for their end: however many parties close the     *)
(* channel, and however late a listener is added, every listener is owed   *)
(* one call, after the close, and never while the channel is being opened. *)
(***************************************************************************)
EXTENDS Naturals

CONSTANT Listeners

VARIABLES
    closed,         \* the channel has been closed
    opening,        \* the open callback is running
    added,          \* listeners that were added
    owed,           \* those that are to be called
    ran             \* how often each was called

contract == <<closed, opening, added, owed, ran>>

Init ==
    /\ closed = FALSE /\ opening = FALSE
    /\ added = {} /\ owed = {}
    /\ ran = [l \in Listeners |-> 0]

\* A listener that comes too late is called all the same.
Add(l) ==
    /\ l \notin added
    /\ added' = added \cup {l}
    /\ owed' = IF closed /\ ~opening THEN owed \cup {l} ELSE owed
    /\ UNCHANGED <<closed, opening, ran>>

\* A close that comes while the channel is being opened waits for the end of that.
Close ==
    /\ ~closed /\ closed' = TRUE
    /\ owed' = IF opening THEN owed ELSE added
    /\ UNCHANGED <<opening, added, ran>>

Open ==
    /\ ~opening /\ ~closed /\ opening' = TRUE
    /\ UNCHANGED <<closed, added, owed, ran>>

Opened ==
    /\ opening /\ opening' = FALSE
    /\ owed' = IF closed THEN added ELSE owed
    /\ UNCHANGED <<closed, added, ran>>

Call(l) ==
    /\ l \in owed /\ ran[l] = 0
    /\ closed /\ ~opening
    /\ owed' = owed \ {l}
    /\ ran' = [ran EXCEPT ![l] = 1]
    /\ UNCHANGED <<closed, opening, added>>

Next ==
    \/ Close \/ Open \/ Opened
    \/ \E l \in Listeners : Add(l) \/ Call(l)

Spec == Init /\ [][Next]_contract

=============================================================================
