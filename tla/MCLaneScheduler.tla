--------------------------- MODULE MCLaneScheduler ---------------------------
(* Small instances of LaneScheduler. *)
EXTENDS LaneScheduler

CONSTANTS c1, c2, c3

Call(c, cl, n) == [caller |-> c, class |-> cl, len |-> n]

MCCap == [cl \in Class |-> IF cl = Interactive THEN 4 ELSE 3]

\* Every class occurs; bulk requests of several sizes compete for 3 bytes, and
\* the largest interactive one needs more than one round of credit.  A call of 5
\* is larger than its class's cap.
SafetyCalls == {Call(c1, Bulk, 2), Call(c1, Interactive, 4), Call(c2, Bulk, 1),
                Call(c2, Thumbnail, 2), Call(c2, Thumbnail, 5),
                Call(c3, Bulk, 3), Call(c3, Control, 2)}

\* Callers that send for ever: control against data, media against bulk, and
\* two bulk frames of which only one is admitted at a time.
LivenessCalls == {Call(c1, Control, 1), Call(c1, Thumbnail, 2), Call(c2, Bulk, 2), Call(c3, Bulk, 2),
                  Call(c3, Interactive, 4)}
==============================================================================
