---------------------------- MODULE MCSignalingHub ----------------------------
(* Small instances of SignalingHub. *)
EXTENDS SignalingHub, TLC

CONSTANTS k1, k2, a1, a2, a3, b1, b2, c1

MCAccount == [k \in Keys |-> "account"]
MCKeyOf == [a \in Agents |-> IF a = a3 THEN k2 ELSE k1]
MCCodeOf == [b \in Browsers |-> c1]
MCFailLimit == [f \in FailKinds |-> 2]
MCFailAtOnce == [f \in FailKinds |-> 1]

\* The sockets of one key are interchangeable, and so are the browsers of one code.
Symmetry == Permutations(Agents \ {a3}) \cup Permutations(Browsers)
==============================================================================
