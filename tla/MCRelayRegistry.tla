--------------------------- MODULE MCRelayRegistry ---------------------------
(* Small instances of RelayRegistry. *)
EXTENDS RelayRegistry

CONSTANTS i1, i2, b1, b2, a1, a2

\* Two browser sockets present the token of the first session.
MCSidOf == [s \in Sockets |-> IF s \in {b1, b2, a1} THEN i1 ELSE i2]
==============================================================================
