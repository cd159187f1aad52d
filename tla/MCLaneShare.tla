----------------------------- MODULE MCLaneShare -----------------------------
(* LaneShare on the instance of MCLaneScheduler. *)
EXTENDS LaneShare, MCLaneScheduler
==============================================================================
