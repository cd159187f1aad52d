---------------------------- MODULE MCMediaStream ----------------------------
(* Small instances of MediaStream for TLC. *)
EXTENDS MediaStream, TLC

CONSTANTS h1, h2, v

\* One asset, opened as a still preview or as a video.
MCPreviews == {[id |-> v, quality |-> "preview", gen |-> 0],
               [id |-> v, quality |-> "video", gen |-> 0]}

HandlerSymmetry == Permutations(Handlers)
=============================================================================
