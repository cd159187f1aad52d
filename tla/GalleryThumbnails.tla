-------------------------- MODULE GalleryThumbnails --------------------------
(***************************************************************************)
(* The thumbnails of an Immich share: the gallery's list is sent when the  *)
(* channel opens; then the browser asks for thumbnails in batches, or,     *)
(* when it has not asked within the grace period, the agent streams them   *)
(* all (the legacy stream).  Workers fetch thumbnails concurrently, one    *)
(* goroutine collects and sends them, and the end is reported.  The close  *)
(* listener cancels everything.                                            *)
(***************************************************************************)
EXTENDS Integers, FiniteSets

CONSTANTS
    Items,          \* indices of the gallery
    Requests,       \* batch requests, named by their request_id
    Batch,          \* the indices a request asks for
    Workers         \* maxConcurrentGalleryThumbnails

ASSUME GalleryAssumption ==
    /\ Batch \in [Requests -> (SUBSET Items) \ {{}}]
    /\ Workers \in Nat \ {0}
    /\ {"legacy", "none"} \cap Requests = {}

VARIABLES
    conn,           \* the channel still takes what is sent
    closed,         \* handleClose has run
    sender,         \* sendGallery
    items,          \* galleryItems
    generation,     \* galleryGeneration
    ctx,            \* galleryContext
    mode,           \* thumbnailMode
    timer,          \* thumbnailFallback, and its function once it has fired
    active,         \* thumbnailBatchRequestID, while thumbnailBatchActive
    seen,           \* thumbnailSeenRequestIDs
    stream          \* the thumbnail streams

vars == <<conn, closed, sender, items, generation, ctx, mode, timer, active, seen, stream>>
gallery == <<items, generation, ctx, mode, timer, active, seen>>

Streams == Requests \cup {"legacy"}
NoRequest == "none"
\* Where an index is: not handed out, with a worker, in the results channel
\* (fetched or not), accounted for, or given up by its worker.
Progress == {"queued", "fetching", "ok", "err", "sent", "failed", "lost"}
Stream == [pc : {"off", "run", "end", "done"},
           generation : Nat,
           items : SUBSET Items,
           cancelled : BOOLEAN,             \* cancelWork
           at : [Items -> Progress],
           reported : BOOLEAN]              \* history: the complete message was sent

TypeOK ==
    /\ conn \in BOOLEAN /\ closed \in BOOLEAN
    /\ sender \in {"list", "publish", "send", "arm", "done"}
    /\ items \in SUBSET Items
    /\ generation \in 0 .. 2
    /\ ctx \in {"none", "live", "cancelled"}
    /\ mode \in {"waiting", "pull", "legacy"}
    /\ timer \in {"none", "armed", "fired"}
    /\ active \in Requests \cup {NoRequest}
    /\ seen \in SUBSET Requests
    /\ stream \in [Streams -> Stream]

Init ==
    /\ conn = TRUE /\ closed = FALSE
    /\ sender = "list"
    /\ items = {} /\ generation = 0 /\ ctx = "none" /\ mode = "waiting"
    /\ timer = "none" /\ active = NoRequest /\ seen = {}
    /\ stream = [s \in Streams |-> [pc |-> "off", generation |-> 0, items |-> {}, cancelled |-> FALSE,
                                    at |-> [i \in Items |-> "queued"], reported |-> FALSE]]

At(s, where) == {i \in stream[s].items : stream[s].at[i] \in where}
\* workCtx: cancelled by the collector, or with the gallery's context
Cancelled(s) == stream[s].cancelled \/ ctx = "cancelled"
Begin(s, is) ==
    stream' = [stream EXCEPT ![s].pc = "run", ![s].items = is, ![s].generation = generation]

-----------------------------------------------------------------------------
(* sendGallery and the end of the channel *)

ListGallery ==
    /\ sender = "list"
    /\ sender' \in {"publish", "done"}                   \* listed, or unavailable
    /\ UNCHANGED <<conn, closed, gallery, stream>>

Publish ==
    /\ sender = "publish"
    /\ sender' = "send"
    /\ items' = Items
    /\ generation' = generation + 1
    /\ ctx' = "live" /\ mode' = "waiting" /\ timer' = "none"
    /\ active' = NoRequest /\ seen' = {}
    /\ UNCHANGED <<conn, closed, stream>>

SendList ==
    /\ sender = "send"
    /\ \/ conn /\ sender' = "arm"
       \/ sender' = "done"                               \* the list cannot be sent
    /\ UNCHANGED <<conn, closed, gallery, stream>>

\* Only if nobody has asked, or closed the channel, since the list was sent.
\* sendGallery runs once, so the generation it published is 1, or 2 after a close.
Arm ==
    /\ sender = "arm"
    /\ sender' = "done"
    /\ timer' = IF ctx = "live" /\ mode = "waiting" THEN "armed" ELSE timer
    /\ UNCHANGED <<conn, closed, items, generation, ctx, mode, active, seen, stream>>

TransportEnds ==
    /\ conn /\ conn' = FALSE
    /\ UNCHANGED <<closed, sender, gallery, stream>>

HandleClose ==
    /\ ~conn /\ ~closed
    /\ closed' = TRUE
    /\ timer' = IF timer = "armed" THEN "none" ELSE timer
    /\ ctx' = IF ctx = "live" THEN "cancelled" ELSE ctx
    /\ generation' = generation + 1
    /\ active' = NoRequest
    /\ UNCHANGED <<conn, sender, items, mode, seen, stream>>

-----------------------------------------------------------------------------
(* The two ways to ask for thumbnails *)

TimerFires ==
    /\ timer = "armed" /\ timer' = "fired"
    /\ UNCHANGED <<conn, closed, sender, items, generation, ctx, mode, active, seen, stream>>

\* Mutant: the mode is not looked at again.
StartLegacyAnyway ==
    /\ timer = "fired" /\ timer' = "none"
    /\ IF ctx = "live"
       THEN mode' = "legacy" /\ Begin("legacy", items)
       ELSE UNCHANGED <<mode, stream>>
    /\ UNCHANGED <<conn, closed, sender, items, generation, ctx, active, seen>>

\* The timer was armed for the published generation: a close since has raised it.
StartLegacyThumbnailFallback ==
    /\ timer = "fired" /\ timer' = "none"
    /\ IF ctx = "live" /\ mode = "waiting"
       THEN mode' = "legacy" /\ Begin("legacy", items)
       ELSE UNCHANGED <<mode, stream>>
    /\ UNCHANGED <<conn, closed, sender, items, generation, ctx, active, seen>>

\* A request that is refused changes nothing.  A timer that has fired cannot be
\* stopped any more.
HandleThumbnailBatchRequest(q) ==
    /\ Batch[q] \subseteq items
    /\ mode # "legacy"
    /\ q \notin seen
    /\ active = NoRequest
    /\ mode' = "pull"
    /\ timer' = IF timer = "armed" THEN "none" ELSE timer
    /\ seen' = seen \cup {q}
    /\ active' = q
    /\ Begin(q, Batch[q])
    /\ UNCHANGED <<conn, closed, sender, items, generation, ctx>>

-----------------------------------------------------------------------------
(* sendGalleryThumbnails *)

Move(s, i, to) == stream' = [stream EXCEPT ![s].at[i] = to]
Running(s) == stream[s].pc = "run"

TakeJob(s, i) ==
    /\ Running(s) /\ ~Cancelled(s)
    /\ i \in At(s, {"queued"}) /\ Cardinality(At(s, {"fetching"})) < Workers
    /\ Move(s, i, "fetching")
    /\ UNCHANGED <<conn, closed, sender, gallery>>

\* A result, or after a cancellation possibly none.
GetThumbnail(s, i) ==
    /\ Running(s) /\ i \in At(s, {"fetching"})
    /\ \/ /\ Cardinality(At(s, {"ok", "err"})) < Workers
          /\ \E to \in {"ok", "err"} : Move(s, i, to)
       \/ Cancelled(s) /\ Move(s, i, "lost")
    /\ UNCHANGED <<conn, closed, sender, gallery>>

\* A failed send cancels the workers.
Collect(s, i) ==
    /\ Running(s) /\ i \in At(s, {"ok", "err"})
    /\ IF stream[s].at[i] = "err" THEN Move(s, i, "failed")
       ELSE \/ /\ ~Cancelled(s) /\ stream[s].generation = generation /\ conn
               /\ Move(s, i, "sent")
            \/ stream' = [stream EXCEPT ![s].at[i] = "failed", ![s].cancelled = TRUE]
    /\ UNCHANGED <<conn, closed, sender, gallery>>

\* Every worker has gone and every result was taken.
Drained(s) ==
    /\ Running(s)
    /\ At(s, {"fetching", "ok", "err"}) = {}
    /\ Cancelled(s) \/ At(s, {"queued"}) = {}

\* Mutant: what nobody accounted for is forgotten.
FinishSilently(s) ==
    /\ Drained(s)
    /\ stream' = [stream EXCEPT ![s].pc = "end"]
    /\ UNCHANGED <<conn, closed, sender, gallery>>

\* What nobody accounted for is listed as failed, unless the gallery is gone.
Finish(s) ==
    /\ Drained(s)
    /\ stream' = [stream EXCEPT ![s].pc = "end",
                      ![s].at = [i \in Items |-> IF ctx = "live" /\ i \in At(s, {"queued", "lost"})
                                                 THEN "failed" ELSE @[i]]]
    /\ UNCHANGED <<conn, closed, sender, gallery>>

Stands(s) ==
    /\ stream[s].generation = generation
    /\ mode = (IF s = "legacy" THEN "legacy" ELSE "pull")
    /\ s # "legacy" => active = s
    /\ ctx = "live"

\* Mutant: a message that cannot be sent keeps the slot.
CompleteIfSent(s) ==
    /\ stream[s].pc = "end"
    /\ stream' = [stream EXCEPT ![s].pc = "done", ![s].reported = Stands(s) /\ conn]
    /\ active' = IF Stands(s) /\ conn THEN NoRequest ELSE active
    /\ UNCHANGED <<conn, closed, sender, items, generation, ctx, mode, timer, seen>>

\* The complete message; the slot is free again even if it could not be sent.
Complete(s) ==
    /\ stream[s].pc = "end"
    /\ stream' = [stream EXCEPT ![s].pc = "done", ![s].reported = Stands(s) /\ conn]
    /\ active' = IF Stands(s) THEN NoRequest ELSE active
    /\ UNCHANGED <<conn, closed, sender, items, generation, ctx, mode, timer, seen>>

-----------------------------------------------------------------------------
StreamStep(s) ==
    \/ \E i \in Items : TakeJob(s, i) \/ GetThumbnail(s, i) \/ Collect(s, i)
    \/ Finish(s) \/ Complete(s)

Next ==
    \/ ListGallery \/ Publish \/ SendList \/ Arm
    \/ TransportEnds \/ HandleClose
    \/ TimerFires \/ StartLegacyThumbnailFallback
    \/ \E q \in Requests : HandleThumbnailBatchRequest(q)
    \/ \E s \in Streams : StreamStep(s)

\* The backend answers and the goroutines go on.  Nobody has to ask, and nobody
\* has to close the channel.
Spec ==
    /\ Init /\ [][Next]_vars
    /\ \A s \in Streams : WF_vars(StreamStep(s))

-----------------------------------------------------------------------------
(* Properties *)

Started(s) == stream[s].pc # "off"

\* One way of sending thumbnails: a batch that is accepted as the grace period
\* runs out, or just before, keeps the legacy stream from starting, and two
\* batches never run together unless the gallery they belong to is gone.
OneStream ==
    \A s, u \in Streams : s # u /\ Started(s) /\ Started(u) =>
        /\ s # "legacy" /\ u # "legacy"
        /\ Running(s) /\ Running(u) => ctx = "cancelled" \/ closed

\* A complete message accounts for every index: whatever the workers and the
\* collector were doing when a send failed, each was sent or is listed as failed.
ReportsAll ==
    \A s \in Streams : stream[s].reported => stream[s].items = At(s, {"sent", "failed"})

\* A batch, finished, failed or cut short, gives its slot back, and while the
\* channel is open the browser's next request is not refused for ever.
BatchReleased == (active # NoRequest) ~> (active = NoRequest \/ closed)

=============================================================================
