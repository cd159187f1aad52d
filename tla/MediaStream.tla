----------------------------- MODULE MediaStream -----------------------------
(***************************************************************************)
(* The interactive-media half of the agent's transfer.Manager: one preview *)
(* or video stream at a time, replaced by a newer request or by a seek.    *)
(*                                                                         *)
(* Handlers are activations of HandleMessage (the tests of the package run *)
(* several at once), each stream is a goroutine of its own, and each pipe  *)
(* has a producer goroutine that reads the backend.  Everything under      *)
(* mediaMu is one step; the checks made without it are steps of their own. *)
(* Operation ids come from a sequence shared with bulk transfers; only     *)
(* their order matters here, so the next one is the successor.             *)
(* mediaTransfer is left out: it is stored and never loaded.               *)
(***************************************************************************)
EXTENDS Integers, FiniteSets

CONSTANTS
    Handlers,       \* activations of HandleMessage
    Ids,            \* asset ids
    Previews,       \* the previews a browser asks for: [id, quality, gen]
    MaxOps,         \* bound: media operations begun
    MaxGen,         \* bound: generations a browser asks for
    MaxChunks       \* bound: chunks the backend has for one operation

Qualities == {"preview", "video"}

\* A browser sends a generation with videos only.
ASSUME MediaAssumption ==
    /\ MaxOps \in Nat \ {0} /\ MaxGen \in Nat \ {0} /\ MaxChunks \in Nat \ {0}
    /\ Previews \subseteq [id : Ids, quality : Qualities, gen : 0 .. MaxGen]
    /\ \A r \in Previews : r.quality = "preview" => r.gen = 0

VARIABLES
    media,          \* the Manager's media fields
    cancelled,      \* operations whose context is cancelled
    hnd,            \* the handlers: program counter and what they hold
    pc,             \* the streams, by operation: program counter,
    gen,            \* generation, and
    told,           \* whether their end or their error was sent
    prod,           \* the goroutines that write the streams' pipes
    born,           \* history: the operation a seek continues, id and generation
    said,           \* history: the operation of the last control message
    chunks,         \* chunks sent, by operation whose stream runs
    broken          \* the channel set has failed: every send is refused

vars == <<media, cancelled, hnd, pc, gen, told, prod, born, said, chunks, broken>>

Ops == 1 .. MaxOps
NoOp == 0
NoId == "none"

Media == [op : Ops \cup {NoOp}, id : Ids \cup {NoId}, quality : Qualities,
          gen : 0 .. MaxGen, cancel : Ops \cup {NoOp}]
Handler == [pc : {"idle", "header", "probe"}, op : Ops \cup {NoOp},
            id : Ids \cup {NoId}, gen : 0 .. MaxGen, seek : BOOLEAN]
StreamPC == {"none", "top", "read", "send", "fail", "failing", "end", "ending", "finish", "done"}
Producer == {"none", "fetching", "writing", "eof", "err", "ended"}
Birth == [parent : Ops \cup {NoOp}, id : Ids \cup {NoId}, gen : 0 .. MaxGen]

IdleHandler == [pc |-> "idle", op |-> NoOp, id |-> NoId, gen |-> 0, seek |-> FALSE]
NoBirth == [parent |-> NoOp, id |-> NoId, gen |-> 0]

Init ==
    /\ media = [op |-> NoOp, id |-> NoId, quality |-> "preview", gen |-> 0, cancel |-> NoOp]
    /\ cancelled = {}
    /\ hnd = [h \in Handlers |-> IdleHandler]
    /\ pc = [o \in Ops |-> "none"]
    /\ gen = [o \in Ops |-> 0]
    /\ told = {}
    /\ prod = [o \in Ops |-> "none"]
    /\ born = [o \in Ops |-> NoBirth]
    /\ said = NoOp
    /\ chunks = [o \in Ops |-> 0]
    /\ broken = FALSE

-----------------------------------------------------------------------------
(* What the Manager does under mediaMu *)

BeginMediaLockedLeaking(id, quality, g) ==
    /\ cancelled' = cancelled
    /\ media' = [op |-> media.op + 1, id |-> id, quality |-> quality, gen |-> g,
                 cancel |-> media.op + 1]

BeginMediaLocked(id, quality, g) ==
    /\ cancelled' = cancelled \cup ({media.cancel} \ {NoOp})
    /\ media' = [op |-> media.op + 1, id |-> id, quality |-> quality, gen |-> g,
                 cancel |-> media.op + 1]

FinishMediaAnyone(o) ==
    /\ cancelled' = cancelled \cup ({media.cancel} \ {NoOp})
    /\ media' = [media EXCEPT !.cancel = NoOp]

FinishMedia(o) ==
    IF media.op = o
    THEN /\ cancelled' = cancelled \cup ({media.cancel} \ {NoOp})
         /\ media' = [media EXCEPT !.cancel = NoOp]
    ELSE UNCHANGED <<cancelled, media>>

\* The check of sendMediaControlIfCurrent and sendMediaErrorIfActive.
IsCurrent(o) == media.op = o

MaySendChunkUnlocked(o) == TRUE

\* The check that sendInteractiveMedia repeats under the lock.
MaySendChunk(o) == o \notin cancelled /\ media.op = o

IsCurrentMediaOperation(o, id) ==
    media.op = o /\ media.id = id /\ media.quality = "video"

AcceptsSeekUnchecked(o, id, g) == media.id = id

\* The test of beginMediaIfNewer.
AcceptsSeek(o, id, g) == IsCurrentMediaOperation(o, id) /\ g > media.gen

Goto(o, label) == pc' = [pc EXCEPT ![o] = label]

-----------------------------------------------------------------------------
(* Handlers *)

\* handleAssetPreviewRequest up to its metadata lookups.  Requests that fail
\* validation are answered and change nothing.
PreviewRequest(h, r) ==
    /\ hnd[h].pc = "idle"
    /\ ~broken
    /\ media.op < MaxOps
    /\ BeginMediaLocked(r.id, r.quality, r.gen)
    /\ hnd' = [hnd EXCEPT ![h] =
                 [pc |-> "header", op |-> media.op + 1, id |-> r.id, gen |-> r.gen, seek |-> FALSE]]
    /\ born' = [born EXCEPT ![media.op + 1] = [parent |-> NoOp, id |-> r.id, gen |-> r.gen]]
    /\ UNCHANGED <<pc, gen, told, prod, said, chunks, broken>>

\* handleAssetPreviewSeek up to its range request.  A seek on an operation that
\* is not current is dropped, which changes nothing; one with an invalid
\* parameter is answered on its operation as ProbeFail answers.
SeekRequest(h, id, g, parent) ==
    /\ hnd[h].pc = "idle"
    /\ ~broken
    /\ IsCurrentMediaOperation(parent, id)
    /\ hnd' = [hnd EXCEPT ![h] =
                 [pc |-> "probe", op |-> parent, id |-> id, gen |-> g, seek |-> TRUE]]
    /\ UNCHANGED <<media, cancelled, pc, gen, told, prod, born, said, chunks, broken>>

\* The range request fails before its first byte: an error on the operation the
\* seek names, if that is still current.
ProbeFail(h) ==
    /\ hnd[h].pc = "probe"
    /\ said' = IF IsCurrent(hnd[h].op) /\ ~broken THEN hnd[h].op ELSE said
    /\ hnd' = [hnd EXCEPT ![h] = IdleHandler]
    /\ UNCHANGED <<media, cancelled, pc, gen, told, prod, born, chunks, broken>>

\* The first byte has arrived and the seek takes over; its producer holds the
\* rest of the first chunk.
ProbeAccepted(h) ==
    /\ hnd[h].pc = "probe"
    /\ media.op < MaxOps
    /\ AcceptsSeek(hnd[h].op, hnd[h].id, hnd[h].gen)
    /\ BeginMediaLocked(hnd[h].id, "video", hnd[h].gen)
    /\ hnd' = [hnd EXCEPT ![h] = [pc |-> "header", op |-> media.op + 1, id |-> hnd[h].id,
                                  gen |-> hnd[h].gen, seek |-> TRUE]]
    /\ born' = [born EXCEPT ![media.op + 1] =
                  [parent |-> hnd[h].op, id |-> hnd[h].id, gen |-> hnd[h].gen]]
    /\ prod' = [prod EXCEPT ![media.op + 1] = "writing"]
    /\ UNCHANGED <<pc, gen, told, said, chunks, broken>>

\* The first byte has arrived too late; the pipe is closed and its producer ends.
ProbeStale(h) ==
    /\ hnd[h].pc = "probe"
    /\ ~AcceptsSeek(hnd[h].op, hnd[h].id, hnd[h].gen)
    /\ hnd' = [hnd EXCEPT ![h] = IdleHandler]
    /\ UNCHANGED <<media, cancelled, pc, gen, told, prod, born, said, chunks, broken>>

\* The header goes out and the stream starts; a preview that is no video is
\* streamed as generation 0, whatever its request said.
SendHeader(h) ==
    LET o == hnd[h].op IN
    /\ hnd[h].pc = "header"
    /\ IsCurrent(o) /\ ~broken
    /\ said' = o
    /\ Goto(o, "top")
    /\ gen' = [gen EXCEPT ![o] = IF media.quality = "video" THEN hnd[h].gen ELSE 0]
    /\ prod' = IF hnd[h].seek THEN prod ELSE [prod EXCEPT ![o] = "fetching"]
    /\ hnd' = [hnd EXCEPT ![h] = IdleHandler]
    /\ UNCHANGED <<media, cancelled, told, born, chunks, broken>>

\* The operation was replaced, or the channel refused the header.
SkipHeader(h) ==
    LET o == hnd[h].op IN
    /\ hnd[h].pc = "header"
    /\ ~IsCurrent(o) \/ broken
    /\ FinishMedia(o)
    /\ prod' = IF hnd[h].seek THEN [prod EXCEPT ![o] = "ended"] ELSE prod
    /\ hnd' = [hnd EXCEPT ![h] = IdleHandler]
    /\ UNCHANGED <<pc, gen, told, born, said, chunks, broken>>

-----------------------------------------------------------------------------
(* streamAssetPreviewFromReader, one step for each check, read and send *)

\* The checks before every read, made without the lock.
Top(o) ==
    /\ pc[o] = "top"
    /\ Goto(o, IF o \in cancelled \/ media.gen # gen[o] THEN "finish" ELSE "read")
    /\ UNCHANGED <<media, cancelled, hnd, gen, told, prod, born, said, chunks, broken>>

ReadChunk(o) ==
    /\ pc[o] = "read" /\ prod[o] = "writing"
    /\ prod' = [prod EXCEPT ![o] = "fetching"]
    /\ Goto(o, IF o \in cancelled \/ media.op # o THEN "finish" ELSE "send")
    /\ UNCHANGED <<media, cancelled, hnd, gen, told, born, said, chunks, broken>>

ReadEnd(o) ==
    /\ pc[o] = "read" /\ prod[o] \in {"eof", "err"}
    /\ prod' = [prod EXCEPT ![o] = "ended"]
    /\ Goto(o, IF prod[o] = "eof" THEN "end" ELSE "fail")
    /\ UNCHANGED <<media, cancelled, hnd, gen, told, born, said, chunks, broken>>

\* sendInteractiveMedia: the frame leaves under the lock, or the stream gives up.
SendChunk(o) ==
    /\ pc[o] = "send"
    /\ IF MaySendChunk(o) /\ ~broken
       THEN chunks' = [chunks EXCEPT ![o] = @ + 1] /\ Goto(o, "top")
       ELSE Goto(o, "finish") /\ UNCHANGED chunks
    /\ UNCHANGED <<media, cancelled, hnd, gen, told, prod, born, said, broken>>

\* sendMediaErrorIfActive and sendMediaControlIfCurrent.
Tell(o) ==
    LET sent == IsCurrent(o) /\ ~broken IN
    /\ said' = IF sent THEN o ELSE said
    /\ told' = IF sent THEN told \cup {o} ELSE told
    /\ Goto(o, "finish")

CheckFail(o) ==
    /\ pc[o] = "fail"
    /\ Goto(o, IF o \in cancelled THEN "finish" ELSE "failing")
    /\ UNCHANGED <<media, cancelled, hnd, gen, told, prod, born, said, chunks, broken>>

SendFail(o) ==
    /\ pc[o] = "failing"
    /\ Tell(o)
    /\ UNCHANGED <<media, cancelled, hnd, gen, prod, born, chunks, broken>>

CheckEnd(o) ==
    /\ pc[o] = "end"
    /\ Goto(o, IF o \notin cancelled /\ media.op = o /\ media.gen = gen[o]
               THEN "ending" ELSE "finish")
    /\ UNCHANGED <<media, cancelled, hnd, gen, told, prod, born, said, chunks, broken>>

SendEnd(o) ==
    /\ pc[o] = "ending"
    /\ Tell(o)
    /\ UNCHANGED <<media, cancelled, hnd, gen, prod, born, chunks, broken>>

\* streamAssetPreview closes its pipe when the stream returns; the seek handler
\* starts the stream on its own pipe, and nobody closes that one.
ClosePipe(o) ==
    prod' = IF born[o].parent = NoOp THEN [prod EXCEPT ![o] = "ended"] ELSE prod

Finish(o) ==
    /\ pc[o] = "finish"
    /\ FinishMedia(o)
    /\ Goto(o, "done")
    /\ ClosePipe(o)
    /\ chunks' = [chunks EXCEPT ![o] = 0]
    /\ UNCHANGED <<hnd, gen, told, born, said, broken>>

Step(o) ==
    \/ Top(o) \/ ReadChunk(o) \/ ReadEnd(o) \/ SendChunk(o)
    \/ CheckFail(o) \/ SendFail(o) \/ CheckEnd(o) \/ SendEnd(o) \/ Finish(o)

\* The chunks of an operation that have left the backend.
Fetched(o) == chunks[o] + (IF pc[o] = "send" THEN 1 ELSE 0)

\* GetAsset and GetAssetRange (external): the next part of the body, its end or
\* an error.
Fetch(o) ==
    /\ prod[o] = "fetching"
    /\ \E next \in {"eof", "err"} \cup (IF Fetched(o) < MaxChunks THEN {"writing"} ELSE {}) :
           prod' = [prod EXCEPT ![o] = next]
    /\ UNCHANGED <<media, cancelled, hnd, pc, gen, told, born, said, chunks, broken>>

\* A producer whose body is exhausted returns whether or not anyone reads on.
Return(o) ==
    /\ prod[o] \in {"eof", "err"} /\ pc[o] = "done"
    /\ prod' = [prod EXCEPT ![o] = "ended"]
    /\ UNCHANGED <<media, cancelled, hnd, pc, gen, told, born, said, chunks, broken>>

\* The channel set fails or is closed; both lanes refuse every later send.
Break ==
    /\ ~broken
    /\ broken' = TRUE
    /\ UNCHANGED <<media, cancelled, hnd, pc, gen, told, prod, born, said, chunks>>

-----------------------------------------------------------------------------
Handle(h) ==
    ProbeFail(h) \/ ProbeAccepted(h) \/ ProbeStale(h) \/ SendHeader(h) \/ SkipHeader(h)

Next ==
    \/ \E h \in Handlers, r \in Previews : PreviewRequest(h, r)
    \/ \E h \in Handlers, id \in Ids, g \in 1 .. MaxGen, parent \in Ops :
           SeekRequest(h, id, g, parent)
    \/ \E h \in Handlers : Handle(h)
    \/ \E o \in Ops : Step(o) \/ Fetch(o) \/ Return(o)
    \/ Break

Spec == Init /\ [][Next]_vars

Fairness ==
    /\ \A h \in Handlers : WF_vars(Handle(h))
    /\ \A o \in Ops : WF_vars(Step(o)) /\ WF_vars(Fetch(o)) /\ WF_vars(Return(o))

FairSpec == Spec /\ Fairness

-----------------------------------------------------------------------------
(* Properties *)

TypeOK ==
    /\ media \in Media
    /\ cancelled \in SUBSET Ops
    /\ hnd \in [Handlers -> Handler]
    /\ pc \in [Ops -> StreamPC] /\ gen \in [Ops -> 0 .. MaxGen] /\ told \subseteq Ops
    /\ prod \in [Ops -> Producer]
    /\ born \in [Ops -> Birth]
    /\ chunks \in [Ops -> 0 .. MaxChunks]
    /\ said \in Ops \cup {NoOp}
    /\ broken \in BOOLEAN

Running(o) == pc[o] \notin {"none", "done"}

\* Only the current operation has a stream that nobody told to stop: every
\* replacement cancels the stream it replaces (manager.go:1487-1500), however
\* many requests and seeks overlap.
OneActive == \A o \in Ops : Running(o) /\ o \notin cancelled => o = media.op

\* A seek continues the operation it names: nothing came between the two, the
\* asset is the same and the generation newer, although the check made when the
\* seek arrives is stale when its first byte does (manager.go:1192-1221).
SeekContinues ==
    \A o \in Ops :
        LET p == born[o].parent IN
        p # NoOp => p = o - 1 /\ born[p].id = born[o].id /\ born[p].gen < born[o].gen

\* "Stale bytes cannot follow a replacement lifecycle" (manager.go:1551): once
\* an operation's header is out, no header, chunk, end or error of an older
\* operation is sent, on either lane.
StaleNeverFollows ==
    [][said' >= said /\ \A o \in Ops : chunks'[o] > chunks[o] => o >= said]_vars

\* No stream stops silently: when one has ended, its end or its error was sent,
\* or a newer operation has replaced it, or the channel broke
\* (manager.go:1274-1345).
NoSilentEnd ==
    \A o \in Ops : pc[o] = "done" => o \in told \/ media.op > o \/ broken

\* "no race reports, deadlocks, or goroutine leaks" (the multilane plan, of this
\* package): every goroutine that reads from the backend returns.
ProducersEnd == \A o \in Ops : prod[o] # "none" ~> prod[o] = "ended"
=============================================================================
