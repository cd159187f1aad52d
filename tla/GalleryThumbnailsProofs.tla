----------------------- MODULE GalleryThumbnailsProofs -----------------------
(***************************************************************************)
(* Proofs about GalleryThumbnails for any gallery, any batch requests and  *)
(* any number of workers.                                                  *)
(***************************************************************************)
EXTENDS GalleryThumbnails, TLAPS

Unpublished == sender \in {"list", "publish"}
ModeOf(s) == IF s = "legacy" THEN "legacy" ELSE "pull"
Full(s) == stream[s].items = At(s, {"sent", "failed"})

\* Nothing is there before the gallery is published, and it is published once.
Fresh ==
    /\ Unpublished =>
        /\ items = {} /\ ctx = "none" /\ timer = "none"
        /\ \A s \in Streams : ~Started(s)
    /\ generation <= (IF Unpublished THEN 0 ELSE 1) + (IF closed THEN 1 ELSE 0)

\* A stream was started in its mode, a batch is remembered, and a batch at work
\* has the slot unless the gallery it belongs to is gone.
Owned ==
    /\ \A s \in Streams : Started(s) => mode = ModeOf(s)
    /\ \A q \in Requests : Started(q) => q \in seen
    /\ \A q \in Requests : Running(q) => active = q \/ ctx = "cancelled" \/ closed

\* Before the complete message everything is accounted for, unless the gallery
\* is gone and no message follows.
Accounted ==
    \A s \in Streams :
        /\ stream[s].pc = "end" /\ ctx = "live" => Full(s)
        /\ stream[s].reported => stream[s].pc = "done" /\ Full(s)

IInv == TypeOK /\ Fresh /\ Owned /\ Accounted

-----------------------------------------------------------------------------
\* What the type invariant says of the fields of a stream.
LEMMA Fields ==
    ASSUME TypeOK, NEW s \in Streams
    PROVE  /\ stream[s] \in Stream
           /\ stream[s].items \in SUBSET Items /\ stream[s].at \in [Items -> Progress]
           /\ stream[s].reported \in BOOLEAN /\ stream[s].cancelled \in BOOLEAN
BY DEF TypeOK, Stream

\* Replacing a stream's record by one of its type.
LEMMA Replace ==
    ASSUME TypeOK, NEW s \in Streams, NEW rec \in Stream, stream' = [stream EXCEPT ![s] = rec]
    PROVE  /\ stream' \in [Streams -> Stream] /\ stream'[s] = rec
           /\ \A u \in Streams \ {s} : stream'[u] = stream[u]
BY DEF TypeOK

\* A stream that does not change is as complete as before.
LEMMA FullSame ==
    ASSUME NEW u \in Streams, stream'[u] = stream[u]
    PROVE  Full(u)' = Full(u)
BY DEF Full, At

\* A stream that starts.
LEMMA BeginType ==
    ASSUME TypeOK, NEW s \in Streams, NEW is \in SUBSET Items, Begin(s, is)
    PROVE  /\ stream' \in [Streams -> Stream]
           /\ stream'[s].pc = "run" /\ stream'[s].reported = stream[s].reported
           /\ \A u \in Streams \ {s} : stream'[u] = stream[u]
<1> DEFINE rec == [[[stream[s] EXCEPT !.pc = "run"] EXCEPT !.items = is] EXCEPT !.generation = generation]
<1>1. stream[s] \in Stream /\ generation \in Nat
  BY Fields DEF TypeOK
<1>2. rec \in Stream /\ rec.pc = "run" /\ rec.reported = stream[s].reported
  BY <1>1 DEF Stream
<1>3. stream' = [stream EXCEPT ![s] = rec]
  BY DEF Begin, TypeOK
<1> QED
  BY <1>2, <1>3, Replace

\* An index that moves on.
LEMMA MoveType ==
    ASSUME TypeOK, NEW s \in Streams, NEW i \in Items, NEW to \in Progress, Move(s, i, to)
    PROVE  /\ stream' \in [Streams -> Stream]
           /\ stream'[s].pc = stream[s].pc /\ stream'[s].reported = stream[s].reported
           /\ \A u \in Streams \ {s} : stream'[u] = stream[u]
<1> DEFINE a == [stream[s].at EXCEPT ![i] = to]
           rec == [stream[s] EXCEPT !.at = a]
<1>1. stream[s] \in Stream /\ a \in [Items -> Progress]
  BY Fields
<1>2. rec \in Stream /\ rec.pc = stream[s].pc /\ rec.reported = stream[s].reported
  BY <1>1 DEF Stream
<1>3. stream' = [stream EXCEPT ![s] = rec]
  BY DEF Move, TypeOK
<1> QED
  BY <1>2, <1>3, Replace

\* A stream that goes on working disturbs nothing.
LEMMA WorkKeeps ==
    ASSUME IInv, NEW s \in Streams, Running(s),
           stream' \in [Streams -> Stream],
           stream'[s].pc = stream[s].pc, stream'[s].reported = stream[s].reported,
           \A u \in Streams \ {s} : stream'[u] = stream[u],
           UNCHANGED <<conn, closed, sender, gallery>>
    PROVE  IInv'
<1>1. TypeOK'
  BY DEF IInv, TypeOK, gallery
<1>2. \A u \in Streams : stream'[u].pc = stream[u].pc
  OBVIOUS
<1>3. Fresh'
  BY <1>2 DEF IInv, Fresh, Unpublished, Started, gallery
<1>4. Owned'
  BY <1>2 DEF IInv, Owned, ModeOf, Started, Running, gallery, Streams
<1>5. ASSUME NEW u \in Streams
      PROVE  /\ stream'[u].pc = "end" /\ ctx' = "live" => Full(u)'
             /\ stream'[u].reported => stream'[u].pc = "done" /\ Full(u)'
  <2>1. CASE u = s
    BY <2>1 DEF IInv, Accounted, Running
  <2>2. CASE u # s
    BY <2>2, FullSame DEF IInv, Accounted, gallery
  <2> QED
    BY <2>1, <2>2
<1> QED
  BY <1>1, <1>3, <1>4, <1>5 DEF IInv, Accounted

\* A step that leaves every stream alone keeps what was accounted for, unless
\* it brings the gallery to life.
LEMMA StreamsSame ==
    ASSUME IInv, stream' = stream, ctx' = "live" => ctx = "live"
    PROVE  Accounted'
<1> SUFFICES ASSUME NEW u \in Streams
             PROVE  /\ stream'[u].pc = "end" /\ ctx' = "live" => Full(u)'
                    /\ stream'[u].reported => stream'[u].pc = "done" /\ Full(u)'
  BY DEF Accounted
<1> QED
  BY FullSame DEF IInv, Accounted

-----------------------------------------------------------------------------
LEMMA InitOK == Init => IInv
<1> SUFFICES ASSUME Init PROVE IInv
  OBVIOUS
<1> DEFINE rec == [pc |-> "off", generation |-> 0, items |-> {}, cancelled |-> FALSE,
                   at |-> [i \in Items |-> "queued"], reported |-> FALSE]
<1>1. stream = [s \in Streams |-> rec] /\ rec \in Stream
  BY DEF Init, Stream, Progress
<1>2. TypeOK
  <2>1. stream \in [Streams -> Stream]
    <3> HIDE DEF rec
    <3> QED
      BY <1>1
  <2>2. conn \in BOOLEAN /\ closed \in BOOLEAN
    BY Zenon DEF Init
  <2>3. /\ sender \in {"list", "publish", "send", "arm", "done"}
        /\ items \in SUBSET Items /\ generation \in 0 .. 2
        /\ ctx \in {"none", "live", "cancelled"} /\ mode \in {"waiting", "pull", "legacy"}
        /\ timer \in {"none", "armed", "fired"}
        /\ active \in Requests \cup {NoRequest} /\ seen \in SUBSET Requests
    BY DEF Init
  <2> QED
    BY <2>1, <2>2, <2>3 DEF TypeOK
<1>3. Fresh
  BY <1>1 DEF Init, Fresh, Unpublished, Started
<1>4. Owned
  BY <1>1 DEF Init, Owned, Started, Running, Streams
<1>5. Accounted
  BY <1>1 DEF Init, Accounted
<1> QED
  BY <1>2, <1>3, <1>4, <1>5 DEF IInv

\* The steps of sendGallery, of the transport and of the timer.
LEMMA GalleryStep ==
    ASSUME IInv,
           ListGallery \/ Publish \/ SendList \/ Arm \/ TransportEnds \/ HandleClose \/ TimerFires
    PROVE  IInv'
<1> USE DEF gallery
<1>0. TypeOK /\ Fresh /\ Owned /\ Accounted
  BY DEF IInv
<1>1. CASE ListGallery \/ SendList \/ Arm \/ TransportEnds \/ TimerFires
  <2> USE DEF ListGallery, SendList, Arm, TransportEnds, TimerFires
  <2>1. TypeOK'
    BY <1>0, <1>1 DEF TypeOK
  <2>2. /\ stream' = stream /\ items' = items /\ ctx' = ctx /\ mode' = mode /\ seen' = seen
        /\ active' = active /\ closed' = closed /\ generation' = generation
        /\ Unpublished' => Unpublished
        /\ Unpublished => timer' = timer
    BY <1>0, <1>1 DEF Unpublished, Fresh
  <2>3. Fresh'
    BY <1>0, <2>1, <2>2 DEF Fresh, Started, TypeOK
  <2>4. Owned'
    BY <1>0, <2>2 DEF Owned, Started, Running, ModeOf
  <2>5. Accounted'
    BY <2>2, StreamsSame
  <2> QED
    BY <2>1, <2>3, <2>4, <2>5 DEF IInv
<1>2. CASE Publish
  <2> USE DEF Publish
  <2>1. TypeOK'
    BY <1>0, <1>2 DEF TypeOK, Fresh, Unpublished
  <2>2. \A s \in Streams : stream'[s].pc = "off" /\ ~stream'[s].reported
    <3>1. \A s \in Streams : stream[s].pc = "off"
      BY <1>0, <1>2 DEF Fresh, Unpublished, Started
    <3> QED
      BY <1>0, <1>2, <3>1 DEF Accounted
  <2>3. Fresh'
    BY <1>0, <1>2 DEF Fresh, Unpublished, TypeOK
  <2>4. Owned'
    BY <2>2 DEF Owned, Started, Running, Streams
  <2>5. Accounted'
    BY <2>2 DEF Accounted
  <2> QED
    BY <2>1, <2>3, <2>4, <2>5 DEF IInv
<1>3. CASE HandleClose
  <2> USE DEF HandleClose
  <2>1. generation' = generation + 1 /\ generation + 1 \in 0 .. 2
    BY <1>0, <1>3 DEF Fresh, TypeOK
  <2>2. TypeOK'
    BY <1>0, <1>3, <2>1 DEF TypeOK
  <2>3. Fresh'
    BY <1>0, <1>3, <2>1 DEF Fresh, Unpublished, Started, TypeOK
  <2>4. Owned'
    BY <1>0, <1>3 DEF Owned, Started, Running, ModeOf
  <2>5. Accounted'
    BY <1>3, StreamsSame
  <2> QED
    BY <2>2, <2>3, <2>4, <2>5 DEF IInv
<1> QED
  BY <1>1, <1>2, <1>3

\* A stream is started: by the timer or by a batch request.
LEMMA StartStep ==
    ASSUME IInv,
           StartLegacyThumbnailFallback \/ \E q \in Requests : HandleThumbnailBatchRequest(q)
    PROVE  IInv'
<1>0. TypeOK /\ Fresh /\ Owned /\ Accounted
  BY DEF IInv
<1>1. ASSUME NEW s \in Streams, NEW is \in SUBSET Items, Begin(s, is), ~Started(s),
             ctx' = ctx
      PROVE  Accounted'
  <2>1. /\ stream'[s].pc = "run" /\ ~stream'[s].reported
        /\ \A u \in Streams \ {s} : stream'[u] = stream[u]
    <3>1. ~stream[s].reported
      BY <1>0, <1>1 DEF Accounted, Started
    <3> QED
      BY <1>0, <1>1, <3>1, BeginType
  <2> SUFFICES ASSUME NEW u \in Streams
               PROVE  /\ stream'[u].pc = "end" /\ ctx' = "live" => Full(u)'
                      /\ stream'[u].reported => stream'[u].pc = "done" /\ Full(u)'
    BY DEF Accounted
  <2> QED
    BY <1>0, <1>1, <2>1, FullSame DEF Accounted
<1>2. CASE StartLegacyThumbnailFallback
  <2> USE DEF StartLegacyThumbnailFallback
  <2>1. CASE ctx = "live" /\ mode = "waiting"
    <3>1. "legacy" \in Streams /\ items \in SUBSET Items /\ Begin("legacy", items)
      BY <1>0, <1>2, <2>1 DEF Streams, TypeOK
    <3>2. \A u \in Streams : ~Started(u)
      BY <1>0, <2>1 DEF Owned, ModeOf
    <3>3. /\ stream' \in [Streams -> Stream]
          /\ \A u \in Streams \ {"legacy"} : stream'[u] = stream[u]
      BY <1>0, <3>1, BeginType
    <3>4. TypeOK'
      BY <1>0, <1>2, <2>1, <3>3 DEF TypeOK
    <3>5. Fresh'
      BY <1>0, <1>2, <2>1 DEF Fresh, Unpublished, TypeOK
    <3>6. Owned'
      BY <1>2, <2>1, <3>2, <3>3, GalleryAssumption DEF Owned, Started, Running, ModeOf, Streams
    <3>7. Accounted'
      BY <1>1, <1>2, <3>1, <3>2
    <3> QED
      BY <3>4, <3>5, <3>6, <3>7 DEF IInv
  <2>2. CASE ~(ctx = "live" /\ mode = "waiting")
    <3>1. TypeOK'
      BY <1>0, <1>2, <2>2 DEF TypeOK
    <3>2. Fresh'
      BY <1>0, <1>2, <2>2 DEF Fresh, Unpublished, Started, TypeOK
    <3>3. Owned'
      BY <1>0, <1>2, <2>2 DEF Owned, Started, Running, ModeOf
    <3>4. Accounted'
      BY <1>2, <2>2, StreamsSame
    <3> QED
      BY <3>1, <3>2, <3>3, <3>4 DEF IInv
  <2> QED
    BY <2>1, <2>2
<1>3. ASSUME NEW q \in Requests, HandleThumbnailBatchRequest(q)
      PROVE  IInv'
  <2> USE DEF HandleThumbnailBatchRequest
  <2>1. q \in Streams /\ Batch[q] \in SUBSET Items /\ Begin(q, Batch[q]) /\ ~Started(q)
    BY <1>0, <1>3, GalleryAssumption DEF Streams, Owned
  <2>2. /\ stream' \in [Streams -> Stream]
        /\ \A u \in Streams \ {q} : stream'[u] = stream[u]
    BY <1>0, <2>1, BeginType
  <2>3. TypeOK'
    BY <1>0, <1>3, <2>2 DEF TypeOK
  <2>4. Fresh'
    <3>1. items # {}
      BY <1>3, GalleryAssumption
    <3> QED
      BY <1>0, <1>3, <3>1 DEF Fresh, Unpublished, TypeOK
  <2>5. ASSUME NEW u \in Requests, Running(u)'
        PROVE  active' = u \/ ctx' = "cancelled" \/ closed'
    <3>1. CASE u = q
      BY <1>3, <3>1
    <3>2. CASE u # q
      <4>1. Running(u) /\ active = NoRequest /\ u # NoRequest
        BY <1>3, <2>2, <2>5, <3>2, GalleryAssumption DEF Running, Streams, NoRequest
      <4> QED
        BY <1>0, <1>3, <4>1 DEF Owned
    <3> QED
      BY <3>1, <3>2
  <2>6. \A s \in Streams : Started(s)' => mode' = ModeOf(s)
    <3> SUFFICES ASSUME NEW s \in Streams, Started(s)'
                 PROVE  mode' = ModeOf(s)
      OBVIOUS
    <3>1. CASE s = q
      BY <1>3, <3>1, GalleryAssumption DEF ModeOf
    <3>2. CASE s # q
      BY <1>0, <1>3, <2>2, <3>2 DEF Owned, Started, ModeOf
    <3> QED
      BY <3>1, <3>2
  <2>7. \A u \in Requests : Started(u)' => u \in seen'
    BY <1>0, <1>3, <2>2 DEF Owned, Started, Streams
  <2>8. Owned'
    BY <2>5, <2>6, <2>7 DEF Owned, ModeOf
  <2>9. Accounted'
    BY <1>1, <1>3, <2>1
  <2> QED
    BY <2>3, <2>4, <2>8, <2>9 DEF IInv
<1> QED
  BY <1>2, <1>3

\* A thumbnail is taken, fetched, or sent.
LEMMA WorkStep ==
    ASSUME IInv, NEW s \in Streams, NEW i \in Items,
           TakeJob(s, i) \/ GetThumbnail(s, i) \/ Collect(s, i)
    PROVE  IInv'
<1>0. TypeOK
  BY DEF IInv
<1>1. Running(s) /\ UNCHANGED <<conn, closed, sender, gallery>>
  BY DEF TakeJob, GetThumbnail, Collect
<1>2. CASE \E to \in Progress : Move(s, i, to)
  BY <1>0, <1>1, <1>2, MoveType, WorkKeeps
<1>3. CASE stream' = [stream EXCEPT ![s].at[i] = "failed", ![s].cancelled = TRUE]
  <2> DEFINE a == [stream[s].at EXCEPT ![i] = "failed"]
             rec == [[stream[s] EXCEPT !.at = a] EXCEPT !.cancelled = TRUE]
  <2>1. stream[s] \in Stream /\ a \in [Items -> Progress]
    BY <1>0, Fields DEF Progress
  <2>2. rec \in Stream /\ rec.pc = stream[s].pc /\ rec.reported = stream[s].reported
    BY <2>1 DEF Stream
  <2>3. stream' = [stream EXCEPT ![s] = rec]
    BY <1>0, <1>3 DEF TypeOK
  <2> QED
    BY <1>0, <1>1, <2>2, <2>3, Replace, WorkKeeps
<1> QED
  BY <1>2, <1>3 DEF TakeJob, GetThumbnail, Collect, Progress

\* The workers have gone: what is left is listed as failed.
LEMMA FinishStep ==
    ASSUME IInv, NEW s \in Streams, Finish(s)
    PROVE  IInv'
<1>0. TypeOK /\ Fresh /\ Owned /\ Accounted
  BY DEF IInv
<1> DEFINE a == [i \in Items |-> IF ctx = "live" /\ i \in At(s, {"queued", "lost"})
                                 THEN "failed" ELSE stream[s].at[i]]
           rec == [[stream[s] EXCEPT !.pc = "end"] EXCEPT !.at = a]
<1>1. /\ stream[s] \in Stream /\ stream[s].items \in SUBSET Items
      /\ stream[s].at \in [Items -> Progress] /\ a \in [Items -> Progress]
  BY <1>0, Fields DEF Progress
<1>2. /\ rec \in Stream /\ rec.pc = "end" /\ rec.at = a
      /\ rec.items = stream[s].items /\ rec.reported = stream[s].reported
  BY <1>1 DEF Stream
<1>3. stream' = [stream EXCEPT ![s] = rec]
  BY <1>0 DEF Finish, TypeOK
<1>4. Drained(s) /\ UNCHANGED <<conn, closed, sender, gallery>>
  BY DEF Finish
<1>5. /\ stream' \in [Streams -> Stream] /\ stream'[s] = rec
      /\ \A u \in Streams \ {s} : stream'[u] = stream[u]
  BY <1>0, <1>2, <1>3, Replace
<1>6. TypeOK'
  BY <1>0, <1>4, <1>5 DEF TypeOK, gallery
<1>7. Running(s)
  BY <1>4 DEF Drained
<1>8. Fresh'
  BY <1>0, <1>4, <1>5, <1>7 DEF Fresh, Unpublished, Started, Running, gallery
<1>9. Owned'
  BY <1>0, <1>2, <1>4, <1>5, <1>7 DEF Owned, ModeOf, Started, Running, gallery, Streams
<1>10. ctx = "live" => Full(s)'
  <2> SUFFICES ASSUME ctx = "live" PROVE Full(s)'
    OBVIOUS
  <2>1. \A i \in stream[s].items : stream[s].at[i] \in {"queued", "sent", "failed", "lost"}
    BY <1>1, <1>4 DEF Drained, At, Progress
  <2>2. \A i \in stream[s].items : a[i] \in {"sent", "failed"}
    BY <1>1, <2>1 DEF At
  <2>3. stream'[s].items = stream[s].items /\ stream'[s].at = a
    BY <1>2, <1>5
  <2> QED
    BY <2>2, <2>3 DEF Full, At
<1>11. Accounted'
  <2> SUFFICES ASSUME NEW u \in Streams
               PROVE  /\ stream'[u].pc = "end" /\ ctx' = "live" => Full(u)'
                      /\ stream'[u].reported => stream'[u].pc = "done" /\ Full(u)'
    BY DEF Accounted
  <2>1. CASE u = s
    BY <1>0, <1>2, <1>4, <1>5, <1>7, <1>10, <2>1 DEF Accounted, Running, gallery
  <2>2. CASE u # s
    BY <1>0, <1>4, <1>5, <2>2, FullSame DEF Accounted, gallery
  <2> QED
    BY <2>1, <2>2
<1> QED
  BY <1>6, <1>8, <1>9, <1>11 DEF IInv

\* The end is reported and the slot given back.
LEMMA CompleteStep ==
    ASSUME IInv, NEW s \in Streams, Complete(s)
    PROVE  IInv'
<1>0. TypeOK /\ Fresh /\ Owned /\ Accounted
  BY DEF IInv
<1> DEFINE told == Stands(s) /\ conn
           rec == [[stream[s] EXCEPT !.pc = "done"] EXCEPT !.reported = told]
<1>1. stream[s] \in Stream /\ told \in BOOLEAN
  BY <1>0, Fields DEF Stands, TypeOK
<1>2. /\ rec \in Stream /\ rec.pc = "done" /\ rec.reported = told
      /\ rec.items = stream[s].items /\ rec.at = stream[s].at
  BY <1>1 DEF Stream
<1>3. stream' = [stream EXCEPT ![s] = rec]
  BY <1>0 DEF Complete, TypeOK
<1>4. /\ stream[s].pc = "end"
      /\ active' = IF Stands(s) THEN NoRequest ELSE active
      /\ UNCHANGED <<conn, closed, sender, items, generation, ctx, mode, timer, seen>>
  BY DEF Complete
<1>5. /\ stream' \in [Streams -> Stream] /\ stream'[s] = rec
      /\ \A u \in Streams \ {s} : stream'[u] = stream[u]
  BY <1>0, <1>2, <1>3, Replace
<1>6. TypeOK'
  BY <1>0, <1>4, <1>5 DEF TypeOK
<1>7. Fresh'
  BY <1>0, <1>4, <1>5 DEF Fresh, Unpublished, Started
<1>8. ASSUME NEW q \in Requests, Running(q)'
      PROVE  active' = q \/ ctx' = "cancelled" \/ closed'
  <2>1. q # s /\ Running(q) /\ q \in Streams
    BY <1>2, <1>5, <1>8 DEF Running, Streams
  <2>2. active = q \/ ctx = "cancelled" \/ closed
    BY <1>0, <1>8, <2>1 DEF Owned
  <2>3. CASE active = q /\ Stands(s)
    <3>1. s = "legacy" /\ mode = "legacy"
      BY <2>1, <2>3 DEF Stands
    <3>2. mode = "pull"
      BY <1>0, <2>1, <1>8, GalleryAssumption DEF Owned, Started, Running, ModeOf
    <3> QED
      BY <3>1, <3>2
  <2> QED
    BY <1>4, <2>2, <2>3
<1>9. /\ \A u \in Streams : Started(u)' => mode' = ModeOf(u)
      /\ \A q \in Requests : Started(q)' => q \in seen'
  BY <1>0, <1>4, <1>5 DEF Owned, Started, Streams
<1>10. Owned'
  BY <1>8, <1>9 DEF Owned, ModeOf
<1>11. Accounted'
  <2> SUFFICES ASSUME NEW u \in Streams
               PROVE  /\ stream'[u].pc = "end" /\ ctx' = "live" => Full(u)'
                      /\ stream'[u].reported => stream'[u].pc = "done" /\ Full(u)'
    BY DEF Accounted
  <2>1. CASE u = s
    <3>1. told => Full(s)
      BY <1>0, <1>4 DEF Accounted, Stands
    <3>2. Full(s) => Full(s)'
      BY <1>2, <1>5 DEF Full, At
    <3> QED
      BY <1>2, <1>5, <2>1, <3>1, <3>2
  <2>2. CASE u # s
    BY <1>0, <1>4, <1>5, <2>2, FullSame DEF Accounted
  <2> QED
    BY <2>1, <2>2
<1> QED
  BY <1>6, <1>7, <1>10, <1>11 DEF IInv

-----------------------------------------------------------------------------
LEMMA NextOK == IInv /\ [Next]_vars => IInv'
<1> SUFFICES ASSUME IInv, [Next]_vars PROVE IInv'
  OBVIOUS
<1>1. CASE UNCHANGED vars
  <2>0. TypeOK /\ Fresh /\ Owned
    BY DEF IInv
  <2>1. TypeOK' /\ Accounted'
    BY <1>1, <2>0, StreamsSame DEF TypeOK, vars
  <2>2. Fresh'
    BY <1>1, <2>0 DEF Fresh, Unpublished, Started, vars
  <2>3. Owned'
    BY <1>1, <2>0 DEF Owned, ModeOf, Started, Running, vars
  <2> QED
    BY <2>1, <2>2, <2>3 DEF IInv
<1>2. CASE Next
  BY <1>2, GalleryStep, StartStep, WorkStep, FinishStep, CompleteStep DEF Next, StreamStep
<1> QED
  BY <1>1, <1>2

LEMMA Invariance == Spec => []IInv
BY InitOK, NextOK, PTL DEF Spec

\* The variables of the gallery have their types; in particular the published
\* gallery has generation 1 or, once the channel has closed, 2, which is what
\* the generation checks of the manager rely on.
THEOREM TypeCorrect == Spec => []TypeOK
<1>1. IInv => TypeOK
  BY DEF IInv
<1> QED
  BY <1>1, Invariance, PTL

\* The legacy stream and the batches exclude each other, and so do batches of a
\* gallery that is still there, whatever the timer, the requests and the close
\* do in any order.
THEOREM OneWayOfSending == Spec => []OneStream
<1>1. IInv => OneStream
  <2> SUFFICES ASSUME IInv, NEW s \in Streams, NEW u \in Streams,
                      s # u, Started(s), Started(u)
               PROVE  /\ s # "legacy" /\ u # "legacy"
                      /\ Running(s) /\ Running(u) => ctx = "cancelled" \/ closed
    BY DEF OneStream
  <2>1. ModeOf(s) = ModeOf(u)
    BY DEF IInv, Owned
  <2>2. s # "legacy" /\ u # "legacy"
    BY <2>1 DEF ModeOf
  <2>3. s \in Requests /\ u \in Requests
    BY <2>2 DEF Streams
  <2> QED
    BY <2>2, <2>3 DEF IInv, Owned
<1> QED
  BY <1>1, Invariance, PTL

\* A complete message accounts for every index of its batch.
THEOREM CompleteReportsAll == Spec => []ReportsAll
<1>1. IInv => ReportsAll
  BY DEF IInv, Accounted, Full, ReportsAll
<1> QED
  BY <1>1, Invariance, PTL

=============================================================================
