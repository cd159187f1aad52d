-------------------------- MODULE MediaStreamProofs --------------------------
(***************************************************************************)
(* Proofs about MediaStream for any number of handlers, operations,        *)
(* generations and chunks.                                                 *)
(***************************************************************************)
EXTENDS MediaStream, TLAPS

\* What the type invariant says of numbers and fields.
LEMMA Typed ==
    ASSUME TypeOK
    PROVE  /\ MaxOps \in Nat /\ MaxGen \in Nat /\ MaxChunks \in Nat
           /\ media.op \in Nat /\ media.op <= MaxOps /\ media.gen \in 0 .. MaxGen
           /\ media.cancel \in Ops \cup {NoOp} /\ media.id \in Ids \cup {NoId}
           /\ media.op # NoOp => media.op \in Ops
           /\ media.op < MaxOps => media.op + 1 \in Ops
           /\ said \in Nat
           /\ \A o \in Ops : o \in Nat /\ o # NoOp
BY MediaAssumption DEF TypeOK, Media, Ops, NoOp

\* What the type invariant says of a handler.
LEMMA Works ==
    ASSUME TypeOK, NEW h \in Handlers
    PROVE  /\ hnd[h].op \in Ops \cup {NoOp} /\ hnd[h].gen \in 0 .. MaxGen
           /\ hnd[h].seek \in BOOLEAN /\ hnd[h].id \in Ids \cup {NoId}
           /\ hnd[h].pc \in {"idle", "header", "probe"}
BY DEF TypeOK, Handler

\* The records that stand for nothing are of their types.
LEMMA Blank == IdleHandler \in Handler /\ NoBirth \in Birth
BY MediaAssumption DEF IdleHandler, NoBirth, Handler, Birth, Ops

\* A new operation is well formed, and the one that held the cancel function
\* is cancelled.
LEMMA Begins ==
    ASSUME TypeOK, NEW id \in Ids, NEW quality \in Qualities, NEW g \in 0 .. MaxGen,
           media.op < MaxOps, BeginMediaLocked(id, quality, g)
    PROVE  /\ media' \in Media /\ media.op + 1 \in Ops
           /\ media'.op = media.op + 1 /\ media'.id = id /\ media'.gen = g
           /\ media'.cancel = media.op + 1
           /\ cancelled' = cancelled \cup ({media.cancel} \ {NoOp})
           /\ cancelled' \subseteq Ops
<1>1. media.op + 1 \in Ops /\ media.cancel \in Ops \cup {NoOp}
  BY Typed
<1>2. media' = [op |-> media.op + 1, id |-> id, quality |-> quality, gen |-> g,
                cancel |-> media.op + 1]
  BY DEF BeginMediaLocked
<1>3. media' \in Media
  BY <1>1, <1>2 DEF Media
<1>4. cancelled' = cancelled \cup ({media.cancel} \ {NoOp}) /\ cancelled' \subseteq Ops
  BY <1>1 DEF BeginMediaLocked, TypeOK
<1> QED
  BY <1>1, <1>2, <1>3, <1>4

\* finishMedia leaves the operation alone, and cancels it if it is current.
LEMMA Finishes ==
    ASSUME TypeOK, NEW o, FinishMedia(o)
    PROVE  /\ media' \in Media /\ media'.op = media.op /\ media'.id = media.id
           /\ media'.gen = media.gen /\ media'.quality = media.quality
           /\ cancelled' \subseteq Ops
           /\ media.op # o => media' = media /\ cancelled' = cancelled
           /\ media.op = o => /\ media'.cancel = NoOp
                              /\ cancelled' = cancelled \cup ({media.cancel} \ {NoOp})
BY DEF TypeOK, Media, FinishMedia, NoOp

-----------------------------------------------------------------------------
\* Nothing is said of an operation that has not begun.
SaidBounded == said <= media.op

\* A handler works on an operation that has begun, and on an asset.
HandlersBounded ==
    \A h \in Handlers : hnd[h].pc # "idle" =>
        hnd[h].op # NoOp /\ hnd[h].op <= media.op /\ hnd[h].id \in Ids

\* An operation that has not begun has left no trace.
OpsBounded ==
    \A o \in Ops : o > media.op =>
        pc[o] = "none" /\ chunks[o] = 0 /\ born[o] = NoBirth /\ prod[o] = "none"

\* The backend has no more than MaxChunks chunks of an operation.
Room ==
    \A o \in Ops : Fetched(o) + (IF prod[o] = "writing" THEN 1 ELSE 0) <= MaxChunks

\* A handler that is not idle names an operation.
LEMMA Holds ==
    ASSUME TypeOK, HandlersBounded, NEW h \in Handlers, hnd[h].pc # "idle"
    PROVE  hnd[h].op \in Ops /\ hnd[h].op \in Nat /\ hnd[h].op <= media.op /\ hnd[h].id \in Ids
BY Works, Typed DEF HandlersBounded

\* The facts every other argument starts from.
Shape == TypeOK /\ SaidBounded /\ HandlersBounded /\ OpsBounded /\ Room

\* The first state is well formed.
LEMMA InitShape == Init => Shape
<1> SUFFICES ASSUME Init PROVE Shape
  OBVIOUS
<1> USE DEF Init
<1>1. media \in Media
  BY MediaAssumption DEF Media, Qualities
<1>2. hnd \in [Handlers -> Handler] /\ born \in [Ops -> Birth]
  BY Blank
<1>3. /\ pc \in [Ops -> StreamPC] /\ prod \in [Ops -> Producer]
      /\ cancelled \in SUBSET Ops /\ told \subseteq Ops
      /\ said \in Ops \cup {NoOp} /\ broken \in BOOLEAN
  BY DEF StreamPC, Producer
<1>4. gen \in [Ops -> 0 .. MaxGen] /\ chunks \in [Ops -> 0 .. MaxChunks]
  BY MediaAssumption
<1>5. TypeOK
  BY <1>1, <1>2, <1>3, <1>4 DEF TypeOK
<1>6. SaidBounded /\ HandlersBounded /\ OpsBounded
  BY DEF SaidBounded, HandlersBounded, OpsBounded, IdleHandler, NoOp
<1>7. Room
  BY MediaAssumption DEF Room, Fetched
<1> QED
  BY <1>5, <1>6, <1>7 DEF Shape

\* Every step keeps the types.
LEMMA NextType == TypeOK /\ HandlersBounded /\ Room /\ [Next]_vars => TypeOK'
<1> SUFFICES ASSUME TypeOK, HandlersBounded, Room, [Next]_vars PROVE TypeOK'
  OBVIOUS
<1> USE DEF TypeOK, StreamPC, Producer
<1>1. ASSUME NEW h \in Handlers, NEW r \in Previews,
           PreviewRequest(h, r)
     PROVE  TypeOK'
  <2>1. r.id \in Ids /\ r.quality \in Qualities /\ r.gen \in 0 .. MaxGen
    BY MediaAssumption
  <2>2. media' \in Media /\ media.op + 1 \in Ops /\ cancelled' \subseteq Ops
    BY <1>1, <2>1, Begins DEF PreviewRequest
  <2>3. hnd' \in [Handlers -> Handler]
    BY <1>1, <2>1, <2>2 DEF PreviewRequest, Handler
  <2>4. born' \in [Ops -> Birth]
    BY <1>1, <2>1, <2>2 DEF PreviewRequest, Birth
  <2> QED
    BY <1>1, <2>2, <2>3, <2>4 DEF PreviewRequest
<1>2. ASSUME NEW h \in Handlers, NEW id \in Ids, NEW g \in 1 .. MaxGen, NEW parent \in Ops,
           SeekRequest(h, id, g, parent)
     PROVE  TypeOK'
  <2>1. g \in 0 .. MaxGen
    BY MediaAssumption
  <2>2. hnd' \in [Handlers -> Handler]
    BY <1>2, <2>1 DEF SeekRequest, Handler
  <2> QED
    BY <1>2, <2>2 DEF SeekRequest
<1>3. ASSUME NEW h \in Handlers,
           ProbeFail(h)
     PROVE  TypeOK'
  <2>1. hnd' \in [Handlers -> Handler]
    BY <1>3, Blank DEF ProbeFail
  <2> QED
    BY <1>3, <2>1, Works DEF ProbeFail
<1>4. ASSUME NEW h \in Handlers,
           ProbeAccepted(h)
     PROVE  TypeOK'
  <2>1. hnd[h].id \in Ids /\ "video" \in Qualities /\ hnd[h].gen \in 0 .. MaxGen
        /\ hnd[h].op \in Ops
    BY <1>4, Works, Holds DEF ProbeAccepted, Qualities
  <2>2. media' \in Media /\ media.op + 1 \in Ops /\ cancelled' \subseteq Ops
    BY <1>4, <2>1, Begins DEF ProbeAccepted
  <2>3. hnd' \in [Handlers -> Handler]
    BY <1>4, <2>1, <2>2 DEF ProbeAccepted, Handler
  <2>4. born' \in [Ops -> Birth]
    BY <1>4, <2>1, <2>2 DEF ProbeAccepted, Birth
  <2> QED
    BY <1>4, <2>2, <2>3, <2>4 DEF ProbeAccepted
<1>5. ASSUME NEW h \in Handlers,
           ProbeStale(h)
     PROVE  TypeOK'
  <2>1. hnd' \in [Handlers -> Handler]
    BY <1>5, Blank DEF ProbeStale
  <2> QED
    BY <1>5, <2>1 DEF ProbeStale
<1>6. ASSUME NEW h \in Handlers,
           SendHeader(h)
     PROVE  TypeOK'
  <2>1. hnd' \in [Handlers -> Handler]
    BY <1>6, Blank DEF SendHeader
  <2>2. hnd[h].op \in Ops /\ hnd[h].gen \in 0 .. MaxGen
    BY <1>6, Works, Holds DEF SendHeader
  <2>3. PICK g : g = IF media.quality = "video" THEN hnd[h].gen ELSE 0
    OBVIOUS
  <2>4. g \in 0 .. MaxGen
    BY <2>2, <2>3, MediaAssumption
  <2>5. gen' = [gen EXCEPT ![hnd[h].op] = g]
    BY <1>6, <2>3 DEF SendHeader
  <2>6. gen' \in [Ops -> 0 .. MaxGen]
    BY <2>4, <2>5
  <2> QED
    BY <1>6, <2>1, <2>2, <2>6 DEF SendHeader, Goto
<1>7. ASSUME NEW h \in Handlers,
           SkipHeader(h)
     PROVE  TypeOK'
  <2>1. hnd' \in [Handlers -> Handler]
    BY <1>7, Blank DEF SkipHeader
  <2>2. media' \in Media /\ cancelled' \subseteq Ops
    BY <1>7, Finishes DEF SkipHeader
  <2> QED
    BY <1>7, <2>1, <2>2 DEF SkipHeader
<1>8. ASSUME NEW o \in Ops,
           Top(o) \/ ReadChunk(o) \/ ReadEnd(o) \/ CheckFail(o) \/ SendFail(o) \/
           CheckEnd(o) \/ SendEnd(o) \/ Fetch(o) \/ Return(o)
     PROVE  TypeOK'
  BY <1>8 DEF Top, Goto, ReadChunk, ReadEnd, CheckFail, SendFail, Tell, IsCurrent, CheckEnd,
     SendEnd, Fetch, Return
<1>9. ASSUME NEW o \in Ops,
           SendChunk(o)
     PROVE  TypeOK'
  <2>1. CASE MaySendChunk(o) /\ ~broken
    <3>1. chunks[o] + 1 \in 0 .. MaxChunks
      <4>1. chunks[o] \in 0 .. MaxChunks /\ MaxChunks \in Nat
        BY MediaAssumption
      <4>2. chunks[o] + 1 + (IF prod[o] = "writing" THEN 1 ELSE 0) <= MaxChunks
        BY <1>9 DEF Room, Fetched, SendChunk
      <4> QED
        BY <4>1, <4>2
    <3>2. chunks' = [chunks EXCEPT ![o] = chunks[o] + 1] /\ pc' = [pc EXCEPT ![o] = "top"]
      BY <1>9, <2>1 DEF SendChunk, Goto
    <3>3. chunks' \in [Ops -> 0 .. MaxChunks]
      BY <3>1, <3>2
    <3> QED
      BY <1>9, <3>2, <3>3 DEF SendChunk
  <2>2. CASE ~(MaySendChunk(o) /\ ~broken)
    BY <1>9, <2>2 DEF SendChunk, Goto
  <2> QED
    BY <2>1, <2>2
<1>10. ASSUME NEW o \in Ops,
           Finish(o)
     PROVE  TypeOK'
  <2>1. media' \in Media /\ cancelled' \subseteq Ops
    BY <1>10, Finishes DEF Finish
  <2>2. 0 \in 0 .. MaxChunks
    BY MediaAssumption
  <2> QED
    BY <1>10, <2>1, <2>2 DEF Finish, Goto, ClosePipe
<1>11. CASE Break
  BY <1>11 DEF Break
<1>12. CASE UNCHANGED vars
  BY <1>12 DEF vars
<1> QED
  BY <1>1, <1>2, <1>3, <1>4, <1>5, <1>6, <1>7, <1>8, <1>9, <1>10, <1>11,
     <1>12 DEF Next, Handle, Step

\* An operation number only grows, by one, when a request or a seek is accepted.
LEMMA NextOp == TypeOK /\ HandlersBounded /\ [Next]_vars => media'.op \in {media.op, media.op + 1}
<1> SUFFICES ASSUME TypeOK, HandlersBounded, [Next]_vars PROVE media'.op \in {media.op, media.op + 1}
  OBVIOUS
<1>1. ASSUME NEW h \in Handlers, NEW r \in Previews,
           PreviewRequest(h, r)
     PROVE  media'.op \in {media.op, media.op + 1}
  BY <1>1 DEF PreviewRequest, BeginMediaLocked
<1>2. ASSUME NEW h \in Handlers, NEW id \in Ids, NEW g \in 1 .. MaxGen, NEW parent \in Ops,
           SeekRequest(h, id, g, parent)
     PROVE  media'.op \in {media.op, media.op + 1}
  BY <1>2 DEF SeekRequest
<1>3. ASSUME NEW h \in Handlers,
           ProbeFail(h) \/ ProbeAccepted(h) \/ ProbeStale(h) \/ SendHeader(h)
     PROVE  media'.op \in {media.op, media.op + 1}
  BY <1>3 DEF ProbeFail, ProbeAccepted, BeginMediaLocked, ProbeStale, SendHeader
<1>4. ASSUME NEW h \in Handlers,
           SkipHeader(h)
     PROVE  media'.op \in {media.op, media.op + 1}
  BY <1>4, Finishes DEF SkipHeader
<1>5. ASSUME NEW o \in Ops,
           Top(o) \/ ReadChunk(o) \/ ReadEnd(o) \/ SendChunk(o) \/ CheckFail(o) \/
           SendFail(o) \/ CheckEnd(o) \/ SendEnd(o) \/ Fetch(o) \/ Return(o)
     PROVE  media'.op \in {media.op, media.op + 1}
  BY <1>5 DEF Top, ReadChunk, ReadEnd, SendChunk, CheckFail, SendFail, CheckEnd, SendEnd,
     Fetch, Return
<1>6. ASSUME NEW o \in Ops,
           Finish(o)
     PROVE  media'.op \in {media.op, media.op + 1}
  BY <1>6, Finishes DEF Finish
<1>7. CASE Break
  BY <1>7 DEF Break
<1>8. CASE UNCHANGED vars
  BY <1>8 DEF vars
<1> QED
  BY <1>1, <1>2, <1>3, <1>4, <1>5, <1>6, <1>7, <1>8 DEF Next, Handle, Step

\* Only a message about the current operation is sent.
LEMMA NextSaid == TypeOK /\ HandlersBounded /\ SaidBounded /\ [Next]_vars => said' \in {said, media.op}
<1> SUFFICES ASSUME TypeOK, HandlersBounded, SaidBounded, [Next]_vars PROVE said' \in {said, media.op}
  OBVIOUS
<1>1. ASSUME NEW h \in Handlers, NEW r \in Previews,
           PreviewRequest(h, r)
     PROVE  said' \in {said, media.op}
  BY <1>1 DEF PreviewRequest, BeginMediaLocked
<1>2. ASSUME NEW h \in Handlers, NEW id \in Ids, NEW g \in 1 .. MaxGen, NEW parent \in Ops,
           SeekRequest(h, id, g, parent)
     PROVE  said' \in {said, media.op}
  BY <1>2 DEF SeekRequest, IsCurrentMediaOperation
<1>3. ASSUME NEW h \in Handlers,
           ProbeFail(h) \/ ProbeAccepted(h) \/ ProbeStale(h) \/ SendHeader(h) \/
           SkipHeader(h)
     PROVE  said' \in {said, media.op}
  BY <1>3 DEF ProbeFail, IsCurrent, ProbeAccepted, BeginMediaLocked, AcceptsSeek,
     IsCurrentMediaOperation, ProbeStale, SendHeader, Goto, SkipHeader, FinishMedia
<1>4. ASSUME NEW o \in Ops,
           Top(o) \/ ReadChunk(o) \/ ReadEnd(o) \/ SendChunk(o) \/ CheckFail(o) \/
           SendFail(o) \/ CheckEnd(o) \/ SendEnd(o) \/ Finish(o) \/ Fetch(o) \/
           Return(o)
     PROVE  said' \in {said, media.op}
  BY <1>4 DEF Top, Goto, ReadChunk, ReadEnd, SendChunk, MaySendChunk, CheckFail, SendFail,
     Tell, IsCurrent, CheckEnd, SendEnd, Finish, FinishMedia, ClosePipe, Fetch, Return
<1>5. CASE Break
  BY <1>5 DEF Break
<1>6. CASE UNCHANGED vars
  BY <1>6 DEF vars
<1> QED
  BY <1>1, <1>2, <1>3, <1>4, <1>5, <1>6 DEF Next, Handle, Step

\* A message names an operation that has begun.
LEMMA KeepsSaid == TypeOK /\ HandlersBounded /\ SaidBounded /\ [Next]_vars => SaidBounded'
BY NextSaid, NextOp, Typed DEF SaidBounded

\* A handler keeps to an operation that has begun.
LEMMA KeepsHandlers == TypeOK /\ HandlersBounded /\ [Next]_vars => HandlersBounded'
<1> SUFFICES ASSUME TypeOK, HandlersBounded, [Next]_vars PROVE HandlersBounded'
  OBVIOUS
<1>a. hnd \in [Handlers -> Handler]
  BY DEF TypeOK
<1> USE DEF HandlersBounded
<1>1. ASSUME NEW h \in Handlers, NEW r \in Previews,
           PreviewRequest(h, r)
     PROVE  HandlersBounded'
  <2>1. r.id \in Ids /\ media'.op = media.op + 1 /\ media.op \in Nat
    BY <1>1, MediaAssumption, Typed DEF PreviewRequest, BeginMediaLocked
  <2>2. ASSUME NEW k \in Handlers, hnd'[k].pc # "idle"
        PROVE  hnd'[k].op # NoOp /\ hnd'[k].op <= media'.op /\ hnd'[k].id \in Ids
    <3>1. CASE k = h
      BY <1>1, <1>a, <2>1, <3>1 DEF PreviewRequest, NoOp
    <3>2. CASE k # h
      BY <1>1, <1>a, <2>1, <2>2, <3>2, Holds, Typed DEF PreviewRequest
    <3> QED
      BY <3>1, <3>2
  <2> QED
    BY <2>2
<1>2. ASSUME NEW h \in Handlers, NEW id \in Ids, NEW g \in 1 .. MaxGen, NEW parent \in Ops,
           SeekRequest(h, id, g, parent)
     PROVE  HandlersBounded'
  <2>1. media.op = parent /\ parent # NoOp /\ parent \in Nat
    BY <1>2, Typed DEF SeekRequest, IsCurrentMediaOperation
  <2> QED
    BY <1>2, <1>a, <2>1 DEF SeekRequest
<1>3. ASSUME NEW h \in Handlers,
           ProbeFail(h) \/ ProbeStale(h) \/ SendHeader(h)
     PROVE  HandlersBounded'
  BY <1>3, <1>a DEF ProbeFail, IdleHandler, ProbeStale, SendHeader
<1>4. ASSUME NEW h \in Handlers,
           ProbeAccepted(h)
     PROVE  HandlersBounded'
  <2>1. hnd[h].id \in Ids /\ media'.op = media.op + 1 /\ media.op \in Nat
    BY <1>4, Holds, Typed DEF ProbeAccepted, BeginMediaLocked
  <2>2. ASSUME NEW k \in Handlers, hnd'[k].pc # "idle"
        PROVE  hnd'[k].op # NoOp /\ hnd'[k].op <= media'.op /\ hnd'[k].id \in Ids
    <3>1. CASE k = h
      BY <1>4, <1>a, <2>1, <3>1 DEF ProbeAccepted, NoOp
    <3>2. CASE k # h
      BY <1>4, <1>a, <2>1, <2>2, <3>2, Holds, Typed DEF ProbeAccepted
    <3> QED
      BY <3>1, <3>2
  <2> QED
    BY <2>2
<1>5. ASSUME NEW h \in Handlers,
           SkipHeader(h)
     PROVE  HandlersBounded'
  BY <1>5, <1>a, Finishes DEF SkipHeader, IdleHandler
<1>6. ASSUME NEW o \in Ops,
           Top(o) \/ ReadChunk(o) \/ ReadEnd(o) \/ SendChunk(o) \/ CheckFail(o) \/
           SendFail(o) \/ CheckEnd(o) \/ SendEnd(o) \/ Fetch(o) \/ Return(o)
     PROVE  HandlersBounded'
  BY <1>6 DEF Top, Goto, ReadChunk, ReadEnd, SendChunk, MaySendChunk, CheckFail, SendFail,
     Tell, IsCurrent, CheckEnd, SendEnd, Fetch, Return
<1>7. ASSUME NEW o \in Ops,
           Finish(o)
     PROVE  HandlersBounded'
  BY <1>7, Finishes DEF Finish
<1>8. CASE Break
  BY <1>8 DEF Break
<1>9. CASE UNCHANGED vars
  BY <1>9 DEF vars
<1> QED
  BY <1>1, <1>2, <1>3, <1>4, <1>5, <1>6, <1>7, <1>8, <1>9 DEF Next, Handle,
     Step

\* Nothing is done for an operation that has not begun.
LEMMA KeepsOps == TypeOK /\ HandlersBounded /\ OpsBounded /\ [Next]_vars => OpsBounded'
<1> SUFFICES ASSUME TypeOK, HandlersBounded, OpsBounded, [Next]_vars PROVE OpsBounded'
  OBVIOUS
<1>a. pc \in [Ops -> StreamPC] /\ prod \in [Ops -> Producer] /\ born \in [Ops -> Birth]
      /\ chunks \in [Ops -> 0 .. MaxChunks]
  BY DEF TypeOK
<1>b. media.op \in Nat /\ \A o \in Ops : o \in Nat
  BY Typed
<1> USE DEF OpsBounded
<1>1. ASSUME NEW h \in Handlers, NEW r \in Previews,
           PreviewRequest(h, r)
     PROVE  OpsBounded'
  <2>1. media'.op = media.op + 1
    BY <1>1 DEF PreviewRequest, BeginMediaLocked
  <2> QED
    BY <1>1, <1>a, <1>b, <2>1 DEF PreviewRequest
<1>2. ASSUME NEW h \in Handlers, NEW id \in Ids, NEW g \in 1 .. MaxGen, NEW parent \in Ops,
           SeekRequest(h, id, g, parent)
     PROVE  OpsBounded'
  BY <1>2, <1>a, <1>b DEF SeekRequest, IsCurrentMediaOperation
<1>3. ASSUME NEW h \in Handlers,
           ProbeFail(h) \/ ProbeStale(h)
     PROVE  OpsBounded'
  BY <1>3, <1>a, <1>b DEF ProbeFail, IsCurrent, ProbeStale
<1>4. ASSUME NEW h \in Handlers,
           ProbeAccepted(h)
     PROVE  OpsBounded'
  <2>1. media'.op = media.op + 1
    BY <1>4 DEF ProbeAccepted, BeginMediaLocked
  <2> QED
    BY <1>4, <1>a, <1>b, <2>1 DEF ProbeAccepted
<1>5. ASSUME NEW h \in Handlers,
           SendHeader(h)
     PROVE  OpsBounded'
  <2>1. hnd[h].op \in Ops /\ hnd[h].op <= media.op
    BY <1>5, Holds DEF SendHeader
  <2> QED
    BY <1>5, <1>a, <1>b, <2>1 DEF SendHeader, Goto
<1>6. ASSUME NEW h \in Handlers,
           SkipHeader(h)
     PROVE  OpsBounded'
  <2>1. hnd[h].op \in Ops /\ hnd[h].op <= media.op /\ media'.op = media.op
    BY <1>6, Holds, Finishes DEF SkipHeader
  <2> QED
    BY <1>6, <1>a, <1>b, <2>1 DEF SkipHeader
<1>7. ASSUME NEW o \in Ops,
           Top(o) \/ ReadChunk(o) \/ ReadEnd(o) \/ SendChunk(o) \/ CheckFail(o) \/
           SendFail(o) \/ CheckEnd(o) \/ SendEnd(o) \/ Fetch(o) \/ Return(o)
     PROVE  OpsBounded'
  BY <1>7, <1>a, <1>b DEF Top, Goto, ReadChunk, ReadEnd, SendChunk, MaySendChunk, CheckFail,
     SendFail, Tell, IsCurrent, CheckEnd, SendEnd, Fetch, Return
<1>8. ASSUME NEW o \in Ops,
           Finish(o)
     PROVE  OpsBounded'
  <2>1. media'.op = media.op
    BY <1>8, Finishes DEF Finish
  <2> QED
    BY <1>8, <1>a, <1>b, <2>1 DEF Finish, Goto, ClosePipe
<1>9. CASE Break
  BY <1>9, <1>a, <1>b DEF Break
<1>10. CASE UNCHANGED vars
  BY <1>10 DEF vars
<1> QED
  BY <1>1, <1>2, <1>3, <1>4, <1>5, <1>6, <1>7, <1>8, <1>9, <1>10 DEF Next,
     Handle, Step

\* The backend never hands out more than it has.
LEMMA KeepsRoom == TypeOK /\ HandlersBounded /\ OpsBounded /\ Room /\ [Next]_vars => Room'
<1> SUFFICES ASSUME TypeOK, HandlersBounded, OpsBounded, Room, [Next]_vars PROVE Room'
  OBVIOUS
<1>a. pc \in [Ops -> StreamPC] /\ prod \in [Ops -> Producer]
      /\ chunks \in [Ops -> 0 .. MaxChunks]
  BY DEF TypeOK
<1>b. MaxChunks \in Nat /\ MaxChunks > 0
  BY MediaAssumption
<1> USE DEF Room, Fetched
<1>1. ASSUME NEW h \in Handlers, NEW r \in Previews,
           PreviewRequest(h, r)
     PROVE  Room'
  BY <1>1, <1>a, <1>b DEF PreviewRequest, BeginMediaLocked
<1>2. ASSUME NEW h \in Handlers, NEW id \in Ids, NEW g \in 1 .. MaxGen, NEW parent \in Ops,
           SeekRequest(h, id, g, parent)
     PROVE  Room'
  BY <1>2, <1>a, <1>b DEF SeekRequest, IsCurrentMediaOperation
<1>3. ASSUME NEW h \in Handlers,
           ProbeFail(h) \/ ProbeStale(h) \/ SkipHeader(h)
     PROVE  Room'
  BY <1>3, <1>a, <1>b DEF ProbeFail, IsCurrent, ProbeStale, SkipHeader
<1>4. ASSUME NEW h \in Handlers,
           ProbeAccepted(h)
     PROVE  Room'
  <2>1. media.op + 1 \in Ops /\ media.op + 1 > media.op
    BY <1>4, Typed DEF ProbeAccepted
  <2>2. pc[media.op + 1] = "none" /\ chunks[media.op + 1] = 0
    BY <2>1 DEF OpsBounded
  <2> QED
    BY <1>4, <1>a, <1>b, <2>1, <2>2 DEF ProbeAccepted
<1>5. ASSUME NEW h \in Handlers,
           SendHeader(h)
     PROVE  Room'
  <2>1. hnd[h].op \in Ops
    BY <1>5, Holds DEF SendHeader
  <2> QED
    BY <1>5, <1>a, <1>b, <2>1 DEF SendHeader, Goto
<1>6. ASSUME NEW o \in Ops,
           Top(o) \/ ReadChunk(o) \/ ReadEnd(o) \/ SendChunk(o) \/ CheckFail(o) \/
           SendFail(o) \/ CheckEnd(o) \/ SendEnd(o) \/ Finish(o) \/ Fetch(o) \/
           Return(o)
     PROVE  Room'
  BY <1>6, <1>a, <1>b DEF Top, Goto, ReadChunk, ReadEnd, SendChunk, MaySendChunk, CheckFail,
     SendFail, Tell, IsCurrent, CheckEnd, SendEnd, Finish, ClosePipe, Fetch, Return
<1>7. CASE Break
  BY <1>7, <1>a, <1>b DEF Break
<1>8. CASE UNCHANGED vars
  BY <1>8 DEF vars
<1> QED
  BY <1>1, <1>2, <1>3, <1>4, <1>5, <1>6, <1>7, <1>8 DEF Next, Handle, Step

\* Every step keeps the shape of the state.
LEMMA NextShape == Shape /\ [Next]_vars => Shape'
BY NextType, KeepsSaid, KeepsHandlers, KeepsOps, KeepsRoom DEF Shape

\* The shape of the state is an invariant.
LEMMA AlwaysShape == Spec => []Shape
<1>1. Init => Shape
  BY InitShape
<1>2. Shape /\ [Next]_vars => Shape'
  BY NextShape
<1> QED
  BY <1>1, <1>2, PTL DEF Spec

\* TypeOK holds of every behaviour: in particular no request names an operation
\* the manager never began, and no producer hands out more than its body.
THEOREM TypeCorrect == Spec => []TypeOK
BY AlwaysShape, PTL DEF Shape

-----------------------------------------------------------------------------
\* A frame leaves only for the current operation, a control message too.
LEMMA NextStale ==
    Shape /\ [Next]_vars =>
        said' >= said /\ \A o \in Ops : chunks'[o] > chunks[o] => o >= said
<1> SUFFICES ASSUME Shape, [Next]_vars
             PROVE  said' >= said /\ \A p \in Ops : chunks'[p] > chunks[p] => p >= said
  OBVIOUS
<1>a. said \in Nat /\ media.op \in Nat /\ said <= media.op /\ chunks \in [Ops -> 0 .. MaxChunks]
  BY Typed DEF Shape, SaidBounded, TypeOK
<1>b. said' >= said
  BY <1>a, NextSaid DEF Shape
<1> SUFFICES ASSUME NEW p \in Ops PROVE chunks'[p] > chunks[p] => p >= said
  BY <1>b
<1>c. chunks[p] \in Nat /\ ~(chunks[p] > chunks[p])
  BY <1>a, MediaAssumption
<1>1. ASSUME NEW h \in Handlers, NEW r \in Previews,
           PreviewRequest(h, r)
     PROVE  (chunks'[p] > chunks[p] => p >= said)
  BY <1>1, <1>c DEF PreviewRequest
<1>2. ASSUME NEW h \in Handlers, NEW id \in Ids, NEW g \in 1 .. MaxGen, NEW parent \in Ops,
           SeekRequest(h, id, g, parent)
     PROVE  (chunks'[p] > chunks[p] => p >= said)
  BY <1>2, <1>c DEF SeekRequest
<1>3. ASSUME NEW h \in Handlers,
           ProbeFail(h) \/ ProbeAccepted(h) \/ ProbeStale(h) \/ SendHeader(h) \/
           SkipHeader(h)
     PROVE  (chunks'[p] > chunks[p] => p >= said)
  BY <1>3, <1>c DEF ProbeFail, ProbeAccepted, ProbeStale, SendHeader, SkipHeader
<1>4. ASSUME NEW o \in Ops,
           Top(o) \/ ReadChunk(o) \/ ReadEnd(o) \/ CheckFail(o) \/ SendFail(o) \/
           CheckEnd(o) \/ SendEnd(o) \/ Fetch(o) \/ Return(o)
     PROVE  (chunks'[p] > chunks[p] => p >= said)
  BY <1>4, <1>c DEF Top, ReadChunk, ReadEnd, CheckFail, SendFail, CheckEnd, SendEnd, Fetch,
     Return
<1>5. ASSUME NEW o \in Ops,
           SendChunk(o)
     PROVE  (chunks'[p] > chunks[p] => p >= said)
  <2>1. CASE MaySendChunk(o) /\ ~broken
    BY <1>5, <2>1, <1>a, <1>c DEF SendChunk, MaySendChunk
  <2>2. CASE ~(MaySendChunk(o) /\ ~broken)
    BY <1>5, <2>2, <1>c DEF SendChunk
  <2> QED
    BY <2>1, <2>2
<1>6. ASSUME NEW o \in Ops,
           Finish(o)
     PROVE  (chunks'[p] > chunks[p] => p >= said)
  <2>1. ~(0 > chunks[p])
    BY <1>c
  <2> QED
    BY <1>6, <1>a, <1>c, <2>1 DEF Finish
<1>7. CASE Break
  BY <1>7, <1>c DEF Break
<1>8. CASE UNCHANGED vars
  BY <1>c, <1>8 DEF vars
<1> QED
  BY <1>1, <1>2, <1>3, <1>4, <1>5, <1>6, <1>7, <1>8 DEF Next, Handle, Step

\* "Stale bytes cannot follow a replacement lifecycle" (manager.go:1551): the
\* streams of replaced operations send nothing after a newer header, whatever
\* the number of handlers and streams that overlap.
THEOREM StaleBytesNeverFollow == Spec => StaleNeverFollows
<1>1. Shape /\ [Next]_vars =>
          [said' >= said /\ \A o \in Ops : chunks'[o] > chunks[o] => o >= said]_vars
  BY NextStale
<1> QED
  BY <1>1, AlwaysShape, PTL DEF Spec, StaleNeverFollows

-----------------------------------------------------------------------------
\* The cancel function the Manager holds is that of its current operation, and it
\* gave it up only by calling it.
CancelHeld ==
    /\ media.cancel \in {NoOp, media.op}
    /\ media.cancel = NoOp => media.op = NoOp \/ media.op \in cancelled

\* A cancel function is given up only by calling it.
LEMMA KeepsCancel == Shape /\ CancelHeld /\ [Next]_vars => CancelHeld'
<1> SUFFICES ASSUME Shape, CancelHeld, [Next]_vars PROVE CancelHeld'
  OBVIOUS
<1> USE DEF CancelHeld
<1>1. ASSUME NEW h \in Handlers, NEW r \in Previews,
           PreviewRequest(h, r)
     PROVE  CancelHeld'
  <2>1. r.id \in Ids /\ r.quality \in Qualities /\ r.gen \in 0 .. MaxGen
    BY MediaAssumption
  <2>2. media'.cancel = media.op + 1 /\ media'.op = media.op + 1
    BY <1>1, <2>1, Begins DEF PreviewRequest, Shape
  <2> QED
    BY <2>2, Typed DEF Shape, NoOp
<1>2. ASSUME NEW h \in Handlers, NEW id \in Ids, NEW g \in 1 .. MaxGen, NEW parent \in Ops,
           SeekRequest(h, id, g, parent)
     PROVE  CancelHeld'
  BY <1>2 DEF SeekRequest
<1>3. ASSUME NEW h \in Handlers,
           ProbeFail(h) \/ ProbeStale(h) \/ SendHeader(h)
     PROVE  CancelHeld'
  BY <1>3 DEF ProbeFail, ProbeStale, SendHeader
<1>4. ASSUME NEW h \in Handlers,
           ProbeAccepted(h)
     PROVE  CancelHeld'
  <2>1. hnd[h].id \in Ids /\ "video" \in Qualities /\ hnd[h].gen \in 0 .. MaxGen
    BY <1>4, Works, Holds DEF ProbeAccepted, Qualities, Shape
  <2>2. media'.cancel = media.op + 1 /\ media'.op = media.op + 1
    BY <1>4, <2>1, Begins DEF ProbeAccepted, Shape
  <2> QED
    BY <2>2, Typed DEF Shape, NoOp
<1>5. ASSUME NEW h \in Handlers,
           SkipHeader(h)
     PROVE  CancelHeld'
  BY <1>5, Finishes DEF SkipHeader, Shape
<1>6. ASSUME NEW o \in Ops,
           Top(o) \/ ReadChunk(o) \/ ReadEnd(o) \/ SendChunk(o) \/ CheckFail(o) \/
           SendFail(o) \/ CheckEnd(o) \/ SendEnd(o) \/ Fetch(o) \/ Return(o)
     PROVE  CancelHeld'
  BY <1>6 DEF Top, ReadChunk, ReadEnd, SendChunk, CheckFail, SendFail, CheckEnd, SendEnd,
     Fetch, Return
<1>7. ASSUME NEW o \in Ops,
           Finish(o)
     PROVE  CancelHeld'
  BY <1>7, Finishes DEF Finish, Shape
<1>8. CASE Break
  BY <1>8 DEF Break
<1>9. CASE UNCHANGED vars
  BY <1>9 DEF vars
<1> QED
  BY <1>1, <1>2, <1>3, <1>4, <1>5, <1>6, <1>7, <1>8, <1>9 DEF Next, Handle,
     Step

\* A replacement cancels the stream it replaces.
LEMMA KeepsOneActive == Shape /\ CancelHeld /\ OneActive /\ [Next]_vars => OneActive'
<1> SUFFICES ASSUME Shape, CancelHeld, OneActive, [Next]_vars PROVE OneActive'
  OBVIOUS
<1>a. pc \in [Ops -> StreamPC]
  BY DEF Shape, TypeOK
<1>b. \A o \in Ops : o # NoOp
  BY Typed DEF Shape
<1> USE DEF OneActive, Running
<1>1. ASSUME NEW h \in Handlers, NEW r \in Previews,
           PreviewRequest(h, r)
     PROVE  OneActive'
  <2>1. r.id \in Ids /\ r.quality \in Qualities /\ r.gen \in 0 .. MaxGen
    BY MediaAssumption
  <2>2. cancelled' = cancelled \cup ({media.cancel} \ {NoOp}) /\ UNCHANGED pc
    BY <1>1, <2>1, Begins DEF PreviewRequest, Shape
  <2>3. media.op # NoOp => media.op \in cancelled'
    BY <2>2 DEF CancelHeld
  <2> QED
    BY <2>2, <2>3, <1>b DEF NoOp
<1>2. ASSUME NEW h \in Handlers, NEW id \in Ids, NEW g \in 1 .. MaxGen, NEW parent \in Ops,
           SeekRequest(h, id, g, parent)
     PROVE  OneActive'
  BY <1>2, <1>a DEF SeekRequest, IsCurrentMediaOperation
<1>3. ASSUME NEW h \in Handlers,
           ProbeFail(h) \/ ProbeStale(h) \/ SendHeader(h)
     PROVE  OneActive'
  BY <1>3, <1>a DEF ProbeFail, IsCurrent, ProbeStale, SendHeader, Goto
<1>4. ASSUME NEW h \in Handlers,
           ProbeAccepted(h)
     PROVE  OneActive'
  <2>1. hnd[h].id \in Ids /\ "video" \in Qualities /\ hnd[h].gen \in 0 .. MaxGen
    BY <1>4, Works, Holds DEF ProbeAccepted, Qualities, Shape
  <2>2. cancelled' = cancelled \cup ({media.cancel} \ {NoOp}) /\ UNCHANGED pc
    BY <1>4, <2>1, Begins DEF ProbeAccepted, Shape
  <2>3. media.op # NoOp => media.op \in cancelled'
    BY <2>2 DEF CancelHeld
  <2> QED
    BY <2>2, <2>3, <1>b DEF NoOp
<1>5. ASSUME NEW h \in Handlers,
           SkipHeader(h)
     PROVE  OneActive'
  BY <1>5, Finishes DEF SkipHeader, Shape
<1>6. ASSUME NEW o \in Ops,
           Top(o) \/ ReadChunk(o) \/ ReadEnd(o) \/ SendChunk(o) \/ CheckFail(o) \/
           SendFail(o) \/ CheckEnd(o) \/ SendEnd(o) \/ Fetch(o) \/ Return(o)
     PROVE  OneActive'
  BY <1>6, <1>a DEF Top, Goto, ReadChunk, ReadEnd, SendChunk, MaySendChunk, CheckFail,
     SendFail, Tell, IsCurrent, CheckEnd, SendEnd, Fetch, Return
<1>7. ASSUME NEW o \in Ops,
           Finish(o)
     PROVE  OneActive'
  BY <1>7, <1>a, Finishes DEF Finish, Goto, Shape
<1>8. CASE Break
  BY <1>8, <1>a DEF Break
<1>9. CASE UNCHANGED vars
  BY <1>9 DEF vars
<1> QED
  BY <1>1, <1>2, <1>3, <1>4, <1>5, <1>6, <1>7, <1>8, <1>9 DEF Next, Handle,
     Step

\* At most one stream is wanted at any time, the current operation's: every
\* request and every seek cancels what it replaces (manager.go:1487-1500).
THEOREM OneActiveStream == Spec => []OneActive
<1>1. Init => CancelHeld /\ OneActive
  BY DEF Init, CancelHeld, OneActive, Running
<1>2. Shape /\ CancelHeld /\ OneActive /\ [Next]_vars => CancelHeld' /\ OneActive'
  BY KeepsCancel, KeepsOneActive
<1> QED
  BY <1>1, <1>2, AlwaysShape, PTL DEF Spec

-----------------------------------------------------------------------------
\* The current operation is the last one that was begun, with its asset and
\* generation.
Births ==
    media.op # NoOp => born[media.op].id = media.id /\ born[media.op].gen = media.gen

\* A seek that takes over continues what is current at that moment.
LEMMA KeepsSeeks == Shape /\ Births /\ SeekContinues /\ [Next]_vars => (Births /\ SeekContinues)'
<1> SUFFICES ASSUME Shape, Births, SeekContinues, [Next]_vars PROVE (Births /\ SeekContinues)'
  OBVIOUS
<1>a. born \in [Ops -> Birth] /\ media.op \in Nat /\ \A o \in Ops : o \in Nat
  BY Typed DEF Shape, TypeOK
<1>b. media.op # NoOp => media.op \in Ops
  BY Typed DEF Shape
<1>1. ASSUME NEW h \in Handlers, NEW r \in Previews,
           PreviewRequest(h, r)
     PROVE  (Births /\ SeekContinues)'
  <2>1. r.id \in Ids /\ r.quality \in Qualities /\ r.gen \in 0 .. MaxGen
    BY MediaAssumption
  <2> DEFINE n == media.op + 1
  <2>2. media'.op = n /\ media'.id = r.id /\ media'.gen = r.gen /\ n \in Ops /\ n \in Nat
    BY <1>1, <1>a, <2>1, Begins DEF PreviewRequest, Shape
  <2>3. born' = [born EXCEPT ![n] = [parent |-> NoOp, id |-> r.id, gen |-> r.gen]]
    BY <1>1 DEF PreviewRequest
  <2>4. Births'
    BY <1>a, <2>2, <2>3 DEF Births
  <2>5. ASSUME NEW p \in Ops, born'[p].parent # NoOp
        PROVE  /\ born'[p].parent = p - 1
               /\ born'[p - 1].id = born'[p].id /\ born'[p - 1].gen < born'[p].gen
    <3>1. p # n /\ born'[p] = born[p] /\ p <= media.op /\ p - 1 # n
      BY <1>a, <2>2, <2>3, <2>5 DEF Shape, OpsBounded, NoBirth
    <3>2. born'[p - 1] = born[p - 1]
      BY <1>a, <2>3, <3>1 DEF Shape, TypeOK
    <3> QED
      BY <2>5, <3>1, <3>2 DEF SeekContinues
  <2> QED
    BY <2>4, <2>5 DEF SeekContinues
<1>2. ASSUME NEW h \in Handlers, NEW id \in Ids, NEW g \in 1 .. MaxGen, NEW parent \in Ops,
           SeekRequest(h, id, g, parent)
     PROVE  (Births /\ SeekContinues)'
  BY <1>2 DEF SeekRequest, Births, SeekContinues
<1>3. ASSUME NEW h \in Handlers,
           ProbeFail(h) \/ ProbeStale(h) \/ SendHeader(h)
     PROVE  (Births /\ SeekContinues)'
  BY <1>3 DEF ProbeFail, Births, SeekContinues, ProbeStale, SendHeader
<1>4. ASSUME NEW h \in Handlers,
           ProbeAccepted(h)
     PROVE  (Births /\ SeekContinues)'
  <2>1. hnd[h].id \in Ids /\ "video" \in Qualities /\ hnd[h].gen \in 0 .. MaxGen
    BY <1>4, Works, Holds DEF ProbeAccepted, Qualities, Shape
  <2> DEFINE n == media.op + 1
  <2>2. /\ media'.op = n /\ media'.id = hnd[h].id /\ media'.gen = hnd[h].gen
        /\ n \in Ops /\ n \in Nat
    BY <1>4, <1>a, <2>1, Begins DEF ProbeAccepted, Shape
  <2>3. born' = [born EXCEPT ![n] = [parent |-> hnd[h].op, id |-> hnd[h].id, gen |-> hnd[h].gen]]
    BY <1>4 DEF ProbeAccepted
  <2>4. Births'
    BY <1>a, <2>2, <2>3 DEF Births
  <2>5. hnd[h].op = media.op /\ hnd[h].id = media.id /\ media.gen < hnd[h].gen
        /\ media.op \in Ops /\ media.op # NoOp
    BY <1>4, Holds, Typed, Works, MediaAssumption DEF ProbeAccepted, AcceptsSeek,
       IsCurrentMediaOperation, Shape
  <2>6. born'[media.op] = born[media.op]
    BY <1>a, <2>3, <2>5
  <2>7. ASSUME NEW p \in Ops, born'[p].parent # NoOp
        PROVE  /\ born'[p].parent = p - 1
               /\ born'[p - 1].id = born'[p].id /\ born'[p - 1].gen < born'[p].gen
    <3>1. CASE p = n
      <4>1. p - 1 = media.op /\ born'[p].id = hnd[h].id /\ born'[p].gen = hnd[h].gen
            /\ born'[p].parent = media.op
        BY <1>a, <2>2, <2>3, <2>5, <3>1
      <4> QED
        BY <2>5, <2>6, <4>1 DEF Births
    <3>2. CASE p # n
      <4>1. born'[p] = born[p] /\ p <= media.op /\ p - 1 # n
        BY <1>a, <2>2, <2>3, <2>7, <3>2 DEF Shape, OpsBounded, NoBirth
      <4>2. born'[p - 1] = born[p - 1]
        BY <1>a, <2>3, <4>1 DEF Shape, TypeOK
      <4> QED
        BY <2>7, <4>1, <4>2 DEF SeekContinues
    <3> QED
      BY <3>1, <3>2
  <2> QED
    BY <2>4, <2>7 DEF SeekContinues
<1>5. ASSUME NEW h \in Handlers,
           SkipHeader(h)
     PROVE  (Births /\ SeekContinues)'
  BY <1>5, Finishes DEF SkipHeader, Births, SeekContinues, Shape
<1>6. ASSUME NEW o \in Ops,
           Top(o) \/ ReadChunk(o) \/ ReadEnd(o) \/ SendChunk(o) \/ CheckFail(o) \/
           SendFail(o) \/ CheckEnd(o) \/ SendEnd(o) \/ Fetch(o) \/ Return(o)
     PROVE  (Births /\ SeekContinues)'
  BY <1>6 DEF Top, Births, SeekContinues, ReadChunk, ReadEnd, SendChunk, CheckFail,
     SendFail, CheckEnd, SendEnd, Fetch, Return
<1>7. ASSUME NEW o \in Ops,
           Finish(o)
     PROVE  (Births /\ SeekContinues)'
  BY <1>7, Finishes DEF Finish, Births, SeekContinues, Shape
<1>8. CASE Break
  BY <1>8 DEF Break, Births, SeekContinues
<1>9. CASE UNCHANGED vars
  BY <1>9 DEF vars, Births, SeekContinues
<1> QED
  BY <1>1, <1>2, <1>3, <1>4, <1>5, <1>6, <1>7, <1>8, <1>9 DEF Next, Handle,
     Step

\* A seek continues the operation it names, although it was checked before its
\* first byte arrived (manager.go:1192-1221).
THEOREM SeeksContinue == Spec => []SeekContinues
<1>1. Init => Births /\ SeekContinues
  BY DEF Init, Births, SeekContinues, NoBirth
<1>2. Shape /\ Births /\ SeekContinues /\ [Next]_vars => Births' /\ SeekContinues'
  BY KeepsSeeks
<1> QED
  BY <1>1, <1>2, AlwaysShape, PTL DEF Spec

-----------------------------------------------------------------------------
\* The header of an operation is pending once, before its stream starts.
FreshHeader ==
    /\ \A h \in Handlers : hnd[h].pc = "header" => pc[hnd[h].op] = "none"
    /\ \A h, k \in Handlers :
           hnd[h].pc = "header" /\ hnd[k].pc = "header" /\ hnd[h].op = hnd[k].op => h = k

\* What works on the current operation has its generation; a preview that is no
\* video is streamed as generation 0.
GensAgree ==
    /\ media.quality # "video" => media.gen = 0
    /\ \A h \in Handlers : hnd[h].pc = "header" /\ hnd[h].op = media.op => hnd[h].gen = media.gen
    /\ \A o \in Ops : pc[o] # "none" /\ o = media.op => gen[o] = media.gen

\* A cancelled operation was replaced, is over, or fell with the channel.
Stops ==
    \A o \in cancelled : o < media.op \/ pc[o] = "done" \/ broken

\* A stream quits for the reasons NoSilentEnd allows.
Quits ==
    \A o \in Ops : pc[o] \in {"finish", "done"} => o \in told \/ media.op > o \/ broken

\* A header is sent once.
LEMMA KeepsFresh == Shape /\ FreshHeader /\ [Next]_vars => FreshHeader'
<1> SUFFICES ASSUME Shape, FreshHeader, [Next]_vars PROVE FreshHeader'
  OBVIOUS
<1>a. hnd \in [Handlers -> Handler] /\ pc \in [Ops -> StreamPC] /\ gen \in [Ops -> 0 .. MaxGen]
      /\ cancelled \subseteq Ops
  BY DEF Shape, TypeOK
<1>b. media.op \in Nat /\ \A o \in Ops : o \in Nat
  BY Typed DEF Shape
<1> USE DEF FreshHeader
<1>1. ASSUME NEW h \in Handlers, NEW r \in Previews,
           PreviewRequest(h, r)
     PROVE  FreshHeader'
  <2>1. media.op + 1 \in Ops /\ media.op + 1 > media.op /\ TRUE
    BY <1>1, Typed DEF PreviewRequest, Shape
  <2>2. pc[media.op + 1] = "none"
    BY <2>1 DEF Shape, OpsBounded
  <2>3. \A k \in Handlers : hnd[k].pc = "header" => hnd[k].op # media.op + 1
    BY <1>b, <2>1, Holds DEF Shape
  <2>4. \A k \in Handlers \ {h} : hnd'[k] = hnd[k]
    BY <1>1, <1>a DEF PreviewRequest
  <2>5. hnd'[h].op = media.op + 1 /\ UNCHANGED pc
    BY <1>1, <1>a DEF PreviewRequest
  <2> QED
    BY <2>2, <2>3, <2>4, <2>5
<1>2. ASSUME NEW h \in Handlers, NEW id \in Ids, NEW g \in 1 .. MaxGen, NEW parent \in Ops,
           SeekRequest(h, id, g, parent)
     PROVE  FreshHeader'
  <2>1. \A k \in Handlers \ {h} : hnd'[k] = hnd[k]
    BY <1>2, <1>a DEF SeekRequest
  <2>2. hnd'[h].pc # "header" /\ UNCHANGED pc
    BY <1>2, <1>a DEF SeekRequest, IdleHandler
  <2> QED
    BY <2>1, <2>2
<1>3. ASSUME NEW h \in Handlers,
           ProbeFail(h) \/ ProbeStale(h) \/ SkipHeader(h)
     PROVE  FreshHeader'
  <2>1. \A k \in Handlers \ {h} : hnd'[k] = hnd[k]
    BY <1>3, <1>a DEF ProbeFail, ProbeStale, SkipHeader
  <2>2. hnd'[h].pc # "header" /\ UNCHANGED pc
    BY <1>3, <1>a DEF ProbeFail, IdleHandler, ProbeStale, SkipHeader
  <2> QED
    BY <2>1, <2>2
<1>4. ASSUME NEW h \in Handlers,
           ProbeAccepted(h)
     PROVE  FreshHeader'
  <2>1. media.op + 1 \in Ops /\ media.op + 1 > media.op /\ TRUE
    BY <1>4, Typed DEF ProbeAccepted, Shape
  <2>2. pc[media.op + 1] = "none"
    BY <2>1 DEF Shape, OpsBounded
  <2>3. \A k \in Handlers : hnd[k].pc = "header" => hnd[k].op # media.op + 1
    BY <1>b, <2>1, Holds DEF Shape
  <2>4. \A k \in Handlers \ {h} : hnd'[k] = hnd[k]
    BY <1>4, <1>a DEF ProbeAccepted
  <2>5. hnd'[h].op = media.op + 1 /\ UNCHANGED pc
    BY <1>4, <1>a DEF ProbeAccepted
  <2> QED
    BY <2>2, <2>3, <2>4, <2>5
<1>5. ASSUME NEW h \in Handlers,
           SendHeader(h)
     PROVE  FreshHeader'
  <2> DEFINE w == hnd[h].op
  <2>1. \A k \in Handlers \ {h} : hnd'[k] = hnd[k]
    BY <1>5, <1>a DEF SendHeader
  <2>2. hnd'[h].pc # "header" /\ pc' = [pc EXCEPT ![w] = "top"]
    BY <1>5, <1>a DEF SendHeader, Goto, IdleHandler
  <2>3. \A k \in Handlers \ {h} : hnd[k].pc = "header" => hnd[k].op # w /\ hnd[k].op \in Ops
    BY <1>5, Holds DEF SendHeader, Shape
  <2>4. \A k \in Handlers \ {h} : hnd[k].pc = "header" => pc'[hnd[k].op] = pc[hnd[k].op]
    BY <1>a, <2>2, <2>3
  <2> QED
    BY <2>1, <2>2, <2>4
<1>6. ASSUME NEW o \in Ops,
           Top(o) \/ ReadChunk(o) \/ ReadEnd(o) \/ SendChunk(o) \/ CheckFail(o) \/
           SendFail(o) \/ CheckEnd(o) \/ SendEnd(o) \/ Finish(o)
     PROVE  FreshHeader'
  <2>1. UNCHANGED hnd /\ pc[o] # "none" /\ \E l \in StreamPC : pc' = [pc EXCEPT ![o] = l]
    BY <1>6 DEF Top, Goto, StreamPC, ReadChunk, ReadEnd, SendChunk, MaySendChunk, CheckFail,
       SendFail, Tell, IsCurrent, CheckEnd, SendEnd, Finish
  <2> QED
    BY <1>a, <2>1
<1>7. ASSUME NEW o \in Ops,
           Fetch(o) \/ Return(o)
     PROVE  FreshHeader'
  BY <1>7 DEF Fetch, Return
<1>8. CASE Break
  BY <1>8 DEF Break
<1>9. CASE UNCHANGED vars
  BY <1>9 DEF vars
<1> QED
  BY <1>1, <1>2, <1>3, <1>4, <1>5, <1>6, <1>7, <1>8, <1>9 DEF Next, Handle,
     Step

\* A generation travels with its operation.
LEMMA KeepsGens == Shape /\ GensAgree /\ [Next]_vars => GensAgree'
<1> SUFFICES ASSUME Shape, GensAgree, [Next]_vars PROVE GensAgree'
  OBVIOUS
<1>a. hnd \in [Handlers -> Handler] /\ pc \in [Ops -> StreamPC] /\ gen \in [Ops -> 0 .. MaxGen]
      /\ cancelled \subseteq Ops
  BY DEF Shape, TypeOK
<1>b. media.op \in Nat /\ \A o \in Ops : o \in Nat
  BY Typed DEF Shape
<1> USE DEF GensAgree
<1>1. ASSUME NEW h \in Handlers, NEW r \in Previews,
           PreviewRequest(h, r)
     PROVE  GensAgree'
  <2>1. media.op + 1 \in Ops /\ media.op + 1 > media.op /\ media'.op = media.op + 1
    BY <1>1, Typed DEF PreviewRequest, BeginMediaLocked, Shape
  <2>2. pc[media.op + 1] = "none" /\ UNCHANGED <<pc, gen>>
    BY <1>1, <2>1 DEF Shape, OpsBounded, PreviewRequest
  <2>3. \A k \in Handlers : hnd[k].pc = "header" => hnd[k].op # media.op + 1
    BY <1>b, <2>1, Holds DEF Shape
  <2>4. \A k \in Handlers \ {h} : hnd'[k] = hnd[k]
    BY <1>1, <1>a DEF PreviewRequest
  <2>5. hnd'[h].gen = media'.gen
    BY <1>1, <1>a DEF PreviewRequest, BeginMediaLocked
  <2>6. r.quality # "video" => r.gen = 0
    BY MediaAssumption DEF Qualities
  <2>7. media'.quality # "video" => media'.gen = 0
    BY <1>1, <2>6 DEF PreviewRequest, BeginMediaLocked
  <2> QED
    BY <2>1, <2>2, <2>3, <2>4, <2>5, <2>7
<1>2. ASSUME NEW h \in Handlers, NEW id \in Ids, NEW g \in 1 .. MaxGen, NEW parent \in Ops,
           SeekRequest(h, id, g, parent)
     PROVE  GensAgree'
  <2>1. \A k \in Handlers \ {h} : hnd'[k] = hnd[k]
    BY <1>2, <1>a DEF SeekRequest
  <2>2. hnd'[h].pc # "header" /\ UNCHANGED <<pc, gen, media>>
    BY <1>2, <1>a DEF SeekRequest, IdleHandler
  <2> QED
    BY <2>1, <2>2
<1>3. ASSUME NEW h \in Handlers,
           ProbeFail(h) \/ ProbeStale(h)
     PROVE  GensAgree'
  <2>1. \A k \in Handlers \ {h} : hnd'[k] = hnd[k]
    BY <1>3, <1>a DEF ProbeFail, ProbeStale
  <2>2. hnd'[h].pc # "header" /\ UNCHANGED <<pc, gen, media>>
    BY <1>3, <1>a DEF ProbeFail, IdleHandler, ProbeStale
  <2> QED
    BY <2>1, <2>2
<1>4. ASSUME NEW h \in Handlers,
           ProbeAccepted(h)
     PROVE  GensAgree'
  <2>1. media.op + 1 \in Ops /\ media.op + 1 > media.op /\ media'.op = media.op + 1
    BY <1>4, Typed DEF ProbeAccepted, BeginMediaLocked, Shape
  <2>2. pc[media.op + 1] = "none" /\ UNCHANGED <<pc, gen>>
    BY <1>4, <2>1 DEF Shape, OpsBounded, ProbeAccepted
  <2>3. \A k \in Handlers : hnd[k].pc = "header" => hnd[k].op # media.op + 1
    BY <1>b, <2>1, Holds DEF Shape
  <2>4. \A k \in Handlers \ {h} : hnd'[k] = hnd[k]
    BY <1>4, <1>a DEF ProbeAccepted
  <2>5. hnd'[h].gen = media'.gen
    BY <1>4, <1>a DEF ProbeAccepted, BeginMediaLocked
  <2>6. media'.quality = "video"
    BY <1>4 DEF ProbeAccepted, BeginMediaLocked
  <2> QED
    BY <2>1, <2>2, <2>3, <2>4, <2>5, <2>6
<1>5. ASSUME NEW h \in Handlers,
           SendHeader(h)
     PROVE  GensAgree'
  <2> DEFINE w == hnd[h].op
  <2>1. \A k \in Handlers \ {h} : hnd'[k] = hnd[k]
    BY <1>5, <1>a DEF SendHeader
  <2>2. hnd'[h].pc # "header" /\ pc' = [pc EXCEPT ![w] = "top"] /\ UNCHANGED media
        /\ gen' = [gen EXCEPT ![w] = IF media.quality = "video" THEN hnd[h].gen ELSE 0]
        /\ w = media.op /\ hnd[h].pc = "header"
    BY <1>5, <1>a DEF SendHeader, Goto, IdleHandler, IsCurrent
  <2>3. gen' = [gen EXCEPT ![w] = media.gen]
    BY <1>5, <2>2
  <2> QED
    BY <1>a, <2>1, <2>2, <2>3
<1>6. ASSUME NEW h \in Handlers,
           SkipHeader(h)
     PROVE  GensAgree'
  <2>1. \A k \in Handlers \ {h} : hnd'[k] = hnd[k]
    BY <1>6, <1>a DEF SkipHeader
  <2>2. hnd'[h].pc # "header" /\ UNCHANGED <<pc, gen>>
    BY <1>6, <1>a DEF SkipHeader, IdleHandler
  <2>3. media'.op = media.op /\ media'.gen = media.gen /\ media'.quality = media.quality
    BY <1>6, Finishes DEF SkipHeader, Shape
  <2> QED
    BY <2>1, <2>2, <2>3
<1>7. ASSUME NEW o \in Ops,
           Top(o) \/ ReadChunk(o) \/ ReadEnd(o) \/ SendChunk(o) \/ CheckFail(o) \/
           SendFail(o) \/ CheckEnd(o) \/ SendEnd(o)
     PROVE  GensAgree'
  <2>1. UNCHANGED <<hnd, gen, media>> /\ pc[o] # "none" /\ \E l \in StreamPC : pc' = [pc EXCEPT ![o] = l]
    BY <1>7 DEF Top, Goto, StreamPC, ReadChunk, ReadEnd, SendChunk, MaySendChunk, CheckFail,
       SendFail, Tell, IsCurrent, CheckEnd, SendEnd
  <2> QED
    BY <1>a, <2>1
<1>8. ASSUME NEW o \in Ops,
           Finish(o)
     PROVE  GensAgree'
  <2>1. UNCHANGED <<hnd, gen>> /\ pc[o] # "none" /\ pc' = [pc EXCEPT ![o] = "done"]
    BY <1>8 DEF Finish, Goto
  <2>2. media'.op = media.op /\ media'.gen = media.gen /\ media'.quality = media.quality
    BY <1>8, Finishes DEF Finish, Shape
  <2> QED
    BY <1>a, <2>1, <2>2
<1>9. ASSUME NEW o \in Ops,
           Fetch(o) \/ Return(o)
     PROVE  GensAgree'
  BY <1>9 DEF Fetch, Return
<1>10. CASE Break
  BY <1>10 DEF Break
<1>11. CASE UNCHANGED vars
  BY <1>11 DEF vars
<1> QED
  BY <1>1, <1>2, <1>3, <1>4, <1>5, <1>6, <1>7, <1>8, <1>9, <1>10, <1>11 DEF
     Next, Handle, Step

\* A stream quits because it was replaced, told the browser, or lost the channel.
LEMMA KeepsQuits == Shape /\ CancelHeld /\ FreshHeader /\ GensAgree /\ Stops /\ Quits /\ [Next]_vars => (Stops /\ Quits)'
<1> SUFFICES ASSUME Shape, CancelHeld, FreshHeader, GensAgree, Stops, Quits, [Next]_vars PROVE (Stops /\ Quits)'
  OBVIOUS
<1> USE DEF Stops, Quits
<1>a. hnd \in [Handlers -> Handler] /\ pc \in [Ops -> StreamPC] /\ gen \in [Ops -> 0 .. MaxGen]
      /\ cancelled \subseteq Ops
  BY DEF Shape, TypeOK
<1>b. media.op \in Nat /\ \A o \in Ops : o \in Nat
  BY Typed DEF Shape
<1>c. \A o \in Ops : pc[o] # "none" => o <= media.op
  BY <1>b DEF Shape, OpsBounded
<1>d. \A o \in Ops : o \in cancelled /\ pc[o] # "done" => media.op > o \/ broken
  BY <1>b
<1>1. ASSUME NEW h \in Handlers, NEW r \in Previews,
           PreviewRequest(h, r)
     PROVE  (Stops /\ Quits)'
  <2>1. media'.op = media.op + 1 /\ UNCHANGED <<pc, told, broken>>
    BY <1>1 DEF PreviewRequest, BeginMediaLocked
  <2>2. cancelled' = cancelled \cup ({media.cancel} \ {NoOp})
    BY <1>1 DEF PreviewRequest, BeginMediaLocked
  <2>3. \A p \in cancelled : p \in Nat
    BY <1>a, <1>b
  <2> QED
    BY <1>b, <2>1, <2>2, <2>3 DEF CancelHeld
<1>2. ASSUME NEW h \in Handlers, NEW id \in Ids, NEW g \in 1 .. MaxGen, NEW parent \in Ops,
           SeekRequest(h, id, g, parent)
     PROVE  (Stops /\ Quits)'
  BY <1>2 DEF SeekRequest
<1>3. ASSUME NEW h \in Handlers,
           ProbeFail(h) \/ ProbeStale(h)
     PROVE  (Stops /\ Quits)'
  BY <1>3 DEF ProbeFail, ProbeStale
<1>4. ASSUME NEW h \in Handlers,
           ProbeAccepted(h)
     PROVE  (Stops /\ Quits)'
  <2>1. media'.op = media.op + 1 /\ UNCHANGED <<pc, told, broken>>
    BY <1>4 DEF ProbeAccepted, BeginMediaLocked
  <2>2. cancelled' = cancelled \cup ({media.cancel} \ {NoOp})
    BY <1>4 DEF ProbeAccepted, BeginMediaLocked
  <2>3. \A p \in cancelled : p \in Nat
    BY <1>a, <1>b
  <2> QED
    BY <1>b, <2>1, <2>2, <2>3 DEF CancelHeld
<1>5. ASSUME NEW h \in Handlers,
           SendHeader(h)
     PROVE  (Stops /\ Quits)'
  <2> DEFINE w == hnd[h].op
  <2>1. pc[w] = "none" /\ pc' = [pc EXCEPT ![w] = "top"] /\ UNCHANGED <<media, cancelled, told, broken>>
    BY <1>5 DEF SendHeader, Goto, FreshHeader
  <2> QED
    BY <1>a, <2>1
<1>6. ASSUME NEW h \in Handlers,
           SkipHeader(h)
     PROVE  (Stops /\ Quits)'
  <2>1. UNCHANGED <<pc, told, broken>> /\ (hnd[h].op = media.op => broken)
    BY <1>6 DEF SkipHeader, IsCurrent
  <2>2. media'.op = media.op /\ (cancelled' = cancelled \/ broken)
    BY <1>6, <2>1, Finishes DEF SkipHeader, Shape
  <2> QED
    BY <2>1, <2>2
<1>7. ASSUME NEW o \in Ops,
           Top(o)
     PROVE  (Stops /\ Quits)'
  <2>1. UNCHANGED <<media, cancelled, told, broken>> /\ pc[o] = "top"
    BY <1>7 DEF Top
  <2>2. CASE o \in cancelled \/ media.gen # gen[o]
    <3>1. pc' = [pc EXCEPT ![o] = "finish"]
      BY <1>7, <2>2 DEF Top, Goto
    <3>2. media.op > o \/ broken
      BY <1>b, <1>c, <1>d, <2>1, <2>2 DEF GensAgree
    <3> QED
      BY <1>a, <2>1, <3>1, <3>2
  <2>3. CASE ~(o \in cancelled \/ media.gen # gen[o])
    <3>1. pc' = [pc EXCEPT ![o] = "read"]
      BY <1>7, <2>3 DEF Top, Goto
    <3> QED
      BY <1>a, <2>1, <3>1
  <2> QED
    BY <2>2, <2>3
<1>8. ASSUME NEW o \in Ops,
           ReadChunk(o)
     PROVE  (Stops /\ Quits)'
  <2>1. UNCHANGED <<media, cancelled, told, broken>> /\ pc[o] = "read"
    BY <1>8 DEF ReadChunk
  <2>2. CASE o \in cancelled \/ media.op # o
    <3>1. pc' = [pc EXCEPT ![o] = "finish"]
      BY <1>8, <2>2 DEF ReadChunk, Goto
    <3>2. media.op > o \/ broken
      BY <1>b, <1>c, <1>d, <2>1, <2>2
    <3> QED
      BY <1>a, <2>1, <3>1, <3>2
  <2>3. CASE ~(o \in cancelled \/ media.op # o)
    <3>1. pc' = [pc EXCEPT ![o] = "send"]
      BY <1>8, <2>3 DEF ReadChunk, Goto
    <3> QED
      BY <1>a, <2>1, <3>1
  <2> QED
    BY <2>2, <2>3
<1>9. ASSUME NEW o \in Ops,
           ReadEnd(o)
     PROVE  (Stops /\ Quits)'
  <2>1. UNCHANGED <<media, cancelled, told, broken>> /\ pc[o] = "read"
        /\ \E l \in {"end", "fail"} : pc' = [pc EXCEPT ![o] = l]
    BY <1>9 DEF ReadEnd, Goto
  <2> QED
    BY <1>a, <2>1
<1>10. ASSUME NEW o \in Ops,
           SendChunk(o)
     PROVE  (Stops /\ Quits)'
  <2>1. UNCHANGED <<media, cancelled, told, broken>> /\ pc[o] = "send"
    BY <1>10 DEF SendChunk
  <2>2. CASE MaySendChunk(o) /\ ~broken
    <3>1. pc' = [pc EXCEPT ![o] = "top"]
      BY <1>10, <2>2 DEF SendChunk, Goto
    <3> QED
      BY <1>a, <2>1, <3>1
  <2>3. CASE ~(MaySendChunk(o) /\ ~broken)
    <3>1. pc' = [pc EXCEPT ![o] = "finish"]
      BY <1>10, <2>3 DEF SendChunk, Goto
    <3>2. media.op > o \/ broken
      BY <1>b, <1>c, <1>d, <2>1, <2>3 DEF MaySendChunk
    <3> QED
      BY <1>a, <2>1, <3>1, <3>2
  <2> QED
    BY <2>2, <2>3
<1>11. ASSUME NEW o \in Ops,
           CheckFail(o)
     PROVE  (Stops /\ Quits)'
  <2>1. UNCHANGED <<media, cancelled, told, broken>> /\ pc[o] = "fail"
    BY <1>11 DEF CheckFail
  <2>2. CASE o \in cancelled
    <3>1. pc' = [pc EXCEPT ![o] = "finish"]
      BY <1>11, <2>2 DEF CheckFail, Goto
    <3>2. media.op > o \/ broken
      BY <1>b, <1>d, <2>1, <2>2
    <3> QED
      BY <1>a, <2>1, <3>1, <3>2
  <2>3. CASE o \notin cancelled
    <3>1. pc' = [pc EXCEPT ![o] = "failing"]
      BY <1>11, <2>3 DEF CheckFail, Goto
    <3> QED
      BY <1>a, <2>1, <3>1
  <2> QED
    BY <2>2, <2>3
<1>12. ASSUME NEW o \in Ops,
           SendFail(o) \/ SendEnd(o)
     PROVE  (Stops /\ Quits)'
  <2>1. UNCHANGED <<media, cancelled, broken>> /\ pc[o] # "none" /\ pc[o] # "done"
        /\ pc' = [pc EXCEPT ![o] = "finish"]
    BY <1>12 DEF SendFail, Tell, Goto, SendEnd
  <2>2. told \subseteq told' /\ (o \in told' \/ media.op # o \/ broken)
    BY <1>12 DEF SendFail, Tell, IsCurrent, SendEnd
  <2>3. o \in told' \/ media.op > o \/ broken
    BY <1>b, <1>c, <2>1, <2>2
  <2> QED
    BY <1>a, <2>1, <2>2, <2>3
<1>13. ASSUME NEW o \in Ops,
           CheckEnd(o)
     PROVE  (Stops /\ Quits)'
  <2>1. UNCHANGED <<media, cancelled, told, broken>> /\ pc[o] = "end"
    BY <1>13 DEF CheckEnd
  <2>2. CASE o \notin cancelled /\ media.op = o /\ media.gen = gen[o]
    <3>1. pc' = [pc EXCEPT ![o] = "ending"]
      BY <1>13, <2>2 DEF CheckEnd, Goto
    <3> QED
      BY <1>a, <2>1, <3>1
  <2>3. CASE ~(o \notin cancelled /\ media.op = o /\ media.gen = gen[o])
    <3>1. pc' = [pc EXCEPT ![o] = "finish"]
      BY <1>13, <2>3 DEF CheckEnd, Goto
    <3>2. media.op > o \/ broken
      BY <1>b, <1>c, <1>d, <2>1, <2>3 DEF GensAgree
    <3> QED
      BY <1>a, <2>1, <3>1, <3>2
  <2> QED
    BY <2>2, <2>3
<1>14. ASSUME NEW o \in Ops,
           Finish(o)
     PROVE  (Stops /\ Quits)'
  <2>1. UNCHANGED <<told, broken>> /\ pc' = [pc EXCEPT ![o] = "done"] /\ pc[o] = "finish"
    BY <1>14 DEF Finish, Goto
  <2>2. media'.op = media.op
    BY <1>14, Finishes DEF Finish, Shape
  <2>3. cancelled' = cancelled \/ cancelled' = cancelled \cup {o}
    BY <1>14, Finishes DEF Finish, Shape, CancelHeld, NoOp
  <2> QED
    BY <1>a, <2>1, <2>2, <2>3
<1>15. ASSUME NEW o \in Ops,
           Fetch(o) \/ Return(o)
     PROVE  (Stops /\ Quits)'
  BY <1>15 DEF Fetch, Return
<1>16. CASE Break
  BY <1>16 DEF Break
<1>17. CASE UNCHANGED vars
  BY <1>17 DEF vars
<1> QED
  BY <1>1, <1>2, <1>3, <1>4, <1>5, <1>6, <1>7, <1>8, <1>9, <1>10, <1>11,
     <1>12, <1>13, <1>14, <1>15, <1>16, <1>17 DEF Next, Handle, Step

\* No stream stops silently: the browser hears of its end or its error, or asked
\* for something newer, or the channel is gone (manager.go:1274-1345).
THEOREM NoStreamEndsSilently == Spec => []NoSilentEnd
<1> DEFINE Why == CancelHeld /\ FreshHeader /\ GensAgree /\ Stops /\ Quits
<1>1. Init => Why
  BY DEF Init, CancelHeld, FreshHeader, GensAgree, Stops, Quits, IdleHandler
<1>2. Shape /\ Why /\ [Next]_vars => Why'
  BY KeepsCancel, KeepsFresh, KeepsGens, KeepsQuits
<1>3. Why => NoSilentEnd
  BY DEF Quits, NoSilentEnd
<1> QED
  BY <1>1, <1>2, <1>3, AlwaysShape, PTL DEF Spec
=============================================================================
