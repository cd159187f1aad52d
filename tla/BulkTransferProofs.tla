------------------------- MODULE BulkTransferProofs -------------------------
(***************************************************************************)
(* Proofs about BulkTransfer for any number of handlers, operations,       *)
(* archives and chunks and any download limit.                             *)
(***************************************************************************)
EXTENDS BulkTransfer, FiniteSetTheorems, TLAPS

\* A stream at work has an operation, announces an archive of its album and
\* advances only before the last one; a handler that was given the slot has an
\* operation.
Shape ==
    /\ TypeOK
    /\ \A h \in Handlers : HandlerHolds(h) => hnd[h].op # NoOp
    /\ \A b \in Ops : StreamHolds(b) => str[b].cur # NoOp
    /\ \A b \in Ops : str[b].pc = "header" => str[b].part # 0
    /\ \A b \in Ops : str[b].pc = "advance" => str[b].part < str[b].parts

\* What the type invariant says of the fields of a stream.
LEMMA Streams ==
    ASSUME TypeOK, NEW b \in Ops
    PROVE  /\ str[b] \in Stream
           /\ str[b].cur \in Ops \cup {NoOp} /\ str[b].kind \in Kinds
           /\ str[b].part \in 0 .. MaxParts /\ str[b].parts \in 0 .. MaxParts
           /\ str[b].sent \in 0 .. MaxChunks /\ str[b].told \in BOOLEAN
           /\ str[b].part \in Nat /\ str[b].parts \in Nat
BY BulkAssumption DEF TypeOK, Stream

\* Setting the program counter of a stream keeps its type.
LEMMA GotoType ==
    ASSUME TypeOK, NEW b \in Ops, NEW l, Goto(b, l),
           l \in {"plan", "header", "read", "end", "wait", "advance", "count", "complete",
                  "finish", "release"}
    PROVE  /\ str' \in [Ops -> Stream]
           /\ str'[b].pc = l /\ str'[b].cur = str[b].cur
           /\ str'[b].part = str[b].part /\ str'[b].parts = str[b].parts
           /\ \A c \in Ops \ {b} : str'[c] = str[c]
<1>1. str \in [Ops -> Stream] /\ str[b] \in Stream
  BY DEF TypeOK
<1>2. str' = [str EXCEPT ![b] = [str[b] EXCEPT !.pc = l]]
  BY DEF Goto
<1>3. [str[b] EXCEPT !.pc = l] \in Stream
  BY <1>1 DEF Stream
<1> QED
  BY <1>1, <1>2, <1>3 DEF Stream

\* Replacing a stream's record by one of its type.
LEMMA Replace ==
    ASSUME TypeOK, NEW b \in Ops, NEW rec \in Stream, str' = [str EXCEPT ![b] = rec]
    PROVE  /\ str' \in [Ops -> Stream] /\ str'[b] = rec
           /\ \A c \in Ops \ {b} : str'[c] = str[c]
BY DEF TypeOK

\* A stream that fails goes on to release what it holds.
LEMMA FailType ==
    ASSUME TypeOK, NEW b \in Ops, Fail(b)
    PROVE  /\ str' \in [Ops -> Stream]
           /\ str'[b].pc \in {"finish", "release"} /\ str'[b].cur = str[b].cur
           /\ \A c \in Ops \ {b} : str'[c] = str[c]
<1> DEFINE t == IsActive(str[b].cur) /\ ~broken
           rec == [[str[b] EXCEPT !.pc = Leave(b)] EXCEPT !.told = t]
<1>1. str[b] \in Stream /\ t \in BOOLEAN /\ Leave(b) \in {"finish", "release"}
  BY Streams DEF Leave, IsActive
<1>2. rec \in Stream /\ rec.pc = Leave(b) /\ rec.cur = str[b].cur
  BY <1>1 DEF Stream
<1>3. str' = [str EXCEPT ![b] = rec]
  BY DEF Fail
<1> QED
  BY <1>1, <1>2, <1>3, Replace

\* A stream that neither starts nor returns: it holds the slot before and after,
\* under the same operation or, when its album advances, under the one that
\* bulkOperation now names.
Works(b) ==
    /\ StreamHolds(b) /\ str'[b].pc \notin {"none", "done"}
    /\ str' \in [Ops -> Stream]
    /\ \A c \in Ops \ {b} : str'[c] = str[c]
    /\ \/ bulk' = bulk /\ str'[b].cur = str[b].cur
       \/ bulk'.op = str'[b].cur /\ bulk'.busy /\ str'[b].cur # NoOp
    /\ bulk' \in [op : Ops \cup {NoOp}, busy : BOOLEAN]
    /\ str'[b].pc = "header" => str'[b].part # 0
    /\ str'[b].pc = "advance" => str'[b].part < str'[b].parts
    /\ hnd' = hnd

\* Every step of a stream but the last one is of this kind.
LEMMA StepWorks ==
    ASSUME Shape, NEW b \in Ops, Step(b)
    PROVE  Works(b) \/ Release(b)
<1> USE DEF Works, StreamHolds
<1>0. TypeOK /\ bulk \in [op : Ops \cup {NoOp}, busy : BOOLEAN]
  BY DEF Shape, TypeOK
<1>1. CASE PlanAlbum(b)
  <2>1. str[b].pc = "plan" /\ UNCHANGED <<bulk, hnd>>
    BY <1>1 DEF PlanAlbum
  <2>2. CASE Fail(b)
    BY <1>0, <2>1, <2>2, FailType
  <2>3. CASE ~Fail(b)
    <3>1. PICK n \in Parts : str' = [str EXCEPT ![b].pc = "header", ![b].part = 1, ![b].parts = n]
      BY <1>1, <2>3 DEF PlanAlbum
    <3> DEFINE rec == [[[str[b] EXCEPT !.pc = "header"] EXCEPT !.part = 1] EXCEPT !.parts = n]
    <3>2. str[b] \in Stream /\ 1 \in 0 .. MaxParts /\ n \in 0 .. MaxParts
      BY <1>0, Streams, BulkAssumption DEF Parts
    <3>3. rec \in Stream /\ rec.pc = "header" /\ rec.part = 1 /\ rec.cur = str[b].cur
      BY <3>2 DEF Stream
    <3>4. str' = [str EXCEPT ![b] = rec]
      BY <3>1, <1>0 DEF TypeOK
    <3>5. /\ str' \in [Ops -> Stream] /\ \A c \in Ops \ {b} : str'[c] = str[c]
          /\ str'[b].pc = "header" /\ str'[b].part = 1 /\ str'[b].cur = str[b].cur
      BY <1>0, <3>3, <3>4, Replace
    <3> QED
      BY <1>0, <2>1, <3>5
  <2> QED
    BY <2>2, <2>3
<1>2. CASE SendHeader(b)
  <2>1. str[b].pc = "header" /\ UNCHANGED <<bulk, hnd>>
    BY <1>2 DEF SendHeader
  <2>2. Goto(b, "finish") \/ Goto(b, "read")
    BY <1>2 DEF SendHeader
  <2> QED
    BY <1>0, <2>1, <2>2, GotoType
<1>3. CASE SendChunk(b)
  <2>1. str[b].pc = "read" /\ UNCHANGED <<bulk, hnd>> /\ Leave(b) \in {"finish", "release"}
    BY <1>3 DEF SendChunk, Leave
  <2>2. CASE broken
    <3>1. Goto(b, Leave(b))
      BY <1>3, <2>2 DEF SendChunk
    <3> QED
      BY <1>0, <2>1, <3>1, GotoType
  <2>3. CASE ~broken
    <3> DEFINE rec == [str[b] EXCEPT !.sent = str[b].sent + 1]
    <3>1. str[b] \in Stream /\ str[b].sent + 1 \in 0 .. MaxChunks
      BY <1>0, <1>3, Streams, BulkAssumption DEF SendChunk
    <3>2. rec \in Stream /\ rec.pc = "read" /\ rec.cur = str[b].cur
      BY <2>1, <3>1 DEF Stream
    <3>3. str' = [str EXCEPT ![b] = rec]
      BY <1>3, <2>3 DEF SendChunk
    <3> QED
      BY <1>0, <2>1, <3>2, <3>3, Replace
  <2> QED
    BY <2>2, <2>3
<1>4. CASE SourceEnds(b)
  <2>1. str[b].pc = "read" /\ UNCHANGED <<bulk, hnd>>
    BY <1>4 DEF SourceEnds
  <2>2. Goto(b, "end") \/ Fail(b)
    BY <1>4 DEF SourceEnds
  <2> QED
    BY <1>0, <2>1, <2>2, GotoType, FailType
<1>5. CASE SendEnd(b)
  <2>1. str[b].pc = "end" /\ UNCHANGED <<bulk, hnd>> /\ Leave(b) \in {"finish", "release"}
    BY <1>5 DEF SendEnd, Leave
  <2>2. CASE Goto(b, Leave(b)) \/ Goto(b, "wait")
    BY <1>0, <2>1, <2>2, GotoType
  <2>3. CASE str' = [str EXCEPT ![b].pc = "count", ![b].told = TRUE]
    <3> DEFINE rec == [[str[b] EXCEPT !.pc = "count"] EXCEPT !.told = TRUE]
    <3>1. rec \in Stream /\ rec.pc = "count" /\ rec.cur = str[b].cur
      BY <1>0, Streams DEF Stream
    <3>2. str' = [str EXCEPT ![b] = rec]
      BY <2>3
    <3> QED
      BY <1>0, <2>1, <3>1, <3>2, Replace
  <2> QED
    BY <1>5, <2>2, <2>3 DEF SendEnd
<1>6. CASE TakeAck(b)
  <2>1. str[b].pc = "wait" /\ UNCHANGED <<bulk, hnd>>
    BY <1>6 DEF TakeAck
  <2>2. CASE str' = [str EXCEPT ![b].pc = "finish", ![b].told = ~acks[b].ok]
    <3> DEFINE rec == [[str[b] EXCEPT !.pc = "finish"] EXCEPT !.told = ~acks[b].ok]
    <3>1. rec \in Stream /\ rec.pc = "finish" /\ rec.cur = str[b].cur
      BY <1>0, Streams DEF Stream
    <3>2. str' = [str EXCEPT ![b] = rec]
      BY <2>2
    <3> QED
      BY <1>0, <2>1, <3>1, <3>2, Replace
  <2>3. CASE Goto(b, "advance") /\ HasMore(b)
    BY <1>0, <2>1, <2>3, GotoType DEF HasMore
  <2>4. CASE Goto(b, "count")
    BY <1>0, <2>1, <2>4, GotoType
  <2> QED
    BY <1>6, <2>2, <2>3, <2>4 DEF TakeAck
<1>7. CASE AckTimeout(b)
  <2>1. str[b].pc = "wait" /\ UNCHANGED <<bulk, hnd>>
    BY <1>7 DEF AckTimeout
  <2>2. Fail(b)
    BY <1>7 DEF AckTimeout
  <2> QED
    BY <1>0, <2>1, <2>2, FailType
<1>8. CASE AdvanceBulkOperation(b)
  <2>1. str[b].pc = "advance" /\ hnd' = hnd
    BY <1>8 DEF AdvanceBulkOperation
  <2>2. CASE IsActive(str[b].cur)
    <3> DEFINE rec == [[[[str[b] EXCEPT !.pc = "header"] EXCEPT !.cur = seq + 1]
                          EXCEPT !.part = str[b].part + 1] EXCEPT !.sent = 0]
    <3>1. seq + 1 \in Ops /\ seq + 1 # NoOp /\ bulk' = [bulk EXCEPT !.op = seq + 1]
      BY <1>0, <1>8, <2>2, BulkAssumption DEF TypeOK, Ops, NoOp, AdvanceBulkOperation
    <3>2. str[b].part + 1 \in 0 .. MaxParts /\ str[b].part + 1 # 0 /\ 0 \in 0 .. MaxChunks
      BY <1>0, <2>1, Streams, BulkAssumption DEF Shape
    <3>3. /\ rec \in Stream /\ rec.pc = "header" /\ rec.cur = seq + 1
          /\ rec.part = str[b].part + 1
      BY <1>0, <3>1, <3>2, Streams DEF Stream
    <3>4. str' = [str EXCEPT ![b] = rec]
      BY <1>8, <2>2 DEF AdvanceBulkOperation
    <3>5. bulk' \in [op : Ops \cup {NoOp}, busy : BOOLEAN] /\ bulk'.op = seq + 1 /\ bulk'.busy
      BY <1>0, <2>2, <3>1 DEF IsActive
    <3> QED
      BY <1>0, <2>1, <3>1, <3>2, <3>3, <3>4, <3>5, Replace
  <2>3. CASE ~IsActive(str[b].cur)
    <3>1. Goto(b, "finish") /\ bulk' = bulk
      BY <1>8, <2>3 DEF AdvanceBulkOperation
    <3> QED
      BY <1>0, <2>1, <3>1, GotoType
  <2> QED
    BY <2>2, <2>3
<1>9. CASE Count(b)
  <2>1. str[b].pc = "count" /\ UNCHANGED <<bulk, hnd>>
    BY <1>9 DEF Count
  <2>2. Goto(b, "complete") \/ Goto(b, "release")
    BY <1>9 DEF Count
  <2> QED
    BY <1>0, <2>1, <2>2, GotoType
<1>10. CASE SendComplete(b)
  <2> DEFINE rec == [[str[b] EXCEPT !.pc = "finish"] EXCEPT !.told = ~broken]
  <2>1. str[b].pc = "complete" /\ UNCHANGED <<bulk, hnd>>
    BY <1>10 DEF SendComplete
  <2>2. (~broken) \in BOOLEAN
    OBVIOUS
  <2>3. rec \in Stream /\ rec.pc = "finish" /\ rec.cur = str[b].cur
    BY <1>0, <2>2, Streams DEF Stream
  <2>4. str' = [str EXCEPT ![b] = rec]
    BY <1>10 DEF SendComplete
  <2> QED
    BY <1>0, <2>1, <2>3, <2>4, Replace
<1>11. CASE FinishAlbumBatch(b)
  <2>1. str[b].pc = "finish" /\ UNCHANGED <<bulk, hnd>>
    BY <1>11 DEF FinishAlbumBatch
  <2>2. Goto(b, "release")
    BY <1>11 DEF FinishAlbumBatch
  <2> QED
    BY <1>0, <2>1, <2>2, GotoType
<1> QED
  BY <1>1, <1>2, <1>3, <1>4, <1>5, <1>6, <1>7, <1>8, <1>9, <1>10, <1>11 DEF Step

\* What the type invariant says of the fields of a handler.
LEMMA Workers ==
    ASSUME TypeOK, NEW h \in Handlers
    PROVE  hnd[h] \in Handler /\ hnd[h].op \in Ops \cup {NoOp} /\ hnd[h].kind \in Kinds
BY DEF TypeOK, Handler

\* Replacing a handler's record by one of its type.
LEMMA ReplaceHandler ==
    ASSUME TypeOK, NEW h \in Handlers, NEW rec \in Handler, hnd' = [hnd EXCEPT ![h] = rec]
    PROVE  /\ hnd' \in [Handlers -> Handler] /\ hnd'[h] = rec
           /\ \A k \in Handlers \ {h} : hnd'[k] = hnd[k]
BY DEF TypeOK

\* The record of an idle handler is of its type and holds nothing.
LEMMA Idle == IdleHandler \in Handler /\ IdleHandler.pc = "idle"
BY DEF IdleHandler, Handler, Kinds

\* The slot as the next operation takes it.
LEMMA Takes ==
    ASSUME TypeOK, TakeSlot
    PROVE  /\ seq + 1 \in Ops /\ seq + 1 # NoOp /\ seq' \in 0 .. MaxOps
           /\ bulk' \in [op : Ops \cup {NoOp}, busy : BOOLEAN]
           /\ bulk'.op = seq + 1 /\ bulk'.busy
<1>1. seq \in 0 .. MaxOps /\ MaxOps \in Nat /\ seq < MaxOps
  BY BulkAssumption DEF TypeOK, TakeSlot
<1>2. seq + 1 \in Ops /\ seq + 1 # NoOp /\ seq' \in 0 .. MaxOps
  BY <1>1 DEF Ops, NoOp, TakeSlot
<1> QED
  BY <1>2 DEF TakeSlot

\* The slot after a release.
LEMMA Releases ==
    ASSUME TypeOK, NEW o, ReleaseBulk(o)
    PROVE  /\ bulk' \in [op : Ops \cup {NoOp}, busy : BOOLEAN]
           /\ bulk.op = o => ~bulk'.busy
BY DEF TypeOK, ReleaseBulk

\* A transfer begins to stream: its handler goes idle and its stream works under
\* its own operation.
Starts(h) ==
    LET b == hnd[h].op IN
    /\ HandlerHolds(h) /\ b \in Ops
    /\ hnd' \in [Handlers -> Handler] /\ hnd'[h].pc = "idle"
    /\ \A k \in Handlers \ {h} : hnd'[k] = hnd[k]
    /\ str' \in [Ops -> Stream] /\ str'[b].cur = b
    /\ str'[b].pc \in {"plan", "read"}
    /\ \A c \in Ops \ {b} : str'[c] = str[c]
    /\ bulk' = bulk

\* Installing a batch and starting a file begin a stream.
LEMMA HandlerStarts ==
    ASSUME Shape, NEW h \in Handlers, InstallBatch(h) \/ StartFile(h)
    PROVE  Starts(h)
<1> DEFINE b == hnd[h].op
<1>1. TypeOK /\ HandlerHolds(h) /\ b \in Ops /\ bulk' = bulk
  BY Workers DEF Shape, HandlerHolds, InstallBatch, StartFile
<1>2. hnd' = [hnd EXCEPT ![h] = IdleHandler]
  BY DEF InstallBatch, StartFile
<1>3. str[b] \in Stream
  BY <1>1, Streams
<1>4. CASE InstallBatch(h)
  <2> DEFINE rec == [[[str[b] EXCEPT !.pc = "plan"] EXCEPT !.kind = "album"] EXCEPT !.cur = b]
  <2>1. rec \in Stream /\ rec.pc = "plan" /\ rec.cur = b
    BY <1>1, <1>3 DEF Stream, Kinds
  <2>2. str' = [str EXCEPT ![b] = rec]
    BY <1>4 DEF InstallBatch
  <2> QED
    BY <1>1, <1>2, <2>1, <2>2, Replace, ReplaceHandler, Idle DEF Starts
<1>5. CASE StartFile(h)
  <2> DEFINE rec == [[[[str[b] EXCEPT !.pc = "read"] EXCEPT !.cur = b] EXCEPT !.part = 1] EXCEPT !.parts = 1]
  <2>1. 1 \in 0 .. MaxParts
    BY BulkAssumption
  <2>2. rec \in Stream /\ rec.pc = "read" /\ rec.cur = b
    BY <1>1, <1>3, <2>1 DEF Stream
  <2>3. str' = [str EXCEPT ![b] = rec]
    BY <1>5 DEF StartFile
  <2> QED
    BY <1>1, <1>2, <2>2, <2>3, Replace, ReplaceHandler, Idle DEF Starts
<1> QED
  BY <1>4, <1>5

\* A handler that goes on without streaming: it asks, is refused, gives up or
\* releases the slot.
Moves(h) ==
    /\ hnd' \in [Handlers -> Handler]
    /\ \A k \in Handlers \ {h} : hnd'[k] = hnd[k]
    /\ hnd'[h].pc \in {"idle", "checked"} \/ (HandlerHolds(h) /\ hnd'[h].op = hnd[h].op)
    /\ HandlerHolds(h) => HandlerHolds(h)' \/ ReleaseFile(h)
    /\ str' = str

\* A request, a refusal and giving a file up begin none.
LEMMA HandlerMoves ==
    ASSUME Shape, NEW h \in Handlers,
           \/ \E kind \in Kinds : Request(h, kind)
           \/ RejectBusy(h) \/ GiveUpFile(h) \/ ReleaseFile(h)
    PROVE  Moves(h)
<1>0. TypeOK /\ hnd[h] \in Handler
  BY Workers DEF Shape
<1>1. ASSUME NEW kind \in Kinds, Request(h, kind) PROVE Moves(h)
  <2> DEFINE rec == [pc |-> "checked", kind |-> kind, op |-> NoOp]
  <2>1. rec \in Handler /\ rec.pc = "checked"
    BY DEF Handler
  <2>2. hnd' = [hnd EXCEPT ![h] = rec] /\ str' = str /\ ~HandlerHolds(h)
    BY <1>1 DEF Request, HandlerHolds
  <2> QED
    BY <1>0, <2>1, <2>2, ReplaceHandler DEF Moves
<1>2. CASE RejectBusy(h) \/ ReleaseFile(h)
  <2>1. hnd' = [hnd EXCEPT ![h] = IdleHandler] /\ str' = str
    BY <1>2 DEF RejectBusy, ReleaseFile
  <2>2. HandlerHolds(h) => ReleaseFile(h)
    BY <1>2 DEF RejectBusy, HandlerHolds
  <2> QED
    BY <1>0, <2>1, <2>2, ReplaceHandler, Idle DEF Moves
<1>3. CASE GiveUpFile(h)
  <2> DEFINE rec == [hnd[h] EXCEPT !.pc = "release"]
  <2>1. rec \in Handler /\ rec.op = hnd[h].op /\ rec.pc = "release"
    BY <1>0 DEF Handler
  <2>2. hnd' = [hnd EXCEPT ![h] = rec] /\ str' = str /\ hnd[h].pc = "lookup"
    BY <1>3 DEF GiveUpFile
  <2> QED
    BY <1>0, <2>1, <2>2, ReplaceHandler DEF Moves, HandlerHolds
<1> QED
  BY <1>1, <1>2, <1>3

\* The slot is given to a handler.
Acquires(h) ==
    /\ ~bulk.busy
    /\ hnd' \in [Handlers -> Handler] /\ hnd'[h].op = seq + 1
    /\ hnd'[h].pc \in {"lookup", "install"}
    /\ \A k \in Handlers \ {h} : hnd'[k] = hnd[k]
    /\ str' = str

\* acquireBulk gives a free slot only.
LEMMA HandlerAcquires ==
    ASSUME Shape, NEW h \in Handlers, AcquireBulk(h)
    PROVE  Acquires(h)
<1> DEFINE l == IF hnd[h].kind = "album" THEN "install" ELSE "lookup"
           rec == [[hnd[h] EXCEPT !.pc = l] EXCEPT !.op = seq + 1]
<1>1. TypeOK /\ hnd[h] \in Handler /\ seq + 1 \in Ops
  BY Workers, Takes DEF Shape, AcquireBulk
<1>2. rec \in Handler /\ rec.pc \in {"lookup", "install"} /\ rec.op = seq + 1
  BY <1>1 DEF Handler
<1>3. hnd' = [hnd EXCEPT ![h] = rec] /\ str' = str /\ ~bulk.busy
  BY DEF AcquireBulk, SlotFree
<1> QED
  BY <1>1, <1>2, <1>3, ReplaceHandler DEF Acquires

\* A stream that returns.
Returns(b) ==
    /\ StreamHolds(b) /\ str' \in [Ops -> Stream] /\ str'[b].pc = "done"
    /\ \A c \in Ops \ {b} : str'[c] = str[c]
    /\ hnd' = hnd

\* A stream returns by its deferred release.
LEMMA StreamReturns ==
    ASSUME Shape, NEW b \in Ops, Release(b)
    PROVE  Returns(b)
<1> DEFINE rec == [[[NoStream EXCEPT !.pc = "done"] EXCEPT !.kind = str[b].kind] EXCEPT !.told = str[b].told]
<1>1. TypeOK /\ str[b].kind \in Kinds /\ str[b].told \in BOOLEAN
  BY Streams DEF Shape
<1>2. NoStream \in Stream
  BY BulkAssumption DEF NoStream, Stream, Kinds
<1>3. rec \in Stream /\ rec.pc = "done"
  BY <1>1, <1>2 DEF Stream
<1>4. str' = [str EXCEPT ![b] = rec] /\ hnd' = hnd /\ str[b].pc = "release"
  BY DEF Release
<1> QED
  BY <1>1, <1>3, <1>4, Replace DEF Returns, StreamHolds

-----------------------------------------------------------------------------
\* Every step is one of these, or concerns acknowledgements or the channel only.
LEMMA NextKinds ==
    ASSUME Shape, [Next]_vars
    PROVE  \/ \E h \in Handlers : Moves(h) /\ (bulk' = bulk \/ ReleaseFile(h))
           \/ \E h \in Handlers : AcquireBulk(h) /\ Acquires(h)
           \/ \E h \in Handlers : Starts(h)
           \/ \E b \in Ops : Works(b)
           \/ \E b \in Ops : Release(b) /\ Returns(b)
           \/ UNCHANGED <<bulk, hnd, str>>
<1>1. ASSUME NEW h \in Handlers, NEW kind \in Kinds, Request(h, kind)
      PROVE  Moves(h) /\ bulk' = bulk
  BY <1>1, HandlerMoves DEF Request
<1>2. ASSUME NEW h \in Handlers, RejectBusy(h) \/ GiveUpFile(h)
      PROVE  Moves(h) /\ bulk' = bulk
  BY <1>2, HandlerMoves DEF RejectBusy, GiveUpFile
<1>3. ASSUME NEW h \in Handlers, ReleaseFile(h)
      PROVE  Moves(h)
  BY <1>3, HandlerMoves
<1>4. ASSUME NEW h \in Handlers, AcquireBulk(h)
      PROVE  Acquires(h)
  BY <1>4, HandlerAcquires
<1>5. ASSUME NEW h \in Handlers, InstallBatch(h) \/ StartFile(h)
      PROVE  Starts(h)
  BY <1>5, HandlerStarts
<1>6. ASSUME NEW b \in Ops, Step(b)
      PROVE  Works(b) \/ (Release(b) /\ Returns(b))
  BY <1>6, StepWorks, StreamReturns
<1>7. ASSUME NEW o \in Ops, NEW ok \in BOOLEAN, AckArchive(o, ok)
      PROVE  UNCHANGED <<bulk, hnd, str>>
  BY <1>7 DEF AckArchive
<1>8. CASE Break \/ UNCHANGED vars
  BY <1>8 DEF Break, vars
<1> QED
  BY <1>1, <1>2, <1>3, <1>4, <1>5, <1>6, <1>7, <1>8 DEF Next, Handle

\* One transfer owns the slot, whatever the step.
LEMMA KeepsOneBulk == Shape /\ OneBulk /\ [Next]_vars => OneBulk'
<1> SUFFICES ASSUME Shape, OneBulk, [Next]_vars PROVE OneBulk'
  OBVIOUS
<1> USE DEF OneBulk, HandlerHolds, StreamHolds, IsActive
<1>1. ASSUME NEW h \in Handlers, Moves(h), bulk' = bulk PROVE OneBulk'
  BY <1>1 DEF Moves
<1>2. ASSUME NEW h \in Handlers, Moves(h), ReleaseFile(h) PROVE OneBulk'
  <2>1. HandlerHolds(h) /\ hnd'[h].pc = "idle"
    BY <1>2, Idle DEF ReleaseFile, Shape, TypeOK
  <2>2. (\A k \in Handlers : ~HandlerHolds(k)') /\ (\A c \in Ops : ~StreamHolds(c)')
    BY <1>2, <2>1 DEF Moves
  <2> QED
    BY <2>2
<1>3. ASSUME NEW h \in Handlers, AcquireBulk(h), Acquires(h) PROVE OneBulk'
  <2>1. bulk'.op = seq + 1 /\ bulk'.busy
    BY <1>3, Takes DEF AcquireBulk, Shape
  <2> QED
    BY <1>3, <2>1 DEF Acquires
<1>4. ASSUME NEW h \in Handlers, Starts(h) PROVE OneBulk'
  <2>1. HandlerHolds(h)
    BY <1>4 DEF Starts
  <2>2. \A k \in Handlers : ~HandlerHolds(k)'
    BY <1>4, <2>1 DEF Starts
  <2>3. \A c \in Ops \ {hnd[h].op} : ~StreamHolds(c)'
    BY <1>4, <2>1 DEF Starts
  <2>4. bulk'.op = str'[hnd[h].op].cur /\ bulk'.busy
    BY <1>4, <2>1 DEF Starts
  <2> QED
    BY <2>2, <2>3, <2>4
<1>5. ASSUME NEW b \in Ops, Works(b) PROVE OneBulk'
  <2>1. StreamHolds(b) /\ IsActive(str[b].cur)
    BY <1>5 DEF Works
  <2>2. \A k \in Handlers : ~HandlerHolds(k)'
    BY <1>5, <2>1 DEF Works
  <2>3. \A c \in Ops \ {b} : ~StreamHolds(c)'
    BY <1>5, <2>1 DEF Works
  <2>4. IsActive(str[b].cur)'
    BY <1>5, <2>1 DEF Works
  <2> QED
    BY <2>2, <2>3, <2>4
<1>6. ASSUME NEW b \in Ops, Release(b), Returns(b) PROVE OneBulk'
  <2>1. StreamHolds(b)
    BY <1>6 DEF Returns
  <2>2. (\A k \in Handlers : ~HandlerHolds(k)') /\ (\A c \in Ops : ~StreamHolds(c)')
    BY <1>6, <2>1 DEF Returns
  <2> QED
    BY <2>2
<1>7. CASE UNCHANGED <<bulk, hnd, str>>
  BY <1>7
<1> QED
  BY <1>1, <1>2, <1>3, <1>4, <1>5, <1>6, <1>7, NextKinds

\* The handlers and the streams keep their types and their operations.
LEMMA KeepsActors ==
    ASSUME Shape, [Next]_vars
    PROVE  /\ hnd' \in [Handlers -> Handler] /\ str' \in [Ops -> Stream]
           /\ \A h \in Handlers : HandlerHolds(h)' => hnd'[h].op # NoOp
           /\ \A b \in Ops : StreamHolds(b)' => str'[b].cur # NoOp
           /\ \A b \in Ops : str'[b].pc = "header" => str'[b].part # 0
           /\ \A b \in Ops : str'[b].pc = "advance" => str'[b].part < str'[b].parts
<1> DEFINE Good ==
    /\ hnd' \in [Handlers -> Handler] /\ str' \in [Ops -> Stream]
    /\ \A h \in Handlers : HandlerHolds(h)' => hnd'[h].op # NoOp
    /\ \A b \in Ops : StreamHolds(b)' => str'[b].cur # NoOp
    /\ \A b \in Ops : str'[b].pc = "header" => str'[b].part # 0
    /\ \A b \in Ops : str'[b].pc = "advance" => str'[b].part < str'[b].parts
<1>0. hnd \in [Handlers -> Handler] /\ str \in [Ops -> Stream]
  BY DEF Shape, TypeOK
<1> USE DEF Shape, HandlerHolds, StreamHolds
<1>1. ASSUME NEW h \in Handlers, Moves(h) PROVE Good
  BY <1>0, <1>1 DEF Moves
<1>2. ASSUME NEW h \in Handlers, AcquireBulk(h), Acquires(h) PROVE Good
  <2>1. seq + 1 # NoOp
    BY <1>2, Takes DEF AcquireBulk
  <2> QED
    BY <1>0, <1>2, <2>1 DEF Acquires
<1>3. ASSUME NEW h \in Handlers, Starts(h) PROVE Good
  BY <1>0, <1>3 DEF Starts, Ops, NoOp
<1>4. ASSUME NEW b \in Ops, Works(b) PROVE Good
  BY <1>0, <1>4 DEF Works
<1>5. ASSUME NEW b \in Ops, Returns(b) PROVE Good
  BY <1>0, <1>5 DEF Returns
<1>6. CASE UNCHANGED <<bulk, hnd, str>>
  BY <1>0, <1>6
<1>7. Good
  BY <1>1, <1>2, <1>3, <1>4, <1>5, <1>6, NextKinds
<1> QED
  BY <1>7

\* The other variables keep their types.
Rest ==
    /\ downloads \in Nat
    /\ bulk \in [op : Ops \cup {NoOp}, busy : BOOLEAN]
    /\ seq \in 0 .. MaxOps
    /\ album \in Ops \cup {NoOp}
    /\ acks \in [Ops -> Ack \cup {NoAck}]
    /\ head \in [Ops -> Head \cup {NoHead}]
    /\ ended \subseteq Ops /\ positive \subseteq Ops /\ repeated \subseteq Ops /\ counted \subseteq Ops
    /\ broken \in BOOLEAN

\* Every step keeps the types of the fields no handler or stream owns.
LEMMA KeepsRest == Shape /\ [Next]_vars => Rest'
<1> SUFFICES ASSUME Shape, [Next]_vars PROVE Rest'
  OBVIOUS
<1>0. TypeOK /\ Rest
  BY DEF Shape, TypeOK, Rest
<1> USE DEF Rest
<1>1. ASSUME NEW h \in Handlers, NEW kind \in Kinds,
           Request(h, kind)
     PROVE  Rest'
  BY <1>1, <1>0 DEF Request
<1>2. ASSUME NEW h \in Handlers,
           AcquireBulk(h)
     PROVE  Rest'
  <2>1. seq' \in 0 .. MaxOps /\ bulk' \in [op : Ops \cup {NoOp}, busy : BOOLEAN]
    BY <1>2, <1>0, Takes DEF AcquireBulk
  <2> QED
    BY <1>2, <1>0, <2>1 DEF AcquireBulk
<1>3. ASSUME NEW h \in Handlers,
           RejectBusy(h) \/ GiveUpFile(h)
     PROVE  Rest'
  BY <1>3, <1>0 DEF RejectBusy, GiveUpFile
<1>4. ASSUME NEW h \in Handlers,
           InstallBatch(h)
     PROVE  Rest'
  <2>1. hnd[h].op \in Ops \cup {NoOp}
    BY <1>0, Workers
  <2> QED
    BY <1>4, <1>0, <2>1 DEF InstallBatch
<1>5. ASSUME NEW h \in Handlers,
           StartFile(h)
     PROVE  Rest'
  <2>1. hnd[h].op \in Ops /\ 1 \in Parts
    BY <1>5, <1>0, Workers, BulkAssumption DEF StartFile, Shape, HandlerHolds, Parts
  <2>2. [batch |-> hnd[h].op, part |-> 1] \in Head
    BY <2>1 DEF Head
  <2> QED
    BY <1>5, <1>0, <2>2 DEF StartFile
<1>6. ASSUME NEW h \in Handlers,
           ReleaseFile(h)
     PROVE  Rest'
  <2>1. bulk' \in [op : Ops \cup {NoOp}, busy : BOOLEAN]
    BY <1>6, <1>0, Releases DEF ReleaseFile
  <2> QED
    BY <1>6, <1>0, <2>1 DEF ReleaseFile
<1>7. ASSUME NEW o \in Ops, NEW ok \in BOOLEAN,
           AckArchive(o, ok)
     PROVE  Rest'
  <2>1. head[o] \in Head
    BY <1>7, <1>0 DEF AckArchive, NoHead
  <2>2. [part |-> head[o].part, op |-> o, ok |-> ok] \in Ack
    BY <2>1 DEF Head, Ack
  <2> QED
    BY <1>7, <1>0, <2>2 DEF AckArchive
<1>8. ASSUME NEW b \in Ops,
           PlanAlbum(b) \/ SendChunk(b) \/ SourceEnds(b) \/ TakeAck(b) \/
           AckTimeout(b) \/ Count(b) \/ SendComplete(b) \/ FinishAlbumBatch(b)
     PROVE  Rest'
  BY <1>8, <1>0 DEF PlanAlbum, SendChunk, SourceEnds, TakeAck, AckTimeout, Count,
     SendComplete, FinishAlbumBatch
<1>9. ASSUME NEW b \in Ops,
           SendHeader(b)
     PROVE  Rest'
  <2>1. str[b].cur \in Ops /\ str[b].part \in Parts
    BY <1>9, <1>0, Streams DEF SendHeader, Shape, StreamHolds, Parts
  <2>2. [batch |-> b, part |-> str[b].part] \in Head
    BY <2>1 DEF Head
  <2> QED
    BY <1>9, <1>0, <2>2 DEF SendHeader
<1>10. ASSUME NEW b \in Ops,
           SendEnd(b)
     PROVE  Rest'
  <2>1. str[b].cur \in Ops
    BY <1>10, <1>0, Streams DEF SendEnd, Shape, StreamHolds
  <2> QED
    BY <1>10, <1>0, <2>1 DEF SendEnd
<1>11. ASSUME NEW b \in Ops,
           AdvanceBulkOperation(b)
     PROVE  Rest'
  <2>1. CASE IsActive(str[b].cur)
    <3>1. seq + 1 \in Ops /\ seq' \in 0 .. MaxOps /\ bulk' = [bulk EXCEPT !.op = seq + 1]
      BY <1>11, <1>0, <2>1, BulkAssumption DEF AdvanceBulkOperation, Ops
    <3>2. bulk' \in [op : Ops \cup {NoOp}, busy : BOOLEAN]
      BY <1>0, <3>1
    <3> QED
      BY <1>11, <1>0, <3>1, <3>2 DEF AdvanceBulkOperation
  <2>2. CASE ~IsActive(str[b].cur)
    BY <1>11, <1>0, <2>2 DEF AdvanceBulkOperation
  <2> QED
    BY <2>1, <2>2
<1>12. ASSUME NEW b \in Ops,
           Release(b)
     PROVE  Rest'
  <2>1. bulk' \in [op : Ops \cup {NoOp}, busy : BOOLEAN]
    BY <1>12, <1>0, Releases DEF Release
  <2> QED
    BY <1>12, <1>0, <2>1 DEF Release
<1>13. CASE Break
  BY <1>13, <1>0 DEF Break
<1>14. CASE UNCHANGED vars
  BY <1>0, <1>14 DEF vars
<1> QED
  BY <1>1, <1>2, <1>3, <1>4, <1>5, <1>6, <1>7, <1>8, <1>9, <1>10, <1>11,
     <1>12, <1>13, <1>14 DEF Next, Handle, Step

\* Nobody holds the slot at the start.
LEMMA InitShape == Init => Shape /\ OneBulk
<1> SUFFICES ASSUME Init PROVE Shape /\ OneBulk
  OBVIOUS
<1> USE DEF Init
<1>1. IdleHandler \in Handler /\ NoStream \in Stream
  BY Idle, BulkAssumption DEF NoStream, Stream, Kinds
<1>2. hnd \in [Handlers -> Handler] /\ str \in [Ops -> Stream]
  BY <1>1
<1>3. downloads \in Nat /\ bulk \in [op : Ops \cup {NoOp}, busy : BOOLEAN] /\ seq \in 0 .. MaxOps
  BY BulkAssumption
<1>4. acks \in [Ops -> Ack \cup {NoAck}] /\ head \in [Ops -> Head \cup {NoHead}]
  OBVIOUS
<1>5. TypeOK
  BY <1>2, <1>3, <1>4 DEF TypeOK
<1>6. (\A h \in Handlers : hnd[h].pc = "idle") /\ (\A b \in Ops : str[b].pc = "none")
  BY DEF IdleHandler, NoStream
<1> QED
  BY <1>5, <1>6 DEF Shape, OneBulk, HandlerHolds, StreamHolds

\* Every step keeps the shape of the state.
LEMMA NextShape == Shape /\ [Next]_vars => Shape'
<1> SUFFICES ASSUME Shape, [Next]_vars PROVE Shape'
  OBVIOUS
<1>1. Rest'
  BY KeepsRest
<1>2. TypeOK'
  BY <1>1, KeepsActors DEF TypeOK, Rest
<1> QED
  BY <1>2, KeepsActors DEF Shape

\* The Manager's bulk fields, the handlers and the streams keep their types, for
\* any number of each: in particular a stream never announces an archive beyond
\* its album's last (manager.go:337-368).
THEOREM TypeCorrect == Spec => []TypeOK
<1>1. Init => Shape
  BY InitShape
<1>2. Shape => TypeOK
  BY DEF Shape
<1> QED
  BY <1>1, <1>2, NextShape, PTL DEF Spec

\* The bulk slot has one owner, a handler or a stream, and bulkOperation names
\* its operation, through early returns and the changing operations of an album
\* (manager.go:1420-1462).
THEOREM OneBulkTransfer == Spec => []OneBulk
<1>1. Init => Shape /\ OneBulk
  BY InitShape
<1>2. Shape /\ OneBulk /\ [Next]_vars => Shape' /\ OneBulk'
  BY NextShape, KeepsOneBulk
<1> QED
  BY <1>1, <1>2, PTL DEF Spec

-----------------------------------------------------------------------------
\* A slot that is taken has an owner who is at work.
LEMMA KeepsSlotHeld == Shape /\ OneBulk /\ SlotHeld /\ [Next]_vars => SlotHeld'
<1> SUFFICES ASSUME Shape, OneBulk, SlotHeld, [Next]_vars PROVE SlotHeld'
  OBVIOUS
<1> USE DEF SlotHeld
<1>1. ASSUME NEW h \in Handlers, ReleaseFile(h) PROVE SlotHeld'
  <2>1. bulk.op = hnd[h].op
    BY <1>1 DEF ReleaseFile, OneBulk, HandlerHolds, IsActive
  <2> QED
    BY <1>1, <2>1, Releases DEF ReleaseFile, Shape
<1>2. ASSUME NEW h \in Handlers, Moves(h), bulk' = bulk, ~ReleaseFile(h) PROVE SlotHeld'
  <2>1. CASE ~bulk.busy
    BY <1>2, <2>1
  <2>2. ASSUME NEW k \in Handlers, HandlerHolds(k) PROVE SlotHeld'
    BY <1>2, <2>2 DEF Moves, HandlerHolds
  <2>3. ASSUME NEW b \in Ops, StreamHolds(b) PROVE SlotHeld'
    BY <1>2, <2>3 DEF Moves, StreamHolds
  <2> QED
    BY <2>1, <2>2, <2>3
<1>3. ASSUME NEW h \in Handlers, Acquires(h) PROVE SlotHeld'
  BY <1>3 DEF Acquires, HandlerHolds
<1>4. ASSUME NEW h \in Handlers, Starts(h) PROVE SlotHeld'
  BY <1>4 DEF Starts, StreamHolds
<1>5. ASSUME NEW b \in Ops, Works(b) PROVE SlotHeld'
  BY <1>5 DEF Works, StreamHolds
<1>6. ASSUME NEW b \in Ops, Release(b) PROVE SlotHeld'
  <2>1. bulk.op = str[b].cur
    BY <1>6 DEF Release, OneBulk, StreamHolds, IsActive
  <2> QED
    BY <1>6, <2>1, Releases DEF Release, Held, Shape
<1>7. CASE UNCHANGED <<bulk, hnd, str>>
  BY <1>7 DEF HandlerHolds, StreamHolds
<1> QED
  BY <1>1, <1>2, <1>3, <1>4, <1>5, <1>6, <1>7, NextKinds

\* The slot is never leaked: on every early return of a handler and of a stream
\* somebody who will release it is still at work (manager.go:1435-1442).
THEOREM SlotNeverLeaked == Spec => []SlotHeld
<1>1. Init => Shape /\ OneBulk /\ SlotHeld
  BY InitShape DEF Init, SlotHeld
<1>2. Shape /\ OneBulk /\ SlotHeld /\ [Next]_vars => Shape' /\ OneBulk' /\ SlotHeld'
  BY NextShape, KeepsOneBulk, KeepsSlotHeld
<1> QED
  BY <1>1, <1>2, PTL DEF Spec

-----------------------------------------------------------------------------
(* What a download is: announced, acknowledged, counted and reported *)

\* An operation that was not begun, and one whose handler has not yet started the
\* stream, is announced nowhere, and a stream that never ran has no history.
Fresh ==
    /\ bulk.op <= seq
    /\ \A o \in Ops : o > seq => str[o].pc = "none" /\ head[o] = NoHead
    /\ \A h \in Handlers : HandlerHolds(h) =>
           str[hnd[h].op].pc = "none" /\ head[hnd[h].op] = NoHead
    /\ \A b \in Ops : str[b].pc = "none" =>
           str[b].kind = "file" /\ b \notin counted /\ \A o \in Ops : head[o].batch # b

\* The operations announced for the batch of a stream at work are its earlier
\* archives, sent and saved, and its current one.
Announced(b) ==
    \A o \in Ops : head[o].batch = b =>
        \/ head[o].part < str[b].part /\ o \in ended /\ o \in positive
        \/ head[o].part = str[b].part /\ o = str[b].cur /\ str[b].pc \notin {"plan", "header"}

\* Where a stream is says what it has sent and what was acknowledged.
Progress(b) ==
    /\ StreamHolds(b) => Announced(b)
    /\ str[b].pc \in {"plan", "header"} => head[str[b].cur] = NoHead
    /\ str[b].pc = "plan" => \A o \in Ops : head[o].batch # b
    /\ str[b].pc \in {"wait", "advance", "count"} => str[b].cur \in ended
    /\ str[b].pc = "wait" => str[b].kind = "album"
    /\ str[b].pc = "advance" => str[b].cur \in positive
    /\ str[b].pc = "count" => IF str[b].kind = "album" THEN str[b].cur \in positive ELSE str[b].told
    /\ acks[b].ok => acks[b].op \in positive

\* A counted download is over, was sent to its end and, an album, saved.
CountedAt(b) ==
    /\ str[b].pc \in {"complete", "finish", "release", "done"}
    /\ \A o \in Ops : head[o].batch = b => o \in ended /\ (str[b].kind = "album" => o \in positive)

Exact ==
    /\ Fresh
    /\ \A b \in Ops : Progress(b)
    /\ \A b \in counted : CountedAt(b)
    /\ AdvancesOnAck
    /\ downloads = Cardinality(counted)

LEMMA InitExact == Init => Exact
<1> SUFFICES ASSUME Init PROVE Exact
  OBVIOUS
<1> USE DEF Init
<1>1. \A b \in Ops : str[b] = NoStream /\ head[b] = NoHead /\ acks[b] = NoAck
  OBVIOUS
<1>2. Fresh
  BY <1>1, BulkAssumption DEF Fresh, NoStream, NoHead, NoOp, Ops, HandlerHolds, IdleHandler
<1>3. \A b \in Ops : Progress(b)
  BY <1>1 DEF Progress, StreamHolds, NoStream, NoAck
<1>4. AdvancesOnAck
  BY <1>1 DEF AdvancesOnAck
<1> QED
  BY <1>2, <1>3, <1>4, FS_EmptySet DEF Exact

\* Of an announcement.
LEMMA Heads ==
    ASSUME TypeOK, NEW o \in Ops
    PROVE  /\ head[o] = NoHead \/ head[o] \in Head
           /\ head[o].batch \in Ops => head[o] \in Head /\ head[o] # NoHead /\ head[o].part \in Nat
           /\ head[o] # NoHead => head[o].batch \in Ops
<1>1. head[o] \in Head \cup {NoHead}
  BY DEF TypeOK
<1>2. NoHead.batch \notin Ops
  BY DEF NoHead, Ops, NoOp
<1>3. \A r \in Head : r.batch \in Ops /\ r.part \in Nat
  BY BulkAssumption DEF Head, Parts
<1> QED
  BY <1>1, <1>2, <1>3

\* A step of the stream b, which may announce its current operation and count b:
\* what is left to show is about b itself.
LEMMA StreamStep ==
    ASSUME Shape, OneBulk, Exact, NEW b \in Ops, StreamHolds(b),
           bulk'.op <= seq', seq' \in Nat, seq <= seq', hnd' = hnd,
           str'[b].pc # "none", \A c \in Ops \ {b} : str'[c] = str[c],
           \/ head' = head
           \/ str[b].pc = "header"
              /\ head' = [head EXCEPT ![str[b].cur] = [batch |-> b, part |-> str[b].part]],
           \A o \in ended : o \in ended', positive' = positive, broken' = broken,
           \A c \in Ops : acks'[c] = acks[c] \/ ~acks'[c].ok,
           \A c \in counted' : c \in counted \/ c = b,
           b \in counted' => CountedAt(b)', Progress(b)', downloads' = Cardinality(counted')
    PROVE  Exact'
<1>0. TypeOK /\ str[b].cur \in Ops /\ str[b].part \in Nat
  BY Streams DEF Shape
<1>1. str[b].cur <= seq /\ seq \in Nat /\ \A o \in Ops : o \in Nat
  BY <1>0, BulkAssumption DEF OneBulk, IsActive, Exact, Fresh, TypeOK, Ops
<1>2. /\ \A h \in Handlers : ~HandlerHolds(h)
      /\ \A c \in Ops \ {b} : ~StreamHolds(c)
  BY DEF OneBulk
<1>3. \A o \in Ops : o # str[b].cur => head'[o] = head[o]
  BY <1>0 DEF TypeOK
<1>4. \/ head'[str[b].cur] = head[str[b].cur]
      \/ str[b].pc = "header" /\ head'[str[b].cur] = [batch |-> b, part |-> str[b].part]
  BY <1>0 DEF TypeOK
<1>5. \A o \in Ops, c \in Ops \ {b} : head'[o].batch = c => head'[o] = head[o]
  BY <1>3, <1>4
<1>6. Fresh'
  <2>1. \A o \in Ops : o > seq' => str'[o].pc = "none" /\ head'[o] = NoHead
    <3> SUFFICES ASSUME NEW o \in Ops, o > seq' PROVE str'[o].pc = "none" /\ head'[o] = NoHead
      OBVIOUS
    <3>1. o > seq
      BY <1>1
    <3>2. o # b /\ o # str[b].cur
      BY <1>1, <3>1 DEF Exact, Fresh, StreamHolds
    <3> QED
      BY <1>3, <3>1, <3>2 DEF Exact, Fresh
  <2>2. \A h \in Handlers : ~HandlerHolds(h)'
    BY <1>2 DEF HandlerHolds
  <2>3. \A c \in Ops : str'[c].pc = "none" =>
            str'[c].kind = "file" /\ c \notin counted' /\ \A o \in Ops : head'[o].batch # c
    BY <1>5 DEF Exact, Fresh
  <2> QED
    BY <2>1, <2>2, <2>3 DEF Fresh
<1>7. ASSUME NEW c \in Ops \ {b} PROVE Progress(c)'
  <2>1. str'[c] = str[c] /\ str[c].pc \in {"none", "done"} /\ Progress(c)
    BY <1>2 DEF StreamHolds, Exact
  <2>2. acks'[c].ok => acks'[c].op \in positive'
    BY <2>1 DEF Progress
  <2> QED
    BY <2>1, <2>2 DEF Progress, StreamHolds
<1>8. ASSUME NEW c \in counted', c # b PROVE CountedAt(c)'
  <2>1. c \in counted /\ CountedAt(c) /\ c \in Ops
    BY <1>0, <1>8 DEF Exact, TypeOK
  <2> QED
    BY <1>5, <1>8, <2>1 DEF CountedAt
<1>9. AdvancesOnAck'
  <2>1. AdvancesOnAck
    BY DEF Exact
  <2>2. CASE head' = head
    BY <2>1, <2>2 DEF AdvancesOnAck
  <2>3. CASE str[b].pc = "header" /\ head'[str[b].cur] = [batch |-> b, part |-> str[b].part]
    <3>1. \A o \in Ops : head[o].batch = b =>
              head[o].part \in Nat /\ head[o].part < str[b].part /\ o \in ended /\ o \in positive
      BY <1>0, <2>3, Heads DEF Exact, Progress, Announced
    <3> SUFFICES ASSUME NEW o \in Ops, NEW p \in Ops, head'[o] # NoHead, head'[p] # NoHead,
                        head'[o].batch = head'[p].batch, head'[o].part < head'[p].part
                 PROVE  o \in positive' /\ o \in ended'
      BY DEF AdvancesOnAck
    <3>2. CASE o = str[b].cur
      <4>1. head'[p].batch = b /\ str[b].part < head'[p].part
        BY <2>3, <3>2
      <4>2. CASE p = str[b].cur
        BY <1>0, <2>3, <4>1, <4>2
      <4>3. CASE p # str[b].cur
        BY <1>0, <1>3, <3>1, <4>1, <4>3
      <4> QED
        BY <4>2, <4>3
    <3>3. CASE o # str[b].cur /\ p = str[b].cur
      BY <1>3, <2>3, <3>1, <3>3
    <3>4. CASE o # str[b].cur /\ p # str[b].cur
      BY <1>3, <2>1, <3>4 DEF AdvancesOnAck
    <3> QED
      BY <3>2, <3>3, <3>4
  <2> QED
    BY <1>0, <2>2, <2>3 DEF TypeOK
<1> QED
  BY <1>6, <1>7, <1>8, <1>9 DEF Exact

\* The stream b goes to l in the same operation, or to operation cur, archive part.
To(b, l, cur, part, told) ==
    /\ str'[b].pc = l /\ str'[b].kind = str[b].kind
    /\ str'[b].cur = cur /\ str'[b].part = part /\ str'[b].told = told
    /\ \A c \in Ops \ {b} : str'[c] = str[c]

LEMMA GotoTo ==
    ASSUME TypeOK, NEW b \in Ops, NEW l, Goto(b, l)
    PROVE  To(b, l, str[b].cur, str[b].part, str[b].told)
<1>1. str \in [Ops -> Stream] /\ str[b] \in Stream
  BY DEF TypeOK
<1>2. str' = [str EXCEPT ![b] = [str[b] EXCEPT !.pc = l]]
  BY DEF Goto
<1> QED
  BY <1>1, <1>2 DEF Stream, To

\* A stream that fails tells the browser, unless the channel is broken: it holds
\* the slot, so its operation is the active one.
LEMMA FailTo ==
    ASSUME TypeOK, OneBulk, NEW b \in Ops, StreamHolds(b), Fail(b)
    PROVE  To(b, Leave(b), str[b].cur, str[b].part, ~broken)
<1>1. str \in [Ops -> Stream] /\ str[b] \in Stream
  BY DEF TypeOK
<1>2. IsActive(str[b].cur) /\ broken \in BOOLEAN
  BY DEF OneBulk, TypeOK
<1>3. (IsActive(str[b].cur) /\ ~broken) = ~broken
  BY <1>2
<1>4. str' = [str EXCEPT ![b] = [[str[b] EXCEPT !.pc = Leave(b)] EXCEPT !.told = ~broken]]
  BY <1>3 DEF Fail
<1> QED
  BY <1>1, <1>4 DEF Stream, To

\* Most steps of a stream change neither announcements nor what is counted.
LEMMA PlainStep ==
    ASSUME Shape, OneBulk, Exact, NEW b \in Ops, StreamHolds(b),
           bulk' = bulk, seq' = seq, hnd' = hnd, head' = head, ended' = ended,
           positive' = positive, counted' = counted, downloads' = downloads, broken' = broken,
           \A c \in Ops : acks'[c] = acks[c] \/ ~acks'[c].ok,
           \A c \in Ops \ {b} : str'[c] = str[c], str'[b].pc # "none",
           str'[b].kind = str[b].kind,
           b \in counted => str'[b].pc \in {"complete", "finish", "release", "done"},
           Progress(b)'
    PROVE  Exact'
<1>1. TypeOK /\ bulk.op <= seq /\ seq \in Nat /\ downloads = Cardinality(counted)
  BY BulkAssumption DEF Shape, TypeOK, Exact, Fresh
<1>2. b \in counted => CountedAt(b)'
  BY DEF Exact, CountedAt
<1>3. seq <= seq'
  BY <1>1
<1> QED
  BY <1>1, <1>2, <1>3, StreamStep

\* The stream keeps its operation and moves on past the announcement.
LEMMA StayStep ==
    ASSUME Shape, OneBulk, Exact, NEW b \in Ops, StreamHolds(b), b \notin counted,
           bulk' = bulk, seq' = seq, hnd' = hnd, head' = head, ended' = ended, acks' = acks,
           positive' = positive, counted' = counted, downloads' = downloads, broken' = broken,
           NEW l \in {"read", "end", "finish", "release"}, NEW told,
           To(b, l, str[b].cur, str[b].part, told)
    PROVE  Exact'
<1>1. Progress(b)
  BY DEF Exact
<1>2. Announced(b)'
  BY <1>1 DEF Progress, Announced, To
<1>3. Progress(b)'
  BY <1>1, <1>2 DEF Progress, To
<1> QED
  BY <1>3, PlainStep DEF To

LEMMA StreamExact ==
    ASSUME Shape, OneBulk, Exact, NEW b \in Ops, Step(b)
    PROVE  Exact'
<1>0. /\ TypeOK /\ str[b] \in Stream /\ str[b].cur \in Ops \cup {NoOp} /\ str[b].part \in Nat
      /\ broken \in BOOLEAN /\ seq \in Nat /\ bulk.op <= seq /\ downloads = Cardinality(counted)
  BY Streams, BulkAssumption DEF Shape, TypeOK, Exact, Fresh
<1>1. Progress(b) /\ (b \in counted => CountedAt(b))
  BY DEF Exact
<1>2. StreamHolds(b)
  BY DEF StreamHolds, Step, PlanAlbum, SendHeader, SendChunk, SourceEnds, SendEnd, TakeAck,
     AckTimeout, AdvanceBulkOperation, Count, SendComplete, FinishAlbumBatch, Release
<1>3. IsActive(str[b].cur) /\ str[b].cur \in Ops
  BY <1>0, <1>2 DEF OneBulk, Shape
<1>4. Leave(b) \in {"finish", "release"} /\ (~broken) \in BOOLEAN
  BY <1>0 DEF Leave
<1>5. CASE PlanAlbum(b)
  <2>1. /\ str[b].pc = "plan"
        /\ UNCHANGED <<downloads, bulk, seq, acks, hnd, head, ended, positive, repeated, counted, broken>>
    BY <1>5 DEF PlanAlbum
  <2>2. b \notin counted
    BY <1>1, <2>1 DEF CountedAt
  <2>3. CASE Fail(b)
    BY <1>0, <1>2, <1>4, <2>1, <2>2, <2>3, FailTo, StayStep
  <2>4. ASSUME NEW n, str' = [str EXCEPT ![b].pc = "header", ![b].part = 1, ![b].parts = n]
        PROVE  Exact'
    <3>1. str' = [str EXCEPT ![b] = [[[str[b] EXCEPT !.pc = "header"] EXCEPT !.part = 1]
                                        EXCEPT !.parts = n]]
      BY <2>4
    <3>2. To(b, "header", str[b].cur, 1, str[b].told)
      BY <1>0, <3>1 DEF To, Stream, TypeOK
    <3>3. Progress(b)'
      BY <1>1, <2>1, <3>2 DEF Progress, Announced, To
    <3> QED
      BY <1>2, <2>1, <2>2, <3>2, <3>3, PlainStep DEF To
  <2> QED
    BY <1>5, <2>3, <2>4 DEF PlanAlbum
<1>6. CASE SendHeader(b)
  <2>1. /\ str[b].pc = "header"
        /\ UNCHANGED <<downloads, bulk, seq, acks, hnd, ended, positive, repeated, counted, broken>>
    BY <1>6 DEF SendHeader
  <2>2. b \notin counted
    BY <1>1, <2>1 DEF CountedAt
  <2>3. CASE broken
    BY <1>0, <1>2, <1>6, <2>1, <2>2, <2>3, GotoTo, StayStep DEF SendHeader
  <2>4. CASE ~broken
    <3>1. /\ head' = [head EXCEPT ![str[b].cur] = [batch |-> b, part |-> str[b].part]]
          /\ To(b, "read", str[b].cur, str[b].part, str[b].told)
      BY <1>0, <1>6, <2>4, GotoTo DEF SendHeader
    <3>2. /\ \A o \in Ops : o # str[b].cur => head'[o] = head[o]
          /\ head'[str[b].cur] = [batch |-> b, part |-> str[b].part]
      BY <1>0, <1>3, <3>1 DEF TypeOK
    <3>3. Announced(b)
      BY <1>1, <1>2 DEF Progress
    <3>4. Announced(b)'
      BY <2>1, <3>1, <3>2, <3>3 DEF Announced, To
    <3>5. Progress(b)'
      BY <1>1, <2>1, <3>1, <3>4 DEF Progress, To
    <3> QED
      <4>1. bulk'.op <= seq' /\ seq' \in Nat /\ seq <= seq' /\ downloads' = Cardinality(counted')
        BY <1>0, <2>1
      <4>2. str'[b].pc # "none" /\ \A c \in Ops \ {b} : str'[c] = str[c]
        BY <3>1 DEF To
      <4> QED
        BY <1>2, <2>1, <2>2, <3>1, <3>5, <4>1, <4>2, StreamStep
  <2> QED
    BY <2>3, <2>4
<1>7. CASE SendChunk(b)
  <2>1. /\ str[b].pc = "read"
        /\ UNCHANGED <<downloads, bulk, seq, acks, hnd, head, ended, positive, repeated, counted, broken>>
    BY <1>7 DEF SendChunk
  <2>2. b \notin counted
    BY <1>1, <2>1 DEF CountedAt
  <2>3. CASE broken
    BY <1>0, <1>2, <1>4, <1>7, <2>1, <2>2, <2>3, GotoTo, StayStep DEF SendChunk
  <2>4. CASE ~broken
    <3>1. str' = [str EXCEPT ![b] = [str[b] EXCEPT !.sent = @ + 1]]
      BY <1>7, <2>4 DEF SendChunk
    <3>2. To(b, "read", str[b].cur, str[b].part, str[b].told)
      BY <1>0, <2>1, <3>1 DEF To, Stream, TypeOK
    <3> QED
      BY <1>2, <2>1, <2>2, <3>2, StayStep
  <2> QED
    BY <2>3, <2>4
<1>8. CASE SourceEnds(b)
  <2>1. /\ str[b].pc = "read"
        /\ UNCHANGED <<downloads, bulk, seq, acks, hnd, head, ended, positive, repeated, counted, broken>>
    BY <1>8 DEF SourceEnds
  <2>2. b \notin counted
    BY <1>1, <2>1 DEF CountedAt
  <2>3. CASE Goto(b, "end")
    BY <1>0, <1>2, <2>1, <2>2, <2>3, GotoTo, StayStep
  <2>4. CASE Fail(b)
    BY <1>0, <1>2, <1>4, <2>1, <2>2, <2>4, FailTo, StayStep
  <2> QED
    BY <1>8, <2>3, <2>4 DEF SourceEnds
<1>9. CASE AckTimeout(b)
  <2>1. /\ str[b].pc = "wait" /\ Fail(b)
        /\ UNCHANGED <<downloads, bulk, seq, acks, hnd, head, ended, positive, repeated, counted, broken>>
    BY <1>9 DEF AckTimeout
  <2>2. b \notin counted
    BY <1>1, <2>1 DEF CountedAt
  <2> QED
    BY <1>0, <1>2, <1>4, <2>1, <2>2, FailTo, StayStep
<1>10. CASE SendEnd(b)
  <2>1. /\ str[b].pc = "end"
        /\ UNCHANGED <<downloads, bulk, seq, acks, hnd, head, positive, repeated, counted, broken>>
    BY <1>10 DEF SendEnd
  <2>2. b \notin counted
    BY <1>1, <2>1 DEF CountedAt
  <2>3. CASE broken
    BY <1>0, <1>2, <1>4, <1>10, <2>1, <2>2, <2>3, GotoTo, StayStep DEF SendEnd
  <2>4. CASE ~broken
    <3>1. ended' = ended \cup {str[b].cur}
      BY <1>10, <2>4 DEF SendEnd
    <3>2. \/ str[b].kind = "album" /\ To(b, "wait", str[b].cur, str[b].part, str[b].told)
          \/ str[b].kind # "album" /\ To(b, "count", str[b].cur, str[b].part, TRUE)
      <4>1. CASE str[b].kind = "album"
        BY <1>0, <1>10, <2>4, <4>1, GotoTo DEF SendEnd
      <4>2. CASE str[b].kind # "album"
        <5>1. str' = [str EXCEPT ![b] = [[str[b] EXCEPT !.pc = "count"] EXCEPT !.told = TRUE]]
          BY <1>10, <2>4, <4>2 DEF SendEnd
        <5> QED
          BY <1>0, <4>2, <5>1 DEF To, Stream, TypeOK
      <4> QED
        BY <4>1, <4>2
    <3>3. Announced(b)'
      <4>1. Announced(b)
        BY <1>1, <1>2 DEF Progress
      <4> QED
        BY <2>1, <3>1, <3>2, <4>1 DEF Announced, To
    <3>4. Progress(b)'
      BY <1>1, <2>1, <3>1, <3>2, <3>3 DEF Progress, To
    <3>5. str'[b].pc # "none" /\ \A c \in Ops \ {b} : str'[c] = str[c]
      BY <3>2 DEF To
    <3> QED
      BY <1>0, <1>2, <2>1, <2>2, <3>1, <3>4, <3>5, StreamStep
  <2> QED
    BY <2>3, <2>4
<1>11. CASE TakeAck(b)
  <2>1. /\ str[b].pc = "wait" /\ acks' = [acks EXCEPT ![b] = NoAck]
        /\ UNCHANGED <<downloads, bulk, seq, hnd, head, ended, positive, repeated, counted, broken>>
    BY <1>11 DEF TakeAck
  <2>2. b \notin counted
    BY <1>1, <2>1 DEF CountedAt
  <2>3. /\ ~acks'[b].ok
        /\ \A c \in Ops : acks'[c] = acks[c] \/ ~acks'[c].ok
    BY <1>0, <2>1 DEF TypeOK, NoAck
  <2>4. \/ To(b, "finish", str[b].cur, str[b].part, ~acks[b].ok)
        \/ /\ str[b].cur \in positive
           /\ \E l \in {"advance", "count"} : To(b, l, str[b].cur, str[b].part, str[b].told)
    <3>1. CASE AcceptsAck(b)
      <4>1. acks[b].ok /\ acks[b].op = str[b].cur
        BY <3>1 DEF AcceptsAck
      <4>2. str[b].cur \in positive
        BY <1>1, <4>1 DEF Progress
      <4>3. Goto(b, IF HasMore(b) THEN "advance" ELSE "count")
        BY <1>11, <3>1 DEF TakeAck
      <4> QED
        BY <1>0, <4>2, <4>3, GotoTo
    <3>2. CASE ~AcceptsAck(b)
      <4>1. str' = [str EXCEPT ![b] = [[str[b] EXCEPT !.pc = "finish"] EXCEPT !.told = ~acks[b].ok]]
        BY <1>11, <3>2 DEF TakeAck
      <4> QED
        BY <1>0, <4>1 DEF To, Stream, TypeOK
    <3> QED
      BY <3>1, <3>2
  <2>5. Announced(b)'
    <3>1. Announced(b)
      BY <1>1, <1>2 DEF Progress
    <3> QED
      BY <2>1, <2>4, <3>1 DEF Announced, To
  <2>6. Progress(b)'
    BY <1>1, <2>1, <2>3, <2>4, <2>5 DEF Progress, To
  <2>7. str'[b].pc # "none" /\ str'[b].kind = str[b].kind /\ \A c \in Ops \ {b} : str'[c] = str[c]
    BY <2>4 DEF To
  <2> QED
    BY <1>2, <2>1, <2>2, <2>3, <2>6, <2>7, PlainStep
<1>12. CASE AdvanceBulkOperation(b)
  <2>1. /\ str[b].pc = "advance" /\ seq < MaxOps /\ seq' = seq + 1
        /\ bulk' = [bulk EXCEPT !.op = seq + 1]
        /\ str' = [str EXCEPT ![b] = [[[[str[b] EXCEPT !.pc = "header"] EXCEPT !.cur = seq + 1]
                                          EXCEPT !.part = str[b].part + 1] EXCEPT !.sent = 0]]
        /\ UNCHANGED <<downloads, acks, hnd, head, ended, positive, repeated, counted, broken>>
    BY <1>3, <1>12 DEF AdvanceBulkOperation
  <2>2. b \notin counted
    BY <1>1, <2>1 DEF CountedAt
  <2>3. To(b, "header", seq + 1, str[b].part + 1, str[b].told)
    BY <1>0, <2>1 DEF To, Stream, TypeOK
  <2>4. seq + 1 \in Ops /\ seq + 1 > seq /\ bulk'.op = seq + 1
    BY <1>0, <2>1, BulkAssumption DEF Ops, TypeOK
  <2>5. head[seq + 1] = NoHead
    BY <2>4 DEF Exact, Fresh
  <2>6. Announced(b)'
    <3> SUFFICES ASSUME NEW o \in Ops, head[o].batch = b
                 PROVE  head[o].part < str[b].part + 1 /\ o \in ended /\ o \in positive
      BY <2>1, <2>3 DEF Announced, To
    <3>1. head[o].part \in Nat
      BY <1>0, Heads
    <3> QED
      BY <1>0, <1>1, <1>2, <2>1, <3>1 DEF Progress, Announced
  <2>7. Progress(b)'
    BY <1>1, <2>1, <2>3, <2>5, <2>6 DEF Progress, To
  <2>8. seq' \in Nat /\ seq <= seq' /\ bulk'.op <= seq'
    BY <1>0, <2>1, <2>4
  <2> QED
    BY <1>0, <1>2, <2>1, <2>2, <2>3, <2>7, <2>8, StreamStep DEF To
<1>13. CASE Count(b)
  <2>1. /\ str[b].pc = "count" /\ downloads' = downloads + 1 /\ counted' = counted \cup {b}
        /\ To(b, IF str[b].kind = "album" THEN "complete" ELSE "release",
              str[b].cur, str[b].part, str[b].told)
        /\ UNCHANGED <<bulk, seq, acks, hnd, head, ended, positive, repeated, broken>>
    BY <1>0, <1>13, GotoTo DEF Count
  <2>2. b \notin counted
    BY <1>1, <2>1 DEF CountedAt
  <2>3. downloads' = Cardinality(counted')
    <3>1. IsFiniteSet(counted)
      <4>1. IsFiniteSet(1 .. MaxOps)
        BY BulkAssumption, FS_Interval
      <4>2. counted \in SUBSET (1 .. MaxOps)
        BY <1>0 DEF TypeOK, Ops
      <4> QED
        BY <4>1, <4>2, FS_Subset
    <3> QED
      BY <1>0, <2>1, <2>2, <3>1, FS_AddElement
  <2>4. Announced(b)
    BY <1>1, <1>2 DEF Progress
  <2>5. Progress(b)'
    <3>1. Announced(b)'
      BY <2>1, <2>4 DEF Announced, To
    <3> QED
      BY <1>1, <2>1, <3>1 DEF Progress, To
  <2>6. CountedAt(b)'
    BY <1>1, <2>1, <2>4 DEF CountedAt, Progress, Announced, To
  <2> QED
    <3>1. bulk'.op <= seq' /\ seq' \in Nat /\ seq <= seq'
      BY <1>0, <2>1
    <3>2. str'[b].pc # "none" /\ \A c \in Ops \ {b} : str'[c] = str[c]
      BY <2>1 DEF To
    <3>3. \A c \in counted' : c \in counted \/ c = b
      BY <2>1
    <3> QED
      BY <1>2, <2>1, <2>3, <2>5, <2>6, <3>1, <3>2, <3>3, StreamStep
<1>14. CASE SendComplete(b)
  <2>1. /\ str[b].pc = "complete"
        /\ str' = [str EXCEPT ![b] = [[str[b] EXCEPT !.pc = "finish"] EXCEPT !.told = ~broken]]
        /\ UNCHANGED <<downloads, bulk, seq, acks, hnd, head, ended, positive, repeated, counted, broken>>
    BY <1>14 DEF SendComplete
  <2>2. To(b, "finish", str[b].cur, str[b].part, ~broken)
    BY <1>0, <2>1 DEF To, Stream, TypeOK
  <2>3. Progress(b)'
    <3>1. Announced(b)'
      BY <1>1, <1>2, <2>1, <2>2 DEF Progress, Announced, To
    <3> QED
      BY <1>1, <2>1, <2>2, <3>1 DEF Progress, To
  <2> QED
    BY <1>2, <2>1, <2>2, <2>3, PlainStep DEF To
<1>15. CASE FinishAlbumBatch(b)
  <2>1. /\ str[b].pc = "finish" /\ acks' = [acks EXCEPT ![b] = NoAck]
        /\ To(b, "release", str[b].cur, str[b].part, str[b].told)
        /\ UNCHANGED <<downloads, bulk, seq, hnd, head, ended, positive, repeated, counted, broken>>
    BY <1>0, <1>15, GotoTo DEF FinishAlbumBatch
  <2>2. /\ ~acks'[b].ok
        /\ \A c \in Ops : acks'[c] = acks[c] \/ ~acks'[c].ok
    BY <1>0, <2>1 DEF TypeOK, NoAck
  <2>3. Progress(b)'
    <3>1. Announced(b)'
      BY <1>1, <1>2, <2>1 DEF Progress, Announced, To
    <3> QED
      BY <1>1, <2>1, <2>2, <3>1 DEF Progress, To
  <2> QED
    BY <1>2, <2>1, <2>2, <2>3, PlainStep DEF To
<1>16. CASE Release(b)
  <2>1. /\ str[b].pc = "release" /\ ReleaseBulk(str[b].cur)
        /\ str' = [str EXCEPT ![b] = [[[NoStream EXCEPT !.pc = "done"] EXCEPT !.kind = str[b].kind]
                                         EXCEPT !.told = str[b].told]]
        /\ UNCHANGED <<downloads, seq, acks, hnd, head, ended, positive, repeated, counted, broken>>
    BY <1>16 DEF Release, Held
  <2>2. To(b, "done", NoOp, 0, str[b].told)
    BY <1>0, <2>1 DEF To, NoStream, TypeOK
  <2>3. bulk'.op <= seq'
    BY <1>0, <2>1 DEF ReleaseBulk, NoOp
  <2>4. Progress(b)'
    BY <1>1, <2>1, <2>2 DEF Progress, StreamHolds, To
  <2>5. b \in counted' => CountedAt(b)'
    BY <1>1, <2>1, <2>2 DEF CountedAt, To
  <2>6. seq' \in Nat /\ seq <= seq'
    BY <1>0, <2>1
  <2> QED
    BY <1>0, <1>2, <2>1, <2>2, <2>3, <2>4, <2>5, <2>6, StreamStep DEF To
<1> QED
  BY <1>5, <1>6, <1>7, <1>8, <1>9, <1>10, <1>11, <1>12, <1>13, <1>14, <1>15, <1>16 DEF Step

\* A step that touches no stream and announces nothing.
LEMMA AsideStep ==
    ASSUME Shape, Exact, str' = str, head' = head, ended' = ended, counted' = counted,
           downloads' = downloads, seq \in Nat, seq' \in Nat, seq <= seq', bulk'.op <= seq',
           \A h \in Handlers : HandlerHolds(h)' =>
               \/ HandlerHolds(h) /\ hnd'[h].op = hnd[h].op
               \/ hnd'[h].op \in Ops /\ hnd'[h].op > seq,
           \A o \in positive : o \in positive', broken => broken',
           \A c \in Ops : acks'[c] = acks[c] \/ (acks'[c].ok => acks'[c].op \in positive')
    PROVE  Exact'
<1>0. \A o \in Ops : o \in Nat
  BY BulkAssumption DEF Ops
<1>1. Fresh'
  <2>1. \A o \in Ops : o > seq' => o > seq
    BY <1>0
  <2>2. \A o \in Ops : o > seq' => str'[o].pc = "none" /\ head'[o] = NoHead
    BY <2>1 DEF Exact, Fresh
  <2>3. \A h \in Handlers : HandlerHolds(h)' =>
            str'[hnd'[h].op].pc = "none" /\ head'[hnd'[h].op] = NoHead
    BY DEF Exact, Fresh
  <2>4. \A b \in Ops : str'[b].pc = "none" =>
            str'[b].kind = "file" /\ b \notin counted' /\ \A o \in Ops : head'[o].batch # b
    BY DEF Exact, Fresh
  <2> QED
    BY <2>2, <2>3, <2>4 DEF Fresh
<1>2. \A b \in Ops : Progress(b)'
  <2> SUFFICES ASSUME NEW b \in Ops PROVE Progress(b)'
    OBVIOUS
  <2>1. Progress(b)
    BY DEF Exact
  <2>2. StreamHolds(b)' => Announced(b)'
    BY <2>1 DEF Progress, StreamHolds, Announced
  <2> QED
    BY <2>1, <2>2 DEF Progress
<1>3. \A b \in counted' : CountedAt(b)'
  BY DEF Exact, CountedAt
<1>4. AdvancesOnAck'
  BY DEF Exact, AdvancesOnAck
<1> QED
  BY <1>1, <1>2, <1>3, <1>4 DEF Exact

\* A stream begins: it is the first to announce anything for its batch.
LEMMA StartExact ==
    ASSUME Shape, OneBulk, Exact, NEW h \in Handlers, InstallBatch(h) \/ StartFile(h),
           NEW b \in Ops, b = hnd[h].op
    PROVE  Exact'
<1>0. TypeOK /\ HandlerHolds(h) /\ b \in Ops /\ Starts(h)
  BY HandlerStarts, Workers DEF Shape, HandlerHolds, InstallBatch, StartFile
<1>1. /\ \A k \in Handlers : ~HandlerHolds(k)'
      /\ \A c \in Ops \ {b} : str'[c] = str[c] /\ ~StreamHolds(c)
      /\ UNCHANGED <<downloads, bulk, seq, acks, ended, positive, repeated, counted, broken>>
  <2>1. \A k \in Handlers : ~HandlerHolds(k)'
    BY <1>0 DEF Starts, OneBulk, HandlerHolds
  <2>2. \A c \in Ops \ {b} : str'[c] = str[c] /\ ~StreamHolds(c)
    BY <1>0 DEF Starts, OneBulk
  <2>3. UNCHANGED <<downloads, bulk, seq, acks, ended, positive, repeated, counted, broken>>
    BY DEF InstallBatch, StartFile
  <2> QED
    BY <2>1, <2>2, <2>3
<1>2. /\ str[b].pc = "none" /\ head[b] = NoHead /\ b \notin counted
      /\ \A o \in Ops : head[o].batch # b
      /\ str[b].kind = "file"
  BY <1>0 DEF Exact, Fresh
<1>3. ~(b > seq)
  <2>1. b = bulk.op /\ bulk.op <= seq /\ b \in Nat /\ seq \in Nat
    BY <1>0, BulkAssumption DEF OneBulk, IsActive, Exact, Fresh, TypeOK, Ops
  <2> QED
    BY <2>1
<1>4. \/ /\ head' = head /\ str'[b].pc = "plan" /\ str'[b].cur = b
      \/ /\ head'[b] = [batch |-> b, part |-> 1] /\ \A o \in Ops \ {b} : head'[o] = head[o]
         /\ str'[b].pc = "read" /\ str'[b].cur = b /\ str'[b].part = 1
  <2>1. str[b] \in Stream /\ str \in [Ops -> Stream]
    BY <1>0 DEF TypeOK
  <2>2. CASE InstallBatch(h)
    <3>1. str' = [str EXCEPT ![b] = [[[str[b] EXCEPT !.pc = "plan"] EXCEPT !.kind = "album"] EXCEPT !.cur = b]]
          /\ head' = head
      BY <2>2 DEF InstallBatch
    <3> QED
      BY <1>0, <2>1, <3>1 DEF Stream
  <2>3. CASE StartFile(h)
    <3>1. str' = [str EXCEPT ![b] = [[[[str[b] EXCEPT !.pc = "read"] EXCEPT !.cur = b] EXCEPT !.part = 1] EXCEPT !.parts = 1]]
          /\ head' = [head EXCEPT ![b] = [batch |-> b, part |-> 1]]
      BY <2>3 DEF StartFile
    <3>2. str'[b].pc = "read" /\ str'[b].cur = b /\ str'[b].part = 1
      BY <1>0, <2>1, <3>1 DEF Stream
    <3> QED
      BY <1>0, <3>1, <3>2 DEF TypeOK
  <2> QED
    BY <2>2, <2>3
<1>5. \A o \in Ops, c \in Ops \ {b} : head'[o].batch = c => head'[o] = head[o]
  BY <1>4
<1>6. Fresh'
  <2>1. \A o \in Ops : o > seq' => str'[o].pc = "none" /\ head'[o] = NoHead
    <3> SUFFICES ASSUME NEW o \in Ops, o > seq' PROVE str'[o].pc = "none" /\ head'[o] = NoHead
      OBVIOUS
    <3>1. o > seq /\ o # b
      BY <1>1, <1>3
    <3>2. str'[o] = str[o] /\ head'[o] = head[o]
      BY <1>1, <1>4, <3>1
    <3> QED
      BY <3>1, <3>2 DEF Exact, Fresh
  <2>2. \A c \in Ops : str'[c].pc = "none" =>
            str'[c].kind = "file" /\ c \notin counted' /\ \A o \in Ops : head'[o].batch # c
    <3> SUFFICES ASSUME NEW c \in Ops, str'[c].pc = "none"
                 PROVE  str'[c].kind = "file" /\ c \notin counted' /\ \A o \in Ops : head'[o].batch # c
      OBVIOUS
    <3>1. c # b /\ str'[c] = str[c]
      BY <1>1, <1>4
    <3>2. str[c].kind = "file" /\ c \notin counted /\ \A o \in Ops : head[o].batch # c
      BY <3>1 DEF Exact, Fresh
    <3> QED
      BY <1>1, <1>5, <3>1, <3>2
  <2>3. bulk'.op <= seq'
    BY <1>1 DEF Exact, Fresh
  <2> QED
    BY <1>1, <2>1, <2>2, <2>3 DEF Fresh
<1>7. ASSUME NEW c \in Ops \ {b} PROVE Progress(c)'
  <2>1. str'[c] = str[c] /\ str[c].pc \in {"none", "done"} /\ Progress(c)
    BY <1>1 DEF StreamHolds, Exact
  <2> QED
    BY <1>1, <2>1 DEF Progress, StreamHolds
<1>8. Progress(b)'
  <2>1. Progress(b)
    BY <1>0 DEF Exact
  <2>2. Announced(b)'
    BY <1>2, <1>4 DEF Announced
  <2> QED
    BY <1>1, <1>2, <1>4, <2>1, <2>2 DEF Progress
<1>9. \A c \in counted' : CountedAt(c)'
  <2> SUFFICES ASSUME NEW c \in counted' PROVE CountedAt(c)'
    OBVIOUS
  <2>1. c \in counted /\ CountedAt(c) /\ c \in Ops \ {b}
    BY <1>0, <1>1, <1>2 DEF Exact, TypeOK
  <2> QED
    BY <1>1, <1>5, <2>1 DEF CountedAt
<1>10. AdvancesOnAck'
  <2>1. AdvancesOnAck
    BY DEF Exact
  <2>2. CASE head' = head
    BY <1>1, <2>1, <2>2 DEF AdvancesOnAck
  <2>3. CASE head'[b] = [batch |-> b, part |-> 1] /\ \A o \in Ops \ {b} : head'[o] = head[o]
    <3> SUFFICES ASSUME NEW o \in Ops, NEW p \in Ops, head'[o] # NoHead, head'[p] # NoHead,
                        head'[o].batch = head'[p].batch, head'[o].part < head'[p].part
                 PROVE  o \in positive' /\ o \in ended'
      BY DEF AdvancesOnAck
    <3>1. CASE o = b \/ p = b
      <4>1. o = b /\ p = b
        BY <1>2, <2>3, <3>1
      <4> QED
        BY <2>3, <4>1
    <3>2. CASE o # b /\ p # b
      BY <1>1, <2>1, <2>3, <3>2 DEF AdvancesOnAck
    <3> QED
      BY <3>1, <3>2
  <2> QED
    BY <1>4, <2>2, <2>3
<1> QED
  BY <1>1, <1>6, <1>7, <1>8, <1>9, <1>10 DEF Exact

LEMMA NextExact == Shape /\ OneBulk /\ Exact /\ [Next]_vars => Exact'
<1> SUFFICES ASSUME Shape, OneBulk, Exact, [Next]_vars PROVE Exact'
  OBVIOUS
<1>0. TypeOK /\ seq \in Nat /\ bulk.op <= seq
  BY BulkAssumption DEF Shape, TypeOK, Exact, Fresh
<1>1. ASSUME NEW h \in Handlers, Moves(h), bulk' = bulk \/ ReleaseFile(h),
             UNCHANGED <<downloads, seq, acks, head, ended, positive, repeated, counted, broken>>
      PROVE  Exact'
  <2>1. bulk'.op <= seq'
    <3>1. bulk' = bulk \/ bulk' = [op |-> NoOp, busy |-> FALSE]
      BY <1>1 DEF ReleaseFile, ReleaseBulk
    <3> QED
      BY <1>0, <1>1, <3>1 DEF NoOp
  <2>2. \A k \in Handlers : HandlerHolds(k)' => HandlerHolds(k) /\ hnd'[k].op = hnd[k].op
    <3>1. HandlerHolds(h)' => HandlerHolds(h) /\ hnd'[h].op = hnd[h].op
      BY <1>1 DEF Moves, HandlerHolds
    <3>2. \A k \in Handlers \ {h} : hnd'[k] = hnd[k]
      BY <1>1 DEF Moves
    <3> QED
      BY <3>1, <3>2 DEF HandlerHolds
  <2>3. seq' \in Nat /\ seq <= seq'
    BY <1>0, <1>1
  <2> QED
    BY <1>0, <1>1, <2>1, <2>2, <2>3, AsideStep DEF Moves
<1>2. ASSUME NEW h \in Handlers, NEW kind \in Kinds, Request(h, kind) PROVE Exact'
  BY <1>1, <1>2, HandlerMoves DEF Request
<1>3. ASSUME NEW h \in Handlers, RejectBusy(h) \/ GiveUpFile(h) \/ ReleaseFile(h) PROVE Exact'
  BY <1>1, <1>3, HandlerMoves DEF RejectBusy, GiveUpFile, ReleaseFile
<1>4. ASSUME NEW h \in Handlers, AcquireBulk(h) PROVE Exact'
  <2>1. /\ seq + 1 \in Ops /\ seq' = seq + 1 /\ bulk'.op = seq + 1
        /\ UNCHANGED <<downloads, acks, head, ended, positive, repeated, counted, broken, str>>
    BY <1>0, <1>4, Takes DEF AcquireBulk, TakeSlot
  <2>2. hnd'[h].op = seq + 1 /\ \A k \in Handlers \ {h} : hnd'[k] = hnd[k]
    BY <1>4, HandlerAcquires DEF Acquires
  <2>3. seq' \in Nat /\ seq <= seq' /\ bulk'.op <= seq' /\ seq + 1 > seq
    BY <1>0, <2>1
  <2>4. \A k \in Handlers : HandlerHolds(k)' =>
               \/ HandlerHolds(k) /\ hnd'[k].op = hnd[k].op
               \/ hnd'[k].op \in Ops /\ hnd'[k].op > seq
    BY <2>1, <2>2, <2>3 DEF HandlerHolds
  <2> QED
    BY <1>0, <2>1, <2>3, <2>4, AsideStep
<1>5. ASSUME NEW h \in Handlers, InstallBatch(h) \/ StartFile(h) PROVE Exact'
  <2>1. hnd[h].op \in Ops
    BY <1>0, <1>5, Workers DEF Shape, HandlerHolds, InstallBatch, StartFile
  <2> QED
    BY <1>5, <2>1, StartExact
<1>6. ASSUME UNCHANGED <<downloads, bulk, seq, hnd, str, head, ended, counted>>,
             \A o \in positive : o \in positive', broken => broken',
             \A c \in Ops : acks'[c] = acks[c] \/ (acks'[c].ok => acks'[c].op \in positive')
      PROVE  Exact'
  <2>1. seq' \in Nat /\ seq <= seq' /\ bulk'.op <= seq'
    BY <1>0, <1>6
  <2>2. \A k \in Handlers : HandlerHolds(k)' => HandlerHolds(k) /\ hnd'[k].op = hnd[k].op
    BY <1>6 DEF HandlerHolds
  <2> QED
    BY <1>0, <1>6, <2>1, <2>2, AsideStep
<1>7. ASSUME NEW o \in Ops, NEW ok \in BOOLEAN, AckArchive(o, ok) PROVE Exact'
  <2>1. /\ positive' = IF ok THEN positive \cup {o} ELSE positive
        /\ UNCHANGED <<downloads, bulk, seq, hnd, str, head, ended, counted, broken>>
    BY <1>7 DEF AckArchive
  <2>2. \A c \in Ops : acks'[c] = acks[c] \/ (acks'[c].ok => acks'[c].op \in positive')
    <3> DEFINE b == head[o].batch
               rec == [part |-> head[o].part, op |-> o, ok |-> ok]
    <3>1. acks' = acks \/ acks' = [acks EXCEPT ![b] = rec]
      BY <1>7 DEF AckArchive
    <3>2. rec.ok => rec.op \in positive'
      BY <2>1
    <3>3. acks \in [Ops -> Ack \cup {NoAck}]
      BY <1>0 DEF TypeOK
    <3>4. \A c \in Ops : acks'[c] = acks[c] \/ acks'[c] = rec
      BY <3>1, <3>3
    <3> QED
      BY <3>2, <3>4
  <2> QED
    BY <1>6, <2>1, <2>2
<1>8. CASE Break \/ UNCHANGED vars
  BY <1>6, <1>8 DEF Break, vars
<1> QED
  BY <1>2, <1>3, <1>4, <1>5, <1>7, <1>8, StreamExact DEF Next, Handle

\* The invariant the next two results rest on.
LEMMA ExactAlways == Spec => [](Shape /\ OneBulk /\ Exact)
<1>1. Init => Shape /\ OneBulk /\ Exact
  BY InitShape, InitExact
<1>2. Shape /\ OneBulk /\ Exact /\ [Next]_vars => Shape' /\ OneBulk' /\ Exact'
  BY NextShape, KeepsOneBulk, NextExact
<1> QED
  BY <1>1, <1>2, PTL DEF Spec

\* What waits in the channel of a batch is about an archive announced for it; a
\* positive one that is not about the archive under way, or that arrived after
\* that archive's was taken, repeats an earlier one.  A stream that has ended
\* without a word was ended by such an echo.
Echoed(b) == \E o \in repeated : head[o].batch = b
Late(b) == acks[b].op # str[b].cur \/ str[b].pc = "advance"
Echo(b) ==
    /\ acks[b] # NoAck => acks[b].op \in Ops /\ head[acks[b].op] = [batch |-> b, part |-> acks[b].part]
    /\ str[b].pc \in {"header", "read", "end", "wait", "advance"} /\ acks[b].ok /\ Late(b)
           => acks[b].op \in repeated
    /\ str[b].pc \in {"read", "end", "wait"} =>
           str[b].cur \in Ops /\ head[str[b].cur] = [batch |-> b, part |-> str[b].part]
    /\ str[b].pc \in {"finish", "release", "done"} => str[b].told \/ broken \/ Echoed(b)
Echoes == \A b \in Ops : Echo(b)

LEMMA InitEchoes == Init => Echoes
<1> SUFFICES ASSUME Init, NEW b \in Ops PROVE Echo(b)
  BY DEF Echoes
<1>1. acks[b] = NoAck /\ str[b].pc = "none" /\ ~NoAck.ok
  BY DEF Init, NoStream, NoAck
<1> QED
  BY <1>1 DEF Echo

\* A batch whose channel and stream are left alone keeps its echoes, if the
\* announcements stay and nothing is forgotten.
LEMMA EchoKept ==
    ASSUME NEW c \in Ops, Echo(c), str'[c] = str[c], acks'[c] = acks[c] \/ acks'[c] = NoAck,
           \A o \in Ops : head[o] # NoHead => head'[o] = head[o],
           \A o \in repeated : o \in repeated', repeated \subseteq Ops, broken => broken'
    PROVE  Echo(c)'
<1>0. ~NoAck.ok /\ c # NoHead.batch
  BY DEF NoAck, NoHead, NoOp, Ops
<1>1. Echoed(c) => Echoed(c)'
  <2> SUFFICES ASSUME NEW o \in repeated, head[o].batch = c PROVE Echoed(c)'
    BY DEF Echoed
  <2>1. head'[o] = head[o] /\ o \in repeated'
    BY <1>0
  <2> QED
    BY <2>1 DEF Echoed
<1>2. acks'[c] # NoAck => acks'[c].op \in Ops /\ head'[acks'[c].op] = [batch |-> c, part |-> acks'[c].part]
  <2> SUFFICES ASSUME acks'[c] # NoAck
               PROVE  acks'[c].op \in Ops /\ head'[acks'[c].op] = [batch |-> c, part |-> acks'[c].part]
    OBVIOUS
  <2>1. acks'[c] = acks[c] /\ acks[c].op \in Ops /\ head[acks[c].op] = [batch |-> c, part |-> acks[c].part]
    BY DEF Echo
  <2>2. head[acks[c].op] # NoHead
    BY <1>0, <2>1
  <2> QED
    BY <2>1, <2>2
<1>3. str'[c].pc \in {"read", "end", "wait"} =>
          str'[c].cur \in Ops /\ head'[str'[c].cur] = [batch |-> c, part |-> str'[c].part]
  <2> SUFFICES ASSUME str'[c].pc \in {"read", "end", "wait"}
               PROVE  str'[c].cur \in Ops /\ head'[str'[c].cur] = [batch |-> c, part |-> str'[c].part]
    OBVIOUS
  <2>1. str[c].cur \in Ops /\ head[str[c].cur] = [batch |-> c, part |-> str[c].part]
    BY DEF Echo
  <2>2. head[str[c].cur] # NoHead
    BY <1>0, <2>1
  <2> QED
    BY <2>1, <2>2
<1> QED
  BY <1>0, <1>1, <1>2, <1>3 DEF Echo, Late

\* A step of the stream b that leaves the acknowledgements alone.
LEMMA EchoStep ==
    ASSUME TypeOK, Echoes, NEW b \in Ops, acks' = acks, repeated' = repeated, broken' = broken,
           \A o \in Ops : head[o] # NoHead => head'[o] = head[o],
           NEW l, NEW told, NEW part, To(b, l, str[b].cur, part, told),
           \/ l = "header" /\ acks[b] = NoAck
           \/ /\ l \in {"read", "end", "wait"} /\ part = str[b].part
              /\ \/ str[b].pc \in {"read", "end", "wait"}
                 \/ /\ str[b].pc = "header" /\ str[b].cur \in Ops
                    /\ head'[str[b].cur] = [batch |-> b, part |-> part]
           \/ l \in {"finish", "release"} /\ (told \/ broken \/ Echoed(b))
           \/ l \in {"count", "complete"}
    PROVE  Echoes'
<1>0. repeated \subseteq Ops /\ \A c \in Ops : Echo(c)
  BY DEF TypeOK, Echoes
<1>1. ASSUME NEW c \in Ops \ {b} PROVE Echo(c)'
  BY <1>0, <1>1, EchoKept DEF To
<1>2. ~NoAck.ok /\ b # NoHead.batch
  BY DEF NoAck, NoHead, NoOp, Ops
<1>3. acks[b] # NoAck => acks[b].op \in Ops /\ head'[acks[b].op] = [batch |-> b, part |-> acks[b].part]
  <2> SUFFICES ASSUME acks[b] # NoAck
               PROVE  acks[b].op \in Ops /\ head'[acks[b].op] = [batch |-> b, part |-> acks[b].part]
    OBVIOUS
  <2>1. acks[b].op \in Ops /\ head[acks[b].op] = [batch |-> b, part |-> acks[b].part]
    BY <1>0 DEF Echo
  <2> QED
    BY <1>2, <2>1
<1>4. Echoed(b) => Echoed(b)'
  <2> SUFFICES ASSUME NEW o \in repeated, head[o].batch = b PROVE Echoed(b)'
    BY DEF Echoed
  <2>1. head'[o] = head[o]
    BY <1>0, <1>2
  <2> QED
    BY <2>1 DEF Echoed
<1>5. l \in {"read", "end", "wait"} =>
          str[b].cur \in Ops /\ head'[str[b].cur] = [batch |-> b, part |-> part]
  <2>1. str[b].pc \in {"read", "end", "wait"} =>
            str[b].cur \in Ops /\ head[str[b].cur] = [batch |-> b, part |-> str[b].part]
    BY <1>0 DEF Echo
  <2> QED
    BY <1>2, <2>1
<1>6. Echo(b)'
  BY <1>0, <1>2, <1>3, <1>4, <1>5 DEF Echo, Late, To
<1> QED
  BY <1>1, <1>6 DEF Echoes

\* A stream whose channel is empty after its step, or that has a new operation.
LEMMA EchoTaken ==
    ASSUME TypeOK, Echoes, NEW b \in Ops, UNCHANGED <<repeated, broken, head>>,
           acks' = [acks EXCEPT ![b] = NoAck],
           NEW l, NEW told, To(b, l, str[b].cur, str[b].part, told),
           l \in {"finish", "release"} => told \/ broken \/ Echoed(b),
           l \in {"finish", "release", "advance", "count"}
    PROVE  Echoes'
<1>0. repeated \subseteq Ops /\ (\A c \in Ops : Echo(c)) /\ ~NoAck.ok
  BY DEF TypeOK, Echoes, NoAck
<1>1. acks'[b] = NoAck /\ \A c \in Ops \ {b} : acks'[c] = acks[c]
  BY DEF TypeOK
<1>2. ASSUME NEW c \in Ops \ {b} PROVE Echo(c)'
  BY <1>0, <1>1, <1>2, EchoKept DEF To
<1>3. Echo(b)'
  BY <1>0, <1>1 DEF Echo, Echoed, To
<1> QED
  BY <1>2, <1>3 DEF Echoes

\* An acknowledgement that does not let the stream go on is the browser's
\* refusal or an echo.
LEMMA NotAccepted ==
    ASSUME TypeOK, Echoes, NEW b \in Ops, str[b].pc = "wait", acks[b] # NoAck,
           ~AcceptsAck(b), acks[b].ok
    PROVE  Echoed(b)
<1>1. Echo(b)
  BY DEF Echoes
<1>2. acks[b].op \in Ops /\ head[acks[b].op] = [batch |-> b, part |-> acks[b].part]
  BY <1>1 DEF Echo
<1>3. acks[b] \in Ack
  BY DEF TypeOK
<1>4. CASE acks[b].op # str[b].cur
  BY <1>1, <1>2, <1>4 DEF Echo, Late, Echoed
<1>5. CASE acks[b].op = str[b].cur
  <2>1. acks[b].part = str[b].part
    BY <1>1, <1>2, <1>5 DEF Echo
  <2>2. acks[b] = [part |-> str[b].part, op |-> str[b].cur, ok |-> TRUE]
    BY <1>3, <1>5, <2>1 DEF Ack
  <2> QED
    BY <2>2 DEF AcceptsAck
<1> QED
  BY <1>4, <1>5

LEMMA StreamEchoes ==
    ASSUME Shape, OneBulk, Exact, Echoes, NEW b \in Ops, Step(b)
    PROVE  Echoes'
<1>0. /\ TypeOK /\ str[b] \in Stream /\ broken \in BOOLEAN /\ repeated \subseteq Ops
      /\ str \in [Ops -> Stream] /\ acks \in [Ops -> Ack \cup {NoAck}]
      /\ str[b].cur \in Ops \cup {NoOp}
  BY Streams DEF Shape, TypeOK
<1>1. Progress(b) /\ Echo(b) /\ \A c \in Ops : Echo(c)
  BY DEF Exact, Echoes
<1>2. StreamHolds(b)
  BY DEF StreamHolds, Step, PlanAlbum, SendHeader, SendChunk, SourceEnds, SendEnd, TakeAck,
     AckTimeout, AdvanceBulkOperation, Count, SendComplete, FinishAlbumBatch, Release
<1>3. IsActive(str[b].cur) /\ str[b].cur \in Ops /\ Leave(b) \in {"finish", "release"}
  BY <1>0, <1>2 DEF OneBulk, Shape, Leave
<1>4. ASSUME Fail(b), UNCHANGED <<acks, repeated, broken, head>> PROVE Echoes'
  <2>1. To(b, Leave(b), str[b].cur, str[b].part, ~broken)
    BY <1>0, <1>2, <1>4, FailTo
  <2>2. (~broken) \/ broken \/ Echoed(b)
    OBVIOUS
  <2> QED
    BY <1>0, <1>3, <1>4, <2>1, <2>2, EchoStep
<1>5. ASSUME broken, NEW l \in {"finish", "release"}, Goto(b, l), UNCHANGED <<acks, repeated, broken, head>>
      PROVE  Echoes'
  BY <1>0, <1>5, GotoTo, EchoStep
<1>6. CASE PlanAlbum(b)
  <2>1. str[b].pc = "plan" /\ UNCHANGED <<acks, repeated, broken, head>>
    BY <1>6 DEF PlanAlbum
  <2>2. acks[b] = NoAck
    BY <1>1, <2>1 DEF Progress, Echo
  <2>3. ASSUME NEW n, str' = [str EXCEPT ![b].pc = "header", ![b].part = 1, ![b].parts = n]
        PROVE  Echoes'
    <3>1. str' = [str EXCEPT ![b] = [[[str[b] EXCEPT !.pc = "header"] EXCEPT !.part = 1]
                                        EXCEPT !.parts = n]]
      BY <2>3
    <3>2. To(b, "header", str[b].cur, 1, str[b].told)
      BY <1>0, <3>1 DEF To, Stream
    <3> QED
      BY <1>0, <2>1, <2>2, <3>2, EchoStep
  <2> QED
    BY <1>4, <1>6, <2>1, <2>3 DEF PlanAlbum
<1>7. CASE SendHeader(b)
  <2>1. str[b].pc = "header" /\ UNCHANGED <<acks, repeated, broken>>
    BY <1>7 DEF SendHeader
  <2>2. CASE broken
    BY <1>5, <1>7, <2>1, <2>2 DEF SendHeader
  <2>3. CASE ~broken
    <3>1. /\ head' = [head EXCEPT ![str[b].cur] = [batch |-> b, part |-> str[b].part]]
          /\ To(b, "read", str[b].cur, str[b].part, str[b].told)
      BY <1>0, <1>7, <2>3, GotoTo DEF SendHeader
    <3>2. /\ head[str[b].cur] = NoHead
          /\ head'[str[b].cur] = [batch |-> b, part |-> str[b].part]
          /\ \A o \in Ops : head[o] # NoHead => head'[o] = head[o]
      BY <1>0, <1>1, <1>3, <2>1, <3>1 DEF TypeOK, Progress
    <3> QED
      BY <1>0, <1>3, <2>1, <3>1, <3>2, EchoStep
  <2> QED
    BY <2>2, <2>3
<1>8. CASE SendChunk(b)
  <2>1. str[b].pc = "read" /\ UNCHANGED <<acks, repeated, broken, head>>
    BY <1>8 DEF SendChunk
  <2>2. CASE broken
    BY <1>3, <1>5, <1>8, <2>1, <2>2 DEF SendChunk
  <2>3. CASE ~broken
    <3>1. str' = [str EXCEPT ![b] = [str[b] EXCEPT !.sent = @ + 1]]
      BY <1>8, <2>3 DEF SendChunk
    <3>2. To(b, "read", str[b].cur, str[b].part, str[b].told)
      BY <1>0, <2>1, <3>1 DEF To, Stream
    <3> QED
      BY <1>0, <2>1, <3>2, EchoStep
  <2> QED
    BY <2>2, <2>3
<1>9. CASE SourceEnds(b)
  <2>1. str[b].pc = "read" /\ UNCHANGED <<acks, repeated, broken, head>>
    BY <1>9 DEF SourceEnds
  <2>2. CASE Goto(b, "end")
    BY <1>0, <2>1, <2>2, GotoTo, EchoStep
  <2> QED
    BY <1>4, <1>9, <2>1, <2>2 DEF SourceEnds
<1>10. CASE SendEnd(b)
  <2>1. str[b].pc = "end" /\ UNCHANGED <<acks, repeated, broken, head>>
    BY <1>10 DEF SendEnd
  <2>2. CASE broken
    BY <1>3, <1>5, <1>10, <2>1, <2>2 DEF SendEnd
  <2>3. CASE ~broken /\ str[b].kind = "album"
    BY <1>0, <1>10, <2>1, <2>3, GotoTo, EchoStep DEF SendEnd
  <2>4. CASE ~broken /\ str[b].kind # "album"
    <3>1. str' = [str EXCEPT ![b] = [[str[b] EXCEPT !.pc = "count"] EXCEPT !.told = TRUE]]
      BY <1>10, <2>4 DEF SendEnd
    <3>2. To(b, "count", str[b].cur, str[b].part, TRUE)
      BY <1>0, <3>1 DEF To, Stream
    <3> QED
      BY <1>0, <2>1, <3>2, EchoStep
  <2> QED
    BY <2>2, <2>3, <2>4
<1>11. CASE TakeAck(b)
  <2>1. /\ str[b].pc = "wait" /\ acks[b] # NoAck /\ acks' = [acks EXCEPT ![b] = NoAck]
        /\ UNCHANGED <<repeated, broken, head>>
    BY <1>11 DEF TakeAck
  <2>2. CASE AcceptsAck(b)
    <3>1. Goto(b, IF HasMore(b) THEN "advance" ELSE "count")
      BY <1>11, <2>2 DEF TakeAck
    <3>2. \E l \in {"advance", "count"} : To(b, l, str[b].cur, str[b].part, str[b].told)
      BY <1>0, <3>1, GotoTo
    <3> QED
      BY <1>0, <2>1, <3>2, EchoTaken
  <2>3. CASE ~AcceptsAck(b)
    <3>1. str' = [str EXCEPT ![b] = [[str[b] EXCEPT !.pc = "finish"] EXCEPT !.told = ~acks[b].ok]]
      BY <1>11, <2>3 DEF TakeAck
    <3>2. To(b, "finish", str[b].cur, str[b].part, ~acks[b].ok)
      BY <1>0, <3>1 DEF To, Stream
    <3>3. (~acks[b].ok) \/ broken \/ Echoed(b)
      BY <1>0, <2>1, <2>3, NotAccepted
    <3> QED
      BY <1>0, <2>1, <3>2, <3>3, EchoTaken
  <2> QED
    BY <2>2, <2>3
<1>12. CASE AckTimeout(b)
  BY <1>4, <1>12 DEF AckTimeout
<1>13. CASE AdvanceBulkOperation(b)
  <2>1. /\ str[b].pc = "advance" /\ UNCHANGED <<acks, repeated, broken, head>>
        /\ str' = [str EXCEPT ![b] = [[[[str[b] EXCEPT !.pc = "header"] EXCEPT !.cur = seq + 1]
                                          EXCEPT !.part = str[b].part + 1] EXCEPT !.sent = 0]]
    BY <1>3, <1>13 DEF AdvanceBulkOperation
  <2>2. str'[b].pc = "header" /\ \A c \in Ops \ {b} : str'[c] = str[c]
    BY <1>0, <2>1 DEF Stream
  <2>3. Echo(b)'
    BY <1>1, <2>1, <2>2 DEF Echo, Late
  <2>4. ASSUME NEW c \in Ops \ {b} PROVE Echo(c)'
    BY <1>0, <1>1, <2>1, <2>2, <2>4, EchoKept
  <2> QED
    BY <2>3, <2>4 DEF Echoes
<1>14. CASE Count(b)
  <2>1. str[b].pc = "count" /\ UNCHANGED <<acks, repeated, broken, head>>
    BY <1>14 DEF Count
  <2>2. CASE str[b].kind = "album"
    BY <1>0, <1>14, <2>1, <2>2, GotoTo, EchoStep DEF Count
  <2>3. CASE str[b].kind # "album"
    <3>1. str[b].told
      BY <1>1, <2>1, <2>3 DEF Progress
    <3> QED
      BY <1>0, <1>14, <2>1, <2>3, <3>1, GotoTo, EchoStep DEF Count
  <2> QED
    BY <2>2, <2>3
<1>15. CASE SendComplete(b)
  <2>1. /\ UNCHANGED <<acks, repeated, broken, head>>
        /\ str' = [str EXCEPT ![b] = [[str[b] EXCEPT !.pc = "finish"] EXCEPT !.told = ~broken]]
    BY <1>15 DEF SendComplete
  <2>2. To(b, "finish", str[b].cur, str[b].part, ~broken)
    BY <1>0, <2>1 DEF To, Stream
  <2>3. (~broken) \/ broken \/ Echoed(b)
    OBVIOUS
  <2> QED
    BY <1>0, <2>1, <2>2, <2>3, EchoStep
<1>16. CASE FinishAlbumBatch(b)
  <2>1. /\ str[b].pc = "finish" /\ acks' = [acks EXCEPT ![b] = NoAck]
        /\ UNCHANGED <<repeated, broken, head>>
    BY <1>16 DEF FinishAlbumBatch
  <2>2. To(b, "release", str[b].cur, str[b].part, str[b].told)
    BY <1>0, <1>16, GotoTo DEF FinishAlbumBatch
  <2>3. str[b].told \/ broken \/ Echoed(b)
    BY <1>1, <2>1 DEF Echo
  <2> QED
    BY <1>0, <2>1, <2>2, <2>3, EchoTaken
<1>17. CASE Release(b)
  <2>1. /\ str[b].pc = "release" /\ UNCHANGED <<acks, repeated, broken, head>>
        /\ str' = [str EXCEPT ![b] = [[[NoStream EXCEPT !.pc = "done"] EXCEPT !.kind = str[b].kind]
                                         EXCEPT !.told = str[b].told]]
    BY <1>17 DEF Release
  <2>2. To(b, "done", NoOp, 0, str[b].told)
    BY <1>0, <2>1 DEF To, NoStream
  <2>3. Echo(b)'
    BY <1>1, <2>1, <2>2 DEF Echo, Echoed, To
  <2>4. ASSUME NEW c \in Ops \ {b} PROVE Echo(c)'
    BY <1>0, <1>1, <2>1, <2>2, <2>4, EchoKept DEF To
  <2> QED
    BY <2>3, <2>4 DEF Echoes
<1> QED
  BY <1>6, <1>7, <1>8, <1>9, <1>10, <1>11, <1>12, <1>13, <1>14, <1>15, <1>16, <1>17 DEF Step

\* A positive acknowledgement of an archive that was already acknowledged is
\* recorded as repeated, so an echo in the channel is known to be one.
LEMMA AckEchoes ==
    ASSUME Shape, OneBulk, Exact, Echoes, NEW o \in Ops, NEW ok \in BOOLEAN, AckArchive(o, ok),
           NEW b, b = head[o].batch
    PROVE  Echoes'
<1> DEFINE rec == [part |-> head[o].part, op |-> o, ok |-> ok]
<1>0. TypeOK /\ repeated \subseteq Ops /\ acks \in [Ops -> Ack \cup {NoAck}] /\ \A c \in Ops : Echo(c)
  BY DEF Shape, TypeOK, Echoes
<1>1. /\ UNCHANGED <<str, head, broken>> /\ album = b /\ album # NoOp
      /\ repeated' = IF ok /\ o \in positive THEN repeated \cup {o} ELSE repeated
      /\ acks' = IF acks[b] = NoAck THEN [acks EXCEPT ![b] = rec] ELSE acks
  BY DEF AckArchive
<1>2. b \in Ops /\ head[o] \in Head /\ head[o] # NoHead
  <2>1. b \in Ops
    BY <1>0, <1>1 DEF TypeOK
  <2> QED
    BY <1>0, <2>1, Heads
<1>3. ASSUME NEW c \in Ops, acks'[c] = acks[c] PROVE Echo(c)'
  <2>1. \A p \in repeated : p \in repeated'
    BY <1>1
  <2> QED
    BY <1>0, <1>1, <1>3, <2>1, EchoKept
<1>4. CASE acks[b] = NoAck
  <2>1. acks'[b] = rec /\ \A c \in Ops \ {b} : acks'[c] = acks[c]
    BY <1>0, <1>1, <1>2, <1>4
  <2>2. head[o] = [batch |-> b, part |-> head[o].part]
    BY <1>2 DEF Head
  <2>3. str[b].pc \in {"header", "read", "end", "wait", "advance"}
            /\ (o # str[b].cur \/ str[b].pc = "advance") => o \in positive
    BY <1>2 DEF Exact, Progress, StreamHolds, Announced
  <2>4. Echoed(b) => Echoed(b)'
    BY <1>1 DEF Echoed
  <2>5. Echo(b)
    BY <1>0, <1>2
  <2>6. Echo(b)'
    <3>1. acks'[b].op = o /\ acks'[b].ok = ok /\ acks'[b].part = head[o].part
      BY <2>1
    <3>2. str[b].pc \in {"header", "read", "end", "wait", "advance"} /\ ok
              /\ (o # str[b].cur \/ str[b].pc = "advance") => o \in repeated'
      BY <1>1, <2>3
    <3> QED
      BY <1>1, <2>2, <2>4, <2>5, <3>1, <3>2 DEF Echo, Late
  <2> QED
    BY <1>3, <2>1, <2>6 DEF Echoes
<1>5. CASE acks[b] # NoAck
  BY <1>1, <1>3, <1>5 DEF Echoes
<1> QED
  BY <1>4, <1>5

\* A stream begins with an empty channel.
LEMMA StartEchoes ==
    ASSUME Shape, OneBulk, Exact, Echoes, NEW h \in Handlers, InstallBatch(h) \/ StartFile(h),
           NEW b, b = hnd[h].op
    PROVE  Echoes'
<1>t. TypeOK /\ repeated \subseteq Ops /\ \A c \in Ops : Echo(c)
  BY DEF Shape, TypeOK, Echoes
<1>0. HandlerHolds(h) /\ b \in Ops /\ UNCHANGED <<acks, repeated, broken>>
  BY <1>t, Workers DEF Shape, HandlerHolds, InstallBatch, StartFile
<1>1. /\ str[b].pc = "none" /\ head[b] = NoHead /\ \A o \in Ops : head[o].batch # b
  BY <1>0 DEF Exact, Fresh
<1>2. acks[b] = NoAck /\ ~NoAck.ok
  <2>1. acks[b] # NoAck => acks[b].op \in Ops /\ head[acks[b].op].batch = b
    <3>1. Echo(b)
      BY <1>t, <1>0
    <3>2. acks[b] # NoAck => acks[b].op \in Ops /\ head[acks[b].op] = [batch |-> b, part |-> acks[b].part]
      BY <3>1 DEF Echo
    <3> QED
      BY <3>2
  <2>2. ~NoAck.ok
    BY DEF NoAck
  <2> QED
    BY <1>1, <2>1, <2>2
<1>3. \A c \in Ops \ {b} : str'[c] = str[c]
  BY <1>0, HandlerStarts DEF Starts
<1>4. \A o \in Ops : head[o] # NoHead => head'[o] = head[o]
  BY <1>t, <1>0, <1>1 DEF InstallBatch, StartFile, TypeOK
<1>5. \/ str'[b].pc = "plan"
      \/ /\ str'[b].pc = "read" /\ str'[b].cur = b /\ str'[b].part = 1
         /\ head'[b] = [batch |-> b, part |-> 1]
  <2>1. str[b] \in Stream /\ str \in [Ops -> Stream] /\ head \in [Ops -> Head \cup {NoHead}]
    BY <1>t, <1>0 DEF TypeOK
  <2>2. CASE InstallBatch(h)
    <3>1. str' = [str EXCEPT ![b] = [[[str[b] EXCEPT !.pc = "plan"] EXCEPT !.kind = "album"] EXCEPT !.cur = b]]
      BY <2>2 DEF InstallBatch
    <3> QED
      BY <1>0, <2>1, <3>1 DEF Stream
  <2>3. CASE StartFile(h)
    <3>1. str' = [str EXCEPT ![b] = [[[[str[b] EXCEPT !.pc = "read"] EXCEPT !.cur = b] EXCEPT !.part = 1] EXCEPT !.parts = 1]]
          /\ head' = [head EXCEPT ![b] = [batch |-> b, part |-> 1]]
      BY <2>3 DEF StartFile
    <3>2. str'[b].pc = "read" /\ str'[b].cur = b /\ str'[b].part = 1
      BY <1>0, <2>1, <3>1 DEF Stream
    <3> QED
      BY <1>0, <2>1, <3>1, <3>2
  <2> QED
    BY <2>2, <2>3
<1>6. Echo(b)'
  BY <1>0, <1>2, <1>5 DEF Echo
<1>7. ASSUME NEW c \in Ops \ {b} PROVE Echo(c)'
  BY <1>t, <1>0, <1>3, <1>4, <1>7, EchoKept
<1> QED
  BY <1>6, <1>7 DEF Echoes

LEMMA NextEchoes == Shape /\ OneBulk /\ Exact /\ Echoes /\ [Next]_vars => Echoes'
<1> SUFFICES ASSUME Shape, OneBulk, Exact, Echoes, [Next]_vars PROVE Echoes'
  OBVIOUS
<1>0. TypeOK /\ repeated \subseteq Ops /\ \A c \in Ops : Echo(c)
  BY DEF Shape, TypeOK, Echoes
<1>1. ASSUME UNCHANGED <<acks, str, head, repeated>>, broken => broken' PROVE Echoes'
  BY <1>0, <1>1, EchoKept DEF Echoes
<1>2. ASSUME NEW h \in Handlers, NEW kind \in Kinds, Request(h, kind) PROVE Echoes'
  BY <1>1, <1>2 DEF Request
<1>3. ASSUME NEW h \in Handlers, AcquireBulk(h) \/ RejectBusy(h) \/ GiveUpFile(h) \/ ReleaseFile(h)
      PROVE  Echoes'
  BY <1>1, <1>3 DEF AcquireBulk, RejectBusy, GiveUpFile, ReleaseFile
<1>4. ASSUME NEW h \in Handlers, InstallBatch(h) \/ StartFile(h) PROVE Echoes'
  BY <1>4, StartEchoes
<1>6. ASSUME NEW o \in Ops, NEW ok \in BOOLEAN, AckArchive(o, ok) PROVE Echoes'
  BY <1>6, AckEchoes
<1>5. CASE Break \/ UNCHANGED vars
  BY <1>1, <1>5 DEF Break, vars
<1> QED
  BY <1>2, <1>3, <1>4, <1>5, <1>6, StreamEchoes DEF Next, Handle
\* A download is what it says it is: an archive is announced after the earlier
\* ones were saved, a download is counted once and when it is complete, and none
\* ends without a word unless the browser acknowledged one archive twice,
\* whatever acknowledgements, sources and the channel do (manager.go:337-411).
THEOREM DownloadsAreExact == Spec => []DownloadsExact
<1>1. Init => Echoes
  BY InitEchoes
<1>2. Shape /\ OneBulk /\ Exact /\ Echoes /\ [Next]_vars => Echoes'
  BY NextEchoes
<1>3. Exact /\ Echoes => DownloadsExact
  <2> SUFFICES ASSUME Exact, Echoes PROVE DownloadsExact
    OBVIOUS
  <2>1. CountsComplete
    BY DEF Exact, CountedAt, CountsComplete
  <2>2. SilentOnlyOnEcho
    BY DEF Echoes, Echo, Echoed, SilentOnlyOnEcho
  <2> QED
    BY <2>1, <2>2 DEF Exact, DownloadsExact
<1> QED
  BY <1>1, <1>2, <1>3, ExactAlways, PTL DEF Spec

-----------------------------------------------------------------------------
(* The download limit *)

\* The handlers with a request, and the streams not counted yet.
Asking == {h \in Handlers : hnd[h].pc # "idle"}
Open == {b \in Ops : StreamHolds(b) /\ b \notin counted}

LEMMA CommittedIs == Committed = downloads + Cardinality(Asking) + Cardinality(Open)
BY DEF Committed, Asking, Open

LEMMA CommittedNext == Committed' = downloads' + Cardinality(Asking') + Cardinality(Open')
BY DEF Committed, Asking, Open

LEMMA OpsFinite == IsFiniteSet(Ops)
BY BulkAssumption, FS_Interval DEF Ops

\* Both sets are finite, before and after a step.
LEMMA Finite ==
    /\ Asking \in SUBSET Handlers /\ Asking' \in SUBSET Handlers
    /\ IsFiniteSet(Asking) /\ IsFiniteSet(Asking') /\ IsFiniteSet(Open) /\ IsFiniteSet(Open')
    /\ Cardinality(Asking) \in Nat /\ Cardinality(Asking') \in Nat
    /\ Cardinality(Open) \in Nat /\ Cardinality(Open') \in Nat
    /\ Cardinality(Handlers) \in Nat /\ Cardinality(Asking') <= Cardinality(Handlers)
<1>1. Asking \in SUBSET Handlers /\ Asking' \in SUBSET Handlers /\ IsFiniteSet(Handlers)
  BY BulkAssumption DEF Asking
<1>2. Open \in SUBSET Ops /\ Open' \in SUBSET Ops /\ IsFiniteSet(Ops)
  BY OpsFinite DEF Open
<1>3. IsFiniteSet(Asking) /\ IsFiniteSet(Asking') /\ Cardinality(Asking') <= Cardinality(Handlers)
  BY <1>1, FS_Subset
<1>4. IsFiniteSet(Open) /\ IsFiniteSet(Open')
  BY <1>2, FS_Subset
<1> QED
  BY <1>1, <1>3, <1>4, FS_CardinalityType

\* One transfer at a time: at most one stream is open.
LEMMA OneOpen == OneBulk => Cardinality(Open) <= 1
<1> SUFFICES ASSUME OneBulk PROVE Cardinality(Open) <= 1
  OBVIOUS
<1>1. CASE Open = {}
  BY <1>1, FS_EmptySet
<1>2. CASE Open # {}
  <2>1. PICK b : b \in Open
    BY <1>2
  <2>2. Open = {b}
    BY <2>1 DEF Open, OneBulk
  <2>3. Cardinality({b}) = 1
    BY FS_Singleton
  <2> QED
    BY <2>2, <2>3
<1> QED
  BY <1>1, <1>2

\* Nothing new is asked for or opened.
LEMMA LessCommitted ==
    ASSUME Shape, OvershootBounded, downloads' = downloads,
           \A h \in Asking' : h \in Asking, \A b \in Open' : b \in Open
    PROVE  OvershootBounded'
<1>1. Cardinality(Asking') <= Cardinality(Asking)
  BY Finite, FS_Subset
<1>2. Cardinality(Open') <= Cardinality(Open)
  BY Finite, FS_Subset
<1>3. downloads \in Nat /\ MaxDownloads \in Nat
  BY BulkAssumption DEF Shape, TypeOK
<1> QED
  BY <1>1, <1>2, <1>3, CommittedIs, CommittedNext, Finite DEF OvershootBounded

LEMMA KeepsOvershoot ==
    Shape /\ OneBulk /\ Exact /\ OvershootBounded /\ [Next]_vars => OvershootBounded'
<1> SUFFICES ASSUME Shape, OneBulk, Exact, OvershootBounded, [Next]_vars PROVE OvershootBounded'
  OBVIOUS
<1>0. TypeOK /\ downloads \in Nat /\ MaxDownloads \in Nat
  BY BulkAssumption DEF Shape, TypeOK
<1>1. ASSUME NEW h \in Handlers, NEW kind \in Kinds, Request(h, kind) PROVE OvershootBounded'
  <2>1. ~LimitReached /\ UNCHANGED <<downloads, str, counted>>
    BY <1>1 DEF Request
  <2>2. Open' = Open
    BY <2>1 DEF Open, StreamHolds
  <2>3. Cardinality(Open) <= 1
    BY OneOpen
  <2>4. MaxDownloads > 0 => downloads < MaxDownloads
    BY <1>0, <2>1 DEF LimitReached
  <2> QED
    BY <1>0, <2>1, <2>2, <2>3, <2>4, CommittedNext, Finite DEF OvershootBounded
<1>2. ASSUME NEW h \in Handlers, hnd[h].pc # "idle", \A k \in Handlers \ {h} : hnd'[k] = hnd[k],
             UNCHANGED <<downloads, str, counted>>
      PROVE  OvershootBounded'
  BY <1>2, LessCommitted DEF Asking, Open, StreamHolds
<1>3. ASSUME NEW h \in Handlers, RejectBusy(h) \/ GiveUpFile(h) \/ ReleaseFile(h) PROVE OvershootBounded'
  <2>1. Moves(h)
    BY <1>3, HandlerMoves
  <2> QED
    BY <1>2, <1>3, <2>1 DEF Moves, RejectBusy, GiveUpFile, ReleaseFile
<1>4. ASSUME NEW h \in Handlers, AcquireBulk(h) PROVE OvershootBounded'
  <2>1. Acquires(h)
    BY <1>4, HandlerAcquires
  <2> QED
    BY <1>2, <1>4, <2>1 DEF Acquires, AcquireBulk
<1>5. ASSUME NEW h \in Handlers, InstallBatch(h) \/ StartFile(h) PROVE OvershootBounded'
  <2>1. PICK b \in Ops : b = hnd[h].op
    BY <1>0, <1>5, Workers DEF Shape, HandlerHolds, InstallBatch, StartFile
  <2>2. Starts(h) /\ UNCHANGED <<downloads, counted>>
    BY <1>5, HandlerStarts DEF InstallBatch, StartFile
  <2>3. h \in Asking /\ Asking' = Asking \ {h}
    BY <2>2 DEF Starts, Asking, HandlerHolds
  <2>4. Cardinality(Asking') = Cardinality(Asking) - 1
    BY <2>3, Finite, FS_RemoveElement
  <2>5. IsFiniteSet(Open \cup {b}) /\ Cardinality(Open \cup {b}) <= Cardinality(Open) + 1
    <3>1. IsFiniteSet(Open) /\ Cardinality(Open) \in Nat
      BY Finite
    <3>2. CASE b \in Open
      <4>1. Open \cup {b} = Open
        BY <3>2
      <4> QED
        BY <3>1, <4>1
    <3>3. CASE b \notin Open
      <4>1. IsFiniteSet(Open \cup {b}) /\ Cardinality(Open \cup {b}) = Cardinality(Open) + 1
        BY <3>1, <3>3, FS_AddElement
      <4> QED
        BY <3>1, <4>1
    <3> QED
      BY <3>2, <3>3
  <2>6. Open' \in SUBSET (Open \cup {b})
    BY <2>1, <2>2 DEF Starts, Open, StreamHolds
  <2>7. Cardinality(Open') <= Cardinality(Open) + 1
    <3>1. Cardinality(Open') <= Cardinality(Open \cup {b}) /\ Cardinality(Open \cup {b}) \in Nat
      BY <2>5, <2>6, FS_Subset, FS_CardinalityType
    <3> QED
      BY <2>5, <3>1, Finite
  <2> QED
    BY <1>0, <2>2, <2>4, <2>7, CommittedIs, CommittedNext, Finite DEF OvershootBounded
<1>6. ASSUME NEW b \in Ops, Count(b) PROVE OvershootBounded'
  <2>1. /\ str[b].pc = "count" /\ downloads' = downloads + 1 /\ counted' = counted \cup {b}
        /\ hnd' = hnd
        /\ To(b, IF str[b].kind = "album" THEN "complete" ELSE "release",
              str[b].cur, str[b].part, str[b].told)
    BY <1>0, <1>6, GotoTo DEF Count
  <2>2. b \in Open
    BY <2>1 DEF Open, StreamHolds, Exact, CountedAt
  <2>3. Open' = Open \ {b}
    BY <2>1 DEF Open, StreamHolds, To
  <2>4. Cardinality(Open') = Cardinality(Open) - 1
    BY <2>2, <2>3, Finite, FS_RemoveElement
  <2>5. Asking' = Asking
    BY <2>1 DEF Asking
  <2> QED
    BY <1>0, <2>1, <2>4, <2>5, CommittedIs, CommittedNext, Finite DEF OvershootBounded
<1>7. ASSUME NEW b \in Ops, Step(b), ~Count(b) PROVE OvershootBounded'
  <2>1. UNCHANGED <<downloads, counted>>
    BY <1>7 DEF Step, PlanAlbum, SendHeader, SendChunk, SourceEnds, SendEnd, TakeAck,
       AckTimeout, AdvanceBulkOperation, SendComplete, FinishAlbumBatch, Release
  <2>2. hnd' = hnd /\ StreamHolds(b) /\ \A c \in Ops \ {b} : str'[c] = str[c]
    BY <1>7, StepWorks, StreamReturns DEF Works, Returns
  <2> QED
    BY <2>1, <2>2, LessCommitted DEF Asking, Open, StreamHolds
<1>8. CASE (\E o \in Ops, ok \in BOOLEAN : AckArchive(o, ok)) \/ Break \/ UNCHANGED vars
  <2>1. UNCHANGED <<downloads, counted, hnd, str>>
    BY <1>8 DEF AckArchive, Break, vars
  <2> QED
    BY <2>1, LessCommitted DEF Asking, Open, StreamHolds
<1> QED
  BY <1>1, <1>3, <1>4, <1>5, <1>6, <1>7, <1>8 DEF Next, Handle

\* The limit is overshot by no more than the requests handled at once: the
\* downloads made, under way and still to be decided stay within the limit plus
\* the number of handlers (manager.go:779,799).
THEOREM OvershootIsBounded == Spec => []OvershootBounded
<1>1. Init => OvershootBounded
  <2> SUFFICES ASSUME Init PROVE OvershootBounded
    OBVIOUS
  <2>1. Asking = {} /\ Open = {} /\ downloads = 0
    BY DEF Init, Asking, Open, StreamHolds, IdleHandler, NoStream
  <2> QED
    BY <2>1, FS_EmptySet, CommittedIs, Finite, BulkAssumption DEF OvershootBounded
<1>2. Shape /\ OneBulk /\ Exact /\ OvershootBounded /\ [Next]_vars => OvershootBounded'
  BY KeepsOvershoot
<1> QED
  BY <1>1, <1>2, ExactAlways, PTL DEF Spec
=============================================================================
