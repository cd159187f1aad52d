---------------------------- MODULE BulkTransfer ----------------------------
(***************************************************************************)
(* The bulk half of the agent's transfer.Manager: file, asset and album    *)
(* downloads, one at a time, each counted against the share's download     *)
(* limit.  An album is a batch of archives, each an operation of its own,  *)
(* and the browser acknowledges every archive before the next one starts.  *)
(*                                                                         *)
(* Handlers are activations of HandleMessage (the tests of the package run *)
(* several at once) and every accepted request has a goroutine that        *)
(* streams it, identified by its first operation.  What happens under      *)
(* bulkMu or albumMu is one step, and so is every send and every read.     *)
(***************************************************************************)
EXTENDS Integers, FiniteSets

CONSTANTS
    Handlers,       \* activations of HandleMessage
    MaxDownloads,   \* the share's download limit, 0 for none
    MaxOps,         \* bound: operations begun
    MaxParts,       \* bound: archives of an album
    MaxChunks       \* bound: chunks of a file or an archive

ASSUME BulkAssumption ==
    /\ IsFiniteSet(Handlers)
    /\ MaxDownloads \in Nat /\ MaxOps \in Nat /\ MaxParts \in Nat \ {0} /\ MaxChunks \in Nat

VARIABLES
    downloads,      \* completed downloads
    bulk,           \* bulkOperation and bulkTransfer
    seq,            \* operationSequence
    album,          \* the batch that receives acknowledgements, NoOp for none
    acks,           \* the one-place acknowledgement channel of every batch
    hnd,            \* the handlers: program counter, kind of request, operation
    str,            \* the streams, by first operation
    head,           \* history: what the file_header of an operation announced
    ended,          \* history: operations whose chunk_end was sent
    positive,       \* history: operations the browser acknowledged as saved
    repeated,       \* history: operations it acknowledged as saved more than once
    counted,        \* history: the downloads counted
    broken          \* the channel set has failed: every send is refused

vars == <<downloads, bulk, seq, album, acks, hnd, str, head, ended, positive,
          repeated, counted, broken>>

NoOp == 0
Ops == 1 .. MaxOps
Kinds == {"file", "album"}      \* an asset is streamed as a file is
Parts == 1 .. MaxParts

Ack == [part : Parts, op : Ops, ok : BOOLEAN]
NoAck == [part |-> 0, op |-> NoOp, ok |-> FALSE]
Head == [batch : Ops, part : Parts]
NoHead == [batch |-> NoOp, part |-> 0]
Handler == [pc : {"idle", "checked", "lookup", "install", "release"},
            kind : Kinds, op : Ops \cup {NoOp}]
IdleHandler == [pc |-> "idle", kind |-> "file", op |-> NoOp]
Stream == [pc : {"none", "plan", "header", "read", "end", "wait", "advance",
                 "count", "complete", "finish", "release", "done"},
           kind : Kinds,
           cur : Ops \cup {NoOp},               \* its current operation
           part : 0 .. MaxParts, parts : 0 .. MaxParts,
           sent : 0 .. MaxChunks,               \* chunks of the current operation
           told : BOOLEAN]                      \* history: the browser was told how it
                                                \* ended, or refused an archive itself
NoStream == [pc |-> "none", kind |-> "file", cur |-> NoOp, part |-> 0, parts |-> 0,
             sent |-> 0, told |-> FALSE]

Init ==
    /\ downloads = 0
    /\ bulk = [op |-> NoOp, busy |-> FALSE]
    /\ seq = 0
    /\ album = NoOp
    /\ acks = [o \in Ops |-> NoAck]
    /\ hnd = [h \in Handlers |-> IdleHandler]
    /\ str = [o \in Ops |-> NoStream]
    /\ head = [o \in Ops |-> NoHead]
    /\ ended = {} /\ positive = {} /\ repeated = {} /\ counted = {}
    /\ broken = FALSE

-----------------------------------------------------------------------------
(* The bulk slot, under bulkMu *)

LimitReachedLate == MaxDownloads > 0 /\ downloads > MaxDownloads

LimitReached == MaxDownloads > 0 /\ downloads >= MaxDownloads

SlotFreeAlways == TRUE

SlotFree == ~bulk.busy

TakeSlot ==
    /\ seq < MaxOps
    /\ seq' = seq + 1
    /\ bulk' = [op |-> seq + 1, busy |-> TRUE]

ReleaseBulk(o) ==
    bulk' = IF bulk.op = o THEN [op |-> NoOp, busy |-> FALSE] ELSE bulk

\* The check of sendBulkErrorIfActive and of advanceBulkOperation.
IsActive(o) == bulk.op = o /\ bulk.busy

-----------------------------------------------------------------------------
(* Handlers: handleFileRequest, handleAssetRequest, handleAlbumDownloadRequest *)

\* A request past its validation and the limit check.  A request over the limit
\* is answered, and the daemon told that the session has expired; that and a
\* failed validation change nothing here.
Request(h, kind) ==
    /\ hnd[h].pc = "idle"
    /\ ~broken
    /\ ~LimitReached
    /\ hnd' = [hnd EXCEPT ![h] = [pc |-> "checked", kind |-> kind, op |-> NoOp]]
    /\ UNCHANGED <<downloads, bulk, seq, album, acks, str, head, ended, positive, repeated, counted, broken>>

AcquireBulk(h) ==
    /\ hnd[h].pc = "checked"
    /\ SlotFree
    /\ TakeSlot
    /\ hnd' = [hnd EXCEPT ![h].pc = IF hnd[h].kind = "album" THEN "install" ELSE "lookup",
                          ![h].op = seq + 1]
    /\ UNCHANGED <<downloads, album, acks, str, head, ended, positive, repeated, counted, broken>>

\* "transfer in progress"
RejectBusy(h) ==
    /\ hnd[h].pc = "checked"
    /\ ~SlotFree
    /\ hnd' = [hnd EXCEPT ![h] = IdleHandler]
    /\ UNCHANGED <<downloads, bulk, seq, album, acks, str, head, ended, positive, repeated, counted, broken>>

\* The album's batch is installed and its goroutine started.
InstallBatch(h) ==
    LET b == hnd[h].op IN
    /\ hnd[h].pc = "install"
    /\ album' = b
    /\ str' = [str EXCEPT ![b].pc = "plan", ![b].kind = "album", ![b].cur = b]
    /\ hnd' = [hnd EXCEPT ![h] = IdleHandler]
    /\ UNCHANGED <<downloads, bulk, seq, acks, head, ended, positive, repeated, counted, broken>>

\* The file is known and its header sent.
StartFile(h) ==
    LET b == hnd[h].op IN
    /\ hnd[h].pc = "lookup"
    /\ ~broken
    /\ head' = [head EXCEPT ![b] = [batch |-> b, part |-> 1]]
    /\ str' = [str EXCEPT ![b].pc = "read", ![b].cur = b, ![b].part = 1, ![b].parts = 1]
    /\ hnd' = [hnd EXCEPT ![h] = IdleHandler]
    /\ UNCHANGED <<downloads, bulk, seq, album, acks, ended, positive, repeated, counted, broken>>

\* No client, no listing, no such file, or the channel refuses the header: the
\* browser is told where that is possible, and the slot released after.
GiveUpFile(h) ==
    /\ hnd[h].pc = "lookup"
    /\ hnd' = [hnd EXCEPT ![h].pc = "release"]
    /\ UNCHANGED <<downloads, bulk, seq, album, acks, str, head, ended, positive, repeated, counted, broken>>

ReleaseFile(h) ==
    /\ hnd[h].pc = "release"
    /\ ReleaseBulk(hnd[h].op)
    /\ hnd' = [hnd EXCEPT ![h] = IdleHandler]
    /\ UNCHANGED <<downloads, seq, album, acks, str, head, ended, positive, repeated, counted, broken>>

-----------------------------------------------------------------------------
(* handleAlbumArchiveAck *)

\* The browser acknowledges an archive whose header it has seen, as saved or as
\* failed, at any time and maybe more than once.  An acknowledgement of another
\* batch, and one that finds the channel full, is dropped.
AckArchive(o, ok) ==
    LET b == head[o].batch IN
    /\ ~broken
    /\ album # NoOp /\ album = b
    /\ positive' = IF ok THEN positive \cup {o} ELSE positive
    /\ repeated' = IF ok /\ o \in positive THEN repeated \cup {o} ELSE repeated
    /\ acks' = IF acks[b] = NoAck
               THEN [acks EXCEPT ![b] = [part |-> head[o].part, op |-> o, ok |-> ok]]
               ELSE acks
    /\ UNCHANGED <<downloads, bulk, seq, album, hnd, str, head, ended, counted, broken>>

-----------------------------------------------------------------------------
(* streamFile, streamAsset, streamAlbumDownload, streamAlbumArchive *)

\* A file's stream releases the slot as it returns; an album's ends its batch
\* first.
Leave(b) == IF str[b].kind = "album" THEN "finish" ELSE "release"

Goto(b, pc) == str' = [str EXCEPT ![b].pc = pc]

\* The stream returns after sendBulkErrorIfActive.
Fail(b) ==
    str' = [str EXCEPT ![b].pc = Leave(b), ![b].told = IsActive(str[b].cur) /\ ~broken]

\* GetAlbumDownload: its archives, or none, or an error.
PlanAlbum(b) ==
    /\ str[b].pc = "plan"
    /\ \/ Fail(b)
       \/ \E n \in Parts :
              /\ seq + n <= MaxOps + 1       \* bound
              /\ str' = [str EXCEPT ![b].pc = "header", ![b].part = 1, ![b].parts = n]
    /\ UNCHANGED <<downloads, bulk, seq, album, acks, hnd, head, ended, positive, repeated, counted, broken>>

SendHeader(b) ==
    /\ str[b].pc = "header"
    /\ IF broken THEN Goto(b, "finish") /\ UNCHANGED head
       ELSE /\ head' = [head EXCEPT ![str[b].cur] = [batch |-> b, part |-> str[b].part]]
            /\ Goto(b, "read")
    /\ UNCHANGED <<downloads, bulk, seq, album, acks, hnd, ended, positive, repeated, counted, broken>>

SendChunk(b) ==
    /\ str[b].pc = "read" /\ str[b].sent < MaxChunks
    /\ IF broken THEN Goto(b, Leave(b)) ELSE str' = [str EXCEPT ![b].sent = @ + 1]
    /\ UNCHANGED <<downloads, bulk, seq, album, acks, hnd, head, ended, positive, repeated, counted, broken>>

\* The source is exhausted, or it fails.
SourceEnds(b) ==
    /\ str[b].pc = "read"
    /\ Goto(b, "end") \/ Fail(b)
    /\ UNCHANGED <<downloads, bulk, seq, album, acks, hnd, head, ended, positive, repeated, counted, broken>>

SendEnd(b) ==
    /\ str[b].pc = "end"
    /\ IF broken THEN Goto(b, Leave(b)) /\ UNCHANGED ended
       ELSE /\ ended' = ended \cup {str[b].cur}
            /\ IF str[b].kind = "album" THEN Goto(b, "wait")
               ELSE str' = [str EXCEPT ![b].pc = "count", ![b].told = TRUE]
    /\ UNCHANGED <<downloads, bulk, seq, album, acks, hnd, head, positive, repeated, counted, broken>>

AcceptsAckAny(b) == acks[b].ok

\* The acknowledgement is the expected one.
AcceptsAck(b) == acks[b] = [part |-> str[b].part, op |-> str[b].cur, ok |-> TRUE]

HasMore(b) == str[b].part < str[b].parts

\* An acknowledgement that is negative or not for this archive stops the batch,
\* and nothing is sent: only a browser that refused an archive knows why.
TakeAck(b) ==
    /\ str[b].pc = "wait" /\ acks[b] # NoAck
    /\ acks' = [acks EXCEPT ![b] = NoAck]
    /\ IF ~AcceptsAck(b) THEN str' = [str EXCEPT ![b].pc = "finish", ![b].told = ~acks[b].ok]
       ELSE Goto(b, IF HasMore(b) THEN "advance" ELSE "count")
    /\ UNCHANGED <<downloads, bulk, seq, album, hnd, head, ended, positive, repeated, counted, broken>>

\* albumAckTimeout.
AckTimeout(b) ==
    /\ str[b].pc = "wait"
    /\ Fail(b)
    /\ UNCHANGED <<downloads, bulk, seq, album, acks, hnd, head, ended, positive, repeated, counted, broken>>

AdvanceBulkOperation(b) ==
    /\ str[b].pc = "advance"
    /\ IF IsActive(str[b].cur)
       THEN /\ seq < MaxOps
            /\ seq' = seq + 1
            /\ bulk' = [bulk EXCEPT !.op = seq + 1]
            /\ str' = [str EXCEPT ![b].pc = "header", ![b].cur = seq + 1,
                                  ![b].part = @ + 1, ![b].sent = 0]
       ELSE Goto(b, "finish") /\ UNCHANGED <<seq, bulk>>
    /\ UNCHANGED <<downloads, album, acks, hnd, head, ended, positive, repeated, counted, broken>>

\* downloads.Add and OnDownloadComplete.
Count(b) ==
    /\ str[b].pc = "count"
    /\ downloads' = downloads + 1
    /\ counted' = counted \cup {b}
    /\ Goto(b, IF str[b].kind = "album" THEN "complete" ELSE "release")
    /\ UNCHANGED <<bulk, seq, album, acks, hnd, head, ended, positive, repeated, broken>>

\* album_download_complete
SendComplete(b) ==
    /\ str[b].pc = "complete"
    /\ str' = [str EXCEPT ![b].pc = "finish", ![b].told = ~broken]
    /\ UNCHANGED <<downloads, bulk, seq, album, acks, hnd, head, ended, positive, repeated, counted, broken>>

\* finishAlbumBatch, under albumMu; nobody reads the batch's channel again.
FinishAlbumBatch(b) ==
    /\ str[b].pc = "finish"
    /\ album' = IF album = b THEN NoOp ELSE album
    /\ acks' = [acks EXCEPT ![b] = NoAck]
    /\ Goto(b, "release")
    /\ UNCHANGED <<downloads, bulk, seq, hnd, head, ended, positive, repeated, counted, broken>>

HeldFirst(b) == b

\* The operation a stream releases: the one it has when it returns.
Held(b) == str[b].cur

Release(b) ==
    /\ str[b].pc = "release"
    /\ ReleaseBulk(Held(b))
    /\ str' = [str EXCEPT ![b] = [NoStream EXCEPT !.pc = "done", !.kind = str[b].kind,
                                                  !.told = str[b].told]]
    /\ UNCHANGED <<downloads, seq, album, acks, hnd, head, ended, positive, repeated, counted, broken>>

\* The channel set fails or is closed.
Break ==
    /\ ~broken
    /\ broken' = TRUE
    /\ UNCHANGED <<downloads, bulk, seq, album, acks, hnd, str, head, ended, positive, repeated, counted>>

-----------------------------------------------------------------------------
Handle(h) ==
    \/ AcquireBulk(h) \/ RejectBusy(h) \/ InstallBatch(h)
    \/ StartFile(h) \/ GiveUpFile(h) \/ ReleaseFile(h)

Step(b) ==
    \/ PlanAlbum(b) \/ SendHeader(b) \/ SendChunk(b) \/ SourceEnds(b) \/ SendEnd(b)
    \/ TakeAck(b) \/ AckTimeout(b) \/ AdvanceBulkOperation(b) \/ Count(b)
    \/ SendComplete(b) \/ FinishAlbumBatch(b) \/ Release(b)

Next ==
    \/ \E h \in Handlers, kind \in Kinds : Request(h, kind)
    \/ \E h \in Handlers : Handle(h)
    \/ \E o \in Ops, ok \in BOOLEAN : AckArchive(o, ok)
    \/ \E b \in Ops : Step(b)
    \/ Break

Spec == Init /\ [][Next]_vars

Fairness ==
    /\ \A h \in Handlers : WF_vars(Handle(h))
    /\ \A b \in Ops : WF_vars(Step(b))

FairSpec == Spec /\ Fairness

-----------------------------------------------------------------------------
(* Properties *)

TypeOK ==
    /\ downloads \in Nat
    /\ bulk \in [op : Ops \cup {NoOp}, busy : BOOLEAN]
    /\ seq \in 0 .. MaxOps
    /\ album \in Ops \cup {NoOp}
    /\ acks \in [Ops -> Ack \cup {NoAck}]
    /\ hnd \in [Handlers -> Handler]
    /\ str \in [Ops -> Stream]
    /\ head \in [Ops -> Head \cup {NoHead}]
    /\ ended \subseteq Ops /\ positive \subseteq Ops /\ repeated \subseteq Ops /\ counted \subseteq Ops
    /\ broken \in BOOLEAN

HandlerHolds(h) == hnd[h].pc \in {"lookup", "install", "release"}
StreamHolds(b) == str[b].pc \notin {"none", "done"}

\* One bulk transfer at a time: whoever has been given the slot and has not
\* released it owns bulkOperation, so no two transfers interleave their bytes
\* and no error is put on another's operation (manager.go:1420-1453).
OneBulk ==
    /\ \A h \in Handlers : HandlerHolds(h) => IsActive(hnd[h].op)
    /\ \A b \in Ops : StreamHolds(b) => IsActive(str[b].cur)
    /\ \A h, g \in Handlers : HandlerHolds(h) /\ HandlerHolds(g) => h = g
    /\ \A a, b \in Ops : StreamHolds(a) /\ StreamHolds(b) => a = b
    /\ \A h \in Handlers, b \in Ops : ~(HandlerHolds(h) /\ StreamHolds(b))

\* The slot is never leaked: while it is taken somebody who will release it is
\* at work, on every early return of a handler and a stream (manager.go:1435).
SlotHeld ==
    bulk.busy => (\E h \in Handlers : HandlerHolds(h)) \/ (\E b \in Ops : StreamHolds(b))

\* "Advancing only after the browser's terminal sink acknowledgement": when an
\* archive is announced the browser has saved every earlier one of the album,
\* whatever late, early or repeated acknowledgements are about
\* (manager.go:387-406).
AdvancesOnAck ==
    \A o, p \in Ops :
        head[o] # NoHead /\ head[p] # NoHead /\ head[o].batch = head[p].batch
            /\ head[o].part < head[p].part
        => o \in positive /\ o \in ended

\* "The complete batch counts as one download, any failed batch as zero": what
\* is counted was sent to its end and, an album, acknowledged to its last
\* archive; and nothing is counted twice (manager.go:408-411).
CountsComplete ==
    /\ downloads = Cardinality(counted)
    /\ \A b \in counted :
           \A o \in Ops : head[o].batch = b =>
               o \in ended /\ (str[b].kind = "album" => o \in positive)

\* No download ends silently: the browser has its chunk_end, its completion or
\* an error, or has itself refused an archive, or the channel broke.  This does
\* not hold (MCBulkTransferEcho.cfg): a second positive acknowledgement of one
\* archive stays in the channel and ends the batch at the next archive, with
\* nothing sent (manager.go:403-405).
NoSilentEnd == \A b \in Ops : str[b].pc = "done" => str[b].told \/ broken

\* That is the only way: a browser that acknowledges no archive of the album
\* twice, as the repository's (app.js:1512-1513), is never left without a word.
SilentOnlyOnEcho ==
    \A b \in Ops : str[b].pc = "done" =>
        str[b].told \/ broken \/ \E o \in repeated : head[o].batch = b

\* A download is what it says it is: early, late, repeated and missing
\* acknowledgements, failing sources and a broken channel neither advance an
\* album nor count a download, and none of them but a repeated one ends a
\* download without a word.
DownloadsExact == AdvancesOnAck /\ CountsComplete /\ SilentOnlyOnEcho

\* The limit is checked before the slot is taken, so it may be overshot, by no
\* more than the requests handled at once: the downloads made, under way and
\* still to be decided never exceed the limit by more (manager.go:779,799).
Committed ==
    downloads + Cardinality({h \in Handlers : hnd[h].pc # "idle"})
              + Cardinality({b \in Ops : StreamHolds(b) /\ b \notin counted})
OvershootBounded ==
    MaxDownloads > 0 => Committed <= MaxDownloads + Cardinality(Handlers)

\* The slot is always released again, also when the browser never acknowledges
\* an archive (manager.go:387-402).
SlotFreed == bulk.busy ~> ~bulk.busy
=============================================================================
