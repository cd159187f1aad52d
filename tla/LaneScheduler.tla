---------------------------- MODULE LaneScheduler ----------------------------
(***************************************************************************)
(* The agent's traffic scheduler (agent/internal/multilane/scheduler.go):  *)
(* goroutines call Send, one pump goroutine writes.  Four bounded queues,  *)
(* a FIFO line of admission waiters per class, a control burst limit and   *)
(* two nested deficit round robins (media 3 : bulk 1, and inside media     *)
(* interactive 3 : thumbnail 1).                                           *)
(*                                                                         *)
(* A critical section of Scheduler.mu without a loop is one action.  A     *)
(* loop inside a critical section is one action per iteration, and mu      *)
(* says which loop the holder is in, so nothing else can lock meanwhile.   *)
(***************************************************************************)
EXTENDS Integers, Sequences, SequencesExt

CONSTANTS
    Callers,            \* goroutines that call Send, one call at a time each
    Calls,              \* the calls they may make: [caller, class, len]
    Cancellable,        \* callers whose context can be cancelled; the others
                        \* pass nil or context.Background()
    Cap,                \* classCap: bytes a class may hold, queued or writing
    BaseQuantum,        \* BaseQuantumBytes
    ControlBurstLimit,
    None                \* nil

Control == "control"
Interactive == "interactive"
Thumbnail == "thumbnail"
Bulk == "bulk"
Media == {Interactive, Thumbnail}
Class == Media \cup {Control, Bulk}

Request == [caller : Callers, class : Class, len : Nat \ {0}]

ASSUME SchedulerAssumption ==
    /\ Cap \in [Class -> Nat \ {0}]
    /\ BaseQuantum \in Nat \ {0}
    /\ ControlBurstLimit \in Nat \ {0}
    /\ Calls \subseteq [caller : Callers, class : Class, len : Nat]
    /\ None \notin Class /\ None \notin [caller : Callers, class : Class, len : Nat]

VARIABLES
    queues,       \* class -> admitted requests, oldest first
    bytes,        \* class -> bytes queued plus currently writing
    waiters,      \* class -> requests waiting for admission, oldest first
    terminal,     \* "open", or why the scheduler ended: "closed", "failed"
    controlBurst, \* control frames since the last data frame, saturating
    outer, inner, \* the two round robins
    saved,        \* nextDataLocked's copy of inner
    mu,           \* "free", or the loop the holder of the mutex is in
    admitting,    \* the class admitWaitersLocked is working on
    pump,         \* where the pump goroutine is
    notified,     \* FALSE while the pump waits on a channel nobody has closed
    active,       \* the request the pump is writing or finishing
    writeErr,     \* the writer's verdict on it
    pc,           \* caller -> where its Send is
    req,          \* caller -> its request
    ready, done,  \* caller -> content of its waiter's / request's channel
    wrote         \* history: what the writer did with the caller's request

lineVars == <<queues, bytes, waiters>>
drrVars == <<controlBurst, outer, inner, saved>>
pumpVars == <<pump, active, writeErr>>
callVars == <<pc, req>>
vars == <<queues, bytes, waiters, terminal, controlBurst, outer, inner, saved,
          mu, admitting, pump, notified, active, writeErr, pc, req,
          ready, done, wrote>>

------------------------------------------------------------------------------
(* Deficit round robin.  Both levels have two lanes of weights 3 and 1.    *)

RoundRobin == [current : {0, 1}, deficit : [{0, 1} -> Nat], started : BOOLEAN]

IdleRound == [current |-> 0, deficit |-> [k \in {0, 1} |-> 0], started |-> FALSE]

Quantum(k) == IF k = 0 THEN 3 * BaseQuantum ELSE BaseQuantum

\* A new round credits the lanes that have something queued and empties the
\* others: addOuterRoundLocked and addInnerRoundLocked.
AddRound(rr, backlog) ==
    [rr EXCEPT !.deficit =
        [k \in {0, 1} |-> IF backlog[k] THEN rr.deficit[k] + Quantum(k) ELSE 0]]

Start(rr, backlog) ==
    IF rr.started THEN rr ELSE [AddRound(rr, backlog) EXCEPT !.started = TRUE]

Advance(rr, backlog) ==
    IF rr.current = 0 THEN [rr EXCEPT !.current = 1]
                      ELSE AddRound([rr EXCEPT !.current = 0], backlog)

\* The lane's turn passes while it has nothing queued.
Skip(rr, backlog) == Advance([rr EXCEPT !.deficit[rr.current] = 0], backlog)

\* Mutant: nobody pays.
ChargeNobody(rr, k, n) == rr

Charge(rr, k, n) == [rr EXCEPT !.deficit[k] = @ - n]

HasMedia == \E cl \in Media : queues[cl] # <<>>
DataWaiting == HasMedia \/ queues[Bulk] # <<>>

OuterBacklog == [k \in {0, 1} |-> IF k = 0 THEN HasMedia ELSE queues[Bulk] # <<>>]

MediaLane == [k \in {0, 1} |-> IF k = 0 THEN Interactive ELSE Thumbnail]
InnerBacklog == [k \in {0, 1} |-> queues[MediaLane[k]] # <<>>]

\* resetEmptyLaneLocked, for a class whose queue in q is empty: a class (or
\* all of media, or everything) without queued or waiting requests forfeits
\* its credit.
Demand(cl, q, w) == q[cl] # <<>> \/ w[cl] # <<>>
MediaDemand(q, w) == \E cl \in Media : Demand(cl, q, w)

ResetInner(cl, q, w, rr) ==
    IF q[cl] # <<>> THEN rr
    ELSE IF ~MediaDemand(q, w) THEN IdleRound
    ELSE [rr EXCEPT !.deficit =
            [k \in {0, 1} |-> IF MediaLane[k] = cl /\ ~Demand(cl, q, w)
                              THEN 0 ELSE rr.deficit[k]]]

ResetOuter(cl, q, w, rr) ==
    IF q[cl] # <<>> THEN rr
    ELSE IF ~MediaDemand(q, w) /\ ~Demand(Bulk, q, w) THEN IdleRound
    ELSE [rr EXCEPT !.deficit =
            [k \in {0, 1} |-> IF \/ k = 0 /\ ~MediaDemand(q, w)
                                 \/ k = 1 /\ cl = Bulk /\ ~Demand(Bulk, q, w)
                              THEN 0 ELSE rr.deficit[k]]]

------------------------------------------------------------------------------
Init ==
    /\ queues = [cl \in Class |-> <<>>]
    /\ bytes = [cl \in Class |-> 0]
    /\ waiters = [cl \in Class |-> <<>>]
    /\ terminal = "open"
    /\ controlBurst = 0
    /\ outer = IdleRound
    /\ inner = IdleRound
    /\ saved = IdleRound
    /\ mu = "free"
    /\ admitting = None
    /\ pump = "next"
    /\ notified = TRUE
    /\ active = None
    /\ writeErr = "nil"
    /\ pc = [c \in Callers |-> "idle"]
    /\ req = [c \in Callers |-> None]
    /\ ready = [c \in Callers |-> "empty"]
    /\ done = [c \in Callers |-> "empty"]
    /\ wrote = [c \in Callers |-> "no"]

------------------------------------------------------------------------------
(* Send                                                                    *)

\* Send returns: ctx.Err(), or the verdict received from a channel.
Return(c) ==
    /\ pc' = [pc EXCEPT ![c] = "idle"]
    /\ req' = [req EXCEPT ![c] = None]
    /\ wrote' = [wrote EXCEPT ![c] = "no"]

\* Mutant: enqueueLocked forgets signalLocked.
EnqueueSilently(r) ==
    /\ queues' = [queues EXCEPT ![r.class] = Append(@, r)]
    /\ bytes' = [bytes EXCEPT ![r.class] = @ + r.len]
    /\ UNCHANGED notified

\* A request is admitted: enqueueLocked.
Enqueue(r) ==
    /\ queues' = [queues EXCEPT ![r.class] = Append(@, r)]
    /\ bytes' = [bytes EXCEPT ![r.class] = @ + r.len]
    /\ notified' = TRUE

\* Mutant: the bytes of a request that left the queue are not given back.
RefundNothing(r) == UNCHANGED bytes

\* The bytes of a request that is cancelled, failed or written are free again.
Refund(r) == bytes' = [bytes EXCEPT ![r.class] = @ - r.len]

\* The checks before the critical section; a call that fails one, or finds
\* the scheduler ended, returns at once and changes nothing.
Valid(call) == call.len \in 1 .. Cap[call.class]

\* Mutant: a request that fits is enqueued past the waiters of its class.
HasRoomForSmall(call) == bytes[call.class] + call.len <= Cap[call.class]

HasRoom(call) ==
    /\ waiters[call.class] = <<>>
    /\ bytes[call.class] + call.len <= Cap[call.class]

Send(c, call) ==
    /\ pc[c] = "idle" /\ Valid(call)
    /\ mu = "free" /\ terminal = "open"
    /\ req' = [req EXCEPT ![c] = call]
    /\ IF HasRoom(call)
       THEN /\ Enqueue(call)
            /\ pc' = [pc EXCEPT ![c] = "wait"]
            /\ UNCHANGED waiters
       ELSE /\ waiters' = [waiters EXCEPT ![call.class] = Append(@, call)]
            /\ pc' = [pc EXCEPT ![c] = "admit"]
            /\ UNCHANGED <<queues, bytes, notified>>
    /\ UNCHANGED <<terminal, drrVars, mu, admitting, pumpVars,
                   ready, done, wrote>>

\* case err := <-waiter.ready
ReceiveReady(c) ==
    /\ pc[c] \in {"admit", "admitLast"}
    /\ ready[c] # "empty"
    /\ ready' = [ready EXCEPT ![c] = "empty"]
    /\ IF ready[c] = "nil"
       THEN /\ pc' = [pc EXCEPT ![c] = "wait"]
            /\ UNCHANGED <<req, wrote>>
       ELSE Return(c)
    /\ UNCHANGED <<lineVars, terminal, drrVars, mu, admitting, pumpVars,
                   notified, done>>

\* case err := <-request.done
ReceiveDone(c) ==
    /\ pc[c] \in {"wait", "waitLast"}
    /\ done[c] # "empty"
    /\ done' = [done EXCEPT ![c] = "empty"]
    /\ Return(c)
    /\ UNCHANGED <<lineVars, terminal, drrVars, mu, admitting, pumpVars,
                   notified, ready>>

\* case <-ctx.Done(), in either select: the context may be cancelled at any
\* time.  The lock is taken in a later step.
SelectCtx(c) ==
    /\ c \in Cancellable /\ pc[c] \in {"admit", "wait"}
    /\ pc' = [pc EXCEPT ![c] = IF @ = "admit" THEN "admitCancel" ELSE "waitCancel"]
    /\ UNCHANGED <<lineVars, terminal, drrVars, mu, admitting, pumpVars,
                   notified, req, ready, done, wrote>>

\* removeAdmissionWaiterLocked and, when it found the waiter, the start of
\* admitWaitersLocked.
CancelWaiter(c) ==
    /\ pc[c] = "admitCancel" /\ mu = "free"
    /\ LET cl == req[c].class IN
       \/ \E i \in DOMAIN waiters[cl] :
            /\ waiters[cl][i] = req[c]
            /\ waiters' = [waiters EXCEPT ![cl] = RemoveAt(@, i)]
            /\ outer' = ResetOuter(cl, queues, waiters', outer)
            /\ inner' = ResetInner(cl, queues, waiters', inner)
            /\ mu' = "admit" /\ admitting' = cl
            /\ pc' = [pc EXCEPT ![c] = "locked"]
       \/ /\ \A i \in DOMAIN waiters[cl] : waiters[cl][i] # req[c]
          /\ pc' = [pc EXCEPT ![c] = "admitLast"]
          /\ UNCHANGED <<waiters, outer, inner, mu, admitting>>
    /\ UNCHANGED <<queues, bytes, terminal, controlBurst, saved, pumpVars,
                   notified, req, ready, done, wrote>>

\* removeQueuedLocked, the byte refund and the start of admitWaitersLocked.
CancelQueued(c) ==
    /\ pc[c] = "waitCancel" /\ mu = "free"
    /\ LET cl == req[c].class IN
       \/ \E i \in DOMAIN queues[cl] :
            /\ queues[cl][i] = req[c]
            /\ queues' = [queues EXCEPT ![cl] = RemoveAt(@, i)]
            /\ Refund(req[c])
            /\ outer' = ResetOuter(cl, queues', waiters, outer)
            /\ inner' = ResetInner(cl, queues', waiters, inner)
            /\ mu' = "admit" /\ admitting' = cl
            /\ pc' = [pc EXCEPT ![c] = "locked"]
       \/ /\ \A i \in DOMAIN queues[cl] : queues[cl][i] # req[c]
          /\ pc' = [pc EXCEPT ![c] = "waitLast"]
          /\ UNCHANGED <<queues, bytes, outer, inner, mu, admitting>>
    /\ UNCHANGED <<waiters, terminal, controlBurst, saved, pumpVars,
                   notified, req, ready, done, wrote>>

------------------------------------------------------------------------------
(* Loops under the mutex shared by Send, Close and the pump                *)

\* Mutant: admission stops once the class is exactly full.
FitsNextStrictly(cl) ==
    /\ waiters[cl] # <<>>
    /\ bytes[cl] + Head(waiters[cl]).len < Cap[cl]

FitsNext(cl) ==
    /\ waiters[cl] # <<>>
    /\ bytes[cl] + Head(waiters[cl]).len <= Cap[cl]

\* admitWaitersLocked: one iteration admits the oldest waiter ...
AdmitOne ==
    /\ mu = "admit" /\ FitsNext(admitting)
    /\ LET w == Head(waiters[admitting]) IN
       /\ Enqueue(w)
       /\ waiters' = [waiters EXCEPT ![admitting] = Tail(@)]
       /\ ready' = [ready EXCEPT ![w.caller] = "nil"]
    /\ UNCHANGED <<terminal, drrVars, mu, admitting, pumpVars, callVars,
                   done, wrote>>

\* ... and the loop ends at the first waiter that does not fit.  The holder
\* unlocks: a cancelled Send returns ctx.Err(), the pump goes on to deliver.
AdmitEnd ==
    /\ mu = "admit" /\ ~FitsNext(admitting)
    /\ mu' = "free" /\ admitting' = None
    /\ \/ /\ pump = "locked"
          /\ pump' = "deliver" /\ notified' = TRUE
          /\ UNCHANGED <<callVars, wrote>>
       \/ \E c \in Callers :
            /\ pc[c] = "locked"
            /\ Return(c)
            /\ UNCHANGED <<pump, notified>>
    /\ UNCHANGED <<lineVars, terminal, drrVars, active, writeErr, ready, done>>

\* Mutant: the admission waiters are dropped without a verdict.
TerminateQuietly(err) ==
    /\ terminal' = err
    /\ waiters' = [cl \in Class |-> <<>>]
    /\ UNCHANGED ready
    /\ mu' = "fail"

\* failAdmissionWaitersLocked, and the entry of failQueuedLocked's loop.
Terminate(err) ==
    /\ terminal' = err
    /\ waiters' = [cl \in Class |-> <<>>]
    /\ ready' = [c \in Callers |->
                    IF \E cl \in Class : \E i \in DOMAIN waiters[cl] :
                            waiters[cl][i].caller = c
                    THEN err ELSE ready[c]]
    /\ mu' = "fail"

\* failQueuedLocked: one iteration.
FailOne ==
    /\ mu = "fail"
    /\ \E cl \in Class :
        /\ queues[cl] # <<>>
        /\ LET r == Head(queues[cl]) IN
           /\ Refund(r)
           /\ done' = [done EXCEPT ![r.caller] = terminal]
        /\ queues' = [queues EXCEPT ![cl] = Tail(@)]
    /\ UNCHANGED <<waiters, terminal, drrVars, mu, admitting, pumpVars,
                   notified, callVars, ready, wrote>>

\* Mutant: the closing goroutine does not wake the pump.
FailEndSilently ==
    /\ mu = "fail" /\ \A cl \in Class : queues[cl] = <<>>
    /\ mu' = "free"
    /\ pump' = IF pump = "locked" THEN "deliver" ELSE pump
    /\ UNCHANGED <<lineVars, terminal, drrVars, admitting, notified, active,
                   writeErr, callVars, ready, done, wrote>>

FailEnd ==
    /\ mu = "fail" /\ \A cl \in Class : queues[cl] = <<>>
    /\ mu' = "free" /\ notified' = TRUE
    /\ pump' = IF pump = "locked" THEN "deliver" ELSE pump
    /\ UNCHANGED <<lineVars, terminal, drrVars, admitting, active, writeErr,
                   callVars, ready, done, wrote>>

\* Close; a second call changes nothing.
Close ==
    /\ mu = "free" /\ terminal = "open"
    /\ Terminate("closed")
    /\ UNCHANGED <<queues, bytes, drrVars, admitting, pumpVars, notified,
                   callVars, done, wrote>>

------------------------------------------------------------------------------
(* The pump                                                                *)

\* popLocked: the head of class cl becomes the active request, with the round
\* robins o and i as nextDataLocked left them, and the mutex is released.
Pop(cl, o, i) ==
    /\ queues' = [queues EXCEPT ![cl] = Tail(@)]
    /\ outer' = ResetOuter(cl, queues', waiters, o)
    /\ inner' = ResetInner(cl, queues', waiters, i)
    /\ active' = Head(queues[cl])
    /\ wrote' = [wrote EXCEPT ![Head(queues[cl]).caller] = "writing"]
    /\ pump' = "writing"
    /\ mu' = "free"

\* Mutant: the burst limit is not enforced.
MayBurstForever == TRUE

\* Control goes first, but only so often while data is waiting.
MayBurst == controlBurst < ControlBurstLimit \/ ~DataWaiting

PumpControl ==
    /\ pump = "next" /\ mu = "free" /\ terminal = "open"
    /\ queues[Control] # <<>>
    /\ MayBurst
    /\ controlBurst' = IF controlBurst < ControlBurstLimit
                       THEN controlBurst + 1 ELSE controlBurst
    /\ Pop(Control, outer, inner)
    /\ UNCHANGED <<bytes, waiters, terminal, saved, admitting, notified,
                   writeErr, callVars, ready, done>>

\* Entry of nextDataLocked.
PumpData ==
    /\ pump = "next" /\ mu = "free" /\ terminal = "open"
    /\ DataWaiting
    /\ queues[Control] = <<>> \/ ~MayBurst
    /\ outer' = Start(outer, OuterBacklog)
    /\ mu' = "outer" /\ pump' = "locked"
    /\ UNCHANGED <<lineVars, terminal, controlBurst, inner, saved, admitting,
                   notified, active, writeErr, callVars, ready, done, wrote>>

\* Nothing to send: the pump waits on the current notify channel.
PumpIdle ==
    /\ pump = "next" /\ mu = "free" /\ terminal = "open"
    /\ \A cl \in Class : queues[cl] = <<>>
    /\ pump' = "wait" /\ notified' = FALSE
    /\ UNCHANGED <<lineVars, terminal, drrVars, mu, admitting, active, writeErr,
                   callVars, ready, done, wrote>>

PumpWake ==
    /\ pump = "wait" /\ notified
    /\ pump' = "next"
    /\ UNCHANGED <<lineVars, terminal, drrVars, mu, admitting, notified, active,
                   writeErr, callVars, ready, done, wrote>>

PumpExit ==
    /\ pump = "next" /\ mu = "free" /\ terminal # "open"
    /\ pump' = "exit"
    /\ UNCHANGED <<lineVars, terminal, drrVars, mu, admitting, notified, active,
                   writeErr, callVars, ready, done, wrote>>

\* nextDataLocked's loop: a lane with nothing queued, or whose head costs more
\* than its credit, passes its turn.
OuterPass ==
    /\ mu = "outer"
    /\ \/ /\ ~OuterBacklog[outer.current]
          /\ outer' = Skip(outer, OuterBacklog)
       \/ /\ outer.current = 1 /\ queues[Bulk] # <<>>
          /\ Head(queues[Bulk]).len > outer.deficit[1]
          /\ outer' = Advance(outer, OuterBacklog)
    /\ UNCHANGED <<lineVars, terminal, controlBurst, inner, saved, mu, admitting,
                   pumpVars, notified, callVars, ready, done, wrote>>

TakeBulk ==
    /\ mu = "outer" /\ outer.current = 1 /\ queues[Bulk] # <<>>
    /\ LET n == Head(queues[Bulk]).len IN
       /\ n <= outer.deficit[1]
       /\ Pop(Bulk, Charge(outer, 1, n), inner)
    /\ controlBurst' = 0
    /\ UNCHANGED <<bytes, waiters, terminal, saved, admitting, notified,
                   writeErr, callVars, ready, done>>

\* Entry of peekMediaLocked, after saving the inner round robin.
PeekMedia ==
    /\ mu = "outer" /\ outer.current = 0 /\ HasMedia
    /\ saved' = inner
    /\ inner' = Start(inner, InnerBacklog)
    /\ mu' = "inner"
    /\ UNCHANGED <<lineVars, terminal, controlBurst, outer, admitting, pumpVars,
                   notified, callVars, ready, done, wrote>>

MediaHead == Head(queues[MediaLane[inner.current]])

InnerPass ==
    /\ mu = "inner"
    /\ \/ /\ ~InnerBacklog[inner.current]
          /\ inner' = Skip(inner, InnerBacklog)
       \/ /\ InnerBacklog[inner.current]
          /\ MediaHead.len > inner.deficit[inner.current]
          /\ inner' = Advance(inner, InnerBacklog)
    /\ UNCHANGED <<lineVars, terminal, controlBurst, outer, saved, mu, admitting,
                   pumpVars, notified, callVars, ready, done, wrote>>

InnerFits ==
    /\ mu = "inner"
    /\ InnerBacklog[inner.current]
    /\ MediaHead.len <= inner.deficit[inner.current]

\* peekMediaLocked found a head and the outer round robin can pay for it ...
TakeMedia ==
    /\ InnerFits
    /\ LET n == MediaHead.len IN
       /\ n <= outer.deficit[0]
       /\ Pop(MediaLane[inner.current], Charge(outer, 0, n),
              Charge(inner, inner.current, n))
    /\ controlBurst' = 0 /\ saved' = IdleRound
    /\ UNCHANGED <<bytes, waiters, terminal, admitting, notified,
                   writeErr, callVars, ready, done>>

\* ... or cannot: the peek is undone and media's turn passes.
RefuseMedia ==
    /\ InnerFits
    /\ MediaHead.len > outer.deficit[0]
    /\ inner' = saved /\ saved' = IdleRound
    /\ outer' = Advance(outer, OuterBacklog)
    /\ mu' = "outer"
    /\ UNCHANGED <<lineVars, terminal, controlBurst, admitting, pumpVars,
                   notified, callVars, ready, done, wrote>>

\* The writer returns and the pump locks again.
WriteReturns(err) ==
    /\ pump = "writing" /\ mu = "free"
    /\ Refund(active)
    /\ writeErr' = err
    /\ wrote' = [wrote EXCEPT ![active.caller] = IF err = "nil" THEN "ok" ELSE "failed"]
    /\ \/ /\ terminal = "open" /\ err # "nil"
          /\ Terminate(err)
          /\ pump' = "locked"
          /\ UNCHANGED <<admitting, notified>>
       \/ /\ terminal = "open" /\ err = "nil"
          /\ mu' = "admit" /\ admitting' = active.class
          /\ pump' = "locked"
          /\ UNCHANGED <<terminal, waiters, ready, notified>>
       \/ /\ terminal # "open"
          /\ pump' = "deliver" /\ notified' = TRUE
          /\ UNCHANGED <<terminal, waiters, ready, mu, admitting>>
    /\ UNCHANGED <<queues, drrVars, active, callVars, done>>

\* Mutant: the request that was being written reports the scheduler's end.
DeliverTerminal ==
    /\ pump = "deliver"
    /\ done' = [done EXCEPT ![active.caller] =
                    IF terminal = "open" THEN writeErr ELSE terminal]
    /\ active' = None /\ writeErr' = "nil"
    /\ pump' = "next"
    /\ UNCHANGED <<lineVars, terminal, drrVars, mu, admitting, notified,
                   callVars, ready, wrote>>

\* request.done <- err, outside the critical section.
Deliver ==
    /\ pump = "deliver"
    /\ done' = [done EXCEPT ![active.caller] = writeErr]
    /\ active' = None /\ writeErr' = "nil"
    /\ pump' = "next"
    /\ UNCHANGED <<lineVars, terminal, drrVars, mu, admitting, notified,
                   callVars, ready, wrote>>

------------------------------------------------------------------------------
PumpStep ==
    \/ PumpControl \/ PumpData \/ PumpIdle \/ PumpWake \/ PumpExit
    \/ OuterPass \/ TakeBulk \/ PeekMedia \/ InnerPass \/ TakeMedia
    \/ RefuseMedia \/ Deliver
    \/ \E err \in {"nil", "failed"} : WriteReturns(err)

LoopStep == AdmitOne \/ AdmitEnd \/ FailOne \/ FailEnd

\* What a caller inside Send does of its own accord ...
CallerRuns(c) ==
    \/ ReceiveReady(c) \/ ReceiveDone(c)
    \/ CancelWaiter(c) \/ CancelQueued(c)

\* ... and what it does once somebody has cancelled its context.
CallerStep(c) == CallerRuns(c) \/ SelectCtx(c)

Next ==
    \/ \E call \in Calls : Send(call.caller, call)
    \/ \E c \in Callers : CallerStep(c)
    \/ Close
    \/ PumpStep
    \/ LoopStep

Spec == Init /\ [][Next]_vars

\* The Go scheduler runs every goroutine that can run, sync.Mutex hands itself
\* over to a starving waiter, and the writer returns.  Nobody has to call Send
\* or Close or to cancel a context: SelectCtx is in no fair step, so a caller
\* whose context is never cancelled must get its verdict from the pump.
Fairness ==
    /\ SF_vars(PumpStep)
    /\ WF_vars(LoopStep)
    /\ \A c \in Callers : SF_vars(CallerRuns(c))

FairSpec == Spec /\ Fairness

------------------------------------------------------------------------------
(* Properties                                                              *)

PumpState == {"next", "locked", "writing", "deliver", "wait", "exit"}
CallState == {"idle", "admit", "admitCancel", "admitLast", "wait",
              "waitCancel", "waitLast", "locked"}
Verdict == {"empty", "nil", "closed", "failed"}

\* The types of the scheduler's fields and of the goroutines' locals.
TypeOK ==
    /\ queues \in [Class -> Seq(Request)]
    /\ bytes \in [Class -> Int]
    /\ waiters \in [Class -> Seq(Request)]
    /\ terminal \in {"open", "closed", "failed"}
    /\ controlBurst \in 0 .. ControlBurstLimit
    /\ outer \in RoundRobin
    /\ inner \in RoundRobin
    /\ saved \in RoundRobin
    /\ mu \in {"free", "outer", "inner", "admit", "fail"}
    /\ admitting \in Class \cup {None}
    /\ pump \in PumpState
    /\ notified \in BOOLEAN
    /\ active \in Request \cup {None}
    /\ writeErr \in {"nil", "failed"}
    /\ pc \in [Callers -> CallState]
    /\ req \in [Callers -> Request \cup {None}]
    /\ ready \in [Callers -> Verdict]
    /\ done \in [Callers -> Verdict]
    /\ wrote \in [Callers -> {"no", "writing", "ok", "failed"}]

InLine(c, lines) == \E cl \in Class : \E i \in DOMAIN lines[cl] : lines[cl][i].caller = c

\* Requests whose bytes count against class cl: queued, or with the writer.
Held(cl) == ToSet(queues[cl]) \cup
            (IF pump = "writing" /\ active.class = cl THEN {active} ELSE {})

\* bytes[class] is "queued plus currently writing" (scheduler.go:48) after any
\* interleaving of admissions, cancellations, completed writes and Close: no
\* byte is leaked (the class would stall for ever) or refunded twice (the cap
\* would not hold).
BytesExact ==
    \A cl \in Class : bytes[cl] = MapThenSumSet(LAMBDA r : r.len, Held(cl))

\* Whatever the order of admissions and refunds, a class never holds more than
\* its cap.
CapRespected == \A cl \in Class : bytes[cl] <= Cap[cl]

\* A pump that sleeps without a pending wake-up has nothing to do: no enqueue
\* and no Close can slip in between the pump's look at the queues and its wait
\* on the notify channel.
NoLostWakeup ==
    pump = "wait" /\ ~notified /\ mu # "fail" =>
        terminal = "open" /\ \A cl \in Class : queues[cl] = <<>>

\* With the mutex free, a request waits for admission only while the bytes held
\* by others really leave no room: every refund (a written frame, a cancelled
\* Send) is followed by admission, also when the cancelled waiter was the one
\* that did not fit.
NoNeedlessWait ==
    mu = "free" =>
        \A cl \in Class : waiters[cl] # <<>> =>
            bytes[cl] + Head(waiters[cl]).len > Cap[cl]

\* Where the request of a caller inside Send is: exactly one of these holds, so
\* a verdict reaches every caller exactly once and none is left behind by a
\* cancellation racing with admission, writing, failure or Close.
Waiting(c) == InLine(c, waiters)
Queued(c) == InLine(c, queues)
AtWriter(c) == pump \in {"writing", "locked", "deliver"} /\ active # None
               /\ active.caller = c
Settled(c) == done[c] # "empty"
Nowhere(c) == ~Queued(c) /\ ~AtWriter(c) /\ ~Settled(c)
InFlight(c) ==
    \/ Queued(c) /\ ~AtWriter(c) /\ ~Settled(c)
    \/ ~Queued(c) /\ AtWriter(c) /\ ~Settled(c)
    \/ ~Queued(c) /\ ~AtWriter(c) /\ Settled(c)

PlacedAt(c) ==
    /\ pc[c] \in {"idle", "locked"} => Nowhere(c) /\ ~Waiting(c) /\ ready[c] = "empty"
    /\ pc[c] \in {"admit", "admitCancel", "admitLast"} =>
            \/ Waiting(c) /\ Nowhere(c) /\ ready[c] = "empty" /\ pc[c] # "admitLast"
            \/ ~Waiting(c) /\ InFlight(c) /\ ready[c] = "nil"
            \/ ~Waiting(c) /\ Nowhere(c) /\ ready[c] \notin {"empty", "nil"}
    /\ pc[c] \in {"wait", "waitCancel", "waitLast"} =>
            InFlight(c) /\ ~Waiting(c) /\ ready[c] = "empty"
    /\ pc[c] = "waitLast" => ~Queued(c)

Placed == \A c \in Callers : PlacedAt(c)

\* What Send is about to return is what happened to the frame: nil exactly for
\* a frame the writer accepted, ctx.Err() and ErrSchedulerClosed only for one
\* the writer never saw, however the cancellation or Close raced with it.
HonestVerdict ==
    \A c \in Callers :
        /\ done[c] = "nil" => wrote[c] = "ok"
        /\ done[c] = "closed" => wrote[c] = "no"
        /\ done[c] = "failed" => wrote[c] \in {"no", "failed"}
        /\ ready[c] \in {"closed", "failed"} => wrote[c] = "no"
        /\ pc[c] = "locked" => wrote[c] = "no"

\* The line of a class (its queue, then its waiters) is only ever extended at
\* its end: a late Send never overtakes one that is waiting for admission,
\* however small it is, and cancellations do not reorder the rest.
Line(cl) == queues[cl] \o waiters[cl]
NoOvertaking ==
    [][\A cl \in Class : \A i, j \in DOMAIN Line(cl)' :
          i < j /\ Line(cl)'[j] \in ToSet(Line(cl)) =>
            \E m, n \in DOMAIN Line(cl) :
                m < n /\ Line(cl)[m] = Line(cl)'[i] /\ Line(cl)[n] = Line(cl)'[j]]_vars

\* Every Send returns, whatever its class and size and however busy the other
\* classes are: the burst limit and the two round robins starve nobody, the
\* loops under the mutex end, and cancellation never blocks.
EverySendReturns == \A c \in Callers : pc[c] # "idle" ~> pc[c] = "idle"

\* After Close or a write error the pump goroutine ends.
PumpEnds == terminal # "open" ~> pump = "exit"
==============================================================================
