------------------------- MODULE LaneSchedulerProofs -------------------------
(***************************************************************************)
(* Proofs about LaneScheduler for any callers, calls, class caps, quantum  *)
(* and burst limit.                                                        *)
(***************************************************************************)
EXTENDS LaneShare, SequenceTheorems, FiniteSetTheorems, TLAPS

------------------------------------------------------------------------------
(* The helpers the actions are built from                                  *)

\* What removing one element leaves: removeQueuedLocked's and
\* removeAdmissionWaiterLocked's append(queue[:i], queue[i+1:]...).
LEMMA RemoveAtProperties ==
    ASSUME NEW S, NEW s \in Seq(S), NEW i \in 1 .. Len(s)
    PROVE  /\ RemoveAt(s, i) \in Seq(S)
           /\ Len(RemoveAt(s, i)) = Len(s) - 1
           /\ \A k \in 1 .. Len(s) - 1 :
                RemoveAt(s, i)[k] = IF k < i THEN s[k] ELSE s[k + 1]
<1> DEFINE a == SubSeq(s, 1, i - 1)
           b == SubSeq(s, i + 1, Len(s))
<1>0. Len(s) \in Nat /\ \A k \in 1 .. Len(s) : s[k] \in S
  BY ElementOfSeq, LenProperties
<1>1. /\ a \in Seq(S) /\ Len(a) = i - 1
      /\ \A k \in 1 .. i - 1 : a[k] = s[k]
  BY <1>0, SubSeqProperties
<1>2. /\ b \in Seq(S) /\ Len(b) = Len(s) - i
      /\ \A k \in 1 .. Len(s) - i : b[k] = s[i + k]
  BY <1>0, SubSeqProperties
<1> HIDE DEF a, b
<1>3. /\ a \o b \in Seq(S) /\ Len(a \o b) = Len(a) + Len(b)
      /\ \A k \in 1 .. Len(a) + Len(b) :
            (a \o b)[k] = IF k <= Len(a) THEN a[k] ELSE b[k - Len(a)]
  BY <1>1, <1>2, ConcatProperties
<1>4. Len(a) + Len(b) = Len(s) - 1
  BY <1>0, <1>1, <1>2
<1>5. ASSUME NEW k \in 1 .. Len(s) - 1
      PROVE  (a \o b)[k] = IF k < i THEN s[k] ELSE s[k + 1]
  <2>1. (a \o b)[k] = IF k <= i - 1 THEN a[k] ELSE b[k - (i - 1)]
    BY <1>1, <1>3, <1>4
  <2>2. CASE k < i
    BY <1>0, <1>1, <2>1, <2>2
  <2>3. CASE ~(k < i)
    <3>1. k - (i - 1) \in 1 .. Len(s) - i /\ i + (k - (i - 1)) = k + 1
      BY <1>0, <2>3
    <3>2. b[k - (i - 1)] = s[k + 1]
      BY <1>2, <3>1
    <3> QED
      BY <1>0, <2>1, <2>3, <3>2
  <2> QED
    BY <2>2, <2>3
<1> QED
  BY <1>3, <1>4, <1>5 DEF RemoveAt, a, b

\* The round-robin operators keep the type of a round robin: no credit becomes
\* negative as long as a lane is charged at most what it has.
LEMMA RoundRobinClosed ==
    ASSUME NEW rr \in RoundRobin, NEW backlog
    PROVE  /\ IdleRound \in RoundRobin
           /\ AddRound(rr, backlog) \in RoundRobin
           /\ Start(rr, backlog) \in RoundRobin
           /\ Advance(rr, backlog) \in RoundRobin
           /\ Skip(rr, backlog) \in RoundRobin
<1> USE SchedulerAssumption DEF RoundRobin
<1>1. \A k \in {0, 1} : Quantum(k) \in Nat
  BY DEF Quantum
<1>2. ASSUME NEW q \in RoundRobin PROVE AddRound(q, backlog) \in RoundRobin
  BY <1>1, <1>2 DEF AddRound
<1>3. IdleRound \in RoundRobin
  BY DEF IdleRound
<1>4. Start(rr, backlog) \in RoundRobin
  BY <1>2 DEF Start
<1>5. ASSUME NEW q \in RoundRobin PROVE Advance(q, backlog) \in RoundRobin
  BY <1>2, <1>5 DEF Advance
<1>6. [rr EXCEPT !.deficit[rr.current] = 0] \in RoundRobin
  OBVIOUS
<1> QED
  BY <1>2, <1>3, <1>4, <1>5, <1>6 DEF Skip

\* Paying for a frame with credit that suffices.
LEMMA ChargeClosed ==
    ASSUME NEW rr \in RoundRobin, NEW k \in {0, 1}, NEW n \in Nat, n <= rr.deficit[k]
    PROVE  Charge(rr, k, n) \in RoundRobin
  BY DEF Charge, RoundRobin

\* Forgetting the credit of idle lanes.
LEMMA ResetClosed ==
    ASSUME NEW rr \in RoundRobin, NEW cl, NEW q, NEW w
    PROVE  ResetOuter(cl, q, w, rr) \in RoundRobin /\ ResetInner(cl, q, w, rr) \in RoundRobin
<1>1. IdleRound \in RoundRobin
  BY RoundRobinClosed
<1>2. ASSUME NEW f \in [{0, 1} -> Nat] PROVE [rr EXCEPT !.deficit = f] \in RoundRobin
  BY <1>2 DEF RoundRobin
<1>3. \A k \in {0, 1} : rr.deficit[k] \in Nat
  BY DEF RoundRobin
<1> QED
  BY <1>1, <1>2, <1>3 DEF ResetOuter, ResetInner

------------------------------------------------------------------------------
(* Type correctness                                                        *)

\* Requests of a class that Send has let through.
Of(cl) == {r \in Request : r.class = cl /\ r.len <= Cap[cl]}

Lines == \A cl \in Class : queues[cl] \in Seq(Of(cl)) /\ waiters[cl] \in Seq(Of(cl))

\* What the goroutines' locals hold where they are used.
Locals ==
    /\ \A c \in Callers : pc[c] # "idle" =>
            req[c] \in Request /\ req[c].caller = c /\ req[c].len <= Cap[req[c].class]
    /\ pump \in {"writing", "deliver"} => active \in Request
    /\ pump = "locked" /\ mu \in {"admit", "fail"} => active \in Request
    /\ mu = "admit" => admitting \in Class

\* Who holds the mutex.
Holder ==
    /\ pump = "locked" => mu # "free"
    /\ \A c \in Callers : pc[c] = "locked" => mu = "admit" /\ pump # "locked"
    /\ \A c, d \in Callers : pc[c] = "locked" /\ pc[d] = "locked" => c = d
    /\ mu = "fail" => terminal # "open"
    /\ mu \in {"outer", "inner"} => pump = "locked"

TypeInv == TypeOK /\ Lines /\ Locals /\ Holder

\* A class and its requests.
LEMMA OfClass ==
    ASSUME NEW cl \in Class, NEW r \in Of(cl)
    PROVE  /\ r \in Request /\ r.class = cl /\ r.caller \in Callers
           /\ r.len \in Nat \ {0} /\ r.len <= Cap[cl]
  BY DEF Of, Request

\* The line of a class is a line of requests.
LEMMA LineIsSeq ==
    ASSUME NEW cl \in Class, NEW s \in Seq(Of(cl))
    PROVE  s \in Seq(Request)
  BY SeqMonotonic DEF Of

\* A Send that passed its checks has made a request of its class.
LEMMA ValidCall ==
    ASSUME NEW call \in Calls, Valid(call)
    PROVE  /\ call \in Request /\ call \in Of(call.class) /\ call.class \in Class
           /\ call.len <= Cap[call.class] /\ call.caller \in Callers
  BY SchedulerAssumption DEF Valid, Of, Request

\* What enqueueLocked does to the lines, the bytes and the wake-up.
LEMMA EnqueueLines ==
    ASSUME TypeInv, NEW cl \in Class, NEW r \in Of(cl), Enqueue(r)
    PROVE  /\ queues' \in [Class -> Seq(Request)]
           /\ \A d \in Class : queues'[d] \in Seq(Of(d))
           /\ bytes' \in [Class -> Int]
           /\ notified' = TRUE
<1>1. r.class = cl /\ r.len \in Nat
  BY OfClass
<1>2. Append(queues[cl], r) \in Seq(Of(cl))
  BY AppendProperties DEF TypeInv, Lines
<1>3. Append(queues[cl], r) \in Seq(Request)
  BY <1>2, LineIsSeq
<1>4. queues' = [queues EXCEPT ![cl] = Append(queues[cl], r)]
  BY <1>1 DEF Enqueue
<1> QED
  BY <1>1, <1>2, <1>3, <1>4 DEF Enqueue, TypeInv, TypeOK, Lines

\* Replacing the line of one class by a line of that class.
LEMMA LineUpdate ==
    ASSUME NEW f \in [Class -> Seq(Request)], \A d \in Class : f[d] \in Seq(Of(d)),
           NEW cl \in Class, NEW s \in Seq(Of(cl))
    PROVE  /\ [f EXCEPT ![cl] = s] \in [Class -> Seq(Request)]
           /\ \A d \in Class : [f EXCEPT ![cl] = s][d] \in Seq(Of(d))
<1>1. s \in Seq(Request)
  BY LineIsSeq
<1> QED
  BY <1>1

\* NewScheduler's state is well typed.
LEMMA InitTypeInv == Init => TypeInv
<1> SUFFICES ASSUME Init PROVE TypeInv
  OBVIOUS
<1> USE DEF Init
<1>1. \A S : <<>> \in Seq(S)
  BY EmptySeq
<1>2. Lines /\ queues \in [Class -> Seq(Request)] /\ waiters \in [Class -> Seq(Request)]
  BY <1>1 DEF Lines
<1>3. outer \in RoundRobin /\ inner \in RoundRobin /\ saved \in RoundRobin
  BY DEF RoundRobin, IdleRound
<1>4. controlBurst \in 0 .. ControlBurstLimit
  BY SchedulerAssumption
<1>5. TypeOK
  BY <1>2, <1>3, <1>4 DEF TypeOK, PumpState, CallState, Verdict
<1>6. Locals
  BY DEF Locals
<1>7. Holder
  BY DEF Holder
<1> QED
  BY <1>2, <1>5, <1>6, <1>7 DEF TypeInv
\* A caller that receives from its waiter keeps the type invariant.
LEMMA ReceiveReadyType == ASSUME TypeInv, NEW c \in Callers, ReceiveReady(c) PROVE TypeInv'
<1> USE DEF TypeInv, lineVars, drrVars, pumpVars, callVars, ReceiveReady, Return
<1>1. /\ pc' = [pc EXCEPT ![c] = IF ready[c] = "nil" THEN "wait" ELSE "idle"]
      /\ req' \in {req, [req EXCEPT ![c] = None]}
      /\ wrote' \in {wrote, [wrote EXCEPT ![c] = "no"]}
  OBVIOUS
<1>2. pc' \in [Callers -> CallState] /\ req' \in [Callers -> Request \cup {None}]
  BY <1>1 DEF TypeOK, CallState
<1>3. wrote' \in [Callers -> {"no", "writing", "ok", "failed"}]
  BY <1>1 DEF TypeOK
<1>4. ready' \in [Callers -> Verdict]
  BY DEF TypeOK, Verdict
<1>5. TypeOK'
  BY <1>2, <1>3, <1>4 DEF TypeOK
<1>6. Lines'
  BY DEF Lines
<1>7. Locals'
  BY DEF TypeOK, Locals, Holder, CallState, PumpState
<1>8. Holder'
  BY <1>1 DEF TypeOK, Holder, CallState
<1> QED
  BY <1>5, <1>6, <1>7, <1>8

\* A caller that receives its verdict keeps the type invariant.
LEMMA ReceiveDoneType == ASSUME TypeInv, NEW c \in Callers, ReceiveDone(c) PROVE TypeInv'
<1> USE DEF TypeInv, lineVars, drrVars, pumpVars, callVars, ReceiveDone, Return
<1>1. TypeOK'
  BY DEF TypeOK, Locals, PumpState, CallState, Verdict
<1>2. Lines'
  BY DEF Lines
<1>3. Locals'
  BY DEF TypeOK, Locals, Holder, CallState, PumpState
<1>4. Holder'
  BY DEF TypeOK, Holder, CallState
<1> QED
  BY <1>1, <1>2, <1>3, <1>4

\* A cancelled caller keeps the type invariant.
LEMMA SelectCtxType == ASSUME TypeInv, NEW c \in Callers, SelectCtx(c) PROVE TypeInv'
<1> USE DEF TypeInv, lineVars, drrVars, pumpVars, callVars, SelectCtx
<1>1. TypeOK'
  BY DEF TypeOK, Locals, PumpState, CallState, Verdict
<1>2. Lines'
  BY DEF Lines
<1>3. Locals'
  BY DEF TypeOK, Locals, Holder, CallState, PumpState
<1>4. Holder'
  BY DEF TypeOK, Holder, CallState
<1> QED
  BY <1>1, <1>2, <1>3, <1>4

\* The end of admission keeps the type invariant.
LEMMA AdmitEndType == ASSUME TypeInv, AdmitEnd PROVE TypeInv'
<1> USE DEF TypeInv, lineVars, drrVars, pumpVars, callVars, AdmitEnd, Return
<1>1. TypeOK'
  BY DEF TypeOK, Locals, PumpState, CallState, Verdict
<1>2. Lines'
  BY DEF Lines
<1>3. Locals'
  BY DEF TypeOK, Locals, Holder, CallState, PumpState
<1>4. Holder'
  <2>1. mu = "admit" /\ mu' = "free" /\ UNCHANGED terminal
    BY DEF lineVars
  <2>2. CASE pump = "locked" /\ pump' = "deliver" /\ pc' = pc
    BY <2>1, <2>2 DEF Holder
  <2>3. ASSUME NEW c \in Callers, pc[c] = "locked", pc' = [pc EXCEPT ![c] = "idle"], pump' = pump
        PROVE  Holder'
    <3>1. \A d \in Callers : pc'[d] # "locked"
      BY <2>3 DEF TypeOK, Holder
    <3>2. pump # "locked"
      BY <2>3 DEF Holder
    <3> QED
      BY <2>1, <2>3, <3>1, <3>2 DEF Holder
  <2> QED
    BY <2>2, <2>3
<1> QED
  BY <1>1, <1>2, <1>3, <1>4

\* The end of failing the queues keeps the type invariant.
LEMMA FailEndType == ASSUME TypeInv, FailEnd PROVE TypeInv'
<1> USE DEF TypeInv, lineVars, drrVars, pumpVars, callVars, FailEnd
<1>1. TypeOK'
  BY DEF TypeOK, Locals, PumpState, CallState, Verdict
<1>2. Lines'
  BY DEF Lines
<1>3. Locals'
  BY DEF TypeOK, Locals, Holder, CallState, PumpState
<1>4. Holder'
  BY DEF TypeOK, Holder, CallState
<1> QED
  BY <1>1, <1>2, <1>3, <1>4

\* The pump going to sleep keeps the type invariant.
LEMMA PumpIdleType == ASSUME TypeInv, PumpIdle PROVE TypeInv'
<1> USE DEF TypeInv, lineVars, drrVars, pumpVars, callVars, PumpIdle
<1>1. TypeOK'
  BY DEF TypeOK, Locals, PumpState, CallState, Verdict
<1>2. Lines'
  BY DEF Lines
<1>3. Locals'
  BY DEF TypeOK, Locals, Holder, CallState, PumpState
<1>4. Holder'
  BY DEF TypeOK, Holder, CallState
<1> QED
  BY <1>1, <1>2, <1>3, <1>4

\* The pump waking up keeps the type invariant.
LEMMA PumpWakeType == ASSUME TypeInv, PumpWake PROVE TypeInv'
<1> USE DEF TypeInv, lineVars, drrVars, pumpVars, callVars, PumpWake
<1>1. TypeOK'
  BY DEF TypeOK, Locals, PumpState, CallState, Verdict
<1>2. Lines'
  BY DEF Lines
<1>3. Locals'
  BY DEF TypeOK, Locals, Holder, CallState, PumpState
<1>4. Holder'
  BY DEF TypeOK, Holder, CallState
<1> QED
  BY <1>1, <1>2, <1>3, <1>4

\* The pump ending keeps the type invariant.
LEMMA PumpExitType == ASSUME TypeInv, PumpExit PROVE TypeInv'
<1> USE DEF TypeInv, lineVars, drrVars, pumpVars, callVars, PumpExit
<1>1. TypeOK'
  BY DEF TypeOK, Locals, PumpState, CallState, Verdict
<1>2. Lines'
  BY DEF Lines
<1>3. Locals'
  BY DEF TypeOK, Locals, Holder, CallState, PumpState
<1>4. Holder'
  BY DEF TypeOK, Holder, CallState
<1> QED
  BY <1>1, <1>2, <1>3, <1>4

\* The delivery of a verdict keeps the type invariant.
LEMMA DeliverType == ASSUME TypeInv, Deliver PROVE TypeInv'
<1> USE DEF TypeInv, lineVars, drrVars, pumpVars, callVars, Deliver
<1>1. TypeOK'
  BY DEF TypeOK, Locals, PumpState, CallState, Verdict
<1>2. Lines'
  BY DEF Lines
<1>3. Locals'
  BY DEF TypeOK, Locals, Holder, CallState, PumpState
<1>4. Holder'
  BY DEF TypeOK, Holder, CallState
<1> QED
  BY <1>1, <1>2, <1>3, <1>4

\* popLocked: what it leaves, given round robins that are well formed.
LEMMA PopType ==
    ASSUME TypeInv, NEW cl \in Class, queues[cl] # <<>>,
           NEW o \in RoundRobin, NEW i \in RoundRobin, Pop(cl, o, i)
    PROVE  /\ queues' \in [Class -> Seq(Request)]
           /\ \A d \in Class : queues'[d] \in Seq(Of(d))
           /\ outer' \in RoundRobin /\ inner' \in RoundRobin
           /\ active' \in Request /\ active' \in Of(cl)
           /\ wrote' \in [Callers -> {"no", "writing", "ok", "failed"}]
           /\ pump' = "writing" /\ mu' = "free"
<1>1. Head(queues[cl]) \in Of(cl) /\ Tail(queues[cl]) \in Seq(Of(cl))
  BY HeadTailProperties DEF TypeInv, Lines
<1>2. Head(queues[cl]) \in Request
  BY <1>1, OfClass
<1>3. queues' = [queues EXCEPT ![cl] = Tail(queues[cl])]
  BY DEF Pop
<1>4. /\ queues' \in [Class -> Seq(Request)]
      /\ \A d \in Class : queues'[d] \in Seq(Of(d))
  BY <1>1, <1>3, LineUpdate DEF TypeInv, TypeOK, Lines
<1>5. outer' \in RoundRobin /\ inner' \in RoundRobin
  BY ResetClosed DEF Pop
<1>6. wrote' \in [Callers -> {"no", "writing", "ok", "failed"}]
  BY DEF Pop, TypeInv, TypeOK
<1> QED
  BY <1>1, <1>2, <1>4, <1>5, <1>6 DEF Pop

\* A step of the pump that takes a request to the writer keeps the type
\* invariant.
LEMMA TakeType ==
    ASSUME TypeInv, NEW cl \in Class, queues[cl] # <<>>,
           NEW o \in RoundRobin, NEW i \in RoundRobin, Pop(cl, o, i),
           mu \in {"free", "outer", "inner"}, mu = "free" => pump = "next",
           controlBurst' \in 0 .. ControlBurstLimit, saved' \in RoundRobin,
           UNCHANGED <<bytes, waiters, terminal, admitting, notified,
                       writeErr, callVars, ready, done>>
    PROVE  TypeInv'
<1> USE DEF TypeInv, callVars
<1>1. /\ queues' \in [Class -> Seq(Request)]
      /\ \A d \in Class : queues'[d] \in Seq(Of(d))
      /\ outer' \in RoundRobin /\ inner' \in RoundRobin
      /\ active' \in Request
      /\ wrote' \in [Callers -> {"no", "writing", "ok", "failed"}]
      /\ pump' = "writing" /\ mu' = "free"
  BY PopType
<1>2. TypeOK'
  BY <1>1 DEF TypeOK, PumpState
<1>3. Lines'
  BY <1>1 DEF Lines
<1>4. Locals'
  BY <1>1 DEF Locals
<1>5. Holder'
  BY <1>1 DEF Holder
<1> QED
  BY <1>2, <1>3, <1>4, <1>5

\* The pump taking a control frame keeps the type invariant.
LEMMA PumpControlType == ASSUME TypeInv, PumpControl PROVE TypeInv'
<1>1. controlBurst' \in 0 .. ControlBurstLimit
  BY SchedulerAssumption DEF PumpControl, TypeInv, TypeOK
<1>2. Control \in Class
  BY DEF Class
<1>3. outer \in RoundRobin /\ inner \in RoundRobin /\ saved \in RoundRobin
  BY DEF TypeInv, TypeOK
<1> QED
  BY <1>1, <1>2, <1>3, TakeType DEF PumpControl

\* The pump taking a bulk frame keeps the type invariant.
LEMMA TakeBulkType == ASSUME TypeInv, TakeBulk PROVE TypeInv'
<1>1. Bulk \in Class /\ queues[Bulk] # <<>>
  BY DEF Class, TakeBulk
<1>2. Head(queues[Bulk]) \in Of(Bulk)
  BY <1>1, HeadTailProperties DEF TypeInv, Lines
<1>3. Head(queues[Bulk]).len \in Nat
  BY <1>1, <1>2, OfClass
<1>4. inner \in RoundRobin /\ saved \in RoundRobin /\ outer \in RoundRobin
  BY DEF TypeInv, TypeOK
<1>5. Charge(outer, 1, Head(queues[Bulk]).len) \in RoundRobin
  BY <1>3, <1>4, ChargeClosed DEF TakeBulk
<1>6. controlBurst' \in 0 .. ControlBurstLimit
  BY SchedulerAssumption DEF TakeBulk
<1> QED
  BY <1>1, <1>4, <1>5, <1>6, TakeType DEF TakeBulk

\* The pump taking a media frame keeps the type invariant.
LEMMA TakeMediaType == ASSUME TypeInv, TakeMedia PROVE TypeInv'
<1> DEFINE cl == MediaLane[inner.current]
<1>1. inner \in RoundRobin /\ outer \in RoundRobin
  BY DEF TypeInv, TypeOK
<1>2. inner.current \in {0, 1}
  BY <1>1 DEF RoundRobin
<1>3. cl \in Class /\ queues[cl] # <<>>
  BY <1>2 DEF TakeMedia, InnerFits, InnerBacklog, MediaLane, Class, Media
<1>4. MediaHead \in Of(cl)
  BY <1>3, HeadTailProperties DEF TypeInv, Lines, MediaHead
<1>5. MediaHead.len \in Nat
  BY <1>3, <1>4, OfClass
<1>6. /\ Charge(outer, 0, MediaHead.len) \in RoundRobin
      /\ Charge(inner, inner.current, MediaHead.len) \in RoundRobin
  BY <1>1, <1>2, <1>5, ChargeClosed DEF TakeMedia, InnerFits
<1>7. controlBurst' \in 0 .. ControlBurstLimit /\ saved' \in RoundRobin
  BY SchedulerAssumption, RoundRobinClosed, <1>1 DEF TakeMedia
<1> HIDE DEF cl
<1>8. Pop(cl, Charge(outer, 0, MediaHead.len), Charge(inner, inner.current, MediaHead.len))
  BY DEF TakeMedia, cl
<1> QED
  BY <1>3, <1>6, <1>7, <1>8, TakeType DEF TakeMedia, InnerFits

\* The entry of nextDataLocked keeps the type invariant.
LEMMA PumpDataType == ASSUME TypeInv, PumpData PROVE TypeInv'
<1> USE DEF TypeInv, lineVars, pumpVars, callVars, PumpData
<1>1. outer' \in RoundRobin /\ inner' \in RoundRobin /\ saved' \in RoundRobin
  BY RoundRobinClosed DEF TypeOK
<1>2. TypeOK'
  BY <1>1 DEF TypeOK, PumpState
<1>3. Lines'
  BY DEF Lines
<1>4. Locals'
  BY DEF Locals, Holder, TypeOK
<1>5. Holder'
  BY DEF Holder, TypeOK
<1> QED
  BY <1>2, <1>3, <1>4, <1>5

\* A lane passing its turn keeps the type invariant.
LEMMA OuterPassType == ASSUME TypeInv, OuterPass PROVE TypeInv'
<1> USE DEF TypeInv, lineVars, pumpVars, callVars, OuterPass
<1>1. outer' \in RoundRobin /\ inner' \in RoundRobin /\ saved' \in RoundRobin
  BY RoundRobinClosed DEF TypeOK
<1>2. TypeOK'
  BY <1>1 DEF TypeOK, PumpState
<1>3. Lines'
  BY DEF Lines
<1>4. Locals'
  BY DEF Locals, Holder, TypeOK
<1>5. Holder'
  BY DEF Holder, TypeOK
<1> QED
  BY <1>2, <1>3, <1>4, <1>5

\* The entry of peekMediaLocked keeps the type invariant.
LEMMA PeekMediaType == ASSUME TypeInv, PeekMedia PROVE TypeInv'
<1> USE DEF TypeInv, lineVars, pumpVars, callVars, PeekMedia
<1>1. outer' \in RoundRobin /\ inner' \in RoundRobin /\ saved' \in RoundRobin
  BY RoundRobinClosed DEF TypeOK
<1>2. TypeOK'
  BY <1>1 DEF TypeOK, PumpState
<1>3. Lines'
  BY DEF Lines
<1>4. Locals'
  BY DEF Locals, Holder, TypeOK
<1>5. Holder'
  BY DEF Holder, TypeOK
<1> QED
  BY <1>2, <1>3, <1>4, <1>5

\* A media lane passing its turn keeps the type invariant.
LEMMA InnerPassType == ASSUME TypeInv, InnerPass PROVE TypeInv'
<1> USE DEF TypeInv, lineVars, pumpVars, callVars, InnerPass
<1>1. outer' \in RoundRobin /\ inner' \in RoundRobin /\ saved' \in RoundRobin
  BY RoundRobinClosed DEF TypeOK
<1>2. TypeOK'
  BY <1>1 DEF TypeOK, PumpState
<1>3. Lines'
  BY DEF Lines
<1>4. Locals'
  BY DEF Locals, Holder, TypeOK
<1>5. Holder'
  BY DEF Holder, TypeOK
<1> QED
  BY <1>2, <1>3, <1>4, <1>5

\* Undoing the peek keeps the type invariant.
LEMMA RefuseMediaType == ASSUME TypeInv, RefuseMedia PROVE TypeInv'
<1> USE DEF TypeInv, lineVars, pumpVars, callVars, RefuseMedia
<1>1. outer' \in RoundRobin /\ inner' \in RoundRobin /\ saved' \in RoundRobin
  BY RoundRobinClosed DEF TypeOK
<1>2. TypeOK'
  BY <1>1 DEF TypeOK, PumpState
<1>3. Lines'
  BY DEF Lines
<1>4. Locals'
  BY DEF Locals, Holder, TypeOK, InnerFits
<1>5. Holder'
  BY DEF Holder, TypeOK, InnerFits
<1> QED
  BY <1>2, <1>3, <1>4, <1>5

\* Send keeps the type invariant.
LEMMA SendType ==
    ASSUME TypeInv, NEW call \in Calls, Send(call.caller, call) PROVE TypeInv'
<1> DEFINE c == call.caller
           cl == call.class
<1> USE DEF TypeInv
<1>1. /\ call \in Request /\ call \in Of(cl) /\ cl \in Class /\ c \in Callers
      /\ call.len <= Cap[cl]
  BY ValidCall DEF Send
<1>2. req' = [req EXCEPT ![c] = call] /\ mu = "free" /\ pc[c] = "idle"
  BY DEF Send
<1>3. pc' = [pc EXCEPT ![c] = IF HasRoom(call) THEN "wait" ELSE "admit"]
  BY DEF Send
<1>4. /\ queues' \in [Class -> Seq(Request)] /\ waiters' \in [Class -> Seq(Request)]
      /\ bytes' \in [Class -> Int] /\ notified' \in BOOLEAN
      /\ Lines'
  <2>1. CASE HasRoom(call)
    <3>1. Enqueue(call) /\ waiters' = waiters
      BY <2>1 DEF Send
    <3> QED
      BY <1>1, <3>1, EnqueueLines DEF Lines, TypeOK
  <2>2. CASE ~HasRoom(call)
    <3>1. waiters' = [waiters EXCEPT ![cl] = Append(waiters[cl], call)]
          /\ UNCHANGED <<queues, bytes, notified>>
      BY <2>2 DEF Send
    <3>2. Append(waiters[cl], call) \in Seq(Of(cl))
      BY <1>1, AppendProperties DEF Lines
    <3>3. /\ waiters' \in [Class -> Seq(Request)]
          /\ \A d \in Class : waiters'[d] \in Seq(Of(d))
      BY <1>1, <3>1, <3>2, LineUpdate DEF Lines, TypeOK
    <3> QED
      BY <3>1, <3>3 DEF Lines, TypeOK
  <2> QED
    BY <2>1, <2>2
<1>5. /\ UNCHANGED <<terminal, controlBurst, outer, inner, saved, mu, admitting, pump, active>>
      /\ UNCHANGED <<writeErr, ready, done, wrote>>
  BY DEF Send, drrVars, pumpVars
<1>6. pc' \in [Callers -> CallState] /\ req' \in [Callers -> Request \cup {None}]
  BY <1>1, <1>2, <1>3 DEF TypeOK, CallState
<1>7. TypeOK'
  BY <1>4, <1>5, <1>6 DEF TypeOK
<1>8. Locals'
  BY <1>1, <1>2, <1>3, <1>5 DEF Locals, TypeOK
<1>9. Holder'
  BY <1>1, <1>2, <1>3, <1>5 DEF Holder, TypeOK
<1> QED
  BY <1>4, <1>7, <1>8, <1>9

\* The class of a caller inside Send.
LEMMA ReqClass ==
    ASSUME TypeInv, NEW c \in Callers, pc[c] # "idle"
    PROVE  /\ req[c] \in Request /\ req[c].class \in Class /\ req[c].len \in Nat \ {0}
           /\ req[c].caller = c
  BY DEF TypeInv, Locals, Request

\* A cancelled waiter keeps the type invariant.
LEMMA CancelWaiterType == ASSUME TypeInv, NEW c \in Callers, CancelWaiter(c) PROVE TypeInv'
<1> DEFINE cl == req[c].class
<1> USE DEF TypeInv, pumpVars
<1>1. cl \in Class
  BY ReqClass DEF CancelWaiter
<1>2. CASE pc' = [pc EXCEPT ![c] = "admitLast"] /\ UNCHANGED <<waiters, outer, inner, mu, admitting>>
  <2>1. TypeOK'
    BY <1>2 DEF CancelWaiter, TypeOK, CallState
  <2>2. Lines' /\ Locals' /\ Holder'
    BY <1>2 DEF CancelWaiter, Lines, Locals, Holder, TypeOK
  <2> QED
    BY <2>1, <2>2
<1>3. ASSUME NEW i \in DOMAIN waiters[cl],
             waiters' = [waiters EXCEPT ![cl] = RemoveAt(waiters[cl], i)],
             outer' = ResetOuter(cl, queues, waiters', outer),
             inner' = ResetInner(cl, queues, waiters', inner),
             mu' = "admit", admitting' = cl, pc' = [pc EXCEPT ![c] = "locked"]
      PROVE  TypeInv'
  <2>1. RemoveAt(waiters[cl], i) \in Seq(Of(cl))
    BY <1>1, <1>3, RemoveAtProperties, LenProperties DEF Lines
  <2>2. /\ waiters' \in [Class -> Seq(Request)]
        /\ \A d \in Class : waiters'[d] \in Seq(Of(d))
    <3>1. waiters \in [Class -> Seq(Request)] /\ \A d \in Class : waiters[d] \in Seq(Of(d))
      BY DEF Lines, TypeOK
    <3>2. waiters' = [waiters EXCEPT ![cl] = RemoveAt(waiters[cl], i)]
      BY <1>3
    <3> QED
      BY <1>1, <2>1, <3>1, <3>2, LineUpdate
  <2>3. outer' \in RoundRobin /\ inner' \in RoundRobin
    BY <1>3, ResetClosed DEF TypeOK
  <2>4. pc' \in [Callers -> CallState]
    BY <1>3 DEF TypeOK, CallState
  <2>5. TypeOK'
    BY <1>1, <1>3, <2>2, <2>3, <2>4 DEF CancelWaiter, TypeOK
  <2>6. Lines'
    BY <2>2 DEF Lines, CancelWaiter
  <2>7. Locals'
    BY <1>1, <1>3 DEF Locals, Holder, TypeOK, CancelWaiter
  <2>8. Holder'
    BY <1>3 DEF Holder, TypeOK, CancelWaiter
  <2> QED
    BY <2>5, <2>6, <2>7, <2>8
<1> QED
  BY <1>2, <1>3 DEF CancelWaiter

\* A cancelled queued request keeps the type invariant.
LEMMA CancelQueuedType == ASSUME TypeInv, NEW c \in Callers, CancelQueued(c) PROVE TypeInv'
<1> DEFINE cl == req[c].class
<1> USE DEF TypeInv, pumpVars
<1>1. cl \in Class
  BY ReqClass DEF CancelQueued
<1>2. CASE pc' = [pc EXCEPT ![c] = "waitLast"] /\ UNCHANGED <<queues, bytes, outer, inner, mu, admitting>>
  <2>1. TypeOK'
    BY <1>2 DEF CancelQueued, TypeOK, CallState
  <2>2. Lines' /\ Locals' /\ Holder'
    BY <1>2 DEF CancelQueued, Lines, Locals, Holder, TypeOK
  <2> QED
    BY <2>1, <2>2
<1>3. ASSUME NEW i \in DOMAIN queues[cl],
             queues' = [queues EXCEPT ![cl] = RemoveAt(queues[cl], i)],
             Refund(req[c]),
             outer' = ResetOuter(cl, queues', waiters, outer),
             inner' = ResetInner(cl, queues', waiters, inner),
             mu' = "admit", admitting' = cl, pc' = [pc EXCEPT ![c] = "locked"]
      PROVE  TypeInv'
  <2>1. RemoveAt(queues[cl], i) \in Seq(Of(cl))
    BY <1>1, <1>3, RemoveAtProperties, LenProperties DEF Lines
  <2>2. /\ queues' \in [Class -> Seq(Request)]
        /\ \A d \in Class : queues'[d] \in Seq(Of(d))
    <3>1. queues \in [Class -> Seq(Request)] /\ \A d \in Class : queues[d] \in Seq(Of(d))
      BY DEF Lines, TypeOK
    <3>2. queues' = [queues EXCEPT ![cl] = RemoveAt(queues[cl], i)]
      BY <1>3
    <3> QED
      BY <1>1, <2>1, <3>1, <3>2, LineUpdate
  <2>3. outer' \in RoundRobin /\ inner' \in RoundRobin
    BY <1>3, ResetClosed DEF TypeOK
  <2>9. bytes' \in [Class -> Int]
    BY <1>1, <1>3, ReqClass DEF Refund, TypeOK, CancelQueued
  <2>4. pc' \in [Callers -> CallState]
    BY <1>3 DEF TypeOK, CallState
  <2>5. TypeOK'
    BY <1>1, <1>3, <2>2, <2>3, <2>4, <2>9 DEF CancelQueued, TypeOK
  <2>6. Lines'
    BY <2>2 DEF Lines, CancelQueued
  <2>7. Locals'
    BY <1>1, <1>3 DEF Locals, Holder, TypeOK, CancelQueued
  <2>8. Holder'
    BY <1>3 DEF Holder, TypeOK, CancelQueued
  <2> QED
    BY <2>5, <2>6, <2>7, <2>8
<1> QED
  BY <1>2, <1>3 DEF CancelQueued

\* Admitting a waiter keeps the type invariant.
LEMMA AdmitOneType == ASSUME TypeInv, AdmitOne PROVE TypeInv'
<1> DEFINE cl == admitting
           w == Head(waiters[admitting])
<1> USE DEF TypeInv, drrVars, pumpVars, callVars
<1>1. cl \in Class /\ waiters[cl] # <<>>
  BY DEF AdmitOne, FitsNext, Locals
<1>2. w \in Of(cl) /\ Tail(waiters[cl]) \in Seq(Of(cl))
  BY <1>1, HeadTailProperties DEF Lines
<1>3. Enqueue(w) /\ waiters' = [waiters EXCEPT ![cl] = Tail(waiters[cl])]
      /\ ready' = [ready EXCEPT ![w.caller] = "nil"]
  BY DEF AdmitOne
<1>4. /\ queues' \in [Class -> Seq(Request)]
      /\ \A d \in Class : queues'[d] \in Seq(Of(d))
      /\ bytes' \in [Class -> Int]
      /\ notified' = TRUE
  BY <1>1, <1>2, <1>3, EnqueueLines
<1>5. /\ waiters' \in [Class -> Seq(Request)]
      /\ \A d \in Class : waiters'[d] \in Seq(Of(d))
  BY <1>1, <1>2, <1>3, LineUpdate DEF Lines, TypeOK
<1>6. ready' \in [Callers -> Verdict]
  BY <1>3 DEF TypeOK, Verdict
<1>7. TypeOK'
  BY <1>4, <1>5, <1>6 DEF AdmitOne, TypeOK
<1>8. Lines'
  BY <1>4, <1>5 DEF Lines
<1>9. Locals' /\ Holder'
  BY DEF AdmitOne, Locals, Holder
<1> QED
  BY <1>7, <1>8, <1>9

\* Failing a queued request keeps the type invariant.
LEMMA FailOneType == ASSUME TypeInv, FailOne PROVE TypeInv'
<1> USE DEF TypeInv, drrVars, pumpVars, callVars
<1>1. PICK cl \in Class :
        /\ queues[cl] # <<>>
        /\ Refund(Head(queues[cl]))
        /\ done' = [done EXCEPT ![Head(queues[cl]).caller] = terminal]
        /\ queues' = [queues EXCEPT ![cl] = Tail(queues[cl])]
  BY DEF FailOne
<1>2. Head(queues[cl]) \in Of(cl) /\ Tail(queues[cl]) \in Seq(Of(cl))
  BY <1>1, HeadTailProperties DEF Lines
<1>3. Head(queues[cl]).class = cl /\ Head(queues[cl]).len \in Nat
  BY <1>2, OfClass
<1>4. bytes' \in [Class -> Int]
  BY <1>1, <1>3 DEF Refund, TypeOK
<1>5. /\ queues' \in [Class -> Seq(Request)]
      /\ \A d \in Class : queues'[d] \in Seq(Of(d))
  BY <1>1, <1>2, LineUpdate DEF Lines, TypeOK
<1>6. done' \in [Callers -> Verdict]
  BY <1>1 DEF TypeOK, Verdict, FailOne, Holder
<1>7. TypeOK'
  BY <1>4, <1>5, <1>6 DEF FailOne, TypeOK
<1>8. Lines'
  BY <1>5 DEF Lines, FailOne
<1>9. Locals' /\ Holder'
  BY DEF FailOne, Locals, Holder
<1> QED
  BY <1>7, <1>8, <1>9

\* Ending the scheduler: every waiter gets the verdict, the lines are empty.
LEMMA TerminateType ==
    ASSUME TypeInv, NEW err \in {"closed", "failed"}, Terminate(err)
    PROVE  /\ waiters' \in [Class -> Seq(Request)]
           /\ \A d \in Class : waiters'[d] = <<>> /\ waiters'[d] \in Seq(Of(d))
           /\ ready' \in [Callers -> Verdict]
           /\ terminal' = err /\ mu' = "fail"
<1>1. \A S : <<>> \in Seq(S)
  BY EmptySeq
<1>2. waiters' = [cl \in Class |-> <<>>]
  BY DEF Terminate
<1>3. \A c \in Callers : ready[c] \in Verdict /\ err \in Verdict
  BY DEF TypeInv, TypeOK, Verdict
<1>4. ready' \in [Callers -> Verdict]
  BY <1>3 DEF Terminate
<1> QED
  BY <1>1, <1>2, <1>4 DEF Terminate

\* Close keeps the type invariant.
LEMMA CloseType == ASSUME TypeInv, Close PROVE TypeInv'
<1> USE DEF TypeInv, drrVars, pumpVars, callVars
<1>1. /\ waiters' \in [Class -> Seq(Request)]
      /\ \A d \in Class : waiters'[d] \in Seq(Of(d))
      /\ ready' \in [Callers -> Verdict]
      /\ terminal' = "closed" /\ mu' = "fail"
  BY TerminateType DEF Close
<1>2. TypeOK'
  BY <1>1 DEF Close, TypeOK
<1>3. Lines'
  BY <1>1 DEF Close, Lines
<1>4. Locals' /\ Holder'
  BY <1>1 DEF Close, Locals, Holder
<1> QED
  BY <1>2, <1>3, <1>4

\* The end of a write keeps the type invariant.
LEMMA WriteReturnsType ==
    ASSUME TypeInv, NEW err \in {"nil", "failed"}, WriteReturns(err) PROVE TypeInv'
<1> USE DEF TypeInv, drrVars, callVars
<1>1. active \in Request /\ active.class \in Class /\ active.len \in Nat
  BY DEF WriteReturns, Locals, Request
<1>2. bytes' \in [Class -> Int]
  BY <1>1 DEF WriteReturns, Refund, TypeOK
<1>3. wrote' \in [Callers -> {"no", "writing", "ok", "failed"}]
  <2>1. \A c \in Callers : wrote[c] \in {"no", "writing", "ok", "failed"}
    BY DEF TypeOK
  <2>2. wrote' = [wrote EXCEPT ![active.caller] = IF err = "nil" THEN "ok" ELSE "failed"]
    BY DEF WriteReturns
  <2> QED
    BY <2>1, <2>2 DEF TypeOK
<1>4. /\ waiters' \in [Class -> Seq(Request)]
      /\ \A d \in Class : waiters'[d] \in Seq(Of(d))
      /\ ready' \in [Callers -> Verdict]
      /\ \/ terminal' = "failed" /\ mu' = "fail" /\ pump' = "locked" /\ admitting' = admitting
         \/ /\ terminal' = terminal /\ mu' = "admit" /\ pump' = "locked"
            /\ admitting' = active.class
         \/ /\ terminal' = terminal /\ mu' = mu /\ pump' = "deliver" /\ admitting' = admitting
      /\ notified' \in BOOLEAN
  <2>1. CASE terminal = "open" /\ err # "nil"
    <3>1. Terminate(err) /\ err = "failed" /\ pump' = "locked" /\ UNCHANGED <<admitting, notified>>
      BY <2>1 DEF WriteReturns
    <3> QED
      BY <3>1, TerminateType DEF TypeOK
  <2>2. CASE terminal = "open" /\ err = "nil"
    BY <2>2 DEF WriteReturns, TypeOK, Lines
  <2>3. CASE terminal # "open"
    BY <2>3 DEF WriteReturns, TypeOK, Lines
  <2> QED
    BY <2>1, <2>2, <2>3
<1>5. TypeOK'
  BY <1>1, <1>2, <1>3, <1>4 DEF WriteReturns, TypeOK, PumpState
<1>6. Lines'
  BY <1>4 DEF WriteReturns, Lines
<1>7. Locals' /\ Holder'
  BY <1>1, <1>4 DEF WriteReturns, Locals, Holder, TypeOK
<1> QED
  BY <1>5, <1>6, <1>7

\* The type invariant is inductive.
LEMMA TypeInvStep == TypeInv /\ [Next]_vars => TypeInv'
<1> SUFFICES ASSUME TypeInv, [Next]_vars PROVE TypeInv'
  OBVIOUS
<1>1. CASE UNCHANGED vars
  BY <1>1 DEF vars, TypeInv, TypeOK, Lines, Locals, Holder
<1>2. CASE PumpStep
  BY <1>2, PumpControlType, PumpDataType, PumpIdleType, PumpWakeType, PumpExitType,
     OuterPassType, TakeBulkType, PeekMediaType, InnerPassType, TakeMediaType,
     RefuseMediaType, DeliverType, WriteReturnsType DEF PumpStep
<1>3. CASE LoopStep
  BY <1>3, AdmitOneType, AdmitEndType, FailOneType, FailEndType DEF LoopStep
<1>4. ASSUME NEW c \in Callers, CallerStep(c) PROVE TypeInv'
  BY <1>4, ReceiveReadyType, ReceiveDoneType, SelectCtxType, CancelWaiterType,
     CancelQueuedType DEF CallerStep, CallerRuns
<1> QED
  BY <1>1, <1>2, <1>3, <1>4, SendType, CloseType DEF Next

\* Every field of the scheduler and every local of Send and of the pump keeps
\* its type under every interleaving.
THEOREM TypeCorrect == Spec => []TypeOK
<1>1. TypeInv => TypeOK
  BY DEF TypeInv
<1> QED
  BY <1>1, InitTypeInv, TypeInvStep, PTL DEF Spec

------------------------------------------------------------------------------
(* Admission                                                               *)

\* The steps that move no bytes: every step but an admission and a refund.
LEMMA BytesMove ==
    ASSUME TypeInv, [Next]_vars
    PROVE  \/ bytes' = bytes
           \/ \E cl \in Class : \E n \in Nat :
                /\ bytes' = [bytes EXCEPT ![cl] = @ + n]
                /\ bytes[cl] + n <= Cap[cl]
           \/ \E cl \in Class : \E n \in Nat : bytes' = [bytes EXCEPT ![cl] = @ - n]
<1> DEFINE Grow == \E cl \in Class : \E n \in Nat :
                        /\ bytes' = [bytes EXCEPT ![cl] = @ + n]
                        /\ bytes[cl] + n <= Cap[cl]
           Shrink == \E cl \in Class : \E n \in Nat : bytes' = [bytes EXCEPT ![cl] = @ - n]
<1>1. ASSUME NEW call \in Calls, Send(call.caller, call) PROVE bytes' = bytes \/ Grow
  <2>1. call.class \in Class /\ call.len \in Nat
    BY <1>1, ValidCall, OfClass DEF Send
  <2>2. CASE HasRoom(call)
    BY <1>1, <2>1, <2>2 DEF Send, Enqueue, HasRoom
  <2>3. CASE ~HasRoom(call)
    BY <1>1, <2>3 DEF Send
  <2> QED
    BY <2>2, <2>3
<1>2. ASSUME AdmitOne PROVE Grow
  <2>1. admitting \in Class /\ waiters[admitting] # <<>>
    BY <1>2 DEF AdmitOne, FitsNext, TypeInv, Locals
  <2>2. Head(waiters[admitting]) \in Of(admitting)
    BY <2>1, HeadTailProperties DEF TypeInv, Lines
  <2>3. Head(waiters[admitting]).len \in Nat /\ Head(waiters[admitting]).class = admitting
    BY <2>1, <2>2, OfClass
  <2> QED
    BY <1>2, <2>1, <2>3 DEF AdmitOne, FitsNext, Enqueue
<1>3. ASSUME NEW c \in Callers, CancelQueued(c) PROVE bytes' = bytes \/ Shrink
  <2>1. req[c].class \in Class /\ req[c].len \in Nat
    BY <1>3, ReqClass DEF CancelQueued
  <2> QED
    BY <1>3, <2>1 DEF CancelQueued, Refund
<1>4. ASSUME FailOne PROVE Shrink
  <2>1. PICK cl \in Class : queues[cl] # <<>> /\ Refund(Head(queues[cl]))
    BY <1>4 DEF FailOne
  <2>2. Head(queues[cl]) \in Of(cl)
    BY <2>1, HeadTailProperties DEF TypeInv, Lines
  <2>3. Head(queues[cl]).len \in Nat /\ Head(queues[cl]).class = cl
    BY <2>2, OfClass
  <2> QED
    BY <2>1, <2>3 DEF Refund
<1>5. ASSUME NEW err \in {"nil", "failed"}, WriteReturns(err) PROVE Shrink
  <2>1. active.class \in Class /\ active.len \in Nat
    BY <1>5 DEF WriteReturns, TypeInv, Locals, Request
  <2> QED
    BY <1>5, <2>1 DEF WriteReturns, Refund
<1>6. ASSUME NEW c \in Callers,
             ReceiveReady(c) \/ ReceiveDone(c) \/ SelectCtx(c) \/ CancelWaiter(c)
      PROVE  bytes' = bytes
  BY <1>6 DEF ReceiveReady, ReceiveDone, SelectCtx, CancelWaiter, lineVars
<1>7. CASE Close \/ AdmitEnd \/ FailEnd \/ UNCHANGED vars
  BY <1>7 DEF Close, AdmitEnd, FailEnd, vars, lineVars
<1>8. CASE PumpControl \/ PumpData \/ PumpIdle \/ PumpWake \/ PumpExit \/ Deliver
  BY <1>8 DEF PumpControl, PumpData, PumpIdle, PumpWake, PumpExit, Deliver, lineVars
<1>9. CASE OuterPass \/ TakeBulk \/ PeekMedia \/ InnerPass \/ TakeMedia \/ RefuseMedia
  BY <1>9 DEF OuterPass, TakeBulk, PeekMedia, InnerPass, TakeMedia, RefuseMedia, lineVars
<1> QED
  BY <1>1, <1>2, <1>3, <1>4, <1>5, <1>6, <1>7, <1>8, <1>9
  DEF Next, PumpStep, LoopStep, CallerStep, CallerRuns

\* No class ever holds more than its cap: admission is the only way in, by Send
\* or by admitWaitersLocked, and both look at the bytes under the same lock.
THEOREM CapsHold == Spec => []CapRespected
<1>1. Init => CapRespected
  BY SchedulerAssumption DEF Init, CapRespected
<1>2. TypeInv /\ CapRespected /\ [Next]_vars => CapRespected'
  <2> SUFFICES ASSUME TypeInv, CapRespected, [Next]_vars PROVE CapRespected'
    OBVIOUS
  <2>1. bytes \in [Class -> Int] /\ \A cl \in Class : Cap[cl] \in Nat
    BY SchedulerAssumption DEF TypeInv, TypeOK
  <2>2. ASSUME NEW cl \in Class, NEW n \in Nat, bytes[cl] + n <= Cap[cl],
               bytes' = [bytes EXCEPT ![cl] = @ + n]
        PROVE  CapRespected'
    BY <2>1, <2>2 DEF CapRespected
  <2>3. ASSUME NEW cl \in Class, NEW n \in Nat, bytes' = [bytes EXCEPT ![cl] = @ - n]
        PROVE  CapRespected'
    BY <2>1, <2>3 DEF CapRespected
  <2>4. CASE bytes' = bytes
    BY <2>4 DEF CapRespected
  <2> QED
    BY <2>2, <2>3, <2>4, BytesMove
<1> QED
  BY <1>1, <1>2, InitTypeInv, TypeInvStep, PTL DEF Spec

\* The pump never sleeps through work: PumpIdle looked at the queues under the
\* lock, and everything that fills one or ends the scheduler signals.
THEOREM WakeupsArrive == Spec => []NoLostWakeup
<1>1. Init => NoLostWakeup
  BY DEF Init, NoLostWakeup
<1>2. TypeInv /\ NoLostWakeup /\ [Next]_vars => NoLostWakeup'
  <2> SUFFICES ASSUME TypeInv, NoLostWakeup, [Next]_vars PROVE NoLostWakeup'
    OBVIOUS
  <2> USE DEF NoLostWakeup
  <2>1. ASSUME NEW call \in Calls, Send(call.caller, call) PROVE NoLostWakeup'
    BY <2>1 DEF Send, Enqueue, pumpVars
  <2>2. CASE AdmitOne
    BY <2>2 DEF AdmitOne, Enqueue
  <2>3. ASSUME NEW c \in Callers, CancelQueued(c) PROVE NoLostWakeup'
    <3>1. req[c].class \in Class
      BY <2>3, ReqClass DEF CancelQueued
    <3>2. CASE UNCHANGED queues
      BY <2>3, <3>2 DEF CancelQueued, pumpVars
    <3>3. CASE \E i \in DOMAIN queues[req[c].class] : TRUE
      <4>1. queues[req[c].class] # <<>>
        BY <3>1, <3>3
      <4>2. mu = "free" /\ UNCHANGED <<pump, notified>>
        BY <2>3 DEF CancelQueued, pumpVars
      <4> QED
        BY <3>1, <4>1, <4>2
    <3> QED
      BY <2>3, <3>2, <3>3 DEF CancelQueued
  <2>4. ASSUME NEW c \in Callers,
               ReceiveReady(c) \/ ReceiveDone(c) \/ SelectCtx(c) \/ CancelWaiter(c)
        PROVE  NoLostWakeup'
    BY <2>4 DEF ReceiveReady, ReceiveDone, SelectCtx, CancelWaiter, lineVars, pumpVars
  <2>5. CASE Close \/ FailOne \/ UNCHANGED vars
    BY <2>5 DEF Close, Terminate, FailOne, vars, pumpVars
  <2>6. CASE FailEnd
    BY <2>6 DEF FailEnd
  <2>7. CASE AdmitEnd
    BY <2>7 DEF AdmitEnd, lineVars
  <2>8. CASE PumpControl \/ TakeBulk \/ TakeMedia
    BY <2>8 DEF PumpControl, TakeBulk, TakeMedia, Pop
  <2>9. CASE PumpIdle
    BY <2>9 DEF PumpIdle, lineVars
  <2>10. CASE PumpData \/ PumpWake \/ PumpExit \/ Deliver
    BY <2>10 DEF PumpData, PumpWake, PumpExit, Deliver
  <2>11. CASE OuterPass \/ PeekMedia \/ InnerPass \/ RefuseMedia
    BY <2>11 DEF OuterPass, PeekMedia, InnerPass, RefuseMedia, InnerFits, lineVars, pumpVars
  <2>12. ASSUME NEW err \in {"nil", "failed"}, WriteReturns(err) PROVE NoLostWakeup'
    BY <2>12 DEF WriteReturns
  <2> QED
    BY <2>1, <2>2, <2>3, <2>4, <2>5, <2>6, <2>7, <2>8, <2>9, <2>10, <2>11, <2>12
    DEF Next, PumpStep, LoopStep, CallerStep, CallerRuns
<1> QED
  BY <1>1, <1>2, InitTypeInv, TypeInvStep, PTL DEF Spec

\* The inductive form of NoNeedlessWait: the head of a line does not fit, unless
\* admission of that class is under way; and nobody waits after the end.
Stuck(cl) == waiters[cl] # <<>> => bytes[cl] + Head(waiters[cl]).len > Cap[cl]
WaitInv ==
    /\ \A cl \in Class : ~(mu = "admit" /\ admitting = cl) => Stuck(cl)
    /\ terminal # "open" => \A cl \in Class : waiters[cl] = <<>>

\* A step that keeps the waiters, the bytes and the admitting class.
LEMMA WaitKept ==
    ASSUME WaitInv, UNCHANGED <<waiters, bytes, terminal>>, mu # "admit"
    PROVE  WaitInv'
  BY DEF WaitInv, Stuck

\* Whoever is refused at the door, or stays in line after a frame was written,
\* a waiter left or admission ran, really does not fit.
THEOREM NobodyWaitsNeedlessly == Spec => []NoNeedlessWait
<1>1. Init => WaitInv
  BY DEF Init, WaitInv, Stuck
<1>2. TypeInv /\ WaitInv /\ [Next]_vars => WaitInv'
  <2> SUFFICES ASSUME TypeInv, WaitInv, [Next]_vars PROVE WaitInv'
    OBVIOUS
  <2>0. /\ bytes \in [Class -> Int] /\ \A cl \in Class : Cap[cl] \in Nat
        /\ waiters \in [Class -> Seq(Request)]
    BY SchedulerAssumption DEF TypeInv, TypeOK
  <2>1. ASSUME NEW call \in Calls, Send(call.caller, call) PROVE WaitInv'
    <3> DEFINE cl == call.class
    <3>1. cl \in Class /\ call \in Of(cl) /\ call.len \in Nat /\ call \in Request
      BY <2>1, ValidCall, OfClass DEF Send
    <3>2. mu = "free" /\ mu' = "free" /\ terminal' = "open"
      BY <2>1 DEF Send
    <3>3. CASE HasRoom(call)
      <4>1. waiters' = waiters /\ waiters[cl] = <<>> /\ bytes' = [bytes EXCEPT ![cl] = @ + call.len]
        BY <2>1, <3>3 DEF Send, HasRoom, Enqueue
      <4> QED
        BY <2>0, <3>1, <3>2, <4>1 DEF WaitInv, Stuck
    <3>4. CASE ~HasRoom(call)
      <4>1. waiters' = [waiters EXCEPT ![cl] = Append(waiters[cl], call)] /\ bytes' = bytes
        BY <2>1, <3>4 DEF Send
      <4>2. CASE waiters[cl] = <<>>
        <5>1. bytes[cl] + call.len > Cap[cl]
          BY <2>0, <3>1, <3>4, <4>2 DEF HasRoom
        <5>2. waiters'[cl] = <<call>>
          BY <2>0, <3>1, <4>1, <4>2
        <5>3. Stuck(cl)'
          BY <4>1, <5>1, <5>2 DEF Stuck
        <5>4. \A d \in Class : d # cl => waiters'[d] = waiters[d]
          BY <2>0, <3>1, <4>1
        <5> QED
          BY <3>2, <4>1, <5>3, <5>4 DEF WaitInv, Stuck
      <4>3. CASE waiters[cl] # <<>>
        <5>1. Head(waiters'[cl]) = Head(waiters[cl])
          <6>1. waiters[cl] \in Seq(Request)
            BY <2>0, <3>1
          <6>2. Head(Append(waiters[cl], call)) = Head(waiters[cl])
            BY <3>1, <4>3, <6>1, HeadTailAppend
          <6> QED
            BY <2>0, <3>1, <4>1, <6>2
        <5>2. \A d \in Class : d # cl => waiters'[d] = waiters[d]
          BY <2>0, <3>1, <4>1
        <5> QED
          BY <3>2, <4>1, <4>3, <5>1, <5>2 DEF WaitInv, Stuck
      <4> QED
        BY <4>2, <4>3
    <3> QED
      BY <3>3, <3>4
  <2>2. CASE AdmitOne
    <3>1. admitting \in Class /\ waiters[admitting] # <<>>
      BY <2>2 DEF AdmitOne, FitsNext, TypeInv, Locals
    <3>2. Head(waiters[admitting]) \in Of(admitting)
      BY <3>1, HeadTailProperties DEF TypeInv, Lines
    <3>3. Head(waiters[admitting]).class = admitting
      BY <3>1, <3>2, OfClass
    <3>4. \A d \in Class : d # admitting => waiters'[d] = waiters[d] /\ bytes'[d] = bytes[d]
      BY <2>0, <2>2, <3>1, <3>3 DEF AdmitOne, Enqueue
    <3> QED
      BY <2>2, <3>1, <3>4 DEF AdmitOne, WaitInv, Stuck
  <2>3. CASE AdmitEnd
    <3>1. /\ mu = "admit" /\ ~FitsNext(admitting) /\ mu' = "free"
          /\ UNCHANGED <<waiters, bytes, terminal>>
      BY <2>3 DEF AdmitEnd, lineVars
    <3>2. admitting \in Class
      BY <3>1 DEF TypeInv, Locals
    <3>3. waiters[admitting] # <<>> => Head(waiters[admitting]).len \in Nat
      <4>1. waiters[admitting] # <<>> => Head(waiters[admitting]) \in Of(admitting)
        BY <3>2, HeadTailProperties DEF TypeInv, Lines
      <4> QED
        BY <3>2, <4>1, OfClass
    <3>4. Stuck(admitting)
      BY <2>0, <3>1, <3>2, <3>3 DEF FitsNext, Stuck
    <3> QED
      BY <3>1, <3>4 DEF WaitInv, Stuck
  <2>4. ASSUME NEW c \in Callers, CancelWaiter(c) PROVE WaitInv'
    <3>1. req[c].class \in Class
      BY <2>4, ReqClass DEF CancelWaiter
    <3>2. CASE waiters' = waiters /\ mu' = mu
      BY <2>4, <3>2 DEF CancelWaiter, WaitInv, Stuck
    <3>3. ASSUME NEW i \in DOMAIN waiters[req[c].class],
                 waiters' = [waiters EXCEPT ![req[c].class] = RemoveAt(@, i)],
                 mu' = "admit", admitting' = req[c].class
          PROVE  WaitInv'
      <4>1. waiters[req[c].class] # <<>>
        BY <3>1, <3>3
      <4>2. terminal = "open" /\ terminal' = terminal /\ bytes' = bytes /\ mu = "free"
        BY <2>4, <3>1, <4>1 DEF WaitInv, CancelWaiter
      <4>3. \A d \in Class : d # req[c].class => waiters'[d] = waiters[d]
        BY <2>0, <3>1, <3>3
      <4> QED
        BY <3>3, <4>2, <4>3 DEF WaitInv, Stuck
    <3> QED
      BY <2>4, <3>2, <3>3 DEF CancelWaiter
  <2>5. ASSUME NEW c \in Callers, CancelQueued(c) PROVE WaitInv'
    <3>1. req[c].class \in Class /\ req[c].len \in Nat
      BY <2>5, ReqClass DEF CancelQueued
    <3>2. mu = "free" /\ waiters' = waiters /\ terminal' = terminal
      BY <2>5 DEF CancelQueued
    <3>3. CASE bytes' = bytes
      BY <3>2, <3>3, WaitKept
    <3>4. CASE bytes' = [bytes EXCEPT ![req[c].class] = @ - req[c].len] /\ mu' = "admit"
               /\ admitting' = req[c].class
      <4>1. \A d \in Class : d # req[c].class => bytes'[d] = bytes[d]
        BY <2>0, <3>1, <3>4
      <4> QED
        BY <3>2, <3>4, <4>1 DEF WaitInv, Stuck
    <3> QED
      BY <2>5, <3>3, <3>4 DEF CancelQueued, Refund
  <2>6. CASE FailOne
    BY <2>6 DEF FailOne, TypeInv, Holder, WaitInv, Stuck
  <2>7. CASE Close
    BY <2>7 DEF Close, Terminate, WaitInv, Stuck
  <2>8. ASSUME NEW err \in {"nil", "failed"}, WriteReturns(err) PROVE WaitInv'
    <3>1. active.class \in Class /\ active.len \in Nat /\ mu = "free"
      BY <2>8 DEF WriteReturns, TypeInv, Locals, Request
    <3>2. CASE terminal = "open" /\ err # "nil"
      BY <2>8, <3>2 DEF WriteReturns, Terminate, WaitInv, Stuck
    <3>3. CASE terminal = "open" /\ err = "nil"
      <4>1. /\ waiters' = waiters /\ terminal' = terminal /\ mu' = "admit"
            /\ admitting' = active.class
            /\ bytes' = [bytes EXCEPT ![active.class] = @ - active.len]
        BY <2>8, <3>3 DEF WriteReturns, Refund
      <4>2. \A d \in Class : d # active.class => bytes'[d] = bytes[d]
        BY <2>0, <3>1, <4>1
      <4> QED
        BY <3>1, <4>1, <4>2 DEF WaitInv, Stuck
    <3>4. CASE terminal # "open"
      <4>1. UNCHANGED <<waiters, terminal>>
        BY <2>8, <3>4 DEF WriteReturns
      <4> QED
        BY <3>4, <4>1 DEF WaitInv, Stuck
    <3> QED
      BY <3>2, <3>3, <3>4
  <2>9. CASE UNCHANGED <<waiters, bytes, terminal, mu, admitting>>
    BY <2>9 DEF WaitInv, Stuck
  <2>10. ASSUME NEW c \in Callers, ReceiveReady(c) \/ ReceiveDone(c) \/ SelectCtx(c)
         PROVE  WaitInv'
    BY <2>9, <2>10 DEF ReceiveReady, ReceiveDone, SelectCtx, lineVars
  <2>11. CASE FailEnd \/ PumpControl \/ PumpData \/ TakeBulk
    BY <2>11, WaitKept DEF FailEnd, PumpControl, PumpData, TakeBulk, lineVars
  <2>12. CASE PeekMedia \/ TakeMedia \/ RefuseMedia
    BY <2>12, WaitKept DEF PeekMedia, TakeMedia, RefuseMedia, InnerFits, lineVars
  <2>13. CASE PumpIdle \/ PumpWake \/ PumpExit \/ Deliver \/ OuterPass \/ InnerPass
    BY <2>9, <2>13 DEF PumpIdle, PumpWake, PumpExit, Deliver, OuterPass, InnerPass, lineVars
  <2>14. CASE UNCHANGED vars
    BY <2>9, <2>14 DEF vars
  <2> QED
    BY <2>1, <2>2, <2>3, <2>4, <2>5, <2>6, <2>7, <2>8, <2>10, <2>11, <2>12, <2>13, <2>14
    DEF Next, PumpStep, LoopStep, CallerStep, CallerRuns
<1>3. WaitInv => NoNeedlessWait
  BY DEF WaitInv, Stuck, NoNeedlessWait
<1> QED
  BY <1>1, <1>2, <1>3, InitTypeInv, TypeInvStep, PTL DEF Spec

------------------------------------------------------------------------------
(* Who is in a line                                                        *)

\* No caller occurs twice in the lines f.
Distinct(f) ==
    \A cl, d \in Class : \A i \in DOMAIN f[cl] : \A j \in DOMAIN f[d] :
        f[cl][i].caller = f[d][j].caller => cl = d /\ i = j

\* The lines g are the lines f with the request r added.
Joins(g, f, r) ==
    /\ Distinct(g)
    /\ \A c : InLine(c, g) <=> InLine(c, f) \/ c = r.caller
    /\ \A d \in Class : \A k \in DOMAIN g[d] :
            g[d][k] = r \/ \E j \in DOMAIN f[d] : g[d][k] = f[d][j]

\* The lines g are the lines f without the request of caller x.
Leaves(g, f, x) ==
    /\ Distinct(g)
    /\ \A c : InLine(c, g) <=> InLine(c, f) /\ c # x
    /\ \A d \in Class : \A k \in DOMAIN g[d] : \E j \in DOMAIN f[d] : g[d][k] = f[d][j]

\* Joining a line: enqueueLocked, and Send's append to the admission waiters.
LEMMA PushLine ==
    ASSUME NEW f \in [Class -> Seq(Request)], NEW cl \in Class, NEW r \in Request,
           Distinct(f), ~InLine(r.caller, f),
           NEW g, g = [f EXCEPT ![cl] = Append(f[cl], r)]
    PROVE  Joins(g, f, r)
<1> DEFINE s == Append(f[cl], r)
           n == Len(f[cl])
<1>1. f[cl] \in Seq(Request) /\ n \in Nat /\ DOMAIN f[cl] = 1 .. n
  BY LenProperties
<1>2. /\ s \in Seq(Request) /\ Len(s) = n + 1
      /\ \A i \in 1 .. n : s[i] = f[cl][i]
      /\ s[n + 1] = r
  BY <1>1, AppendProperties
<1>3. DOMAIN s = 1 .. n + 1
  BY <1>2, LenProperties
<1>4. g[cl] = s /\ \A d \in Class : d # cl => g[d] = f[d]
  OBVIOUS
<1> HIDE DEF s, n
<1>5. \A d \in Class : \A i \in DOMAIN g[d] :
        \/ d = cl /\ i = n + 1 /\ g[d][i] = r
        \/ i \in DOMAIN f[d] /\ g[d][i] = f[d][i]
  BY <1>1, <1>2, <1>3, <1>4
<1>6. \A d \in Class : \A i \in DOMAIN f[d] : i \in DOMAIN g[d] /\ g[d][i] = f[d][i]
  BY <1>1, <1>2, <1>3, <1>4
<1>7. n + 1 \in DOMAIN g[cl] /\ g[cl][n + 1] = r
  BY <1>1, <1>2, <1>3, <1>4
<1>8. Distinct(g)
  <2> SUFFICES ASSUME NEW a \in Class, NEW b \in Class,
                      NEW k \in DOMAIN g[a], NEW m \in DOMAIN g[b],
                      g[a][k].caller = g[b][m].caller
               PROVE  a = b /\ k = m
    BY DEF Distinct
  <2>1. \/ a = cl /\ k = n + 1 /\ g[a][k] = r
        \/ k \in DOMAIN f[a] /\ g[a][k] = f[a][k]
    BY <1>5
  <2>2. \/ b = cl /\ m = n + 1 /\ g[b][m] = r
        \/ m \in DOMAIN f[b] /\ g[b][m] = f[b][m]
    BY <1>5
  <2>3. \A d \in Class : \A j \in DOMAIN f[d] : f[d][j].caller # r.caller
    BY DEF InLine
  <2>4. CASE k \in DOMAIN f[a] /\ m \in DOMAIN f[b] /\ g[a][k] = f[a][k] /\ g[b][m] = f[b][m]
    BY <2>4 DEF Distinct
  <2> QED
    BY <2>1, <2>2, <2>3, <2>4
<1>9. \A c : InLine(c, g) <=> InLine(c, f) \/ c = r.caller
  BY <1>5, <1>6, <1>7 DEF InLine
<1>10. \A d \in Class : \A k \in DOMAIN g[d] :
        g[d][k] = r \/ \E j \in DOMAIN f[d] : g[d][k] = f[d][j]
  BY <1>5
<1> QED
  BY <1>8, <1>9, <1>10 DEF Joins

\* s is t without its element at position i.
Without(s, t, i) ==
    /\ s \in Seq(Request) /\ Len(s) = Len(t) - 1
    /\ \A k \in 1 .. Len(t) - 1 : s[k] = IF k < i THEN t[k] ELSE t[k + 1]

\* Leaving a line at position i.
LEMMA ShrinkLine ==
    ASSUME NEW f \in [Class -> Seq(Request)], NEW cl \in Class,
           NEW i \in DOMAIN f[cl], NEW s, Without(s, f[cl], i), Distinct(f),
           NEW g, g = [f EXCEPT ![cl] = s]
    PROVE  Leaves(g, f, f[cl][i].caller)
<1> DEFINE n == Len(f[cl])
           Old(k) == IF k < i THEN k ELSE k + 1
           New(k) == IF k < i THEN k ELSE k - 1
<1>1. f[cl] \in Seq(Request) /\ n \in Nat /\ DOMAIN f[cl] = 1 .. n
  BY LenProperties
<1>2. s \in Seq(Request) /\ DOMAIN s = 1 .. n - 1
  BY LenProperties DEF Without
<1>3. g[cl] = s /\ \A d \in Class : d # cl => g[d] = f[d]
  OBVIOUS
<1> HIDE DEF n
<1>4. \A k \in 1 .. n - 1 : Old(k) \in 1 .. n /\ Old(k) # i /\ s[k] = f[cl][Old(k)]
  BY <1>1 DEF n, Without
<1>5. \A j \in 1 .. n : j # i => New(j) \in 1 .. n - 1 /\ Old(New(j)) = j
  BY <1>1
<1>6. \A k, m \in 1 .. n - 1 : Old(k) = Old(m) => k = m
  BY <1>1
<1> HIDE DEF Old, New
<1>7. \A d \in Class : \A k \in DOMAIN g[d] :
        \/ /\ d = cl /\ k \in 1 .. n - 1 /\ Old(k) \in DOMAIN f[cl] /\ Old(k) # i
           /\ g[d][k] = f[cl][Old(k)]
        \/ d # cl /\ k \in DOMAIN f[d] /\ g[d][k] = f[d][k]
  BY <1>1, <1>2, <1>3, <1>4
<1>8. \A d \in Class : \A j \in DOMAIN f[d] : ~(d = cl /\ j = i) =>
        \E k \in DOMAIN g[d] : g[d][k] = f[d][j]
  <2> SUFFICES ASSUME NEW d \in Class, NEW j \in DOMAIN f[d], ~(d = cl /\ j = i)
               PROVE  \E k \in DOMAIN g[d] : g[d][k] = f[d][j]
    OBVIOUS
  <2>1. CASE d = cl
    <3>1. New(j) \in 1 .. n - 1 /\ Old(New(j)) = j
      BY <1>1, <1>5, <2>1
    <3>2. s[New(j)] = f[cl][j]
      BY <1>4, <3>1
    <3> QED
      BY <1>2, <1>3, <2>1, <3>1, <3>2
  <2>2. CASE d # cl
    BY <1>3, <2>2
  <2> QED
    BY <2>1, <2>2
<1>9. Distinct(g)
  <2> SUFFICES ASSUME NEW a \in Class, NEW b \in Class,
                      NEW k \in DOMAIN g[a], NEW m \in DOMAIN g[b],
                      g[a][k].caller = g[b][m].caller
               PROVE  a = b /\ k = m
    BY DEF Distinct
  <2>1. CASE a = cl /\ b = cl
    <3>1. /\ k \in 1 .. n - 1 /\ Old(k) \in DOMAIN f[cl] /\ g[a][k] = f[cl][Old(k)]
          /\ m \in 1 .. n - 1 /\ Old(m) \in DOMAIN f[cl] /\ g[b][m] = f[cl][Old(m)]
      BY <1>7, <2>1
    <3>2. f[cl][Old(k)].caller = f[cl][Old(m)].caller
      BY <3>1, Zenon
    <3>3. \A x, y \in DOMAIN f[cl] : f[cl][x].caller = f[cl][y].caller => x = y
      BY DEF Distinct
    <3>4. Old(k) = Old(m)
      BY <3>1, <3>2, <3>3
    <3> QED
      BY <1>6, <2>1, <3>1, <3>4
  <2>2. CASE a = cl /\ b # cl
    <3>1. Old(k) \in DOMAIN f[cl] /\ g[a][k] = f[cl][Old(k)]
      BY <1>7, <2>2
    <3>2. m \in DOMAIN f[b] /\ g[b][m] = f[b][m]
      BY <1>7, <2>2
    <3> QED
      BY <2>2, <3>1, <3>2 DEF Distinct
  <2>3. CASE a # cl /\ b = cl
    <3>1. Old(m) \in DOMAIN f[cl] /\ g[b][m] = f[cl][Old(m)]
      BY <1>7, <2>3
    <3>2. k \in DOMAIN f[a] /\ g[a][k] = f[a][k]
      BY <1>7, <2>3
    <3> QED
      BY <2>3, <3>1, <3>2 DEF Distinct
  <2>4. CASE a # cl /\ b # cl
    BY <1>7, <2>4 DEF Distinct
  <2> QED
    BY <2>1, <2>2, <2>3, <2>4
<1>10. ASSUME NEW c, InLine(c, g) PROVE InLine(c, f) /\ c # f[cl][i].caller
  <2>1. PICK d \in Class : \E k \in DOMAIN g[d] : g[d][k].caller = c
    BY <1>10 DEF InLine
  <2>2. PICK k \in DOMAIN g[d] : g[d][k].caller = c
    BY <2>1
  <2> QED
    BY <1>7, <2>2 DEF InLine, Distinct
<1>11. ASSUME NEW c, InLine(c, f), c # f[cl][i].caller PROVE InLine(c, g)
  BY <1>8, <1>11 DEF InLine
<1>12. \A d \in Class : \A k \in DOMAIN g[d] : \E j \in DOMAIN f[d] : g[d][k] = f[d][j]
  BY <1>7
<1> QED
  BY <1>9, <1>10, <1>11, <1>12 DEF Leaves

\* Leaving a line at its head.
LEMMA PopLine ==
    ASSUME NEW f \in [Class -> Seq(Request)], NEW cl \in Class, f[cl] # <<>>, Distinct(f),
           NEW g, g = [f EXCEPT ![cl] = Tail(f[cl])]
    PROVE  Leaves(g, f, Head(f[cl]).caller)
<1>1. f[cl] \in Seq(Request) /\ Len(f[cl]) \in Nat \ {0} /\ DOMAIN f[cl] = 1 .. Len(f[cl])
  BY LenProperties, EmptySeq
<1>2. /\ Tail(f[cl]) \in Seq(Request) /\ Len(Tail(f[cl])) = Len(f[cl]) - 1
      /\ \A k \in 1 .. Len(Tail(f[cl])) : Tail(f[cl])[k] = f[cl][k + 1]
  BY <1>1, HeadTailProperties
<1>3. /\ 1 \in DOMAIN f[cl] /\ Head(f[cl]) = f[cl][1]
      /\ Without(Tail(f[cl]), f[cl], 1)
  BY <1>1, <1>2 DEF Without
<1> DEFINE t == Tail(f[cl])
<1>4. Without(t, f[cl], 1) /\ g = [f EXCEPT ![cl] = t]
  BY <1>3
<1> HIDE DEF t
<1>5. Leaves(g, f, f[cl][1].caller)
  BY <1>3, <1>4, ShrinkLine
<1> QED
  BY <1>3, <1>5

\* Leaving a line at any position.
LEMMA DropLine ==
    ASSUME NEW f \in [Class -> Seq(Request)], NEW cl \in Class,
           NEW i \in DOMAIN f[cl], Distinct(f),
           NEW g, g = [f EXCEPT ![cl] = RemoveAt(f[cl], i)]
    PROVE  Leaves(g, f, f[cl][i].caller)
<1>1. f[cl] \in Seq(Request) /\ i \in 1 .. Len(f[cl])
  BY LenProperties
<1>2. Without(RemoveAt(f[cl], i), f[cl], i)
  BY <1>1, RemoveAtProperties DEF Without
<1> QED
  BY <1>2, ShrinkLine

------------------------------------------------------------------------------
(* The inductive invariant                                                 *)

\* What stands in a line is the present request of its caller.
OwnBy(q, f) == \A cl \in Class : \A i \in DOMAIN f[cl] : f[cl][i] = q[f[cl][i].caller]
Own(f) == OwnBy(req, f)

Carries(c) == active # None /\ active.caller = c

\* The pump carries a request exactly from popLocked to the delivery.
ActiveInv ==
    active # None <=> \/ pump \in {"writing", "deliver"}
                      \/ pump = "locked" /\ mu \in {"admit", "fail"}

LineInv == Distinct(queues) /\ Distinct(waiters) /\ Own(queues) /\ Own(waiters)

\* What the writer did, until the verdict is received.
HonestAt(c) ==
    /\ Queued(c) \/ Waiting(c) \/ pc[c] \in {"idle", "locked"} => wrote[c] = "no"
    /\ Carries(c) /\ pump # "writing" =>
            wrote[c] = IF writeErr = "nil" THEN "ok" ELSE "failed"
    /\ done[c] = "nil" => wrote[c] = "ok"
    /\ done[c] = "closed" => wrote[c] = "no"
    /\ done[c] = "failed" => wrote[c] \in {"no", "failed"}
    /\ ready[c] \in {"closed", "failed"} => wrote[c] = "no"

VerdictInv == ActiveInv /\ LineInv /\ Placed /\ \A c \in Callers : HonestAt(c)

\* With ActiveInv, being at the writer is being carried by the pump.
LEMMA AtWriterCarries ==
    ASSUME ActiveInv, NEW c
    PROVE  AtWriter(c) <=> Carries(c)
  BY DEF ActiveInv, AtWriter, Carries

\* A caller whose request, channels and place are untouched.
LEMMA Untouched ==
    ASSUME ActiveInv, ActiveInv', NEW c \in Callers, PlacedAt(c), HonestAt(c),
           pc'[c] = pc[c], ready'[c] = ready[c], done'[c] = done[c], wrote'[c] = wrote[c],
           Waiting(c)' <=> Waiting(c), Queued(c)' <=> Queued(c),
           Carries(c)' <=> Carries(c),
           Carries(c) => (pump' = "writing" \/ pump # "writing") /\ writeErr' = writeErr
    PROVE  PlacedAt(c)' /\ HonestAt(c)'
<1>1. AtWriter(c)' <=> AtWriter(c)
  BY AtWriterCarries DEF ActiveInv, AtWriter, Carries
<1>2. Settled(c)' <=> Settled(c)
  BY DEF Settled
<1>3. (Nowhere(c)' <=> Nowhere(c)) /\ (InFlight(c)' <=> InFlight(c))
  BY <1>1, <1>2 DEF Nowhere, InFlight
<1>4. PlacedAt(c)'
  BY <1>3 DEF PlacedAt
<1>5. HonestAt(c)'
  BY DEF HonestAt
<1> QED
  BY <1>4, <1>5

\* Requests in line have callers.
LEMMA LineCallers ==
    ASSUME TypeInv
    PROVE  /\ queues \in [Class -> Seq(Request)] /\ waiters \in [Class -> Seq(Request)]
           /\ \A cl \in Class : \A i \in DOMAIN queues[cl] :
                queues[cl][i] \in Of(cl) /\ queues[cl][i].caller \in Callers
           /\ \A cl \in Class : \A i \in DOMAIN waiters[cl] :
                waiters[cl][i] \in Of(cl) /\ waiters[cl][i].caller \in Callers
<1>1. \A cl \in Class : \A i \in DOMAIN queues[cl] : queues[cl][i] \in Of(cl)
  BY ElementOfSeq, LenProperties DEF TypeInv, Lines
<1>2. \A cl \in Class : \A i \in DOMAIN waiters[cl] : waiters[cl][i] \in Of(cl)
  BY ElementOfSeq, LenProperties DEF TypeInv, Lines
<1> QED
  BY <1>1, <1>2, OfClass DEF TypeInv, TypeOK

\* Own is kept when the request of a caller outside the lines changes.
LEMMA OwnKept ==
    ASSUME NEW f, NEW c \in Callers, NEW x, Own(f), ~InLine(c, f),
           req \in [Callers -> Request \cup {None}], req' = [req EXCEPT ![c] = x],
           \A d \in Class : \A i \in DOMAIN f[d] : f[d][i].caller \in Callers
    PROVE  OwnBy(req', f)
  BY DEF Own, OwnBy, InLine

\* Own is kept by a request that joins or leaves.
LEMMA OwnMoves ==
    ASSUME NEW q, NEW f, NEW g, OwnBy(q, f),
           \/ \E r : Joins(g, f, r) /\ r = q[r.caller]
           \/ \E x : Leaves(g, f, x)
    PROVE  OwnBy(q, g)
  BY DEF OwnBy, Joins, Leaves

\* The lines keep their form when a caller outside them returns.
LEMMA LinesKept ==
    ASSUME TypeInv, LineInv, NEW c \in Callers, NEW x, ~Queued(c), ~Waiting(c),
           req' = [req EXCEPT ![c] = x], UNCHANGED <<queues, waiters>>
    PROVE  LineInv'
<1>1. req \in [Callers -> Request \cup {None}]
  BY DEF TypeInv, TypeOK
<1>2. Own(queues)'
  BY <1>1, LineCallers, OwnKept DEF LineInv, Queued, Own
<1>3. Own(waiters)'
  BY <1>1, LineCallers, OwnKept DEF LineInv, Waiting, Own
<1> QED
  BY <1>2, <1>3 DEF LineInv, Distinct

\* A step that moves nothing but the pump and the mutex.
LEMMA Silent ==
    ASSUME VerdictInv, ActiveInv',
           UNCHANGED <<queues, waiters, pc, req, ready, done, wrote, active, writeErr>>,
           active # None => pump' = "writing" \/ pump # "writing"
    PROVE  VerdictInv'
<1>1. LineInv'
  BY DEF VerdictInv, LineInv, Distinct, Own
<1>2. ASSUME NEW c \in Callers PROVE PlacedAt(c)' /\ HonestAt(c)'
  <2>1. (Waiting(c)' <=> Waiting(c)) /\ (Queued(c)' <=> Queued(c)) /\ (Carries(c)' <=> Carries(c))
    BY DEF Waiting, Queued, InLine, Carries
  <2>2. Carries(c) => (pump' = "writing" \/ pump # "writing") /\ writeErr' = writeErr
    BY DEF Carries
  <2> QED
    BY <2>1, <2>2, Untouched DEF VerdictInv, Placed
<1> QED
  BY <1>1, <1>2 DEF VerdictInv, Placed

\* The steps of the pump that neither take nor finish a request.
LEMMA SilentSteps ==
    ASSUME TypeInv, VerdictInv,
           \/ PumpData \/ PumpIdle \/ PumpWake \/ PumpExit \/ OuterPass
           \/ PeekMedia \/ InnerPass \/ RefuseMedia \/ FailEnd \/ UNCHANGED vars
    PROVE  VerdictInv'
<1> USE DEF lineVars, drrVars, pumpVars, callVars
<1>1. CASE PumpData \/ PumpIdle \/ PumpWake \/ PumpExit
  <2>1. /\ UNCHANGED <<queues, waiters, pc, req, ready, done, wrote, active, writeErr>>
        /\ pump # "writing" /\ active = None
    BY <1>1 DEF PumpData, PumpIdle, PumpWake, PumpExit, VerdictInv, ActiveInv
  <2>2. ActiveInv'
    BY <1>1, <2>1 DEF PumpData, PumpIdle, PumpWake, PumpExit, ActiveInv
  <2> QED
    BY <2>1, <2>2, Silent
<1>2. CASE OuterPass \/ PeekMedia \/ InnerPass \/ RefuseMedia
  <2>1. /\ UNCHANGED <<queues, waiters, pc, req, ready, done, wrote, active, writeErr, pump>>
        /\ mu \in {"outer", "inner"} /\ mu' \in {"outer", "inner"}
    BY <1>2 DEF OuterPass, PeekMedia, InnerPass, RefuseMedia, InnerFits
  <2>2. ActiveInv'
    BY <2>1 DEF VerdictInv, ActiveInv
  <2> QED
    BY <2>1, <2>2, Silent
<1>3. CASE FailEnd
  <2>1. /\ UNCHANGED <<queues, waiters, pc, req, ready, done, wrote, active, writeErr>>
        /\ mu = "fail" /\ mu' = "free"
        /\ pump' = IF pump = "locked" THEN "deliver" ELSE pump
    BY <1>3 DEF FailEnd
  <2>2. ActiveInv'
    BY <2>1 DEF VerdictInv, ActiveInv
  <2> QED
    BY <2>1, <2>2, Silent
<1>4. CASE UNCHANGED vars
  <2>1. UNCHANGED <<queues, waiters, pc, req, ready, done, wrote, active, writeErr, pump, mu>>
    BY <1>4 DEF vars
  <2>2. ActiveInv'
    BY <2>1 DEF VerdictInv, ActiveInv
  <2> QED
    BY <2>1, <2>2, Silent
<1> QED
  BY <1>1, <1>2, <1>3, <1>4

\* A step of one caller, c: the others are untouched.
LEMMA OneCaller ==
    ASSUME VerdictInv, ActiveInv', LineInv', NEW c \in Callers,
           PlacedAt(c)', HonestAt(c)',
           \A d \in Callers \ {c} :
             /\ pc'[d] = pc[d] /\ ready'[d] = ready[d] /\ done'[d] = done[d]
             /\ wrote'[d] = wrote[d]
             /\ Waiting(d)' <=> Waiting(d)
             /\ Queued(d)' <=> Queued(d)
             /\ Carries(d)' <=> Carries(d)
             /\ Carries(d) => (pump' = "writing" \/ pump # "writing") /\ writeErr' = writeErr
    PROVE  VerdictInv'
<1>1. ASSUME NEW d \in Callers \ {c} PROVE PlacedAt(d)' /\ HonestAt(d)'
  BY <1>1, Untouched DEF VerdictInv, Placed
<1> QED
  BY <1>1 DEF VerdictInv, Placed

\* A step that leaves the lines, the pump and the mutex alone keeps these.
LEMMA SameLines ==
    ASSUME UNCHANGED <<queues, waiters, active, pump, writeErr>>
    PROVE  \A d : /\ Waiting(d)' <=> Waiting(d)
                  /\ Queued(d)' <=> Queued(d)
                  /\ Carries(d)' <=> Carries(d)
                  /\ AtWriter(d)' <=> AtWriter(d)
                  /\ Carries(d) => (pump' = "writing" \/ pump # "writing") /\ writeErr' = writeErr
  BY DEF Waiting, Queued, InLine, Carries, AtWriter

\* Cancellation of the context is noticed.
LEMMA SelectCtxVerdict ==
    ASSUME TypeInv, VerdictInv, NEW c \in Callers, SelectCtx(c) PROVE VerdictInv'
<1> USE DEF lineVars, drrVars, pumpVars, SelectCtx
<1>1. ActiveInv' /\ LineInv'
  BY DEF VerdictInv, ActiveInv, LineInv, Distinct, Own
<1>2. /\ \/ pc[c] = "admit" /\ pc'[c] = "admitCancel"
         \/ pc[c] = "wait" /\ pc'[c] = "waitCancel"
      /\ \A d \in Callers \ {c} : pc'[d] = pc[d]
      /\ UNCHANGED <<ready, done, wrote>>
  BY DEF TypeInv, TypeOK
<1>3. PlacedAt(c) /\ HonestAt(c)
  BY DEF VerdictInv, Placed
<1>4. PlacedAt(c)'
  BY <1>2, <1>3, SameLines DEF PlacedAt, Nowhere, InFlight, Settled
<1>5. HonestAt(c)'
  BY <1>2, <1>3, SameLines DEF HonestAt
<1> QED
  BY <1>1, <1>2, <1>4, <1>5, SameLines, OneCaller

\* A caller that receives its verdict was settled, and leaves nothing behind.
LEMMA ReceiveDoneVerdict ==
    ASSUME TypeInv, VerdictInv, NEW c \in Callers, ReceiveDone(c) PROVE VerdictInv'
<1> USE DEF lineVars, drrVars, pumpVars, ReceiveDone, Return
<1>1. PlacedAt(c) /\ HonestAt(c)
  BY DEF VerdictInv, Placed
<1>2. ~Queued(c) /\ ~AtWriter(c) /\ ~Waiting(c) /\ ready[c] = "empty"
  BY <1>1 DEF PlacedAt, InFlight, Settled
<1>3. ~Carries(c)
  BY <1>2, AtWriterCarries DEF VerdictInv
<1>4. ActiveInv'
  BY DEF VerdictInv, ActiveInv
<1>5. LineInv'
  BY <1>2, LinesKept DEF VerdictInv
<1>6. /\ pc'[c] = "idle" /\ done'[c] = "empty" /\ wrote'[c] = "no" /\ ready'[c] = ready[c]
      /\ \A d \in Callers \ {c} : /\ pc'[d] = pc[d] /\ ready'[d] = ready[d]
                                   /\ done'[d] = done[d] /\ wrote'[d] = wrote[d]
  BY DEF TypeInv, TypeOK
<1>7. PlacedAt(c)'
  BY <1>2, <1>6, SameLines DEF PlacedAt, Nowhere, Settled
<1>8. HonestAt(c)'
  BY <1>2, <1>3, <1>6, SameLines DEF HonestAt
<1> QED
  BY <1>4, <1>5, <1>6, <1>7, <1>8, SameLines, OneCaller

\* A caller that was admitted goes on to wait; one that was refused is nowhere.
LEMMA ReceiveReadyVerdict ==
    ASSUME TypeInv, VerdictInv, NEW c \in Callers, ReceiveReady(c) PROVE VerdictInv'
<1> USE DEF lineVars, drrVars, pumpVars, ReceiveReady
<1>1. PlacedAt(c) /\ HonestAt(c)
  BY DEF VerdictInv, Placed
<1>2. ActiveInv'
  BY DEF VerdictInv, ActiveInv
<1>3. CASE ready[c] = "nil"
  <2>1. /\ pc'[c] = "wait" /\ ready'[c] = "empty" /\ UNCHANGED <<done, wrote, req>>
        /\ \A d \in Callers \ {c} : pc'[d] = pc[d] /\ ready'[d] = ready[d]
    BY <1>3 DEF TypeInv, TypeOK
  <2>2. InFlight(c) /\ ~Waiting(c)
    BY <1>1, <1>3 DEF PlacedAt
  <2>3. PlacedAt(c)'
    BY <2>1, <2>2, SameLines DEF PlacedAt, InFlight, Settled
  <2>4. HonestAt(c)'
    BY <1>1, <2>1, SameLines DEF HonestAt
  <2>5. LineInv'
    BY <2>1 DEF VerdictInv, LineInv, Distinct, Own
  <2> QED
    BY <1>2, <2>1, <2>3, <2>4, <2>5, SameLines, OneCaller
<1>4. CASE ready[c] # "nil"
  <2>1. /\ pc'[c] = "idle" /\ ready'[c] = "empty" /\ wrote'[c] = "no" /\ UNCHANGED done
        /\ req' = [req EXCEPT ![c] = None]
        /\ \A d \in Callers \ {c} : /\ pc'[d] = pc[d] /\ ready'[d] = ready[d]
                                     /\ wrote'[d] = wrote[d]
    BY <1>4 DEF TypeInv, TypeOK, Return
  <2>2. Nowhere(c) /\ ~Waiting(c)
    BY <1>1, <1>4 DEF PlacedAt
  <2>3. ~Carries(c)
    BY <2>2, AtWriterCarries DEF VerdictInv, Nowhere
  <2>4. PlacedAt(c)'
    BY <2>1, <2>2, SameLines DEF PlacedAt, Nowhere, Settled
  <2>5. HonestAt(c)'
    BY <2>1, <2>2, <2>3, SameLines DEF HonestAt, Nowhere, Settled
  <2>6. LineInv'
    BY <2>1, <2>2, LinesKept DEF VerdictInv, Nowhere
  <2> QED
    BY <1>2, <2>1, <2>4, <2>5, <2>6, SameLines, OneCaller
<1> QED
  BY <1>3, <1>4

\* A new request stands in one line.
LEMMA SendVerdict ==
    ASSUME TypeInv, VerdictInv, NEW call \in Calls, Send(call.caller, call)
    PROVE  VerdictInv'
<1> DEFINE c == call.caller
           cl == call.class
<1>0. c \in Callers /\ cl \in Class /\ call \in Request
  BY ValidCall DEF Send
<1>1. pc[c] = "idle" /\ PlacedAt(c) /\ HonestAt(c)
  BY <1>0 DEF Send, VerdictInv, Placed
<1>2. Nowhere(c) /\ ~Waiting(c) /\ ready[c] = "empty" /\ wrote[c] = "no"
  BY <1>1 DEF PlacedAt, HonestAt
<1>3. ~Carries(c)
  BY <1>2, AtWriterCarries DEF VerdictInv, Nowhere
<1>4. /\ UNCHANGED <<active, pump, mu, writeErr, ready, done, wrote>>
      /\ req' = [req EXCEPT ![c] = call]
      /\ pc' = [pc EXCEPT ![c] = IF HasRoom(call) THEN "wait" ELSE "admit"]
  BY DEF Send, pumpVars
<1>5. /\ \A d \in Callers \ {c} : pc'[d] = pc[d]
      /\ pc'[c] = IF HasRoom(call) THEN "wait" ELSE "admit"
      /\ req \in [Callers -> Request \cup {None}]
  BY <1>0, <1>4 DEF TypeInv, TypeOK
<1>6. ActiveInv'
  BY <1>4 DEF VerdictInv, ActiveInv
<1>7. \A d : /\ Carries(d)' <=> Carries(d)
             /\ AtWriter(d)' <=> AtWriter(d)
             /\ Settled(d)' <=> Settled(d)
  BY <1>4 DEF Carries, AtWriter, Settled
<1>8. OwnBy(req', queues) /\ OwnBy(req', waiters)
  BY <1>0, <1>2, <1>4, <1>5, LineCallers, OwnKept
  DEF VerdictInv, LineInv, Nowhere, Queued, Waiting
<1>9. req'[c] = call
  BY <1>0, <1>4, <1>5
<1>10. CASE HasRoom(call)
  <2>1. queues' = [queues EXCEPT ![cl] = Append(queues[cl], call)] /\ waiters' = waiters
    BY <1>10 DEF Send, Enqueue
  <2>2. Joins(queues', queues, call)
    BY <1>0, <1>2, <2>1, LineCallers, PushLine DEF VerdictInv, LineInv, Nowhere, Queued
  <2>3. Own(queues)' /\ Own(waiters)'
    BY <1>8, <1>9, <2>1, <2>2, OwnMoves DEF Own
  <2>4. LineInv'
    <3>1. Distinct(queues') /\ Distinct(waiters')
      BY <2>1, <2>2 DEF VerdictInv, LineInv, Joins
    <3> QED
      BY <2>3, <3>1 DEF LineInv
  <2>5. \A d : /\ Queued(d)' <=> Queued(d) \/ d = c
               /\ Waiting(d)' <=> Waiting(d)
    BY <2>1, <2>2 DEF Queued, Waiting, Joins, InLine
  <2>6. PlacedAt(c)'
    BY <1>2, <1>4, <1>5, <1>7, <1>10, <2>5 DEF PlacedAt, InFlight, Nowhere
  <2>7. HonestAt(c)'
    BY <1>1, <1>2, <1>3, <1>4, <1>7 DEF HonestAt
  <2> QED
    BY <1>0, <1>4, <1>5, <1>6, <1>7, <2>4, <2>5, <2>6, <2>7, OneCaller
<1>11. CASE ~HasRoom(call)
  <2>1. waiters' = [waiters EXCEPT ![cl] = Append(waiters[cl], call)] /\ queues' = queues
    BY <1>11 DEF Send
  <2>2. Joins(waiters', waiters, call)
    BY <1>0, <1>2, <2>1, LineCallers, PushLine DEF VerdictInv, LineInv, Waiting
  <2>3. Own(queues)' /\ Own(waiters)'
    BY <1>8, <1>9, <2>1, <2>2, OwnMoves DEF Own
  <2>4. LineInv'
    <3>1. Distinct(queues') /\ Distinct(waiters')
      BY <2>1, <2>2 DEF VerdictInv, LineInv, Joins
    <3> QED
      BY <2>3, <3>1 DEF LineInv
  <2>5. \A d : /\ Waiting(d)' <=> Waiting(d) \/ d = c
               /\ Queued(d)' <=> Queued(d)
    BY <2>1, <2>2 DEF Queued, Waiting, Joins, InLine
  <2>6. PlacedAt(c)'
    BY <1>2, <1>4, <1>5, <1>7, <1>11, <2>5 DEF PlacedAt, Nowhere
  <2>7. HonestAt(c)'
    BY <1>1, <1>2, <1>3, <1>4, <1>7 DEF HonestAt
  <2> QED
    BY <1>0, <1>4, <1>5, <1>6, <1>7, <2>4, <2>5, <2>6, <2>7, OneCaller
<1> QED
  BY <1>10, <1>11

\* A cancelled waiter is taken out of its line, or was admitted or refused.
LEMMA CancelWaiterVerdict ==
    ASSUME TypeInv, VerdictInv, NEW c \in Callers, CancelWaiter(c) PROVE VerdictInv'
<1> DEFINE cl == req[c].class
<1>0. cl \in Class /\ req[c].caller = c
  BY ReqClass DEF CancelWaiter
<1>1. pc[c] = "admitCancel" /\ mu = "free" /\ PlacedAt(c) /\ HonestAt(c)
  BY DEF CancelWaiter, VerdictInv, Placed
<1>2. UNCHANGED <<queues, active, pump, writeErr, req, ready, done, wrote>>
  BY DEF CancelWaiter, pumpVars
<1>3. ActiveInv'
  <2>1. pump # "locked"
    BY <1>1 DEF TypeInv, Holder
  <2> QED
    BY <1>1, <1>2, <2>1 DEF CancelWaiter, VerdictInv, ActiveInv
<1>4. \A d : /\ Carries(d)' <=> Carries(d)
             /\ AtWriter(d)' <=> AtWriter(d)
             /\ Settled(d)' <=> Settled(d)
             /\ Queued(d)' <=> Queued(d)
  BY <1>2 DEF Carries, AtWriter, Settled, Queued, InLine
<1>5. ASSUME NEW i \in DOMAIN waiters[cl], waiters[cl][i] = req[c],
             waiters' = [waiters EXCEPT ![cl] = RemoveAt(waiters[cl], i)],
             pc' = [pc EXCEPT ![c] = "locked"]
      PROVE  VerdictInv'
  <2>1. Leaves(waiters', waiters, c)
    BY <1>0, <1>5, LineCallers, DropLine DEF VerdictInv, LineInv
  <2>2. \A d : Waiting(d)' <=> Waiting(d) /\ d # c
    BY <2>1 DEF Waiting, Leaves
  <2>3. Waiting(c)
    BY <1>0, <1>5 DEF Waiting, InLine
  <2>4. LineInv'
    <3>1. OwnBy(req', queues') /\ OwnBy(req', waiters')
      BY <1>2, <2>1, OwnMoves DEF VerdictInv, LineInv, Own
    <3>2. Distinct(queues') /\ Distinct(waiters')
      BY <1>2, <2>1 DEF VerdictInv, LineInv, Leaves
    <3> QED
      BY <3>1, <3>2 DEF LineInv, Own
  <2>5. /\ pc'[c] = "locked"
        /\ \A d \in Callers \ {c} : pc'[d] = pc[d]
    BY <1>5 DEF TypeInv, TypeOK
  <2>6. PlacedAt(c)'
    BY <1>1, <1>2, <1>4, <2>2, <2>3, <2>5 DEF PlacedAt, Nowhere, InFlight
  <2>7. HonestAt(c)'
    BY <1>1, <1>2, <1>4, <2>3, <2>5 DEF HonestAt
  <2> QED
    BY <1>2, <1>3, <1>4, <2>2, <2>4, <2>5, <2>6, <2>7, OneCaller
<1>6. ASSUME \A i \in DOMAIN waiters[cl] : waiters[cl][i] # req[c],
             pc' = [pc EXCEPT ![c] = "admitLast"], UNCHANGED waiters
      PROVE  VerdictInv'
  <2>1. ~Waiting(c)
    <3> SUFFICES ASSUME NEW d \in Class, NEW i \in DOMAIN waiters[d], waiters[d][i].caller = c
                 PROVE  FALSE
      BY DEF Waiting, InLine
    <3>1. waiters[d][i] = req[c]
      BY DEF VerdictInv, LineInv, Own, OwnBy
    <3>2. waiters[d][i].class = d
      BY LineCallers, OfClass
    <3> QED
      BY <1>6, <3>1, <3>2
  <2>2. LineInv'
    BY <1>2, <1>6 DEF VerdictInv, LineInv, Distinct, Own, OwnBy
  <2>3. /\ pc'[c] = "admitLast"
        /\ \A d \in Callers \ {c} : pc'[d] = pc[d]
    BY <1>6 DEF TypeInv, TypeOK
  <2>4. \A d : Waiting(d)' <=> Waiting(d)
    BY <1>6 DEF Waiting, InLine
  <2>5. PlacedAt(c)'
    BY <1>1, <1>2, <1>4, <2>1, <2>3, <2>4 DEF PlacedAt, Nowhere, InFlight
  <2>6. HonestAt(c)'
    BY <1>1, <1>2, <1>4, <2>3, <2>4 DEF HonestAt
  <2> QED
    BY <1>2, <1>3, <1>4, <2>2, <2>3, <2>4, <2>5, <2>6, OneCaller
<1> QED
  BY <1>5, <1>6 DEF CancelWaiter

\* A cancelled request is taken out of its queue, or the pump has it.
LEMMA CancelQueuedVerdict ==
    ASSUME TypeInv, VerdictInv, NEW c \in Callers, CancelQueued(c) PROVE VerdictInv'
<1> DEFINE cl == req[c].class
<1>0. cl \in Class /\ req[c].caller = c
  BY ReqClass DEF CancelQueued
<1>1. pc[c] = "waitCancel" /\ mu = "free" /\ PlacedAt(c) /\ HonestAt(c)
  BY DEF CancelQueued, VerdictInv, Placed
<1>2. UNCHANGED <<waiters, active, pump, writeErr, req, ready, done, wrote>>
  BY DEF CancelQueued, pumpVars
<1>3. ActiveInv'
  <2>1. pump # "locked"
    BY <1>1 DEF TypeInv, Holder
  <2> QED
    BY <1>1, <1>2, <2>1 DEF CancelQueued, VerdictInv, ActiveInv
<1>4. \A d : /\ Carries(d)' <=> Carries(d)
             /\ AtWriter(d)' <=> AtWriter(d)
             /\ Settled(d)' <=> Settled(d)
             /\ Waiting(d)' <=> Waiting(d)
  BY <1>2 DEF Carries, AtWriter, Settled, Waiting, InLine
<1>5. ASSUME NEW i \in DOMAIN queues[cl], queues[cl][i] = req[c],
             queues' = [queues EXCEPT ![cl] = RemoveAt(queues[cl], i)],
             pc' = [pc EXCEPT ![c] = "locked"]
      PROVE  VerdictInv'
  <2>1. Leaves(queues', queues, c)
    BY <1>0, <1>5, LineCallers, DropLine DEF VerdictInv, LineInv
  <2>2. \A d : Queued(d)' <=> Queued(d) /\ d # c
    BY <2>1 DEF Queued, Leaves
  <2>3. Queued(c)
    BY <1>0, <1>5 DEF Queued, InLine
  <2>4. LineInv'
    <3>1. OwnBy(req', queues') /\ OwnBy(req', waiters')
      BY <1>2, <2>1, OwnMoves DEF VerdictInv, LineInv, Own
    <3>2. Distinct(queues') /\ Distinct(waiters')
      BY <1>2, <2>1 DEF VerdictInv, LineInv, Leaves
    <3> QED
      BY <3>1, <3>2 DEF LineInv, Own
  <2>5. /\ pc'[c] = "locked"
        /\ \A d \in Callers \ {c} : pc'[d] = pc[d]
    BY <1>5 DEF TypeInv, TypeOK
  <2>6. PlacedAt(c)'
    BY <1>1, <1>2, <1>4, <2>2, <2>3, <2>5 DEF PlacedAt, Nowhere, InFlight
  <2>7. HonestAt(c)'
    BY <1>1, <1>2, <1>4, <2>3, <2>5 DEF HonestAt
  <2> QED
    BY <1>2, <1>3, <1>4, <2>2, <2>4, <2>5, <2>6, <2>7, OneCaller
<1>6. ASSUME \A i \in DOMAIN queues[cl] : queues[cl][i] # req[c],
             pc' = [pc EXCEPT ![c] = "waitLast"], UNCHANGED queues
      PROVE  VerdictInv'
  <2>1. ~Queued(c)
    <3> SUFFICES ASSUME NEW d \in Class, NEW i \in DOMAIN queues[d], queues[d][i].caller = c
                 PROVE  FALSE
      BY DEF Queued, InLine
    <3>1. queues[d][i] = req[c]
      BY DEF VerdictInv, LineInv, Own, OwnBy
    <3>2. queues[d][i].class = d
      BY LineCallers, OfClass
    <3> QED
      BY <1>6, <3>1, <3>2
  <2>2. LineInv'
    BY <1>2, <1>6 DEF VerdictInv, LineInv, Distinct, Own, OwnBy
  <2>3. /\ pc'[c] = "waitLast"
        /\ \A d \in Callers \ {c} : pc'[d] = pc[d]
    BY <1>6 DEF TypeInv, TypeOK
  <2>4. \A d : Queued(d)' <=> Queued(d)
    BY <1>6 DEF Queued, InLine
  <2>5. PlacedAt(c)'
    BY <1>1, <1>2, <1>4, <2>1, <2>3, <2>4 DEF PlacedAt, Nowhere, InFlight
  <2>6. HonestAt(c)'
    BY <1>1, <1>2, <1>4, <2>3, <2>4 DEF HonestAt
  <2> QED
    BY <1>2, <1>3, <1>4, <2>2, <2>3, <2>4, <2>5, <2>6, OneCaller
<1> QED
  BY <1>5, <1>6 DEF CancelQueued

\* Admission ends: the cancelled Send returns, or the pump delivers.
LEMMA AdmitEndVerdict == ASSUME TypeInv, VerdictInv, AdmitEnd PROVE VerdictInv'
<1>1. UNCHANGED <<queues, waiters, active, writeErr, ready, done>> /\ mu = "admit" /\ mu' = "free"
  BY DEF AdmitEnd, lineVars
<1>2. CASE pump = "locked" /\ pump' = "deliver" /\ UNCHANGED <<callVars, wrote>>
  <2>1. ActiveInv'
    BY <1>1, <1>2 DEF VerdictInv, ActiveInv
  <2> QED
    BY <1>1, <1>2, <2>1, Silent DEF callVars
<1>3. ASSUME NEW c \in Callers, pc[c] = "locked", Return(c), UNCHANGED pump
      PROVE  VerdictInv'
  <2>1. ActiveInv'
    BY <1>1, <1>3 DEF VerdictInv, ActiveInv, TypeInv, Holder
  <2>2. PlacedAt(c) /\ HonestAt(c)
    BY DEF VerdictInv, Placed
  <2>3. Nowhere(c) /\ ~Waiting(c) /\ ready[c] = "empty"
    BY <1>3, <2>2 DEF PlacedAt
  <2>4. ~Carries(c)
    BY <2>3, AtWriterCarries DEF VerdictInv, Nowhere
  <2>5. LineInv'
    BY <1>1, <1>3, <2>3, LinesKept DEF VerdictInv, Nowhere, Return
  <2>6. /\ pc'[c] = "idle" /\ wrote'[c] = "no"
        /\ \A d \in Callers \ {c} : pc'[d] = pc[d] /\ wrote'[d] = wrote[d]
    BY <1>3 DEF Return, TypeInv, TypeOK
  <2>7. PlacedAt(c)'
    BY <1>1, <1>3, <2>3, <2>6, SameLines DEF PlacedAt, Nowhere, Settled
  <2>8. HonestAt(c)'
    BY <1>1, <1>3, <2>3, <2>4, <2>6, SameLines DEF HonestAt, Nowhere, Settled
  <2> QED
    BY <1>1, <1>3, <2>1, <2>5, <2>6, <2>7, <2>8, SameLines, OneCaller
<1> QED
  BY <1>2, <1>3 DEF AdmitEnd

\* The oldest waiter moves to the queue and is told so.
LEMMA AdmitOneVerdict == ASSUME TypeInv, VerdictInv, AdmitOne PROVE VerdictInv'
<1>a. PICK cl \in Class : cl = admitting
  BY DEF AdmitOne, TypeInv, Locals
<1>0. waiters[cl] # <<>> /\ waiters[cl] \in Seq(Of(cl))
  BY <1>a DEF AdmitOne, FitsNext, TypeInv, Lines
<1>1. PICK w \in Of(cl) : w = Head(waiters[cl])
  BY <1>0, HeadTailProperties
<1> DEFINE c == w.caller
<1>2. w \in Request /\ w.class = cl /\ c \in Callers
  BY OfClass
<1>3. 1 \in DOMAIN waiters[cl] /\ w = waiters[cl][1]
  BY <1>0, <1>1
<1>4. Waiting(c) /\ w = req[c]
  BY <1>0, <1>3 DEF Waiting, InLine, VerdictInv, LineInv, Own, OwnBy
<1>5. PlacedAt(c) /\ HonestAt(c)
  BY <1>2 DEF VerdictInv, Placed
<1>6. Nowhere(c) /\ ready[c] = "empty" /\ pc[c] \in {"admit", "admitCancel"} /\ wrote[c] = "no"
  <2>1. pc[c] \in CallState
    BY <1>2 DEF TypeInv, TypeOK
  <2> QED
    BY <1>4, <1>5, <2>1 DEF PlacedAt, HonestAt, CallState
<1>7. /\ queues' = [queues EXCEPT ![cl] = Append(queues[cl], w)]
      /\ waiters' = [waiters EXCEPT ![cl] = Tail(waiters[cl])]
      /\ ready' = [ready EXCEPT ![c] = "nil"]
      /\ UNCHANGED <<mu, active, pump, writeErr, req, pc, done, wrote>>
  BY <1>a, <1>1, <1>2 DEF AdmitOne, Enqueue, pumpVars, callVars
<1>8. Joins(queues', queues, w)
  BY <1>0, <1>2, <1>6, <1>7, LineCallers, PushLine DEF VerdictInv, LineInv, Nowhere, Queued
<1>9. Leaves(waiters', waiters, c)
  BY <1>0, <1>1, <1>7, LineCallers, PopLine DEF VerdictInv, LineInv
<1>10. LineInv'
  <2>1. OwnBy(req', queues')
    BY <1>4, <1>7, <1>8, OwnMoves DEF VerdictInv, LineInv, Own
  <2>2. OwnBy(req', waiters')
    BY <1>7, <1>9, OwnMoves DEF VerdictInv, LineInv, Own
  <2> QED
    BY <1>8, <1>9, <2>1, <2>2 DEF LineInv, Own, Joins, Leaves
<1>11. ActiveInv'
  BY <1>7 DEF VerdictInv, ActiveInv
<1>12. \A d : /\ Carries(d)' <=> Carries(d)
              /\ AtWriter(d)' <=> AtWriter(d)
              /\ Settled(d)' <=> Settled(d)
              /\ Queued(d)' <=> Queued(d) \/ d = c
              /\ Waiting(d)' <=> Waiting(d) /\ d # c
  BY <1>7, <1>8, <1>9 DEF Carries, AtWriter, Settled, Queued, Waiting, Joins, Leaves
<1>13. ready'[c] = "nil" /\ \A d \in Callers \ {c} : ready'[d] = ready[d]
  BY <1>2, <1>7 DEF TypeInv, TypeOK
<1>14. PlacedAt(c)'
  BY <1>6, <1>7, <1>12, <1>13 DEF PlacedAt, Nowhere, InFlight
<1>15. HonestAt(c)'
  BY <1>5, <1>6, <1>7, <1>12, <1>13 DEF HonestAt
<1> QED
  BY <1>2, <1>7, <1>10, <1>11, <1>12, <1>13, <1>14, <1>15, OneCaller

\* A queued request is failed with the scheduler's verdict.
LEMMA FailOneVerdict == ASSUME TypeInv, VerdictInv, FailOne PROVE VerdictInv'
<1>1. PICK cl \in Class :
        /\ queues[cl] # <<>>
        /\ done' = [done EXCEPT ![Head(queues[cl]).caller] = terminal]
        /\ queues' = [queues EXCEPT ![cl] = Tail(queues[cl])]
  BY DEF FailOne
<1>2. queues[cl] \in Seq(Of(cl))
  BY DEF TypeInv, Lines
<1>3. PICK w \in Of(cl) : w = Head(queues[cl])
  BY <1>1, <1>2, HeadTailProperties
<1> DEFINE c == w.caller
<1>4. w \in Request /\ c \in Callers
  BY OfClass
<1>5. 1 \in DOMAIN queues[cl] /\ w = queues[cl][1]
  BY <1>1, <1>2, <1>3
<1>6. Queued(c) /\ PlacedAt(c) /\ HonestAt(c)
  BY <1>4, <1>5 DEF Queued, InLine, VerdictInv, Placed
<1>7. /\ InFlight(c) /\ ~AtWriter(c) /\ ~Settled(c) /\ wrote[c] = "no"
      /\ ready[c] \in {"empty", "nil"} /\ pc[c] \notin {"idle", "locked"}
  <2>1. pc[c] \in CallState
    BY <1>4 DEF TypeInv, TypeOK
  <2> QED
    BY <1>6, <2>1 DEF PlacedAt, HonestAt, InFlight, Nowhere, CallState
<1>8. ~Carries(c)
  BY <1>7, AtWriterCarries DEF VerdictInv
<1>9. UNCHANGED <<waiters, mu, active, pump, writeErr, req, pc, ready, wrote>>
  BY DEF FailOne, pumpVars, callVars
<1>10. Leaves(queues', queues, c)
  BY <1>1, <1>3, LineCallers, PopLine DEF VerdictInv, LineInv
<1>11. LineInv'
  <2>1. OwnBy(req', queues') /\ OwnBy(req', waiters')
    BY <1>9, <1>10, OwnMoves DEF VerdictInv, LineInv, Own
  <2>2. Distinct(queues') /\ Distinct(waiters')
    BY <1>9, <1>10 DEF VerdictInv, LineInv, Leaves
  <2> QED
    BY <2>1, <2>2 DEF LineInv, Own
<1>12. ActiveInv'
  BY <1>9 DEF VerdictInv, ActiveInv
<1>13. /\ done'[c] = terminal /\ terminal \in {"closed", "failed"}
       /\ \A d \in Callers \ {c} : done'[d] = done[d]
  BY <1>1, <1>3, <1>4 DEF FailOne, TypeInv, TypeOK, Holder
<1>14. \A d : /\ Carries(d)' <=> Carries(d)
              /\ AtWriter(d)' <=> AtWriter(d)
              /\ Queued(d)' <=> Queued(d) /\ d # c
              /\ Waiting(d)' <=> Waiting(d)
  BY <1>9, <1>10 DEF Carries, AtWriter, Queued, Waiting, Leaves, InLine
<1>15. PlacedAt(c)'
  BY <1>6, <1>7, <1>9, <1>13, <1>14 DEF PlacedAt, InFlight, Nowhere, Settled
<1>16. HonestAt(c)'
  BY <1>6, <1>7, <1>8, <1>9, <1>13, <1>14 DEF HonestAt
<1> QED
  BY <1>4, <1>9, <1>11, <1>12, <1>13, <1>14, <1>15, <1>16, OneCaller

\* The pump takes the head of a queue to the writer.
LEMMA TakeVerdict ==
    ASSUME TypeInv, VerdictInv, NEW cl \in Class, queues[cl] # <<>>, NEW o, NEW i,
           Pop(cl, o, i), active = None,
           UNCHANGED <<waiters, writeErr, callVars, ready, done>>
    PROVE  VerdictInv'
<1>2. queues[cl] \in Seq(Of(cl))
  BY DEF TypeInv, Lines
<1>3. PICK w \in Of(cl) : w = Head(queues[cl])
  BY <1>2, HeadTailProperties
<1> DEFINE c == w.caller
<1>4. w \in Request /\ c \in Callers /\ w # None
  BY OfClass, SchedulerAssumption DEF Request
<1>5. 1 \in DOMAIN queues[cl] /\ w = queues[cl][1]
  BY <1>2, <1>3
<1>6. Queued(c) /\ PlacedAt(c) /\ HonestAt(c)
  BY <1>4, <1>5 DEF Queued, InLine, VerdictInv, Placed
<1>7. /\ InFlight(c) /\ ~AtWriter(c) /\ ~Settled(c) /\ wrote[c] = "no"
      /\ ready[c] \in {"empty", "nil"} /\ pc[c] \notin {"idle", "locked"}
      /\ ~Waiting(c)
  <2>1. pc[c] \in CallState
    BY <1>4 DEF TypeInv, TypeOK
  <2> QED
    BY <1>6, <2>1 DEF PlacedAt, HonestAt, InFlight, Nowhere, CallState
<1>8. /\ queues' = [queues EXCEPT ![cl] = Tail(queues[cl])]
      /\ active' = w /\ pump' = "writing"
      /\ wrote' = [wrote EXCEPT ![c] = "writing"]
      /\ UNCHANGED <<waiters, writeErr, req, pc, ready, done>>
  BY <1>3 DEF Pop, callVars
<1>9. Leaves(queues', queues, c)
  BY <1>3, <1>8, LineCallers, PopLine DEF VerdictInv, LineInv
<1>10. LineInv'
  <2>1. OwnBy(req', queues') /\ OwnBy(req', waiters')
    BY <1>8, <1>9, OwnMoves DEF VerdictInv, LineInv, Own
  <2>2. Distinct(queues') /\ Distinct(waiters')
    BY <1>8, <1>9 DEF VerdictInv, LineInv, Leaves
  <2> QED
    BY <2>1, <2>2 DEF LineInv, Own
<1>11. ActiveInv'
  BY <1>4, <1>8 DEF ActiveInv
<1>12. active' # None /\ active'.caller = c
  BY <1>4, <1>8
<1>13. \A d : /\ Carries(d)' <=> d = c
              /\ AtWriter(d)' <=> d = c
              /\ ~Carries(d) /\ ~AtWriter(d)
  BY <1>8, <1>12 DEF Carries, AtWriter
<1>14. \A d : Queued(d)' <=> Queued(d) /\ d # c
  BY <1>9 DEF Queued, Leaves
<1>15. \A d : (Settled(d)' <=> Settled(d)) /\ (Waiting(d)' <=> Waiting(d))
  BY <1>8 DEF Settled, Waiting, InLine
<1>16. wrote'[c] = "writing" /\ \A d \in Callers \ {c} : wrote'[d] = wrote[d]
  BY <1>4, <1>8 DEF TypeInv, TypeOK
<1>17. PlacedAt(c)'
  BY <1>6, <1>7, <1>8, <1>13, <1>14, <1>15 DEF PlacedAt, InFlight, Nowhere
<1>18. HonestAt(c)'
  BY <1>6, <1>7, <1>8, <1>13, <1>14, <1>15, <1>16 DEF HonestAt, Settled
<1>19. \A d \in Callers \ {c} : /\ Carries(d)' <=> Carries(d)
                                /\ Queued(d)' <=> Queued(d)
                                /\ ~Carries(d)
  BY <1>13, <1>14
<1> QED
  BY <1>4, <1>8, <1>10, <1>11, <1>15, <1>16, <1>17, <1>18, <1>19, OneCaller

\* The three ways to the writer.
LEMMA TakesVerdict ==
    ASSUME TypeInv, VerdictInv, PumpControl \/ TakeBulk \/ TakeMedia PROVE VerdictInv'
<1>1. CASE PumpControl
  <2>1. Control \in Class /\ active = None
    BY <1>1 DEF Class, PumpControl, VerdictInv, ActiveInv
  <2> QED
    BY <1>1, <2>1, TakeVerdict DEF PumpControl
<1>2. CASE TakeBulk
  <2>1. Bulk \in Class /\ active = None
    BY <1>2 DEF Class, TakeBulk, VerdictInv, ActiveInv, TypeInv, Holder
  <2> QED
    BY <1>2, <2>1, TakeVerdict DEF TakeBulk
<1>3. CASE TakeMedia
  <2>1. PICK cl \in Class : cl = MediaLane[inner.current] /\ queues[cl] # <<>>
    <3>1. inner.current \in {0, 1}
      BY DEF TypeInv, TypeOK, RoundRobin
    <3> QED
      BY <1>3, <3>1 DEF TakeMedia, InnerFits, InnerBacklog, MediaLane, Class, Media
  <2>2. PICK o, i : Pop(cl, o, i)
    BY <1>3, <2>1 DEF TakeMedia
  <2>3. active = None
    BY <1>3 DEF TakeMedia, InnerFits, VerdictInv, ActiveInv, TypeInv, Holder
  <2> QED
    BY <1>3, <2>1, <2>2, <2>3, TakeVerdict DEF TakeMedia
<1> QED
  BY <1>1, <1>2, <1>3

\* The request that has been written gets its verdict.
LEMMA DeliverVerdict == ASSUME TypeInv, VerdictInv, Deliver PROVE VerdictInv'
<1>1. active \in Request /\ active # None
  BY DEF Deliver, TypeInv, Locals, VerdictInv, ActiveInv
<1>2. PICK c \in Callers : c = active.caller
  BY <1>1 DEF Request
<1>3. PlacedAt(c) /\ HonestAt(c) /\ AtWriter(c) /\ Carries(c)
  BY <1>1, <1>2 DEF Deliver, AtWriter, Carries, VerdictInv, Placed
<1>4. /\ ~Queued(c) /\ ~Settled(c) /\ ~Waiting(c)
      /\ ready[c] \in {"empty", "nil"} /\ pc[c] \notin {"idle", "locked"}
  <2>1. pc[c] \in CallState
    BY DEF TypeInv, TypeOK
  <2> QED
    BY <1>3, <2>1 DEF PlacedAt, InFlight, Nowhere, CallState
<1>5. /\ pump = "deliver" /\ pump' = "next" /\ active' = None /\ writeErr' = "nil"
      /\ done' = [done EXCEPT ![c] = writeErr]
      /\ UNCHANGED <<queues, waiters, mu, req, pc, ready, wrote>>
  BY <1>2 DEF Deliver, lineVars, callVars
<1>6. /\ done'[c] = writeErr /\ writeErr \in {"nil", "failed"}
      /\ \A d \in Callers \ {c} : done'[d] = done[d]
  BY <1>5 DEF TypeInv, TypeOK
<1>7. LineInv'
  BY <1>5 DEF VerdictInv, LineInv, Distinct, Own
<1>8. ActiveInv'
  BY <1>5 DEF ActiveInv
<1>9. \A d : (Queued(d)' <=> Queued(d)) /\ (Waiting(d)' <=> Waiting(d))
  BY <1>5 DEF Queued, Waiting, InLine
<1>10. \A d : ~Carries(d)' /\ ~AtWriter(d)' /\ (Carries(d) => d = c)
  BY <1>2, <1>5 DEF Carries, AtWriter
<1>11. PlacedAt(c)'
  BY <1>3, <1>4, <1>5, <1>6, <1>9, <1>10 DEF PlacedAt, InFlight, Nowhere, Settled
<1>12. HonestAt(c)'
  BY <1>3, <1>4, <1>5, <1>6, <1>9, <1>10 DEF HonestAt
<1>13. \A d \in Callers \ {c} : (Carries(d)' <=> Carries(d)) /\ ~Carries(d)
  BY <1>10
<1> QED
  BY <1>5, <1>6, <1>7, <1>8, <1>9, <1>11, <1>12, <1>13, OneCaller

\* The end of the scheduler, for a caller the step does nothing else to: an
\* admission waiter leaves the line with the verdict, the others stay put.
LEMMA TerminatePlaces ==
    ASSUME TypeInv, VerdictInv, ActiveInv', NEW err \in {"closed", "failed"}, Terminate(err),
           UNCHANGED <<queues, pc, done, active>>, NEW c \in Callers,
           wrote'[c] = wrote[c],
           Carries(c) => (pump' = "writing" \/ pump # "writing") /\ writeErr' = writeErr
    PROVE  PlacedAt(c)' /\ HonestAt(c)'
<1>1. PlacedAt(c) /\ HonestAt(c)
  BY DEF VerdictInv, Placed
<1>2. ~Waiting(c)'
  BY DEF Terminate, Waiting, InLine
<1>3. ready'[c] = IF Waiting(c) THEN err ELSE ready[c]
  BY DEF Terminate, Waiting, InLine
<1>4. (Queued(c)' <=> Queued(c)) /\ (Carries(c)' <=> Carries(c)) /\ (Settled(c)' <=> Settled(c))
  BY DEF Queued, InLine, Carries, Settled
<1>5. CASE ~Waiting(c)
  BY <1>1, <1>2, <1>3, <1>4, <1>5, Untouched DEF VerdictInv
<1>6. CASE Waiting(c)
  <2>1. pc[c] \in CallState
    BY DEF TypeInv, TypeOK
  <2>2. Nowhere(c) /\ ready[c] = "empty" /\ pc[c] \in {"admit", "admitCancel"} /\ wrote[c] = "no"
    BY <1>1, <1>6, <2>1 DEF PlacedAt, CallState, HonestAt
  <2>3. ~AtWriter(c) /\ ~Carries(c) /\ ~AtWriter(c)'
    BY <1>4, <2>2, AtWriterCarries DEF Nowhere, VerdictInv, AtWriter, Carries
  <2>4. PlacedAt(c)'
    BY <1>2, <1>3, <1>4, <1>6, <2>2, <2>3 DEF PlacedAt, Nowhere
  <2>5. HonestAt(c)'
    BY <1>1, <1>2, <1>3, <1>4, <1>6, <2>2, <2>3 DEF HonestAt
  <2> QED
    BY <2>4, <2>5
<1> QED
  BY <1>5, <1>6

\* The lines keep their form when the admission waiters are dropped.
LEMMA TerminateLines ==
    ASSUME LineInv, NEW err, Terminate(err), UNCHANGED <<queues, req>>
    PROVE  LineInv'
<1>1. \A cl \in Class : DOMAIN (waiters')[cl] = {}
  BY DEF Terminate
<1>2. Distinct(waiters') /\ OwnBy(req', waiters')
  BY <1>1 DEF Distinct, OwnBy
<1> QED
  BY <1>2 DEF LineInv, Own, Distinct, OwnBy

\* Close.
LEMMA CloseVerdict == ASSUME TypeInv, VerdictInv, Close PROVE VerdictInv'
<1>1. /\ Terminate("closed") /\ mu = "free" /\ mu' = "fail"
      /\ UNCHANGED <<queues, pc, req, done, wrote, active, pump, writeErr>>
  BY DEF Close, Terminate, pumpVars, callVars
<1>2. ActiveInv'
  BY <1>1 DEF TypeInv, Holder, VerdictInv, ActiveInv
<1>3. LineInv'
  BY <1>1, TerminateLines DEF VerdictInv
<1>4. ASSUME NEW c \in Callers PROVE PlacedAt(c)' /\ HonestAt(c)'
  BY <1>1, <1>2, TerminatePlaces
<1> QED
  BY <1>2, <1>3, <1>4 DEF VerdictInv, Placed

\* The writer returns: its verdict is recorded for the request it wrote.
LEMMA WriteReturnsVerdict ==
    ASSUME TypeInv, VerdictInv, NEW err \in {"nil", "failed"}, WriteReturns(err)
    PROVE  VerdictInv'
<1>1. active \in Request /\ active # None /\ pump = "writing" /\ mu = "free"
  BY DEF WriteReturns, TypeInv, Locals, VerdictInv, ActiveInv
<1>2. PICK c \in Callers : c = active.caller
  BY <1>1 DEF Request
<1>3. PlacedAt(c) /\ HonestAt(c) /\ AtWriter(c) /\ Carries(c)
  BY <1>1, <1>2 DEF AtWriter, Carries, VerdictInv, Placed
<1>4. /\ ~Queued(c) /\ done[c] = "empty" /\ ~Waiting(c)
      /\ ready[c] \in {"empty", "nil"} /\ pc[c] \notin {"idle", "locked"}
  <2>1. pc[c] \in CallState
    BY DEF TypeInv, TypeOK
  <2> QED
    BY <1>3, <2>1 DEF PlacedAt, InFlight, Nowhere, Settled, CallState
<1>5. /\ wrote' = [wrote EXCEPT ![c] = IF err = "nil" THEN "ok" ELSE "failed"]
      /\ writeErr' = err /\ UNCHANGED <<queues, active, req, pc, done>>
      /\ \/ pump' = "locked" /\ mu' = "fail"
         \/ pump' = "locked" /\ mu' = "admit"
         \/ pump' = "deliver"
  BY <1>2 DEF WriteReturns, Terminate, callVars
<1>6. /\ wrote'[c] = IF err = "nil" THEN "ok" ELSE "failed"
      /\ \A d \in Callers \ {c} : wrote'[d] = wrote[d]
  BY <1>5 DEF TypeInv, TypeOK
<1>7. ActiveInv'
  BY <1>1, <1>5 DEF ActiveInv
<1>8. /\ \A d : (Queued(d)' <=> Queued(d)) /\ (Carries(d)' <=> Carries(d))
      /\ \A d : Carries(d) => d = c
      /\ AtWriter(c)'
  BY <1>1, <1>2, <1>5 DEF Queued, InLine, Carries, AtWriter
<1>9. ASSUME ready'[c] = ready[c], ~Waiting(c)' PROVE PlacedAt(c)' /\ HonestAt(c)'
  <2>1. PlacedAt(c)'
    BY <1>3, <1>4, <1>5, <1>8, <1>9 DEF PlacedAt, InFlight, Nowhere, Settled
  <2>2. HonestAt(c)'
    BY <1>4, <1>5, <1>6, <1>8, <1>9 DEF HonestAt
  <2> QED
    BY <2>1, <2>2
<1>10. CASE Terminate(err) /\ err = "failed"
  <2>1. ready'[c] = ready[c] /\ ~Waiting(c)'
    BY <1>4, <1>10 DEF Terminate, Waiting, InLine
  <2>2. LineInv'
    BY <1>5, <1>10, TerminateLines DEF VerdictInv
  <2>3. ASSUME NEW d \in Callers \ {c} PROVE PlacedAt(d)' /\ HonestAt(d)'
    BY <1>5, <1>6, <1>7, <1>8, <1>10, TerminatePlaces
  <2> QED
    BY <1>7, <1>9, <2>1, <2>2, <2>3 DEF VerdictInv, Placed
<1>11. CASE UNCHANGED <<waiters, ready>>
  <2>1. \A d : Waiting(d)' <=> Waiting(d)
    BY <1>11 DEF Waiting, InLine
  <2>2. LineInv'
    BY <1>5, <1>11 DEF VerdictInv, LineInv, Distinct, Own
  <2>3. PlacedAt(c)' /\ HonestAt(c)'
    BY <1>4, <1>9, <1>11, <2>1
  <2> QED
    BY <1>5, <1>6, <1>7, <1>8, <1>11, <2>1, <2>2, <2>3, OneCaller
<1> QED
  BY <1>10, <1>11 DEF WriteReturns

------------------------------------------------------------------------------
(* The theorems                                                            *)

\* NewScheduler starts with empty lines and nobody in Send.
LEMMA InitVerdict == Init => VerdictInv
<1> SUFFICES ASSUME Init PROVE VerdictInv
  OBVIOUS
<1>1. \A cl \in Class : DOMAIN queues[cl] = {} /\ DOMAIN waiters[cl] = {}
  BY DEF Init
<1>2. ActiveInv
  BY DEF Init, ActiveInv
<1>3. LineInv
  BY <1>1 DEF LineInv, Distinct, Own, OwnBy
<1>4. \A c : ~Queued(c) /\ ~Waiting(c) /\ ~AtWriter(c) /\ ~Carries(c)
  BY <1>1 DEF Queued, Waiting, InLine, AtWriter, Carries, Init
<1>5. \A c \in Callers : /\ pc[c] = "idle" /\ ready[c] = "empty" /\ done[c] = "empty"
                         /\ wrote[c] = "no"
  BY DEF Init
<1>6. \A c \in Callers : PlacedAt(c)
  BY <1>4, <1>5 DEF PlacedAt, Nowhere, Settled
<1>7. \A c \in Callers : HonestAt(c)
  BY <1>4, <1>5 DEF HonestAt
<1> QED
  BY <1>2, <1>3, <1>6, <1>7 DEF VerdictInv, Placed

\* Every step keeps the invariant.
LEMMA VerdictInvStep == TypeInv /\ VerdictInv /\ [Next]_vars => VerdictInv'
<1> SUFFICES ASSUME TypeInv, VerdictInv, [Next]_vars PROVE VerdictInv'
  OBVIOUS
<1>1. ASSUME NEW call \in Calls, Send(call.caller, call) PROVE VerdictInv'
  BY <1>1, SendVerdict
<1>2. ASSUME NEW c \in Callers, CallerStep(c) PROVE VerdictInv'
  BY <1>2, ReceiveReadyVerdict, ReceiveDoneVerdict, SelectCtxVerdict,
     CancelWaiterVerdict, CancelQueuedVerdict DEF CallerStep, CallerRuns
<1>3. CASE Close
  BY <1>3, CloseVerdict
<1>4. CASE PumpStep
  BY <1>4, SilentSteps, TakesVerdict, DeliverVerdict, WriteReturnsVerdict DEF PumpStep
<1>5. CASE LoopStep
  BY <1>5, AdmitOneVerdict, AdmitEndVerdict, FailOneVerdict, SilentSteps DEF LoopStep
<1>6. CASE UNCHANGED vars
  BY <1>6, SilentSteps
<1> QED
  BY <1>1, <1>2, <1>3, <1>4, <1>5, <1>6 DEF Next

\* The invariant holds for ever.
LEMMA VerdictInvariant == Spec => []VerdictInv
<1>1. Spec => []TypeInv
  BY InitTypeInv, TypeInvStep, PTL DEF Spec
<1> QED
  BY <1>1, InitVerdict, VerdictInvStep, PTL DEF Spec

\* Every caller inside Send has its request in exactly one place, or exactly
\* one verdict on its way: cancellation racing with admission, with the writer,
\* with a write error or with Close never loses a request and never delivers
\* twice (a second send on the capacity-one channel would block the pump).
THEOREM OneVerdictEach == Spec => []Placed
<1>1. VerdictInv => Placed
  BY DEF VerdictInv
<1> QED
  BY <1>1, VerdictInvariant, PTL

\* The verdict a Send is about to return is what happened to its frame: nil
\* only for one the writer accepted, a cancellation or ErrSchedulerClosed only
\* for one the writer never saw.
THEOREM VerdictsAreHonest == Spec => []HonestVerdict
<1>1. VerdictInv => HonestVerdict
  BY DEF VerdictInv, HonestAt, HonestVerdict
<1> QED
  BY <1>1, VerdictInvariant, PTL

------------------------------------------------------------------------------
(* The share of bulk                                                       *)

\* What the outer round robin never exceeds: a lane that passes its turn has
\* less credit than one frame, and a round adds one quantum to it.
CreditIn(rr) ==
    /\ ~rr.started => rr.current = 0 /\ rr.deficit[0] = 0 /\ rr.deficit[1] = 0
    /\ rr.current = 1 => rr.deficit[0] <= MaxMedia
    /\ rr.deficit[0] <= MaxMedia + 3 * BaseQuantum
    /\ rr.deficit[1] <= Cap[Bulk] + BaseQuantum

\* nextDataLocked works on a round that has started, and looks into media only
\* in media's turn.
Turn ==
    /\ mu \in {"outer", "inner"} => outer.started
    /\ mu = "inner" => outer.current = 0

\* Media has spent no more than three times what bulk was credited since its
\* head frame became the head, and what media had then.
Paid ==
    /\ mediaServed \in Nat
    /\ mediaServed + outer.deficit[0] <= MaxMedia + 3 * BaseQuantum + 3 * outer.deficit[1]

ShareInv == CreditIn(outer) /\ Turn /\ Paid

\* The credit of rr is no better for media, against bulk, than that of oo, when
\* media has been served n more bytes.
NoGain(rr, oo, n) == n + rr.deficit[0] + 3 * oo.deficit[1] <= oo.deficit[0] + 3 * rr.deficit[1]

LEMMA Sizes ==
    /\ MaxMedia \in Nat /\ BaseQuantum \in Nat /\ Cap[Bulk] \in Nat
    /\ \A cl \in Media : Cap[cl] <= MaxMedia
<1>1. \A cl \in Class : Cap[cl] \in Nat
  BY SchedulerAssumption
<1> QED
  BY <1>1, SchedulerAssumption DEF MaxMedia, Class, Media

\* The components of a round robin.
LEMMA RoundParts ==
    ASSUME NEW rr \in RoundRobin
    PROVE  /\ rr.current \in {0, 1} /\ rr.started \in BOOLEAN
           /\ rr.deficit \in [{0, 1} -> Nat]
           /\ rr.deficit[0] \in Nat /\ rr.deficit[1] \in Nat
  BY DEF RoundRobin

\* Forfeiting credit keeps the bounds, and bulk forfeits none while a frame of
\* it is queued.
LEMMA ResetCredit ==
    ASSUME NEW rr \in RoundRobin, CreditIn(rr), NEW cl \in Class, NEW q, NEW w
    PROVE  /\ CreditIn(ResetOuter(cl, q, w, rr))
           /\ q[Bulk] # <<>> => NoGain(ResetOuter(cl, q, w, rr), rr, 0)
<1> DEFINE keep == [k \in {0, 1} |-> IF \/ k = 0 /\ ~MediaDemand(q, w)
                                        \/ k = 1 /\ cl = Bulk /\ ~Demand(Bulk, q, w)
                                     THEN 0 ELSE rr.deficit[k]]
           kept == [rr EXCEPT !.deficit = keep]
<1>0. /\ rr.deficit[0] \in Nat /\ rr.deficit[1] \in Nat /\ rr.deficit \in [{0, 1} -> Nat]
      /\ rr.current \in {0, 1} /\ rr.started \in BOOLEAN
  BY RoundParts
<1>1. CASE q[cl] # <<>>
  BY <1>0, <1>1 DEF ResetOuter, NoGain
<1>2. CASE q[cl] = <<>> /\ ~MediaDemand(q, w) /\ ~Demand(Bulk, q, w)
  <2>1. ResetOuter(cl, q, w, rr) = IdleRound
    BY <1>2 DEF ResetOuter
  <2>2. /\ IdleRound.deficit[0] = 0 /\ IdleRound.deficit[1] = 0 /\ IdleRound.current = 0
        /\ ~IdleRound.started
    BY DEF IdleRound
  <2>3. CreditIn(IdleRound)
    BY <2>2, Sizes DEF CreditIn
  <2>4. q[Bulk] = <<>>
    BY <1>2 DEF Demand
  <2> QED
    BY <2>1, <2>3, <2>4
<1>3. CASE q[cl] = <<>> /\ ~(~MediaDemand(q, w) /\ ~Demand(Bulk, q, w))
  <2>1. ResetOuter(cl, q, w, rr) = kept
    BY <1>3 DEF ResetOuter
  <2>2. kept.deficit = keep /\ kept.current = rr.current /\ kept.started = rr.started
    BY DEF RoundRobin
  <2>3. /\ keep[0] \in {0, rr.deficit[0]} /\ keep[1] \in {0, rr.deficit[1]}
        /\ q[Bulk] # <<>> => keep[1] = rr.deficit[1]
    BY DEF Demand
  <2> HIDE DEF keep, kept
  <2>4. CreditIn(kept)
    BY <1>0, <2>2, <2>3, Sizes DEF CreditIn
  <2>5. q[Bulk] # <<>> => NoGain(kept, rr, 0)
    BY <1>0, <2>2, <2>3 DEF NoGain
  <2> QED
    BY <2>1, <2>4, <2>5
<1> QED
  BY <1>1, <1>2, <1>3

\* A round credits media three times what it credits a waiting bulk frame.
LEMMA RoundCredit ==
    ASSUME NEW rr \in RoundRobin, NEW backlog \in [{0, 1} -> BOOLEAN]
    PROVE  LET r == AddRound(rr, backlog) IN
           /\ r.current = rr.current /\ r.started = rr.started
           /\ r.deficit[0] = IF backlog[0] THEN rr.deficit[0] + 3 * BaseQuantum ELSE 0
           /\ r.deficit[1] = IF backlog[1] THEN rr.deficit[1] + BaseQuantum ELSE 0
  BY DEF AddRound, RoundRobin, Quantum

\* Entering nextDataLocked.
LEMMA StartCredit ==
    ASSUME NEW rr \in RoundRobin, CreditIn(rr), NEW backlog \in [{0, 1} -> BOOLEAN]
    PROVE  LET r == Start(rr, backlog) IN
           /\ CreditIn(r) /\ r.started
           /\ backlog[1] => NoGain(r, rr, 0)
<1> DEFINE a == AddRound(rr, backlog)
           b == [a EXCEPT !.started = TRUE]
<1>0. rr.deficit[0] \in Nat /\ rr.deficit[1] \in Nat /\ rr.started \in BOOLEAN /\ rr.current \in {0, 1}
  BY RoundParts
<1>1. CASE rr.started
  BY <1>0, <1>1 DEF Start, NoGain
<1>2. CASE ~rr.started
  <2>1. Start(rr, backlog) = b
    BY <1>2 DEF Start
  <2>2. a \in RoundRobin
    BY RoundRobinClosed
  <2>3. b.deficit = a.deficit /\ b.current = a.current /\ b.started
    BY <2>2 DEF RoundRobin
  <2>4. /\ a.current = rr.current
        /\ a.deficit[0] = IF backlog[0] THEN rr.deficit[0] + 3 * BaseQuantum ELSE 0
        /\ a.deficit[1] = IF backlog[1] THEN rr.deficit[1] + BaseQuantum ELSE 0
    BY RoundCredit
  <2> HIDE DEF a, b
  <2>5. rr.current = 0 /\ rr.deficit[0] = 0 /\ rr.deficit[1] = 0
    BY <1>2 DEF CreditIn
  <2>6. /\ b.current = 0 /\ b.deficit[0] \in {0, 3 * BaseQuantum}
        /\ b.deficit[1] = IF backlog[1] THEN BaseQuantum ELSE 0
    BY <2>3, <2>4, <2>5, Sizes
  <2>7. CreditIn(b)
    BY <2>3, <2>6, Sizes DEF CreditIn
  <2>8. backlog[1] => NoGain(b, rr, 0)
    BY <2>5, <2>6, Sizes DEF NoGain
  <2> QED
    BY <2>1, <2>3, <2>7, <2>8
<1> QED
  BY <1>1, <1>2

\* A lane that gives up its turn after using its credit up to less than a frame.
LEMMA AdvanceCredit ==
    ASSUME NEW rr \in RoundRobin, CreditIn(rr), rr.started,
           NEW backlog \in [{0, 1} -> BOOLEAN],
           rr.current = 0 => rr.deficit[0] <= MaxMedia,
           rr.current = 1 => rr.deficit[1] <= Cap[Bulk]
    PROVE  LET r == Advance(rr, backlog) IN
           /\ CreditIn(r) /\ r.started
           /\ backlog[1] => NoGain(r, rr, 0)
<1>0. rr.deficit[0] \in Nat /\ rr.deficit[1] \in Nat /\ rr.started \in BOOLEAN /\ rr.current \in {0, 1}
  BY RoundParts
<1>1. CASE rr.current = 0
  <2> DEFINE b == [rr EXCEPT !.current = 1]
  <2>1. Advance(rr, backlog) = b
    BY <1>1 DEF Advance
  <2>2. b.deficit = rr.deficit /\ b.current = 1 /\ b.started = rr.started
    BY DEF RoundRobin
  <2> HIDE DEF b
  <2> QED
    BY <1>0, <1>1, <2>1, <2>2 DEF CreditIn, NoGain
<1>2. CASE rr.current = 1
  <2> DEFINE b == [rr EXCEPT !.current = 0]
             a == AddRound(b, backlog)
  <2>1. Advance(rr, backlog) = a
    BY <1>2 DEF Advance
  <2>2. b \in RoundRobin /\ b.deficit = rr.deficit /\ b.current = 0 /\ b.started = rr.started
    BY DEF RoundRobin
  <2> HIDE DEF b
  <2>3. /\ a.current = 0 /\ a.started = rr.started
        /\ a.deficit[0] = IF backlog[0] THEN rr.deficit[0] + 3 * BaseQuantum ELSE 0
        /\ a.deficit[1] = IF backlog[1] THEN rr.deficit[1] + BaseQuantum ELSE 0
    <3>1. /\ a.current = b.current /\ a.started = b.started
          /\ a.deficit[0] = IF backlog[0] THEN b.deficit[0] + 3 * BaseQuantum ELSE 0
          /\ a.deficit[1] = IF backlog[1] THEN b.deficit[1] + BaseQuantum ELSE 0
      BY <2>2, RoundCredit
    <3> HIDE DEF a
    <3> QED
      BY <2>2, <3>1
  <2> HIDE DEF a
  <2>4. rr.deficit[0] <= MaxMedia
    BY <1>2 DEF CreditIn
  <2>5. CreditIn(a)
    BY <1>0, <1>2, <2>3, <2>4, Sizes DEF CreditIn
  <2>6. backlog[1] => NoGain(a, rr, 0)
    BY <1>0, <2>3, Sizes DEF NoGain
  <2> QED
    BY <2>1, <2>3, <2>5, <2>6
<1> QED
  BY <1>0, <1>1, <1>2

\* A lane with nothing queued passes its turn.
LEMMA SkipCredit ==
    ASSUME NEW rr \in RoundRobin, CreditIn(rr), rr.started,
           NEW backlog \in [{0, 1} -> BOOLEAN], ~backlog[rr.current]
    PROVE  LET r == Skip(rr, backlog) IN
           /\ CreditIn(r) /\ r.started
           /\ backlog[1] => NoGain(r, rr, 0)
<1> DEFINE b == [rr EXCEPT !.deficit[rr.current] = 0]
           r == Advance(b, backlog)
<1>0. /\ rr.deficit[0] \in Nat /\ rr.deficit[1] \in Nat /\ rr.started \in BOOLEAN
      /\ rr.current \in {0, 1} /\ rr.deficit \in [{0, 1} -> Nat]
  BY RoundParts
<1>1. /\ b \in RoundRobin /\ b.current = rr.current /\ b.started = rr.started
      /\ b.deficit[rr.current] = 0
      /\ \A k \in {0, 1} : k # rr.current => b.deficit[k] = rr.deficit[k]
  BY <1>0 DEF RoundRobin
<1>2. Skip(rr, backlog) = r
  BY DEF Skip
<1> HIDE DEF b
<1>3. b.deficit[0] \in {0, rr.deficit[0]} /\ b.deficit[1] \in {0, rr.deficit[1]}
  BY <1>0, <1>1
<1>4. CreditIn(b)
  BY <1>0, <1>1, <1>3, Sizes DEF CreditIn
<1>5. /\ b.current = 0 => b.deficit[0] <= MaxMedia
      /\ b.current = 1 => b.deficit[1] <= Cap[Bulk]
  BY <1>0, <1>1, Sizes
<1>6. CreditIn(r) /\ r.started /\ (backlog[1] => NoGain(r, b, 0))
  BY <1>1, <1>4, <1>5, AdvanceCredit
<1>7. r.deficit[0] \in Nat /\ r.deficit[1] \in Nat
  BY <1>1, RoundRobinClosed, RoundParts
<1> HIDE DEF r
<1>8. backlog[1] => rr.current = 0 /\ b.deficit[0] = 0 /\ b.deficit[1] = rr.deficit[1]
  BY <1>0, <1>1
<1>9. backlog[1] => NoGain(r, rr, 0)
  BY <1>0, <1>6, <1>7, <1>8 DEF NoGain
<1> QED
  BY <1>2, <1>6, <1>9

\* A frame of n bytes is paid for.
LEMMA ChargeCredit ==
    ASSUME NEW rr \in RoundRobin, CreditIn(rr), rr.started,
           NEW k \in {0, 1}, NEW n \in Nat, n <= rr.deficit[k]
    PROVE  LET r == Charge(rr, k, n) IN
           /\ r \in RoundRobin /\ CreditIn(r) /\ r.started
           /\ k = 0 => NoGain(r, rr, n)
<1> DEFINE r == Charge(rr, k, n)
<1>0. /\ rr.deficit[0] \in Nat /\ rr.deficit[1] \in Nat /\ rr.started \in BOOLEAN
      /\ rr.current \in {0, 1} /\ rr.deficit \in [{0, 1} -> Nat]
  BY RoundParts
<1>1. r \in RoundRobin
  BY ChargeClosed
<1>2. /\ r.current = rr.current /\ r.started = rr.started
      /\ r.deficit[k] = rr.deficit[k] - n
      /\ \A j \in {0, 1} : j # k => r.deficit[j] = rr.deficit[j]
  BY <1>0 DEF Charge, RoundRobin
<1> HIDE DEF r
<1>3. CASE k = 0
  <2>1. r.deficit[0] = rr.deficit[0] - n /\ r.deficit[1] = rr.deficit[1]
    BY <1>2, <1>3
  <2> QED
    BY <1>0, <1>1, <1>2, <1>3, <2>1, Sizes DEF CreditIn, NoGain, r
<1>4. CASE k = 1
  <2>1. r.deficit[1] = rr.deficit[1] - n /\ r.deficit[0] = rr.deficit[0]
    BY <1>2, <1>4
  <2> QED
    BY <1>0, <1>1, <1>2, <1>4, <2>1, Sizes DEF CreditIn, r
<1> QED
  BY <1>3, <1>4

\* Gains add up.
LEMMA NoGainChain ==
    ASSUME NEW a \in RoundRobin, NEW b \in RoundRobin, NEW c \in RoundRobin, NEW n \in Nat,
           NoGain(b, a, n), NoGain(c, b, 0)
    PROVE  NoGain(c, a, n)
<1>1. /\ a.deficit[0] \in Nat /\ a.deficit[1] \in Nat /\ b.deficit[0] \in Nat
      /\ b.deficit[1] \in Nat /\ c.deficit[0] \in Nat /\ c.deficit[1] \in Nat
  BY RoundParts
<1> QED
  BY <1>1 DEF NoGain

\* What a step does to the count follows from what it does to the credits.
LEMMA PaidStep ==
    ASSUME outer \in RoundRobin, outer' \in RoundRobin, Paid, Count, CreditIn(outer)',
           NEW n \in Nat,
           BulkHeadStays => NoGain(outer', outer, n),
           MediaTaken => active'.len = n
    PROVE  Paid'
<1>0. /\ outer.deficit[0] \in Nat /\ outer.deficit[1] \in Nat
      /\ outer'.deficit[0] \in Nat /\ outer'.deficit[1] \in Nat
  BY RoundParts
<1>1. CASE ~BulkHeadStays
  <2>1. mediaServed' = 0
    BY <1>1 DEF Count
  <2>2. outer'.deficit[0] <= MaxMedia + 3 * BaseQuantum
    BY DEF CreditIn
  <2> QED
    BY <1>0, <2>1, <2>2, Sizes DEF Paid
<1>2. CASE BulkHeadStays
  <2>1. mediaServed' = mediaServed \/ mediaServed' = mediaServed + n
    BY <1>2 DEF Count
  <2>2. mediaServed \in Nat
    BY DEF Paid
  <2> QED
    BY <1>0, <1>2, <2>1, <2>2, Sizes DEF Paid, NoGain
<1> QED
  BY <1>1, <1>2

\* A step that leaves the outer round robin and the writer alone.
LEMMA IdleShare ==
    ASSUME TypeInv, ShareInv, Count, outer' = outer, pump' = "writing" => pump = "writing",
           Turn'
    PROVE  ShareInv'
<1>1. outer \in RoundRobin /\ outer' \in RoundRobin
  BY DEF TypeInv, TypeOK
<1>2. CreditIn(outer)'
  BY DEF ShareInv, CreditIn
<1>3. NoGain(outer', outer, 0)
  BY <1>1, RoundParts DEF NoGain
<1>4. ~MediaTaken
  BY DEF MediaTaken
<1>5. Paid /\ 0 \in Nat
  BY DEF ShareInv
<1>6. Paid'
  BY <1>1, <1>2, <1>3, <1>4, <1>5, PaidStep
<1> QED
  BY <1>2, <1>6 DEF ShareInv

\* The steps that do.
LEMMA IdleShareSteps ==
    ASSUME TypeInv, ShareInv, Count, Next,
           ~\E c \in Callers : CancelWaiter(c) \/ CancelQueued(c),
           ~PumpControl, ~PumpData, ~OuterPass, ~TakeBulk, ~TakeMedia, ~RefuseMedia
    PROVE  ShareInv'
<1>0. Turn
  BY DEF ShareInv
<1>a. ASSUME outer' = outer, Turn', pump' = "writing" => pump = "writing" PROVE ShareInv'
  BY <1>a, IdleShare
<1>1. ASSUME NEW call \in Calls, Send(call.caller, call) PROVE ShareInv'
  <2>1. outer' = outer /\ pump' = pump /\ mu' = mu
    BY <1>1 DEF Send, lineVars, drrVars, pumpVars
  <2> QED
    BY <1>0, <1>a, <2>1 DEF Turn
<1>2. ASSUME NEW c \in Callers, ReceiveReady(c) \/ ReceiveDone(c) \/ SelectCtx(c) PROVE ShareInv'
  <2>1. outer' = outer /\ pump' = pump /\ mu' = mu
    BY <1>2 DEF ReceiveReady, ReceiveDone, SelectCtx, lineVars, drrVars, pumpVars
  <2> QED
    BY <1>0, <1>a, <2>1 DEF Turn
<1>3. CASE Close \/ FailEnd \/ FailOne
  <2>1. outer' = outer /\ mu' \in {"fail", "free"} /\ (pump' = "writing" => pump = "writing")
    BY <1>3 DEF Close, Terminate, FailEnd, FailOne, lineVars, drrVars, pumpVars
  <2> QED
    BY <1>0, <1>a, <2>1 DEF Turn
<1>4. CASE AdmitOne \/ AdmitEnd
  <2>1. outer' = outer /\ mu' \in {"admit", "free"} /\ (pump' = "writing" => pump = "writing")
    BY <1>4 DEF AdmitOne, AdmitEnd, lineVars, drrVars, pumpVars
  <2> QED
    BY <1>0, <1>a, <2>1 DEF Turn
<1>5. CASE PumpIdle \/ PumpWake \/ PumpExit \/ Deliver \/ InnerPass
  <2>1. outer' = outer /\ mu' = mu /\ (pump' = "writing" => pump = "writing")
    BY <1>5 DEF PumpIdle, PumpWake, PumpExit, Deliver, InnerPass, lineVars, drrVars, pumpVars
  <2> QED
    BY <1>0, <1>a, <2>1 DEF Turn
<1>6. CASE PeekMedia
  <2>1. outer' = outer /\ mu = "outer" /\ mu' = "inner" /\ pump' = pump /\ outer.current = 0
    BY <1>6 DEF PeekMedia, lineVars, drrVars, pumpVars
  <2> QED
    BY <1>0, <1>a, <2>1 DEF Turn
<1>7. ASSUME NEW err \in {"nil", "failed"}, WriteReturns(err) PROVE ShareInv'
  <2>1. outer' = outer /\ mu' \in {"fail", "admit", "free"} /\ pump' # "writing"
    BY <1>7 DEF WriteReturns, Terminate, lineVars, drrVars, pumpVars
  <2> QED
    BY <1>0, <1>a, <2>1 DEF Turn
<1> QED
  BY <1>1, <1>2, <1>3, <1>4, <1>5, <1>6, <1>7 DEF Next, PumpStep, LoopStep, CallerStep, CallerRuns

\* A cancellation.
LEMMA CancelShare ==
    ASSUME TypeInv, TypeInv', ShareInv, Count, NEW c \in Callers,
           CancelWaiter(c) \/ CancelQueued(c)
    PROVE  ShareInv'
<1> DEFINE cl == req[c].class
<1>1. cl \in Class /\ mu = "free"
  BY ReqClass DEF CancelWaiter, CancelQueued
<1>2. outer \in RoundRobin /\ outer' \in RoundRobin
  BY DEF TypeInv, TypeOK
<1>3. pump' = pump /\ mu' \in {"free", "admit"}
  BY <1>1 DEF CancelWaiter, CancelQueued, pumpVars
<1>4. Turn' /\ ~MediaTaken
  BY <1>3 DEF Turn, MediaTaken
<1> HIDE DEF cl
<1>5. outer' = outer \/ outer' = ResetOuter(cl, queues', waiters', outer)
  BY DEF CancelWaiter, CancelQueued, cl
<1>6. CASE outer' = outer
  BY <1>3, <1>4, <1>6, IdleShare
<1>7. CASE outer' = ResetOuter(cl, queues', waiters', outer)
  <2>1. CreditIn(outer') /\ (queues'[Bulk] # <<>> => NoGain(outer', outer, 0))
    BY <1>1, <1>2, <1>7, ResetCredit DEF ShareInv
  <2>2. Paid'
    BY <1>2, <1>4, <2>1, PaidStep DEF ShareInv, BulkHeadStays
  <2> QED
    BY <1>4, <2>1, <2>2 DEF ShareInv
<1> QED
  BY <1>5, <1>6, <1>7

\* A frame goes to the writer and its lane has paid for it.
LEMMA PopShare ==
    ASSUME TypeInv, TypeInv', ShareInv, Count, NEW cl \in Class, queues[cl] # <<>>,
           NEW o \in RoundRobin, CreditIn(o), NEW i \in RoundRobin, Pop(cl, o, i),
           UNCHANGED waiters, NEW n \in Nat,
           cl \in Media => n = Head(queues[cl]).len,
           BulkHeadStays => NoGain(o, outer, n)
    PROVE  ShareInv'
<1>1. outer \in RoundRobin /\ outer' \in RoundRobin
  BY DEF TypeInv, TypeOK
<1>2. outer' = ResetOuter(cl, queues', waiters', o) /\ active' = Head(queues[cl]) /\ mu' = "free"
  BY DEF Pop
<1>3. CreditIn(outer') /\ (queues'[Bulk] # <<>> => NoGain(outer', o, 0))
  BY <1>2, ResetCredit
<1>4. BulkHeadStays => NoGain(outer', outer, n)
  BY <1>1, <1>3, NoGainChain DEF BulkHeadStays
<1>5. Head(queues[cl]) \in Of(cl)
  BY HeadTailProperties DEF TypeInv, Lines
<1>6. active'.class = cl
  BY <1>2, <1>5, OfClass
<1>7. MediaTaken => active'.len = n
  BY <1>2, <1>6 DEF MediaTaken
<1>8. Paid'
  BY <1>1, <1>3, <1>4, <1>7, PaidStep DEF ShareInv
<1>9. Turn'
  BY <1>2 DEF Turn
<1> QED
  BY <1>3, <1>8, <1>9 DEF ShareInv

\* Neither a control frame nor bulk itself is served at bulk's expense.
LEMMA PumpControlShare ==
    ASSUME TypeInv, TypeInv', ShareInv, Count, PumpControl PROVE ShareInv'
<1>1. outer \in RoundRobin /\ inner \in RoundRobin /\ CreditIn(outer) /\ 0 \in Nat
  BY DEF TypeInv, TypeOK, ShareInv
<1>2. Control \in Class /\ Control \notin Media
  BY DEF Class, Media, Control, Interactive, Thumbnail
<1>3. queues[Control] # <<>> /\ Pop(Control, outer, inner) /\ UNCHANGED waiters
  BY DEF PumpControl
<1>4. NoGain(outer, outer, 0)
  BY <1>1, RoundParts DEF NoGain
<1> QED
  BY <1>1, <1>2, <1>3, <1>4, PopShare

\* The head of bulk is taken: another frame, of another caller, is next.
LEMMA TakeBulkShare ==
    ASSUME TypeInv, TypeInv', VerdictInv, ShareInv, Count, TakeBulk PROVE ShareInv'
<1> DEFINE n == Head(queues[Bulk]).len
           o == Charge(outer, 1, n)
<1>1. outer \in RoundRobin /\ inner \in RoundRobin /\ CreditIn(outer) /\ outer.started
  BY DEF TypeInv, TypeOK, ShareInv, Turn, TakeBulk
<1>2. Bulk \in Class /\ Bulk \notin Media /\ queues[Bulk] # <<>>
  BY DEF Class, Media, Bulk, Interactive, Thumbnail, TakeBulk
<1>3. queues[Bulk] \in Seq(Of(Bulk)) /\ Head(queues[Bulk]) \in Of(Bulk)
  BY <1>2, HeadTailProperties DEF TypeInv, Lines
<1>4. n \in Nat /\ n <= outer.deficit[1]
  BY <1>2, <1>3, OfClass DEF TakeBulk
<1>5. Pop(Bulk, o, inner) /\ UNCHANGED waiters
  BY DEF TakeBulk
<1>6. o \in RoundRobin /\ CreditIn(o)
  BY <1>1, <1>4, ChargeCredit
<1>7. ~BulkHeadStays
  <2> SUFFICES ASSUME BulkHeadStays PROVE FALSE
    OBVIOUS
  <2>1. queues'[Bulk] = Tail(queues[Bulk])
    BY <1>2, <1>5 DEF Pop, TypeInv, TypeOK
  <2>2. Tail(queues[Bulk]) # <<>> /\ Head(Tail(queues[Bulk])) = Head(queues[Bulk])
    BY <2>1 DEF BulkHeadStays
  <2>3. Len(queues[Bulk]) \in Nat /\ DOMAIN queues[Bulk] = 1 .. Len(queues[Bulk])
    BY <1>3, LenProperties
  <2>4. /\ Tail(queues[Bulk]) \in Seq(Of(Bulk))
        /\ Len(Tail(queues[Bulk])) = Len(queues[Bulk]) - 1
        /\ \A k \in 1 .. Len(Tail(queues[Bulk])) : Tail(queues[Bulk])[k] = queues[Bulk][k + 1]
    BY <1>2, <1>3, HeadTailProperties
  <2>5. Len(queues[Bulk]) >= 2
    BY <2>2, <2>3, <2>4, EmptySeq
  <2>6. queues[Bulk][2] = queues[Bulk][1] /\ 1 \in DOMAIN queues[Bulk] /\ 2 \in DOMAIN queues[Bulk]
    <3>1. Head(queues[Bulk]) = queues[Bulk][1]
      BY <1>3
    <3>2. \A t \in Seq(Of(Bulk)) : Head(t) = t[1]
      OBVIOUS
    <3>3. Head(Tail(queues[Bulk])) = Tail(queues[Bulk])[1]
      BY <2>4, <3>2
    <3> QED
      BY <2>2, <2>3, <2>4, <2>5, <3>1, <3>3
  <2> QED
    BY <1>2, <2>6 DEF VerdictInv, LineInv, Distinct
<1> HIDE DEF n, o
<1> QED
  BY <1>1, <1>2, <1>4, <1>5, <1>6, <1>7, PopShare

\* A media frame is taken, and media's credit pays for it.
LEMMA TakeMediaShare ==
    ASSUME TypeInv, TypeInv', ShareInv, Count, TakeMedia PROVE ShareInv'
<1> DEFINE cl == MediaLane[inner.current]
           n == MediaHead.len
           o == Charge(outer, 0, n)
           i == Charge(inner, inner.current, n)
<1>1. inner \in RoundRobin /\ outer \in RoundRobin /\ inner.current \in {0, 1}
  BY DEF TypeInv, TypeOK, RoundRobin
<1>2. CreditIn(outer) /\ outer.started
  BY DEF ShareInv, Turn, TakeMedia, InnerFits
<1>3. cl \in Class /\ queues[cl] # <<>>
  BY <1>1 DEF TakeMedia, InnerFits, InnerBacklog, MediaLane, Class, Media
<1>4. MediaHead = Head(queues[cl]) /\ MediaHead \in Of(cl)
  BY <1>3, HeadTailProperties DEF TypeInv, Lines, MediaHead
<1>5. n \in Nat /\ n <= outer.deficit[0] /\ n <= inner.deficit[inner.current]
  BY <1>3, <1>4, OfClass DEF TakeMedia, InnerFits
<1>6. Pop(cl, o, i) /\ UNCHANGED waiters
  BY DEF TakeMedia
<1>7. o \in RoundRobin /\ CreditIn(o) /\ NoGain(o, outer, n)
  BY <1>1, <1>2, <1>5, ChargeCredit
<1>8. i \in RoundRobin
  BY <1>1, <1>5, ChargeClosed
<1>9. n = Head(queues[cl]).len
  BY <1>4
<1> HIDE DEF cl, n, o, i
<1> QED
  BY <1>3, <1>5, <1>6, <1>7, <1>8, <1>9, PopShare

\* The backlogs are what AddRound wants.
LEMMA Backlogs ==
    /\ OuterBacklog \in [{0, 1} -> BOOLEAN]
    /\ OuterBacklog[0] = HasMedia /\ OuterBacklog[1] = (queues[Bulk] # <<>>)
  BY DEF OuterBacklog, HasMedia

\* The round robin turns, and the writer is left alone.
LEMMA TurnShare ==
    ASSUME TypeInv, TypeInv', ShareInv, Count, CreditIn(outer'), outer'.started,
           queues' = queues, OuterBacklog[1] => NoGain(outer', outer, 0),
           pump' = "locked", mu' = "outer"
    PROVE  ShareInv'
<1>1. outer \in RoundRobin /\ outer' \in RoundRobin
  BY DEF TypeInv, TypeOK
<1>2. ~MediaTaken /\ (BulkHeadStays => OuterBacklog[1])
  BY Backlogs DEF MediaTaken, BulkHeadStays
<1>3. Paid'
  BY <1>1, <1>2, PaidStep DEF ShareInv
<1> QED
  BY <1>3 DEF ShareInv, Turn

LEMMA TurnShares ==
    ASSUME TypeInv, TypeInv', ShareInv, Count, PumpData \/ OuterPass \/ RefuseMedia
    PROVE  ShareInv'
<1>1. outer \in RoundRobin /\ CreditIn(outer) /\ outer.current \in {0, 1}
  BY DEF TypeInv, TypeOK, ShareInv, RoundRobin
<1>2. outer.deficit[0] \in Nat /\ outer.deficit[1] \in Nat
  BY <1>1, RoundParts
<1>3. CASE PumpData
  <2>1. outer' = Start(outer, OuterBacklog) /\ queues' = queues /\ pump' = "locked" /\ mu' = "outer"
    BY <1>3 DEF PumpData, lineVars
  <2> QED
    BY <1>1, <2>1, Backlogs, StartCredit, TurnShare
<1>4. CASE OuterPass
  <2>1. mu = "outer" /\ mu' = mu /\ queues' = queues /\ pump' = pump
    BY <1>4 DEF OuterPass, lineVars, pumpVars
  <2>2. pump = "locked" /\ outer.started
    BY <2>1 DEF TypeInv, Holder, ShareInv, Turn
  <2>3. CASE ~OuterBacklog[outer.current] /\ outer' = Skip(outer, OuterBacklog)
    BY <1>1, <2>1, <2>2, <2>3, Backlogs, SkipCredit, TurnShare
  <2>4. CASE /\ outer.current = 1 /\ queues[Bulk] # <<>>
             /\ Head(queues[Bulk]).len > outer.deficit[1]
             /\ outer' = Advance(outer, OuterBacklog)
    <3>1. Bulk \in Class
      BY DEF Class
    <3>2. Head(queues[Bulk]) \in Of(Bulk)
      BY <2>4, <3>1, HeadTailProperties DEF TypeInv, Lines
    <3>3. outer.deficit[1] <= Cap[Bulk]
      BY <1>2, <2>4, <3>1, <3>2, OfClass, Sizes
    <3>4. outer.current # 0
      BY <2>4
    <3> QED
      BY <1>1, <2>1, <2>2, <2>4, <3>3, <3>4, Backlogs, AdvanceCredit, TurnShare
  <2> QED
    BY <1>4, <2>3, <2>4 DEF OuterPass
<1>5. CASE RefuseMedia
  <2> DEFINE cl == MediaLane[inner.current]
  <2>1. /\ mu = "inner" /\ mu' = "outer" /\ queues' = queues /\ pump' = pump
        /\ outer' = Advance(outer, OuterBacklog)
    BY <1>5 DEF RefuseMedia, InnerFits, lineVars, pumpVars
  <2>2. pump = "locked" /\ outer.started /\ outer.current = 0
    BY <2>1 DEF TypeInv, Holder, ShareInv, Turn
  <2>3. inner.current \in {0, 1}
    BY DEF TypeInv, TypeOK, RoundRobin
  <2>4. cl \in Class /\ cl \in Media /\ queues[cl] # <<>>
    BY <1>5, <2>3 DEF RefuseMedia, InnerFits, InnerBacklog, MediaLane, Class, Media
  <2>5. MediaHead \in Of(cl)
    BY <2>4, HeadTailProperties DEF TypeInv, Lines, MediaHead
  <2>6. MediaHead.len \in Nat /\ MediaHead.len <= Cap[cl] /\ Cap[cl] <= MaxMedia /\ Cap[cl] \in Nat
    BY <2>4, <2>5, OfClass, Sizes, SchedulerAssumption
  <2>7. outer.deficit[0] <= MaxMedia
    BY <1>2, <1>5, <2>6, Sizes DEF RefuseMedia
  <2>8. outer.current # 1
    BY <2>2
  <2> QED
    BY <1>1, <2>1, <2>2, <2>7, <2>8, Backlogs, AdvanceCredit, TurnShare
<1> QED
  BY <1>3, <1>4, <1>5

\* While one bulk frame is at the head of its queue, media is served no more
\* than three times the credit that suffices for the largest bulk frame, and
\* one media frame, for any caps, quantum and traffic (scheduler.go:476-561).
THEOREM BulkGetsItsShare == ShareSpec => []BulkShare
<1> DEFINE I == TypeInv /\ VerdictInv /\ ShareInv
<1>1. ShareInit => I
  <2> SUFFICES ASSUME ShareInit PROVE I
    OBVIOUS
  <2>1. TypeInv /\ VerdictInv
    BY InitTypeInv, InitVerdict DEF ShareInit
  <2>2. /\ outer.deficit[0] = 0 /\ outer.deficit[1] = 0 /\ outer.current = 0
        /\ mu = "free" /\ mediaServed = 0
    BY DEF ShareInit, Init, IdleRound
  <2>3. ShareInv
    BY <2>2, Sizes DEF ShareInv, CreditIn, Turn, Paid
  <2> QED
    BY <2>1, <2>3
<1>2. I /\ [ShareNext]_shareVars => I'
  <2> SUFFICES ASSUME I, [ShareNext]_shareVars PROVE I'
    OBVIOUS
  <2>1. [Next]_vars
    BY DEF ShareNext, shareVars
  <2>2. TypeInv' /\ VerdictInv'
    BY <2>1, TypeInvStep, VerdictInvStep
  <2>3. ASSUME UNCHANGED shareVars PROVE ShareInv'
    <3>1. outer' = outer /\ mu' = mu /\ mediaServed' = mediaServed
      BY <2>3 DEF shareVars, vars
    <3> QED
      BY <3>1 DEF ShareInv, CreditIn, Turn, Paid
  <2>4. ASSUME Next, Count PROVE ShareInv'
    BY <2>2, <2>4, IdleShareSteps, CancelShare, PumpControlShare, TakeBulkShare,
       TakeMediaShare, TurnShares
  <2>5. ShareInv'
    BY <2>3, <2>4 DEF ShareNext
  <2> QED
    BY <2>2, <2>5
<1>3. I => BulkShare
  <2> SUFFICES ASSUME I PROVE BulkShare
    OBVIOUS
  <2>1. outer.deficit[0] \in Nat /\ outer.deficit[1] \in Nat
    BY RoundParts DEF TypeInv, TypeOK
  <2> QED
    BY <2>1, Sizes DEF ShareInv, CreditIn, Paid, BulkShare
<1> QED
  BY <1>1, <1>2, <1>3, PTL DEF ShareSpec

------------------------------------------------------------------------------
(* The order of a line                                                     *)

\* What t has from s is in the order of s, and nothing has come before it.
Ordered(t, s) ==
    \A i, j \in DOMAIN t : i < j /\ t[j] \in ToSet(s) =>
        \E m, n \in DOMAIN s : m < n /\ s[m] = t[i] /\ s[n] = t[j]

\* The positions of a line are those of the queue, then those of the waiters.
LEMMA LineAt ==
    ASSUME NEW q \in Seq(Request), NEW w \in Seq(Request)
    PROVE  /\ Len(q) \in Nat /\ Len(w) \in Nat
           /\ DOMAIN q = 1 .. Len(q) /\ DOMAIN w = 1 .. Len(w)
           /\ q \o w \in Seq(Request)
           /\ Len(q \o w) = Len(q) + Len(w) /\ DOMAIN (q \o w) = 1 .. Len(q) + Len(w)
           /\ \A k \in 1 .. Len(q) : (q \o w)[k] = q[k]
           /\ \A k \in 1 .. Len(w) : (q \o w)[Len(q) + k] = w[k]
<1>1. /\ Len(q) \in Nat /\ Len(w) \in Nat
      /\ DOMAIN q = 1 .. Len(q) /\ DOMAIN w = 1 .. Len(w)
  BY LenProperties
<1>2. /\ q \o w \in Seq(Request) /\ Len(q \o w) = Len(q) + Len(w)
      /\ \A k \in 1 .. Len(q) + Len(w) :
            (q \o w)[k] = IF k <= Len(q) THEN q[k] ELSE w[k - Len(q)]
  BY ConcatProperties
<1>3. DOMAIN (q \o w) = 1 .. Len(q) + Len(w)
  BY <1>2, LenProperties
<1> DEFINE l == q \o w
<1>4. \A k \in 1 .. Len(q) : l[k] = q[k]
  BY <1>1, <1>2
<1>5. ASSUME NEW k \in 1 .. Len(w) PROVE l[Len(q) + k] = w[k]
  <2>1. Len(q) + k \in 1 .. Len(q) + Len(w) /\ ~(Len(q) + k <= Len(q)) /\ (Len(q) + k) - Len(q) = k
    BY <1>1
  <2> QED
    BY <1>2, <2>1
<1> QED
  BY <1>1, <1>2, <1>3, <1>4, <1>5

\* The same line, and a line cut short.
LEMMA OrderedPrefix ==
    ASSUME NEW s, NEW t, DOMAIN t \subseteq DOMAIN s, \A i \in DOMAIN t : t[i] = s[i]
    PROVE  Ordered(t, s)
  BY DEF Ordered

\* Somebody left.
LEMMA OrderedWithout ==
    ASSUME NEW s, NEW t, NEW n \in Nat, DOMAIN s = 1 .. n, DOMAIN t = 1 .. n - 1,
           NEW p \in 1 .. n, \A k \in 1 .. n - 1 : t[k] = IF k < p THEN s[k] ELSE s[k + 1]
    PROVE  Ordered(t, s)
<1> DEFINE e == [k \in 1 .. n - 1 |-> IF k < p THEN k ELSE k + 1]
<1>1. e \in [DOMAIN t -> DOMAIN s]
  OBVIOUS
<1>2. \A i, j \in DOMAIN t : i < j => e[i] < e[j]
  OBVIOUS
<1>3. \A i \in DOMAIN t : t[i] = s[e[i]]
  OBVIOUS
<1> HIDE DEF e
<1> SUFFICES ASSUME NEW i \in DOMAIN t, NEW j \in DOMAIN t, i < j
             PROVE  \E a, b \in DOMAIN s : a < b /\ s[a] = t[i] /\ s[b] = t[j]
  BY DEF Ordered
<1>4. e[i] \in DOMAIN s /\ e[j] \in DOMAIN s /\ e[i] < e[j] /\ s[e[i]] = t[i] /\ s[e[j]] = t[j]
  BY <1>1, <1>2, <1>3
<1> QED
  BY <1>4

\* Somebody new came last.
LEMMA OrderedNew ==
    ASSUME NEW s, NEW t, NEW n \in Nat, DOMAIN s = 1 .. n, DOMAIN t = 1 .. n + 1,
           \A k \in 1 .. n : t[k] = s[k], t[n + 1] \notin ToSet(s)
    PROVE  Ordered(t, s)
<1> SUFFICES ASSUME NEW i \in DOMAIN t, NEW j \in DOMAIN t, i < j, t[j] \in ToSet(s)
             PROVE  \E a, b \in DOMAIN s : a < b /\ s[a] = t[i] /\ s[b] = t[j]
  BY DEF Ordered
<1>1. j # n + 1
  <2>1. t[j] # t[n + 1]
    OBVIOUS
  <2> QED
    BY <2>1
<1>2. i \in 1 .. n /\ j \in 1 .. n
  BY <1>1
<1> QED
  BY <1>2

\* A line of which nothing changed.
LEMMA SameOrder ==
    ASSUME NEW cl \in Class, queues'[cl] = queues[cl], waiters'[cl] = waiters[cl]
    PROVE  Ordered(Line(cl)', Line(cl))
<1>1. Line(cl)' = Line(cl)
  BY DEF Line
<1> QED
  BY <1>1, OrderedPrefix

\* The queue lost the request at position p.
LEMMA QueueShrinks ==
    ASSUME NEW q \in Seq(Request), NEW w \in Seq(Request), NEW p \in DOMAIN q,
           NEW r, Without(r, q, p)
    PROVE  Ordered(r \o w, q \o w)
<1> DEFINE n == Len(q) + Len(w)
           s == q \o w
           t == r \o w
<1>1. r \in Seq(Request) /\ Len(r) = Len(q) - 1
  BY DEF Without
<1>2. /\ Len(q) \in Nat /\ Len(w) \in Nat /\ DOMAIN q = 1 .. Len(q) /\ DOMAIN s = 1 .. n
      /\ \A k \in 1 .. Len(q) : s[k] = q[k]
      /\ \A k \in 1 .. Len(w) : s[Len(q) + k] = w[k]
  BY LineAt
<1>3. /\ DOMAIN t = 1 .. Len(r) + Len(w)
      /\ \A k \in 1 .. Len(r) : t[k] = r[k]
      /\ \A k \in 1 .. Len(w) : t[Len(r) + k] = w[k]
  BY <1>1, LineAt
<1>4. n \in Nat /\ p \in 1 .. n /\ Len(r) + Len(w) = n - 1
  BY <1>1, <1>2
<1>5. \A k \in 1 .. Len(q) - 1 : r[k] = IF k < p THEN q[k] ELSE q[k + 1]
  BY DEF Without
<1> HIDE DEF s, t
<1>6. ASSUME NEW k \in 1 .. n - 1 PROVE t[k] = IF k < p THEN s[k] ELSE s[k + 1]
  <2>1. CASE k \in 1 .. Len(q) - 1
    <3>1. k \in 1 .. Len(r) /\ k \in 1 .. Len(q) /\ k + 1 \in 1 .. Len(q)
      BY <1>1, <1>2, <2>1
    <3>2. t[k] = r[k] /\ s[k] = q[k] /\ s[k + 1] = q[k + 1]
      BY <1>2, <1>3, <3>1
    <3> QED
      BY <1>5, <2>1, <3>2
  <2>2. CASE k \notin 1 .. Len(q) - 1
    <3>1. /\ k - Len(r) \in 1 .. Len(w) /\ Len(r) + (k - Len(r)) = k
          /\ Len(q) + (k - Len(r)) = k + 1 /\ ~(k < p)
      BY <1>1, <1>2, <2>2
    <3>2. t[k] = w[k - Len(r)] /\ s[k + 1] = w[k - Len(r)]
      BY <1>2, <1>3, <3>1
    <3> QED
      BY <3>1, <3>2
  <2> QED
    BY <2>1, <2>2
<1>7. Ordered(t, s)
  <2> HIDE DEF n
  <2>1. DOMAIN t = 1 .. n - 1
    BY <1>3, <1>4
  <2> QED
    BY <1>2, <1>4, <1>6, <2>1, OrderedWithout
<1> QED
  BY <1>7 DEF s, t

\* The waiters lost the request at position p.
LEMMA WaitersShrink ==
    ASSUME NEW q \in Seq(Request), NEW w \in Seq(Request), NEW p \in DOMAIN w,
           NEW r, Without(r, w, p)
    PROVE  Ordered(q \o r, q \o w)
<1> DEFINE n == Len(q) + Len(w)
           s == q \o w
           t == q \o r
<1>1. r \in Seq(Request) /\ Len(r) = Len(w) - 1
  BY DEF Without
<1>2. /\ Len(q) \in Nat /\ Len(w) \in Nat /\ DOMAIN w = 1 .. Len(w) /\ DOMAIN s = 1 .. n
      /\ \A k \in 1 .. Len(q) : s[k] = q[k]
      /\ \A k \in 1 .. Len(w) : s[Len(q) + k] = w[k]
  BY LineAt
<1>3. /\ DOMAIN t = 1 .. Len(q) + Len(r)
      /\ \A k \in 1 .. Len(q) : t[k] = q[k]
      /\ \A k \in 1 .. Len(r) : t[Len(q) + k] = r[k]
  BY <1>1, LineAt
<1>4. n \in Nat /\ Len(q) + p \in 1 .. n /\ Len(q) + Len(r) = n - 1
  BY <1>1, <1>2
<1>5. \A k \in 1 .. Len(w) - 1 : r[k] = IF k < p THEN w[k] ELSE w[k + 1]
  BY DEF Without
<1> HIDE DEF s, t
<1>6. ASSUME NEW k \in 1 .. n - 1 PROVE t[k] = IF k < Len(q) + p THEN s[k] ELSE s[k + 1]
  <2>1. CASE k \in 1 .. Len(q)
    BY <1>2, <1>3, <2>1
  <2>2. CASE k \notin 1 .. Len(q)
    <3> DEFINE j == k - Len(q)
    <3>1. /\ j \in 1 .. Len(w) - 1 /\ j \in 1 .. Len(w) /\ j + 1 \in 1 .. Len(w) /\ j \in 1 .. Len(r)
          /\ Len(q) + j = k /\ Len(q) + (j + 1) = k + 1 /\ (k < Len(q) + p <=> j < p)
      BY <1>1, <1>2, <2>2
    <3> HIDE DEF j
    <3>2. t[k] = r[j] /\ s[k] = w[j] /\ s[k + 1] = w[j + 1]
      BY <1>2, <1>3, <3>1
    <3> QED
      BY <1>5, <3>1, <3>2
  <2> QED
    BY <2>1, <2>2
<1>7. Ordered(t, s)
  <2> HIDE DEF n
  <2>1. DOMAIN t = 1 .. n - 1
    BY <1>3, <1>4
  <2> QED
    BY <1>2, <1>4, <1>6, <2>1, OrderedWithout
<1> QED
  BY <1>7 DEF s, t

\* A new request joins the waiters, or the queue of a class without waiters.
LEMMA LineGrows ==
    ASSUME NEW q \in Seq(Request), NEW w \in Seq(Request), NEW x \in Request,
           \A k \in DOMAIN q : q[k] # x, \A k \in DOMAIN w : w[k] # x
    PROVE  /\ Ordered(q \o Append(w, x), q \o w)
           /\ w = <<>> => Ordered(Append(q, x) \o w, q \o w)
<1> DEFINE n == Len(q) + Len(w)
           s == q \o w
           t == q \o Append(w, x)
<1>1. /\ Append(w, x) \in Seq(Request) /\ Len(Append(w, x)) = Len(w) + 1
      /\ \A k \in 1 .. Len(w) : Append(w, x)[k] = w[k]
      /\ Append(w, x)[Len(w) + 1] = x
  BY AppendProperties
<1>2. /\ Len(q) \in Nat /\ Len(w) \in Nat /\ DOMAIN w = 1 .. Len(w) /\ DOMAIN q = 1 .. Len(q)
      /\ DOMAIN s = 1 .. n
      /\ \A k \in 1 .. Len(q) : s[k] = q[k]
      /\ \A k \in 1 .. Len(w) : s[Len(q) + k] = w[k]
  BY LineAt
<1>3. /\ DOMAIN t = 1 .. Len(q) + (Len(w) + 1)
      /\ \A k \in 1 .. Len(q) : t[k] = q[k]
      /\ \A k \in 1 .. Len(w) + 1 : t[Len(q) + k] = Append(w, x)[k]
  BY <1>1, LineAt
<1> HIDE DEF s, t
<1>4. n \in Nat /\ DOMAIN t = 1 .. n + 1
  BY <1>2, <1>3
<1>5. ASSUME NEW k \in 1 .. n PROVE t[k] = s[k] /\ s[k] # x
  <2>1. CASE k \in 1 .. Len(q)
    BY <1>2, <1>3, <2>1
  <2>2. CASE k \notin 1 .. Len(q)
    <3> DEFINE j == k - Len(q)
    <3>1. j \in 1 .. Len(w) /\ j \in 1 .. Len(w) + 1 /\ Len(q) + j = k
      BY <1>2, <2>2
    <3> HIDE DEF j
    <3> QED
      BY <1>1, <1>2, <1>3, <3>1
  <2> QED
    BY <2>1, <2>2
<1>6. t[n + 1] = x
  <2>1. Len(w) + 1 \in 1 .. Len(w) + 1 /\ Len(q) + (Len(w) + 1) = n + 1
    BY <1>2
  <2> QED
    BY <1>1, <1>3, <2>1
<1>7. t[n + 1] \notin ToSet(s)
  BY <1>2, <1>5, <1>6 DEF ToSet
<1>8. Ordered(t, s)
  <2> HIDE DEF n
  <2> QED
    BY <1>2, <1>4, <1>5, <1>7, OrderedNew
<1>9. ASSUME w = <<>> PROVE Append(q, x) \o w = t
  <2>1. Append(q, x) \in Seq(Request)
    BY AppendProperties
  <2>2. Append(q, x) \o w = Append(q, x)
    BY <1>9, <2>1, ConcatEmptySeq
  <2>3. Append(w, x) = <<x>>
    BY <1>9
  <2>4. q \o <<x>> = Append(q, x)
    BY AppendIsConcat
  <2> QED
    BY <2>2, <2>3, <2>4 DEF t
<1> QED
  BY <1>8, <1>9 DEF s, t

\* The oldest waiter moves to the end of the queue: the line does not change.
LEMMA AdmissionKeepsLine ==
    ASSUME NEW q \in Seq(Request), NEW w \in Seq(Request), w # <<>>
    PROVE  Ordered(Append(q, Head(w)) \o Tail(w), q \o w)
<1> DEFINE s == q \o w
           a == Append(q, Head(w))
           t == a \o Tail(w)
<1>0. /\ Head(w) \in Request /\ Tail(w) \in Seq(Request) /\ Len(Tail(w)) = Len(w) - 1
      /\ \A k \in 1 .. Len(w) - 1 : Tail(w)[k] = w[k + 1]
  BY HeadTailProperties
<1>1. /\ a \in Seq(Request) /\ Len(a) = Len(q) + 1
      /\ \A k \in 1 .. Len(q) : a[k] = q[k]
      /\ a[Len(q) + 1] = Head(w)
  BY <1>0, AppendProperties
<1>2. /\ Len(q) \in Nat /\ Len(w) \in Nat
      /\ DOMAIN s = 1 .. Len(q) + Len(w)
      /\ \A k \in 1 .. Len(q) : s[k] = q[k]
      /\ \A k \in 1 .. Len(w) : s[Len(q) + k] = w[k]
  BY LineAt
<1> HIDE DEF a
<1>3. /\ DOMAIN t = 1 .. Len(a) + Len(Tail(w))
      /\ \A k \in 1 .. Len(a) : t[k] = a[k]
      /\ \A k \in 1 .. Len(Tail(w)) : t[Len(a) + k] = Tail(w)[k]
  BY <1>0, <1>1, LineAt
<1>4. Len(w) > 0 /\ Head(w) = w[1]
  BY <1>2, EmptySeq
<1> HIDE DEF s, t
<1>5. DOMAIN t = DOMAIN s
  BY <1>0, <1>1, <1>2, <1>3
<1>6. ASSUME NEW k \in DOMAIN t PROVE t[k] = s[k]
  <2>0. k \in 1 .. Len(q) + Len(w)
    BY <1>2, <1>5
  <2>1. CASE k \in 1 .. Len(q)
    <3>1. k \in 1 .. Len(a)
      BY <1>1, <1>2, <2>1
    <3> QED
      BY <1>1, <1>2, <1>3, <2>1, <3>1
  <2>2. CASE k = Len(q) + 1
    <3>1. k \in 1 .. Len(a) /\ 1 \in 1 .. Len(w)
      BY <1>1, <1>2, <1>4, <2>2
    <3> QED
      BY <1>1, <1>2, <1>3, <1>4, <2>2, <3>1
  <2>3. CASE k > Len(q) + 1
    <3> DEFINE j == k - Len(a)
    <3>0. Len(a) = Len(q) + 1 /\ Len(Tail(w)) = Len(w) - 1 /\ Len(q) \in Nat /\ Len(w) \in Nat
      BY <1>0, <1>1, <1>2
    <3>2. j = k - (Len(q) + 1) /\ k \in Nat /\ k <= Len(q) + Len(w)
      BY <2>0, <3>0
    <3>3. j \in Nat \ {0} /\ j <= Len(w) - 1
      BY <2>3, <3>0, <3>2
    <3>4. Len(a) + j = k /\ Len(q) + (j + 1) = k
      BY <3>0, <3>2
    <3>1. /\ j \in 1 .. Len(w) - 1 /\ j \in 1 .. Len(Tail(w)) /\ Len(a) + j = k
          /\ j + 1 \in 1 .. Len(w) /\ Len(q) + (j + 1) = k
      BY <3>0, <3>3, <3>4
    <3> HIDE DEF j
    <3> QED
      BY <1>0, <1>2, <1>3, <3>1
  <2> QED
    BY <1>2, <2>0, <2>1, <2>2, <2>3
<1>7. Ordered(t, s)
  BY <1>5, <1>6, OrderedPrefix
<1> QED
  BY <1>7 DEF s, t, a

\* The waiters are failed, all of them.
LEMMA WaitersEnd ==
    ASSUME NEW q \in Seq(Request), NEW w \in Seq(Request)
    PROVE  Ordered(q \o <<>>, q \o w)
<1>1. q \o <<>> = q
  BY ConcatEmptySeq
<1>2. /\ Len(q) \in Nat /\ Len(w) \in Nat /\ DOMAIN q = 1 .. Len(q)
      /\ DOMAIN (q \o w) = 1 .. Len(q) + Len(w)
      /\ \A k \in 1 .. Len(q) : (q \o w)[k] = q[k]
  BY LineAt
<1> DEFINE s == q \o w
<1>3. DOMAIN q \subseteq DOMAIN s /\ \A k \in DOMAIN q : q[k] = s[k]
  BY <1>2
<1> HIDE DEF s
<1>4. Ordered(q, s)
  BY <1>3, OrderedPrefix
<1> QED
  BY <1>1, <1>4 DEF s

\* Every step keeps the order of every line.
LEMMA StepOrder ==
    ASSUME TypeInv, VerdictInv, [Next]_vars, NEW cl \in Class
    PROVE  Ordered(Line(cl)', Line(cl))
<1> DEFINE Goal == Ordered(Line(cl)', Line(cl))
<1>0. /\ queues \in [Class -> Seq(Request)] /\ waiters \in [Class -> Seq(Request)]
      /\ queues[cl] \in Seq(Request) /\ waiters[cl] \in Seq(Request)
  BY DEF TypeInv, TypeOK
<1>1. ASSUME NEW call \in Calls, Send(call.caller, call) PROVE Goal
  <2>1. /\ call \in Request /\ call.class \in Class /\ call.caller \in Callers
        /\ pc[call.caller] = "idle"
    BY <1>1, ValidCall DEF Send
  <2>2. ~Queued(call.caller) /\ ~Waiting(call.caller)
    BY <2>1 DEF VerdictInv, Placed, PlacedAt, Nowhere
  <2>3. \A k \in DOMAIN queues[cl] : queues[cl][k] # call
    BY <2>2 DEF Queued, InLine
  <2>4. \A k \in DOMAIN waiters[cl] : waiters[cl][k] # call
    BY <2>2 DEF Waiting, InLine
  <2>5. CASE cl # call.class
    <3>1. queues'[cl] = queues[cl] /\ waiters'[cl] = waiters[cl]
      BY <1>0, <1>1, <2>1, <2>5 DEF Send, Enqueue
    <3> QED
      BY <3>1, SameOrder
  <2>6. CASE cl = call.class /\ HasRoom(call)
    <3>1. waiters[cl] = <<>> /\ queues'[cl] = Append(queues[cl], call) /\ waiters'[cl] = waiters[cl]
      BY <1>0, <1>1, <2>6 DEF Send, Enqueue, HasRoom
    <3>2. Line(cl)' = Append(queues[cl], call) \o waiters[cl] /\ Line(cl) = queues[cl] \o waiters[cl]
      BY <3>1 DEF Line
    <3> QED
      BY <1>0, <2>1, <2>3, <2>4, <3>1, <3>2, LineGrows
  <2>7. CASE cl = call.class /\ ~HasRoom(call)
    <3>1. queues'[cl] = queues[cl] /\ waiters'[cl] = Append(waiters[cl], call)
      BY <1>0, <1>1, <2>7 DEF Send
    <3>2. Line(cl)' = queues[cl] \o Append(waiters[cl], call) /\ Line(cl) = queues[cl] \o waiters[cl]
      BY <3>1 DEF Line
    <3> QED
      BY <1>0, <2>1, <2>3, <2>4, <3>2, LineGrows
  <2> QED
    BY <2>5, <2>6, <2>7
<1>2. ASSUME NEW d \in Class, NEW p \in DOMAIN queues[d], NEW r, Without(r, queues[d], p),
             queues' = [queues EXCEPT ![d] = r], waiters' = waiters
      PROVE  Goal
  <2>1. CASE cl # d
    <3>1. queues'[cl] = queues[cl] /\ waiters'[cl] = waiters[cl]
      BY <1>0, <1>2, <2>1
    <3> QED
      BY <3>1, SameOrder
  <2>2. CASE cl = d
    <3>1. Line(cl)' = r \o waiters[cl] /\ Line(cl) = queues[cl] \o waiters[cl]
      BY <1>0, <1>2, <2>2 DEF Line
    <3>2. Ordered(r \o waiters[cl], queues[cl] \o waiters[cl])
      BY <1>0, <1>2, <2>2, QueueShrinks
    <3> QED
      BY <3>1, <3>2
  <2> QED
    BY <2>1, <2>2
<1>3. ASSUME NEW c \in Callers, CancelWaiter(c) PROVE Goal
  <2>1. CASE waiters' = waiters
    BY <1>3, <2>1, SameOrder DEF CancelWaiter
  <2>2. CASE waiters' # waiters
    <3>1. PICK d \in Class : d = req[c].class
      BY <1>3, ReqClass DEF CancelWaiter
    <3>2. PICK p \in DOMAIN waiters[d] : waiters' = [waiters EXCEPT ![d] = RemoveAt(waiters[d], p)]
      BY <1>3, <2>2, <3>1 DEF CancelWaiter
    <3>3. waiters[d] \in Seq(Request) /\ p \in 1 .. Len(waiters[d])
      BY <1>0, <3>2, LenProperties
    <3>4. Without(RemoveAt(waiters[d], p), waiters[d], p)
      BY <3>3, RemoveAtProperties DEF Without
    <3>5. queues' = queues
      BY <1>3 DEF CancelWaiter
    <3>6. CASE cl # d
      <4>1. queues'[cl] = queues[cl] /\ waiters'[cl] = waiters[cl]
        BY <1>0, <3>2, <3>5, <3>6
      <4> QED
        BY <4>1, SameOrder
    <3>7. CASE cl = d
      <4>1. Line(cl)' = queues[cl] \o RemoveAt(waiters[cl], p) /\ Line(cl) = queues[cl] \o waiters[cl]
        BY <1>0, <3>2, <3>5, <3>7 DEF Line
      <4>2. Ordered(queues[cl] \o RemoveAt(waiters[cl], p), queues[cl] \o waiters[cl])
        BY <1>0, <3>2, <3>4, <3>7, WaitersShrink
      <4> QED
        BY <4>1, <4>2
    <3> QED
      BY <3>6, <3>7
  <2> QED
    BY <2>1, <2>2
<1>4. ASSUME NEW c \in Callers, CancelQueued(c) PROVE Goal
  <2>1. CASE queues' = queues
    BY <1>4, <2>1, SameOrder DEF CancelQueued
  <2>2. CASE queues' # queues
    <3>1. PICK d \in Class : d = req[c].class
      BY <1>4, ReqClass DEF CancelQueued
    <3>2. PICK p \in DOMAIN queues[d] : queues' = [queues EXCEPT ![d] = RemoveAt(queues[d], p)]
      BY <1>4, <2>2, <3>1 DEF CancelQueued
    <3>3. queues[d] \in Seq(Request) /\ p \in 1 .. Len(queues[d])
      BY <1>0, <3>2, LenProperties
    <3>4. Without(RemoveAt(queues[d], p), queues[d], p)
      BY <3>3, RemoveAtProperties DEF Without
    <3>5. waiters' = waiters
      BY <1>4 DEF CancelQueued
    <3> QED
      BY <1>2, <3>2, <3>4, <3>5
  <2> QED
    BY <2>1, <2>2
<1>5. ASSUME NEW d \in Class, queues[d] # <<>>, waiters' = waiters,
             queues' = [queues EXCEPT ![d] = Tail(queues[d])]
      PROVE  Goal
  <2>1. queues[d] \in Seq(Request) /\ Len(queues[d]) \in Nat \ {0} /\ DOMAIN queues[d] = 1 .. Len(queues[d])
    BY <1>0, <1>5, LenProperties, EmptySeq
  <2>2. /\ Tail(queues[d]) \in Seq(Request) /\ Len(Tail(queues[d])) = Len(queues[d]) - 1
        /\ \A k \in 1 .. Len(Tail(queues[d])) : Tail(queues[d])[k] = queues[d][k + 1]
    BY <1>5, <2>1, HeadTailProperties
  <2>3. 1 \in DOMAIN queues[d] /\ Without(Tail(queues[d]), queues[d], 1)
    BY <2>1, <2>2 DEF Without
  <2> QED
    BY <1>2, <1>5, <2>3
<1>6. CASE FailOne
  BY <1>5, <1>6 DEF FailOne
<1>7. CASE PumpControl
  <2>1. Control \in Class
    BY DEF Class
  <2> QED
    BY <1>5, <1>7, <2>1 DEF PumpControl, Pop
<1>8. CASE TakeBulk
  <2>1. Bulk \in Class
    BY DEF Class
  <2> QED
    BY <1>5, <1>8, <2>1 DEF TakeBulk, Pop
<1>9. CASE TakeMedia
  <2>1. inner.current \in {0, 1}
    BY DEF TypeInv, TypeOK, RoundRobin
  <2>2. PICK d \in Class : d = MediaLane[inner.current] /\ queues[d] # <<>>
    BY <1>9, <2>1 DEF TakeMedia, InnerFits, InnerBacklog, MediaLane, Class, Media
  <2>3. queues' = [queues EXCEPT ![d] = Tail(queues[d])] /\ waiters' = waiters
    BY <1>9, <2>2 DEF TakeMedia, Pop
  <2> QED
    BY <1>5, <2>2, <2>3
<1>10. CASE AdmitOne
  <2>1. PICK d \in Class : d = admitting /\ waiters[d] # <<>>
    BY <1>10 DEF AdmitOne, FitsNext, TypeInv, Locals
  <2>2. Head(waiters[d]) \in Of(d)
    BY <2>1, HeadTailProperties DEF TypeInv, Lines
  <2>3. Head(waiters[d]).class = d
    BY <2>2, OfClass
  <2>4. /\ queues' = [queues EXCEPT ![d] = Append(queues[d], Head(waiters[d]))]
        /\ waiters' = [waiters EXCEPT ![d] = Tail(waiters[d])]
    BY <1>10, <2>1, <2>3 DEF AdmitOne, Enqueue
  <2>5. CASE cl # d
    <3>1. queues'[cl] = queues[cl] /\ waiters'[cl] = waiters[cl]
      BY <1>0, <2>4, <2>5
    <3> QED
      BY <3>1, SameOrder
  <2>6. CASE cl = d
    <3>1. Line(cl)' = Append(queues[cl], Head(waiters[cl])) \o Tail(waiters[cl])
      BY <1>0, <2>4, <2>6 DEF Line
    <3> QED
      BY <1>0, <2>1, <2>6, <3>1, AdmissionKeepsLine DEF Line
  <2> QED
    BY <2>5, <2>6
<1>11. ASSUME queues' = queues, waiters' = [d \in Class |-> <<>>] PROVE Goal
  <2>1. Line(cl)' = queues[cl] \o <<>>
    BY <1>11 DEF Line
  <2> QED
    BY <1>0, <2>1, WaitersEnd DEF Line
<1>12. CASE Close
  BY <1>11, <1>12 DEF Close, Terminate
<1>13. ASSUME queues' = queues, waiters' = waiters PROVE Goal
  BY <1>13, SameOrder
<1>14. ASSUME NEW err \in {"nil", "failed"}, WriteReturns(err) PROVE Goal
  <2>1. queues' = queues /\ (waiters' = waiters \/ waiters' = [d \in Class |-> <<>>])
    BY <1>14 DEF WriteReturns, Terminate
  <2> QED
    BY <1>11, <1>13, <2>1
<1>15. ASSUME NEW c \in Callers, ReceiveReady(c) \/ ReceiveDone(c) \/ SelectCtx(c) PROVE Goal
  BY <1>13, <1>15 DEF ReceiveReady, ReceiveDone, SelectCtx, lineVars
<1>16. CASE AdmitEnd \/ FailEnd \/ PumpData \/ PumpIdle \/ PumpWake \/ PumpExit
  BY <1>13, <1>16 DEF AdmitEnd, FailEnd, PumpData, PumpIdle, PumpWake, PumpExit, lineVars
<1>17. CASE Deliver \/ OuterPass \/ PeekMedia \/ InnerPass \/ RefuseMedia \/ UNCHANGED vars
  BY <1>13, <1>17 DEF Deliver, OuterPass, PeekMedia, InnerPass, RefuseMedia, vars, lineVars
<1> HIDE DEF Goal
<1> QED
  BY <1>1, <1>3, <1>4, <1>6, <1>7, <1>8, <1>9, <1>10, <1>12, <1>14, <1>15, <1>16, <1>17
  DEF Next, PumpStep, LoopStep, CallerStep, CallerRuns, Goal

\* A late Send never overtakes an earlier one of its class, however small it is
\* and whoever is cancelled, admitted or failed meanwhile (scheduler.go:121-138).
THEOREM NobodyOvertakes == Spec => NoOvertaking
<1> DEFINE Keeps == \A cl \in Class : \A i, j \in DOMAIN Line(cl)' :
                        i < j /\ Line(cl)'[j] \in ToSet(Line(cl)) =>
                          \E m, n \in DOMAIN Line(cl) :
                            m < n /\ Line(cl)[m] = Line(cl)'[i] /\ Line(cl)[n] = Line(cl)'[j]
<1>1. TypeInv /\ VerdictInv /\ [Next]_vars => Keeps
  BY StepOrder DEF Ordered
<1>2. Spec => [](TypeInv /\ VerdictInv)
  <2>1. Spec => []TypeInv
    BY InitTypeInv, TypeInvStep, PTL DEF Spec
  <2> QED
    BY <2>1, VerdictInvariant, PTL
<1> QED
  BY <1>1, <1>2, PTL DEF Spec, NoOvertaking

------------------------------------------------------------------------------
(* The bytes of a class: the sum over a finite set, by induction on subsets *)

\* The bytes of a set of requests, as BytesExact adds them up.
Total(S) == MapThenSumSet(LAMBDA r : r.len, S)

\* The fold takes the elements one by one; Sums(f, S) is its equation, and the
\* fold is the value of a solution at S.
Pick(s) == CHOOSE x \in s : TRUE
Rest(s) == s \ {Pick(s)}
Sums(f, S) == f = [s \in SUBSET S |-> IF s = {} THEN 0 ELSE Pick(s).len + f[s \ {Pick(s)}]]
Summing(S) == CHOOSE f : Sums(f, S)

\* The fold, unfolded.
LEMMA TotalIs == ASSUME NEW S PROVE Total(S) = Summing(S)[S]
BY DEF Total, MapThenSumSet, MapThenFoldSet, Sums, Pick, Summing

\* Among some subsets of a finite set one is smallest.
LEMMA Smallest ==
    ASSUME NEW S, IsFiniteSet(S), NEW T \in SUBSET (SUBSET S), T # {}
    PROVE  \E x \in T : \A y \in T : y \subseteq x => y = x
<1>1. IsWellFoundedOn(StrictSubsetOrdering(S), FiniteSubsetsOf(S))
  BY FS_StrictSubsetOrderingWellFounded
<1>2. T \subseteq FiniteSubsetsOf(S)
  BY FS_Subset DEF FiniteSubsetsOf
<1>3. PICK x \in T : \A y \in T : ~(<<y, x>> \in StrictSubsetOrdering(S))
  BY <1>1, <1>2, WFMin
<1>4. ASSUME NEW y \in T, y \subseteq x, y # x PROVE FALSE
  <2>1. <<y, x>> \in StrictSubsetOrdering(S)
    BY <1>4 DEF StrictSubsetOrdering
  <2> QED
    BY <1>3, <2>1
<1> QED
  BY <1>4

\* A chosen element and the rest.
LEMMA Picked ==
    ASSUME NEW s, s # {}
    PROVE  /\ Pick(s) \in s /\ Rest(s) \subseteq s /\ Rest(s) # s
  BY DEF Pick, Rest

\* What the equation says at one set.
LEMMA SumsAt ==
    ASSUME NEW S, NEW f, Sums(f, S), NEW s \in SUBSET S
    PROVE  /\ s = {} => f[s] = 0
           /\ s # {} => f[s] = Pick(s).len + f[Rest(s)]
<1> DEFINE e(t) == IF t = {} THEN 0 ELSE Pick(t).len + f[Rest(t)]
<1>1. f = [t \in SUBSET S |-> e(t)]
  BY DEF Sums, Rest
<1> HIDE DEF e
<1>2. f[s] = e(s)
  BY <1>1
<1> QED
  BY <1>2 DEF e

\* Two solutions agree: a smallest set where they do not would be empty, or have
\* a smaller one.
LEMMA SumsUnique ==
    ASSUME NEW A, IsFiniteSet(A), NEW B \in SUBSET A, NEW f, NEW g, Sums(f, A), Sums(g, B)
    PROVE  f[B] = g[B]
<1> DEFINE Bad == {s \in SUBSET B : f[s] # g[s]}
<1> SUFFICES ASSUME Bad # {} PROVE FALSE
  OBVIOUS
<1>0. IsFiniteSet(B)
  BY FS_Subset
<1>1. PICK s \in Bad : \A y \in Bad : y \subseteq s => y = s
  <2>1. Bad \in SUBSET (SUBSET B)
    OBVIOUS
  <2> HIDE DEF Bad
  <2> QED
    BY <1>0, <2>1, Smallest
<1>2. s \in SUBSET B /\ s \in SUBSET A /\ f[s] # g[s]
  OBVIOUS
<1>3. s # {}
  BY <1>2, SumsAt
<1>4. Pick(s) \in s /\ Rest(s) \subseteq s /\ Rest(s) # s
  BY <1>3, Picked
<1>5. f[Rest(s)] = g[Rest(s)]
  <2>1. Rest(s) \notin Bad
    BY <1>1, <1>4
  <2> QED
    BY <1>2, <1>4, <2>1
<1>6. f[s] = Pick(s).len + f[Rest(s)] /\ g[s] = Pick(s).len + g[Rest(s)]
  BY <1>2, <1>3, SumsAt
<1> QED
  BY <1>2, <1>5, <1>6

\* There is a solution for every finite set, put together from those for its
\* smaller subsets.
LEMMA SumsExist ==
    ASSUME NEW A, IsFiniteSet(A)
    PROVE  Sums(Summing(A), A)
<1> DEFINE Bad == {T \in SUBSET A : ~\E f : Sums(f, T)}
<1>1. Bad = {}
  <2> SUFFICES ASSUME Bad # {} PROVE FALSE
    OBVIOUS
  <2>1. PICK T \in Bad : \A y \in Bad : y \subseteq T => y = T
    <3>1. Bad \in SUBSET (SUBSET A)
      OBVIOUS
    <3> HIDE DEF Bad
    <3> QED
      BY <3>1, Smallest
  <2>2. T \in SUBSET A /\ ~\E f : Sums(f, T)
    OBVIOUS
  <2>3. ASSUME NEW U \in SUBSET T, U # T PROVE Sums(Summing(U), U) /\ IsFiniteSet(U)
    <3>1. \E f : Sums(f, U)
      BY <2>1, <2>2, <2>3
    <3> QED
      BY <2>2, <3>1, FS_Subset DEF Summing
  <2> DEFINE e(s) == IF s = {} THEN 0 ELSE Pick(s).len + Summing(Rest(s))[Rest(s)]
             g == [s \in SUBSET T |-> e(s)]
  <2>4. ASSUME NEW u \in SUBSET T, u # T PROVE e(u) = Summing(u)[u]
    <3>1. Sums(Summing(u), u) /\ IsFiniteSet(u) /\ u \in SUBSET u
      BY <2>3, <2>4
    <3>2. CASE u = {}
      BY <3>1, <3>2, SumsAt
    <3>3. CASE u # {}
      <4>1. Rest(u) \subseteq u /\ Rest(u) # u
        BY <3>3, Picked
      <4>2. Sums(Summing(Rest(u)), Rest(u))
        BY <2>3, <2>4, <4>1
      <4>3. Summing(u)[Rest(u)] = Summing(Rest(u))[Rest(u)]
        BY <3>1, <4>1, <4>2, SumsUnique
      <4>4. Summing(u)[u] = Pick(u).len + Summing(u)[Rest(u)]
        BY <3>1, <3>3, SumsAt
      <4> QED
        BY <3>3, <4>3, <4>4
    <3> QED
      BY <3>2, <3>3
  <2>5. \A s \in SUBSET T : g[s] = e(s)
    OBVIOUS
  <2> HIDE DEF g
  <2>6. ASSUME NEW s \in SUBSET T PROVE e(s) = IF s = {} THEN 0 ELSE Pick(s).len + g[Rest(s)]
    <3>1. CASE s = {}
      BY <3>1
    <3>2. CASE s # {}
      <4>1. Rest(s) \in SUBSET T /\ Rest(s) # T
        BY <3>2, Picked
      <4>2. g[Rest(s)] = Summing(Rest(s))[Rest(s)]
        BY <2>4, <2>5, <4>1
      <4> QED
        BY <3>2, <4>2
    <3> QED
      BY <3>1, <3>2
  <2>7. g = [s \in SUBSET T |-> IF s = {} THEN 0 ELSE Pick(s).len + g[Rest(s)]]
    <3> HIDE DEF e
    <3>1. g = [s \in SUBSET T |-> e(s)]
      BY DEF g
    <3> QED
      BY <2>6, <3>1
  <2>8. Sums(g, T)
    BY <2>7 DEF Sums, Rest
  <2> QED
    BY <2>2, <2>8
<1>2. \E f : Sums(f, A)
  BY <1>1
<1> QED
  BY <1>2 DEF Summing

\* The sum over a finite set is the sum of a chosen element and of the rest.
LEMMA TotalStep ==
    ASSUME NEW S, IsFiniteSet(S)
    PROVE  /\ S = {} => Total(S) = 0
           /\ S # {} => Total(S) = Pick(S).len + Total(Rest(S))
<1>1. Sums(Summing(S), S) /\ S \in SUBSET S
  BY SumsExist
<1>2. S = {} => Total(S) = 0
  BY <1>1, SumsAt, TotalIs
<1>3. ASSUME S # {} PROVE Total(S) = Pick(S).len + Total(Rest(S))
  <2>1. Rest(S) \in SUBSET S
    BY <1>3, Picked
  <2>2. Sums(Summing(Rest(S)), Rest(S))
    BY <2>1, FS_Subset, SumsExist
  <2>3. Summing(S)[Rest(S)] = Summing(Rest(S))[Rest(S)]
    BY <1>1, <2>1, <2>2, SumsUnique
  <2>4. Summing(S)[S] = Pick(S).len + Summing(S)[Rest(S)]
    BY <1>1, <1>3, SumsAt
  <2> QED
    BY <2>3, <2>4, TotalIs
<1> QED
  BY <1>2, <1>3

\* The sum of lengths is a length.
LEMMA TotalNat ==
    ASSUME NEW S, IsFiniteSet(S), \A r \in S : r.len \in Nat
    PROVE  Total(S) \in Nat
<1> DEFINE Bad == {s \in SUBSET S : Total(s) \notin Nat}
<1> SUFFICES ASSUME Bad # {} PROVE FALSE
  OBVIOUS
<1>1. PICK s \in Bad : \A y \in Bad : y \subseteq s => y = s
  <2>1. Bad \in SUBSET (SUBSET S)
    OBVIOUS
  <2> HIDE DEF Bad
  <2> QED
    BY <2>1, Smallest
<1>2. s \in SUBSET S /\ Total(s) \notin Nat /\ IsFiniteSet(s)
  BY FS_Subset
<1>3. s # {}
  BY <1>2, TotalStep
<1>4. Pick(s) \in s /\ Rest(s) \subseteq s /\ Rest(s) # s
  BY <1>3, Picked
<1>5. Total(Rest(s)) \in Nat
  BY <1>1, <1>2, <1>4
<1>6. Total(s) = Pick(s).len + Total(Rest(s))
  BY <1>2, <1>3, TotalStep
<1>7. Pick(s).len \in Nat
  BY <1>2, <1>4
<1> QED
  BY <1>2, <1>5, <1>6, <1>7

\* The order of the summands does not matter.
LEMMA TotalRemove ==
    ASSUME NEW S, IsFiniteSet(S), \A r \in S : r.len \in Nat, NEW x \in S
    PROVE  Total(S) = x.len + Total(S \ {x})
<1> DEFINE Bad == {s \in SUBSET S : \E y \in s : Total(s) # y.len + Total(s \ {y})}
<1> SUFFICES ASSUME Bad # {} PROVE FALSE
  OBVIOUS
<1>1. PICK s \in Bad : \A y \in Bad : y \subseteq s => y = s
  <2>1. Bad \in SUBSET (SUBSET S)
    OBVIOUS
  <2> HIDE DEF Bad
  <2> QED
    BY <2>1, Smallest
<1>2. s \in SUBSET S /\ IsFiniteSet(s)
  BY FS_Subset
<1>3. PICK y \in s : Total(s) # y.len + Total(s \ {y})
  OBVIOUS
<1>4. ASSUME NEW t \in SUBSET s, t # s, NEW z \in t PROVE Total(t) = z.len + Total(t \ {z})
  BY <1>1, <1>2, <1>4
<1> HIDE DEF Bad
<1> DEFINE c == Pick(s)
<1>5. c \in s /\ Total(s) = c.len + Total(s \ {c})
  BY <1>2, <1>3, Picked, TotalStep DEF Rest
<1> HIDE DEF c
<1>6. y # c
  BY <1>3, <1>5
<1>7. Total(s \ {c}) = y.len + Total((s \ {c}) \ {y})
  BY <1>4, <1>5, <1>6
<1>8. Total(s \ {y}) = c.len + Total((s \ {y}) \ {c})
  BY <1>4, <1>5, <1>6
<1>9. (s \ {c}) \ {y} = (s \ {y}) \ {c}
  OBVIOUS
<1> DEFINE u == (s \ {y}) \ {c}
<1>10. c.len \in Nat /\ y.len \in Nat /\ Total(u) \in Nat
  <2>1. u \in SUBSET S /\ IsFiniteSet(u) /\ \A r \in u : r.len \in Nat
    BY <1>2, FS_Subset
  <2> HIDE DEF u
  <2> QED
    BY <1>2, <1>3, <1>5, <2>1, TotalNat
<1>11. Total(s \ {c}) = y.len + Total(u) /\ Total(s \ {y}) = c.len + Total(u)
  BY <1>7, <1>8, <1>9
<1> HIDE DEF u
<1>12. Total(s) = y.len + Total(s \ {y})
  BY <1>5, <1>10, <1>11
<1> QED
  BY <1>3, <1>12

\* BytesExact in terms of Total, before and after a step.
LEMMA BytesTotal ==
    /\ BytesExact <=> \A cl \in Class : bytes[cl] = Total(Held(cl))
    /\ BytesExact' <=> \A cl \in Class : bytes'[cl] = Total(Held(cl)')
  BY DEF BytesExact, Total, MapThenSumSet, MapThenFoldSet

\* The requests of a class that count are finitely many and have a length.
LEMMA HeldFinite ==
    ASSUME TypeInv, NEW cl \in Class
    PROVE  IsFiniteSet(Held(cl)) /\ \A r \in Held(cl) : r \in Request /\ r.len \in Nat
<1> DEFINE q == queues[cl]
<1>1. q \in Seq(Request) /\ Len(q) \in Nat /\ DOMAIN q = 1 .. Len(q) /\ q \in [1 .. Len(q) -> Request]
  BY LenProperties DEF TypeInv, TypeOK
<1> HIDE DEF q
<1>2. IsFiniteSet(ToSet(q)) /\ ToSet(q) \subseteq Request
  <2>1. ToSet(q) \subseteq Request /\ ToSet(q) = {q[i] : i \in 1 .. Len(q)}
    BY <1>1 DEF ToSet
  <2>2. q \in Surjection(1 .. Len(q), ToSet(q))
    BY <1>1, <2>1 DEF Surjection
  <2>3. IsFiniteSet(1 .. Len(q))
    BY <1>1, FS_Interval
  <2> QED
    BY <2>1, <2>2, <2>3, FS_Surjection
<1> DEFINE w == IF pump = "writing" /\ active.class = cl THEN {active} ELSE {}
<1>3. IsFiniteSet(w) /\ w \subseteq Request
  <2>1. pump = "writing" => active \in Request
    BY DEF TypeInv, Locals
  <2>2. IsFiniteSet({}) /\ IsFiniteSet({active})
    BY FS_EmptySet, FS_Singleton
  <2> QED
    BY <2>1, <2>2
<1>4. Held(cl) = ToSet(q) \cup w
  BY DEF Held, q
<1> HIDE DEF w
<1>5. IsFiniteSet(Held(cl)) /\ Held(cl) \subseteq Request
  BY <1>2, <1>3, <1>4, FS_Union
<1> QED
  BY <1>5 DEF Request

\* A request that is admitted counts ...
LEMMA BytesGrow ==
    ASSUME TypeInv, TypeInv', BytesExact, NEW cl \in Class, NEW r \in Request, r \notin Held(cl),
           Held(cl)' = Held(cl) \cup {r}, \A d \in Class : d # cl => Held(d)' = Held(d),
           bytes' = [bytes EXCEPT ![cl] = @ + r.len]
    PROVE  BytesExact'
<1>1. IsFiniteSet(Held(cl)') /\ \A x \in Held(cl)' : x.len \in Nat
  <2>1. ASSUME NEW x \in Held(cl)' PROVE x.len \in Nat
    BY <2>1, HeldFinite DEF Request
  <2>2. IsFiniteSet(Held(cl)) /\ IsFiniteSet({r})
    BY HeldFinite, FS_Singleton
  <2>3. IsFiniteSet(Held(cl) \cup {r})
    BY <2>2, FS_Union
  <2> QED
    BY <2>1, <2>3
<1>2. r \in Held(cl)' /\ Held(cl)' \ {r} = Held(cl)
  OBVIOUS
<1>3. Total(Held(cl)') = r.len + Total(Held(cl))
  BY <1>1, <1>2, TotalRemove
<1>4. Total(Held(cl)) \in Nat /\ r.len \in Nat
  BY HeldFinite, TotalNat DEF Request
<1>5. bytes \in [Class -> Int] /\ \A d \in Class : bytes[d] = Total(Held(d))
  BY BytesTotal DEF TypeInv, TypeOK
<1>6. bytes'[cl] = bytes[cl] + r.len /\ bytes[cl] = Total(Held(cl))
  BY <1>5
<1>7. bytes'[cl] = Total(Held(cl)')
  BY <1>3, <1>4, <1>6
<1>8. \A d \in Class : d # cl => bytes'[d] = Total(Held(d)')
  BY <1>5
<1>9. \A d \in Class : bytes'[d] = Total(Held(d)')
  BY <1>7, <1>8
<1> QED
  BY <1>9, BytesTotal

\* ... until it leaves.
LEMMA BytesShrink ==
    ASSUME TypeInv, BytesExact, NEW cl \in Class, NEW r \in Held(cl),
           Held(cl)' = Held(cl) \ {r}, \A d \in Class : d # cl => Held(d)' = Held(d),
           bytes' = [bytes EXCEPT ![cl] = @ - r.len]
    PROVE  BytesExact'
<1>1. IsFiniteSet(Held(cl)) /\ r.len \in Nat /\ \A x \in Held(cl) : x.len \in Nat
  BY HeldFinite
<1>2. Total(Held(cl)) = r.len + Total(Held(cl)')
  BY <1>1, TotalRemove
<1>3. Total(Held(cl)') \in Nat
  <2>1. IsFiniteSet(Held(cl) \ {r})
    BY <1>1, FS_Subset
  <2> QED
    BY <1>1, <2>1, TotalNat
<1>5. bytes \in [Class -> Int] /\ \A d \in Class : bytes[d] = Total(Held(d))
  BY BytesTotal DEF TypeInv, TypeOK
<1>6. bytes'[cl] = bytes[cl] - r.len /\ bytes[cl] = Total(Held(cl))
  BY <1>5
<1>7. bytes'[cl] = Total(Held(cl)')
  BY <1>1, <1>2, <1>3, <1>6
<1>8. \A d \in Class : d # cl => bytes'[d] = Total(Held(d)')
  BY <1>5
<1>9. \A d \in Class : bytes'[d] = Total(Held(d)')
  BY <1>7, <1>8
<1> QED
  BY <1>9, BytesTotal

\* A step that moves no bytes and changes nothing that counts.
LEMMA BytesStay ==
    ASSUME BytesExact, bytes' = bytes, \A d \in Class : Held(d)' = Held(d)
    PROVE  BytesExact'
  BY BytesTotal

\* What joining and leaving a line do to the set of its requests.
LEMMA SetAppend ==
    ASSUME NEW q \in Seq(Request), NEW r \in Request
    PROVE  ToSet(Append(q, r)) = ToSet(q) \cup {r}
<1> DEFINE t == Append(q, r)
<1>1. Len(q) \in Nat /\ DOMAIN q = 1 .. Len(q)
  BY LenProperties
<1>2. /\ t \in Seq(Request) /\ Len(t) = Len(q) + 1 /\ t[Len(q) + 1] = r
      /\ \A i \in 1 .. Len(q) : t[i] = q[i]
  BY AppendProperties
<1>3. DOMAIN t = 1 .. Len(q) + 1
  BY <1>2, LenProperties
<1> HIDE DEF t
<1>4. ASSUME NEW x \in ToSet(t) PROVE x \in ToSet(q) \cup {r}
  <2>1. PICK i \in 1 .. Len(q) + 1 : x = t[i]
    BY <1>3 DEF ToSet
  <2>2. CASE i \in 1 .. Len(q)
    BY <1>1, <1>2, <2>1, <2>2 DEF ToSet
  <2>3. CASE i = Len(q) + 1
    BY <1>2, <2>1, <2>3
  <2> QED
    BY <1>1, <2>1, <2>2, <2>3
<1>5. ASSUME NEW x \in ToSet(q) PROVE x \in ToSet(t)
  <2>1. PICK i \in 1 .. Len(q) : x = q[i]
    BY <1>1 DEF ToSet
  <2>2. i \in DOMAIN t /\ t[i] = x
    BY <1>1, <1>2, <1>3, <2>1
  <2> QED
    BY <2>2 DEF ToSet
<1>6. r \in ToSet(t)
  <2>1. Len(q) + 1 \in DOMAIN t
    BY <1>1, <1>3
  <2> QED
    BY <1>2, <2>1 DEF ToSet
<1> QED
  BY <1>4, <1>5, <1>6 DEF t

LEMMA SetWithout ==
    ASSUME NEW q \in Seq(Request), NEW p \in DOMAIN q, NEW t, Without(t, q, p),
           \A a, b \in DOMAIN q : q[a] = q[b] => a = b
    PROVE  ToSet(t) = ToSet(q) \ {q[p]}
<1> DEFINE n == Len(q)
<1>1. n \in Nat /\ DOMAIN q = 1 .. n
  BY LenProperties
<1>2. DOMAIN t = 1 .. n - 1 /\ \A k \in 1 .. n - 1 : t[k] = IF k < p THEN q[k] ELSE q[k + 1]
  BY LenProperties DEF Without
<1> HIDE DEF n
<1>3. ASSUME NEW x \in ToSet(t) PROVE x \in ToSet(q) \ {q[p]}
  <2>1. PICK k \in 1 .. n - 1 : x = t[k]
    BY <1>2 DEF ToSet
  <2>2. PICK j \in 1 .. n : j # p /\ t[k] = q[j]
    <3>1. CASE k < p
      <4>1. k \in 1 .. n /\ k # p /\ t[k] = q[k]
        BY <1>1, <1>2, <3>1
      <4> QED
        BY <4>1
    <3>2. CASE ~(k < p)
      <4>1. k + 1 \in 1 .. n /\ k + 1 # p /\ t[k] = q[k + 1]
        BY <1>1, <1>2, <3>2
      <4> QED
        BY <4>1
    <3> QED
      BY <3>1, <3>2
  <2> QED
    BY <1>1, <2>1, <2>2 DEF ToSet
<1>4. ASSUME NEW x \in ToSet(q) \ {q[p]} PROVE x \in ToSet(t)
  <2>1. PICK j \in 1 .. n : x = q[j] /\ j # p
    BY <1>1 DEF ToSet
  <2>2. PICK k \in 1 .. n - 1 : x = t[k]
    <3>1. CASE j < p
      <4>1. j \in 1 .. n - 1 /\ t[j] = q[j]
        BY <1>1, <1>2, <3>1
      <4> QED
        BY <2>1, <4>1
    <3>2. CASE j > p
      <4>1. j - 1 \in 1 .. n - 1 /\ ~(j - 1 < p) /\ (j - 1) + 1 = j
        BY <1>1, <3>2
      <4>2. t[j - 1] = q[j]
        BY <1>2, <4>1
      <4> QED
        BY <2>1, <4>1, <4>2
    <3> QED
      BY <1>1, <2>1, <3>1, <3>2
  <2> QED
    BY <1>2, <2>2 DEF ToSet
<1> QED
  BY <1>3, <1>4

\* A queued request is not with the writer, and the one with the writer is not
\* queued.
LEMMA QueuedOrWriting ==
    ASSUME TypeInv, VerdictInv, NEW cl \in Class
    PROVE  /\ \A a, b \in DOMAIN queues[cl] : queues[cl][a] = queues[cl][b] => a = b
           /\ pump = "writing" => active \notin ToSet(queues[cl]) /\ active \in Request
<1>1. \A a, b \in DOMAIN queues[cl] : queues[cl][a] = queues[cl][b] => a = b
  BY DEF VerdictInv, LineInv, Distinct
<1>2. ASSUME pump = "writing" PROVE active \notin ToSet(queues[cl]) /\ active \in Request
  <2>1. active \in Request /\ active # None /\ active.caller \in Callers
    BY <1>2, SchedulerAssumption DEF TypeInv, Locals, Request
  <2>2. AtWriter(active.caller) /\ PlacedAt(active.caller) /\ pc[active.caller] \in CallState
    BY <1>2, <2>1 DEF AtWriter, VerdictInv, Placed, TypeInv, TypeOK
  <2>3. ~Queued(active.caller)
    BY <2>2 DEF PlacedAt, Nowhere, InFlight, CallState
  <2> QED
    BY <2>1, <2>3 DEF Queued, InLine, ToSet
<1> QED
  BY <1>1, <1>2

\* enqueueLocked accounts for what it admits.
LEMMA EnterBytes ==
    ASSUME TypeInv, TypeInv', VerdictInv, BytesExact, NEW cl \in Class, NEW r \in Of(cl),
           Enqueue(r), Nowhere(r.caller), UNCHANGED <<pump, active>>
    PROVE  BytesExact'
<1>1. r \in Request /\ r.class = cl
  BY OfClass
<1>2. queues \in [Class -> Seq(Request)]
  BY DEF TypeInv, TypeOK
<1>3. /\ queues'[cl] = Append(queues[cl], r) /\ \A d \in Class : d # cl => queues'[d] = queues[d]
      /\ bytes' = [bytes EXCEPT ![cl] = @ + r.len]
  BY <1>1, <1>2 DEF Enqueue
<1>4. r \notin Held(cl)
  <2>1. r \notin ToSet(queues[cl])
    BY DEF Nowhere, Queued, InLine, ToSet
  <2>2. pump = "writing" => active # r
    <3>1. r # None
      BY <1>1, SchedulerAssumption DEF Request
    <3> QED
      BY <3>1 DEF Nowhere, AtWriter
  <2> QED
    BY <2>1, <2>2 DEF Held
<1>5. ToSet(queues'[cl]) = ToSet(queues[cl]) \cup {r}
  BY <1>1, <1>2, <1>3, SetAppend
<1>6. Held(cl)' = Held(cl) \cup {r} /\ \A d \in Class : d # cl => Held(d)' = Held(d)
  BY <1>3, <1>5 DEF Held
<1> QED
  BY <1>1, <1>3, <1>4, <1>6, BytesGrow

\* removeQueuedLocked and failQueuedLocked give back what they remove.
LEMMA LeaveBytes ==
    ASSUME TypeInv, VerdictInv, BytesExact, NEW cl \in Class, NEW p \in DOMAIN queues[cl],
           NEW t, Without(t, queues[cl], p), queues' = [queues EXCEPT ![cl] = t],
           Refund(queues[cl][p]), UNCHANGED <<pump, active>>
    PROVE  BytesExact'
<1> DEFINE r == queues[cl][p]
<1>1. queues \in [Class -> Seq(Request)] /\ queues[cl] \in Seq(Of(cl)) /\ queues[cl] \in Seq(Request)
  BY DEF TypeInv, TypeOK, Lines
<1>2. r \in Of(cl)
  BY <1>1, LenProperties
<1>3. r.class = cl /\ r \in ToSet(queues[cl])
  BY <1>2, OfClass DEF ToSet
<1>4. ToSet(queues'[cl]) = ToSet(queues[cl]) \ {r} /\ \A d \in Class : d # cl => queues'[d] = queues[d]
  <2>1. ToSet(t) = ToSet(queues[cl]) \ {r}
    BY <1>1, QueuedOrWriting, SetWithout
  <2> QED
    BY <1>1, <2>1
<1> HIDE DEF r
<1>5. pump = "writing" => active # r
  BY <1>3, QueuedOrWriting
<1>6. /\ r \in Held(cl) /\ Held(cl)' = Held(cl) \ {r}
      /\ \A d \in Class : d # cl => Held(d)' = Held(d)
  BY <1>3, <1>4, <1>5 DEF Held
<1>7. bytes' = [bytes EXCEPT ![cl] = @ - r.len]
  BY <1>3 DEF Refund, r
<1> QED
  BY <1>6, <1>7, BytesShrink

\* Leaving at the head.
LEMMA TailWithout ==
    ASSUME NEW q \in Seq(Request), q # <<>>
    PROVE  1 \in DOMAIN q /\ Head(q) = q[1] /\ Without(Tail(q), q, 1)
<1>1. Len(q) \in Nat \ {0} /\ DOMAIN q = 1 .. Len(q)
  BY LenProperties, EmptySeq
<1>2. /\ Tail(q) \in Seq(Request) /\ Len(Tail(q)) = Len(q) - 1
      /\ \A k \in 1 .. Len(Tail(q)) : Tail(q)[k] = q[k + 1]
  BY HeadTailProperties
<1> QED
  BY <1>1, <1>2 DEF Without

\* popLocked: the request stays accounted for while it is being written.
LEMMA PopBytes ==
    ASSUME TypeInv, VerdictInv, BytesExact, NEW cl \in Class, queues[cl] # <<>>,
           NEW o, NEW i, Pop(cl, o, i), pump # "writing", bytes' = bytes
    PROVE  BytesExact'
<1> DEFINE h == Head(queues[cl])
<1>1. queues \in [Class -> Seq(Request)] /\ queues[cl] \in Seq(Request)
  BY DEF TypeInv, TypeOK
<1>2. 1 \in DOMAIN queues[cl] /\ h = queues[cl][1] /\ Without(Tail(queues[cl]), queues[cl], 1)
  BY <1>1, TailWithout
<1>3. h \in Of(cl)
  BY HeadTailProperties DEF TypeInv, Lines
<1>4. h.class = cl /\ h \in ToSet(queues[cl])
  BY <1>2, <1>3, OfClass DEF ToSet
<1>5. ToSet(Tail(queues[cl])) = ToSet(queues[cl]) \ {h}
  BY <1>1, <1>2, QueuedOrWriting, SetWithout
<1>6. /\ queues'[cl] = Tail(queues[cl]) /\ \A d \in Class : d # cl => queues'[d] = queues[d]
      /\ pump' = "writing" /\ active' = h
  BY <1>1 DEF Pop
<1> HIDE DEF h
<1>7. Held(cl)' = Held(cl)
  BY <1>4, <1>5, <1>6 DEF Held
<1>8. \A d \in Class : d # cl => Held(d)' = Held(d)
  BY <1>4, <1>6 DEF Held
<1> QED
  BY <1>7, <1>8, BytesStay

\* The writer returns and the bytes of its request are free again.
LEMMA WriteReturnsBytes ==
    ASSUME TypeInv, VerdictInv, BytesExact, NEW err \in {"nil", "failed"}, WriteReturns(err)
    PROVE  BytesExact'
<1>1. pump = "writing" /\ pump' # "writing" /\ queues' = queues /\ Refund(active)
  BY DEF WriteReturns, Terminate
<1>2. active \in Request /\ active.class \in Class
  BY <1>1 DEF TypeInv, Locals, Request
<1>3. PICK cl \in Class : cl = active.class
  BY <1>2
<1>4. active \notin ToSet(queues[cl])
  BY <1>1, QueuedOrWriting
<1>5. /\ active \in Held(cl) /\ Held(cl)' = Held(cl) \ {active}
      /\ \A d \in Class : d # cl => Held(d)' = Held(d)
  BY <1>1, <1>3, <1>4 DEF Held
<1>6. bytes' = [bytes EXCEPT ![cl] = @ - active.len]
  BY <1>1, <1>3 DEF Refund
<1> QED
  BY <1>5, <1>6, BytesShrink

\* Every step keeps the account exact.
LEMMA StepBytes == TypeInv /\ VerdictInv /\ BytesExact /\ [Next]_vars => BytesExact'
<1> SUFFICES ASSUME TypeInv, VerdictInv, BytesExact, [Next]_vars PROVE BytesExact'
  OBVIOUS
<1>0. TypeInv' /\ queues \in [Class -> Seq(Request)]
  BY TypeInvStep DEF TypeInv, TypeOK
<1>1. ASSUME queues' = queues, bytes' = bytes, active' = active \/ pump # "writing",
             pump' = "writing" <=> pump = "writing"
      PROVE  BytesExact'
  <2>1. \A d \in Class : Held(d)' = Held(d)
    BY <1>1 DEF Held
  <2> QED
    BY <1>1, <2>1, BytesStay
<1>2. ASSUME NEW call \in Calls, Send(call.caller, call) PROVE BytesExact'
  <2>1. /\ call \in Of(call.class) /\ call.class \in Class /\ call.caller \in Callers
        /\ pc[call.caller] = "idle" /\ UNCHANGED <<pump, active>>
    BY <1>2, ValidCall DEF Send, pumpVars
  <2>2. Nowhere(call.caller)
    BY <2>1 DEF VerdictInv, Placed, PlacedAt
  <2>3. CASE HasRoom(call)
    <3>1. Enqueue(call)
      BY <1>2, <2>3 DEF Send
    <3> QED
      BY <1>0, <2>1, <2>2, <3>1, EnterBytes
  <2>4. CASE ~HasRoom(call)
    BY <1>1, <1>2, <2>1, <2>4 DEF Send
  <2> QED
    BY <2>3, <2>4
<1>3. CASE AdmitOne
  <2>1. PICK d \in Class : d = admitting /\ waiters[d] # <<>>
    BY <1>3 DEF AdmitOne, FitsNext, TypeInv, Locals
  <2>2. PICK w \in Of(d) : w = Head(waiters[d])
    BY <2>1, HeadTailProperties DEF TypeInv, Lines
  <2>3. w.caller \in Callers /\ pc[w.caller] \in CallState
    BY <2>2, OfClass DEF TypeInv, TypeOK
  <2>4. Waiting(w.caller)
    <3>1. waiters[d] \in Seq(Request)
      BY DEF TypeInv, TypeOK
    <3>2. 1 \in DOMAIN waiters[d] /\ w = waiters[d][1]
      BY <2>1, <2>2, <3>1, TailWithout
    <3> QED
      BY <3>2 DEF Waiting, InLine
  <2>5. Nowhere(w.caller)
    BY <2>3, <2>4 DEF VerdictInv, Placed, PlacedAt, CallState
  <2>6. Enqueue(w) /\ UNCHANGED <<pump, active>>
    BY <1>3, <2>1, <2>2 DEF AdmitOne, pumpVars
  <2> QED
    BY <1>0, <2>5, <2>6, EnterBytes
<1>4. ASSUME NEW c \in Callers, CancelQueued(c) PROVE BytesExact'
  <2>0. UNCHANGED <<pump, active>>
    BY <1>4 DEF CancelQueued, pumpVars
  <2>1. PICK d \in Class : d = req[c].class
    BY <1>4, ReqClass DEF CancelQueued
  <2>2. CASE queues' = queues /\ bytes' = bytes
    BY <1>1, <2>0, <2>2
  <2>3. ASSUME NEW i \in DOMAIN queues[d], queues[d][i] = req[c], Refund(req[c]),
               queues' = [queues EXCEPT ![d] = RemoveAt(queues[d], i)]
        PROVE  BytesExact'
    <3>1. queues[d] \in Seq(Request) /\ i \in 1 .. Len(queues[d])
      BY <1>0, <2>3, LenProperties
    <3>2. Without(RemoveAt(queues[d], i), queues[d], i)
      BY <3>1, RemoveAtProperties DEF Without
    <3> QED
      BY <2>0, <2>3, <3>2, LeaveBytes
  <2> QED
    BY <1>4, <2>1, <2>2, <2>3 DEF CancelQueued
<1>5. CASE FailOne
  <2>1. PICK d \in Class : /\ queues[d] # <<>> /\ Refund(Head(queues[d]))
                           /\ queues' = [queues EXCEPT ![d] = Tail(queues[d])]
    BY <1>5 DEF FailOne
  <2>2. UNCHANGED <<pump, active>>
    BY <1>5 DEF FailOne, pumpVars
  <2>3. /\ 1 \in DOMAIN queues[d] /\ Head(queues[d]) = queues[d][1]
        /\ Without(Tail(queues[d]), queues[d], 1)
    BY <1>0, <2>1, TailWithout
  <2> QED
    BY <2>1, <2>2, <2>3, LeaveBytes
<1>6. CASE PumpControl
  <2>1. Control \in Class
    BY DEF Class
  <2> QED
    BY <1>6, <2>1, PopBytes DEF PumpControl
<1>7. CASE TakeBulk
  <2>1. Bulk \in Class /\ pump # "writing"
    BY <1>7 DEF Class, TakeBulk, TypeInv, Holder
  <2> QED
    BY <1>7, <2>1, PopBytes DEF TakeBulk
<1>8. CASE TakeMedia
  <2>1. inner.current \in {0, 1} /\ pump # "writing"
    BY <1>8 DEF TypeInv, TypeOK, RoundRobin, Holder, TakeMedia, InnerFits
  <2>2. PICK d \in Class : d = MediaLane[inner.current] /\ queues[d] # <<>>
    BY <1>8, <2>1 DEF TakeMedia, InnerFits, InnerBacklog, MediaLane, Class, Media
  <2>3. PICK o, i : Pop(d, o, i)
    BY <1>8, <2>2 DEF TakeMedia
  <2>4. bytes' = bytes
    BY <1>8 DEF TakeMedia
  <2> QED
    BY <2>1, <2>2, <2>3, <2>4, PopBytes
<1>9. ASSUME NEW c \in Callers,
             ReceiveReady(c) \/ ReceiveDone(c) \/ SelectCtx(c) \/ CancelWaiter(c)
      PROVE  BytesExact'
  BY <1>1, <1>9 DEF ReceiveReady, ReceiveDone, SelectCtx, CancelWaiter, lineVars, pumpVars
<1>10. CASE Close \/ AdmitEnd \/ FailEnd
  BY <1>1, <1>10 DEF Close, AdmitEnd, FailEnd, lineVars, pumpVars
<1>11. CASE PumpData \/ PumpIdle \/ PumpWake \/ PumpExit \/ Deliver
  BY <1>1, <1>11 DEF PumpData, PumpIdle, PumpWake, PumpExit, Deliver, lineVars
<1>12. CASE OuterPass \/ PeekMedia \/ InnerPass \/ RefuseMedia \/ UNCHANGED vars
  BY <1>1, <1>12 DEF OuterPass, PeekMedia, InnerPass, RefuseMedia, vars, lineVars, pumpVars
<1> QED
  BY <1>2, <1>3, <1>4, <1>5, <1>6, <1>7, <1>8, <1>9, <1>10, <1>11, <1>12, WriteReturnsBytes
  DEF Next, PumpStep, LoopStep, CallerStep, CallerRuns

\* The bytes of a class are those of its queued requests and of the one being
\* written, for any number of callers and any lengths: no admission, refund,
\* cancellation, write error or Close leaks or returns a byte twice
\* (scheduler.go:48).
THEOREM BytesAreExact == Spec => []BytesExact
<1>1. Init => BytesExact
  <2> SUFFICES ASSUME Init PROVE BytesExact
    OBVIOUS
  <2>1. ASSUME NEW cl \in Class PROVE bytes[cl] = Total(Held(cl))
    <3>1. bytes[cl] = 0 /\ queues[cl] = <<>> /\ pump = "next"
      BY DEF Init
    <3>2. Held(cl) = {}
      BY <3>1 DEF Held, ToSet
    <3>3. Total({}) = 0
      BY FS_EmptySet, TotalStep
    <3> QED
      BY <3>1, <3>2, <3>3
  <2> QED
    BY <2>1, BytesTotal
<1>2. Spec => []TypeInv
  BY InitTypeInv, TypeInvStep, PTL DEF Spec
<1> QED
  BY <1>1, <1>2, VerdictInvariant, StepBytes, PTL DEF Spec
==============================================================================
