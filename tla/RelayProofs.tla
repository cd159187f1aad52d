-------------------------------- MODULE RelayProofs --------------------------------
(***************************************************************************)
(* Proofs about the relay: RelayRegistry for any number of sessions,       *)
(* sockets and frames, and that it implements the metered tunnel of        *)
(* RelayTunnel; and RelayQuota for any number of sessions, any limit and   *)
(* any session size.                                                       *)
(***************************************************************************)
EXTENDS RelayRegistry, RelayQuota, FiniteSetTheorems, TLAPS

Proxied(s) == peer[s] # None
Owner(s) == pc[s] \in {"pending", "wait", "timedOut", "proxy"} \/ Proxied(s)

\* Nobody has got past the hello of a session that was not created, and a token
\* has been used by nobody or by the one browser that is bound.
Tokens ==
    /\ \A s \in Sockets : state[SidOf[s]] = "unborn" => pc[s] = "hello"
    /\ \A i \in Sids : \A x, y \in usedBy[i] : x = y
    /\ \A i \in Sids : state[i] # "gone" /\ usedBy[i] # {} => i \in spent

\* What the entry of a session says of its sockets; bound is never reset.
BoundAt(i, r) ==
    /\ bound[i][r] # None =>
           /\ SidOf[bound[i][r]] = i /\ Role(bound[i][r]) = r
           /\ pc[bound[i][r]] \notin {"hello", "bind"}
           /\ r = "browser" => bound[i][r] \in usedBy[i]
    /\ state[i] # "gone" => ready[i][r] = (bound[i][r] # None)
Entries ==
    \A i \in Sids :
        /\ BoundAt(i, "browser") /\ BoundAt(i, "agent")
        /\ active[i] = (bound[i]["browser"] # None /\ bound[i]["agent"] # None)

\* One socket of a session, the one that was bound first, waits and proxies.
Owners ==
    /\ \A s \in Sockets : Owner(s) => bound[SidOf[s]][Role(s)] = s
    /\ \A s, t \in Sockets : Owner(s) /\ Owner(t) /\ SidOf[s] = SidOf[t] => s = t

\* A proxy has the bound peer, and its session is in the table until it closes it.
ProxyAt(s) ==
    /\ pc[s] = "proxy" => Proxied(s)
    /\ ~Proxied(s) => flush[s] = "no" /\ \A d \in Ends : fwd[s][d] = "none"
    /\ Proxied(s) =>
           /\ pc[s] \in {"proxy", "finished"}
           /\ peer[s] = bound[SidOf[s]][Other(Role(s))]
           /\ state[SidOf[s]] = "live" <=> flush[s] \in {"no", "left", "right", "session"}
Proxies == \A s \in Sockets : ProxyAt(s)

\* Both sockets are closed before the session is.
ClosedAt(s) ==
    /\ flush[s] \in {"right", "session", "bill", "done"} => conn[s] = "closed"
    /\ flush[s] \in {"session", "bill", "done"} => conn[peer[s]] = "closed"
Closings == \A s \in Sockets : Proxied(s) => ClosedAt(s)

\* A loop's frame is counted after it was read, and written after it was counted.
At(s, d, l) == IF fwd[s][d] = l THEN 1 ELSE 0
Loops(s, l) == At(s, "left", l) + At(s, "right", l)
MeterAt(s, i) ==
    /\ flush[s] # "done" => billed[i] = 0
    /\ state[i] = "live" => due[i] = 0 /\ delivered[i] + Loops(s, "write") <= forwarded[i]
    /\ state[i] # "live" => forwarded[i] = 0
    /\ Accounted(i) + Loops(s, "add") <= read[i]
Unused(i) == forwarded[i] = 0 /\ due[i] = 0 /\ billed[i] = 0 /\ delivered[i] = 0
Meters ==
    /\ \A s \in Sockets : Proxied(s) => MeterAt(s, SidOf[s])
    /\ \A i \in Sids : Unused(i) \/ \E s \in Sockets : SidOf[s] = i /\ Proxied(s)

IInv == TypeOK /\ Tokens /\ Entries /\ Owners /\ Proxies /\ Closings /\ Meters

-----------------------------------------------------------------------------
(* The types *)

LEMMA SocketFacts ==
    /\ \A s \in Sockets : SidOf[s] \in Sids /\ Role(s) \in Side /\ Other(Role(s)) \in Side
    /\ \A s \in Sockets : s # None
    /\ Side = {"browser", "agent"} /\ Ends = {"left", "right"}
BY RelayAssumption DEF Role, Side, Other, Ends

LEMMA InitType == Init => TypeOK
BY DEF Init, TypeOK, Side, Ends

LEMMA NestedUpdate ==
    ASSUME NEW X, NEW Z, NEW Y, NEW f \in [X -> [Z -> Y]], NEW x \in X, NEW z \in Z, NEW y \in Y
    PROVE  /\ [f EXCEPT ![x][z] = y] \in [X -> [Z -> Y]]
           /\ \A u \in X, v \in Z :
                  [f EXCEPT ![x][z] = y][u][v] = IF u = x /\ v = z THEN y ELSE f[u][v]
<1>1. [f[x] EXCEPT ![z] = y] \in [Z -> Y]
  OBVIOUS
<1>2. [f EXCEPT ![x][z] = y] = [f EXCEPT ![x] = [f[x] EXCEPT ![z] = y]]
  OBVIOUS
<1>3. ASSUME NEW u \in X, NEW v \in Z
      PROVE  [f EXCEPT ![x][z] = y][u][v] = IF u = x /\ v = z THEN y ELSE f[u][v]
  <2>1. CASE u = x
    BY <2>1
  <2>2. CASE u # x
    BY <2>2
  <2> QED
    BY <2>1, <2>2
<1> QED
  BY <1>1, <1>2, <1>3

\* What leaving the table does to the entry of session i.
LEMMA CleanupFacts ==
    ASSUME TypeOK, NEW i \in Sids, CleanupSession(i)
    PROVE  /\ state' \in [Sids -> {"unborn", "live", "gone"}]
           /\ ready' \in [Sids -> [Side -> BOOLEAN]]
           /\ doneClosed' \in [Sids -> BOOLEAN]
           /\ spent' \subseteq Sids
           /\ state'[i] = "gone" /\ i \notin spent'
           /\ \A j \in Sids \ {i} : /\ state'[j] = state[j] /\ ready'[j] = ready[j]
                                     /\ j \in spent' <=> j \in spent
<1>1. [r \in Side |-> TRUE] \in [Side -> BOOLEAN]
  OBVIOUS
<1>2. ready' \in [Sids -> [Side -> BOOLEAN]] /\ \A j \in Sids \ {i} : ready'[j] = ready[j]
  BY <1>1 DEF CleanupSession, TypeOK
<1>3. state' \in [Sids -> {"unborn", "live", "gone"}] /\ state'[i] = "gone"
      /\ \A j \in Sids \ {i} : state'[j] = state[j]
  BY DEF CleanupSession, TypeOK
<1>4. doneClosed' \in [Sids -> BOOLEAN]
  BY DEF CleanupSession, TypeOK
<1> QED
  BY <1>2, <1>3, <1>4 DEF CleanupSession, TypeOK

LEMMA RegistryType ==
    ASSUME TypeOK, NEW i \in Sids, CreatePendingSession(i) \/ Expire(i) \/ CleanupExpired(i)
    PROVE  TypeOK'
<1>1. CASE CreatePendingSession(i)
  BY <1>1 DEF TypeOK, CreatePendingSession, proxyVars
<1>2. CASE Expire(i)
  BY <1>2 DEF TypeOK, Expire, regVars, proxyVars
<1>3. CASE CleanupExpired(i)
  <2>1. CleanupSession(i) /\ UNCHANGED <<expired, active, bound, forwarded, conn, pc, peer, usedBy>>
        /\ UNCHANGED proxyVars
    BY <1>3 DEF CleanupExpired
  <2> QED
    BY <2>1, CleanupFacts DEF TypeOK, proxyVars
<1> QED
  BY <1>1, <1>2, <1>3

LEMMA HandlerType ==
    ASSUME TypeOK, NEW s \in Sockets, Hello(s) \/ Disconnect(s) \/ HandlerStep(s)
    PROVE  TypeOK'
<1> USE SocketFacts
<1>1. CASE Hello(s) \/ Disconnect(s)
  BY <1>1 DEF Hello, Disconnect, TypeOK, regVars, proxyVars, Finish
<1>2. CASE BindSocket(s)
  <2>1. CASE Bindable(s)
    <3>1. /\ Bind(s) /\ UNCHANGED conn
          /\ spent' = IF s \in Browsers THEN spent \cup {SidOf[s]} ELSE spent
          /\ usedBy' = [usedBy EXCEPT ![SidOf[s]] = IF s \in Browsers THEN @ \cup {s} ELSE @]
          /\ UNCHANGED <<state, expired, doneClosed, forwarded, peer>> /\ UNCHANGED proxyVars
      BY <1>2, <2>1 DEF BindSocket
    <3>2. bound' \in [Sids -> [Side -> Sockets \cup {None}]]
      <4>1. bound' = [bound EXCEPT ![SidOf[s]][Role(s)] = s]
        BY <3>1 DEF Bind
      <4>2. bound \in [Sids -> [Side -> Sockets \cup {None}]]
        BY DEF TypeOK
      <4> QED
        BY <4>1, <4>2, NestedUpdate
    <3>3. ready' \in [Sids -> [Side -> BOOLEAN]]
      <4>1. ready' = [ready EXCEPT ![SidOf[s]][Role(s)] = TRUE]
        BY <3>1 DEF Bind
      <4>2. ready \in [Sids -> [Side -> BOOLEAN]]
        BY DEF TypeOK
      <4> QED
        BY <4>1, <4>2, NestedUpdate
    <3>4. active' \in [Sids -> BOOLEAN]
      BY <3>1 DEF Bind, TypeOK
    <3>5. pc' \in [Sockets -> {"hello", "bind", "pending", "wait", "timedOut",
                               "proxy", "watch", "await", "finished"}]
      BY <3>1 DEF Bind, TypeOK
    <3>6. spent' \subseteq Sids /\ usedBy' \in [Sids -> SUBSET Browsers]
      BY <3>1 DEF TypeOK
    <3> QED
      BY <3>1, <3>2, <3>3, <3>4, <3>5, <3>6 DEF TypeOK, proxyVars
  <2>2. CASE ~Bindable(s)
    BY <1>2, <2>2 DEF BindSocket, Finish, TypeOK, proxyVars
  <2> QED
    BY <2>1, <2>2
<1>3. CASE StartWait(s) \/ WaitTimeout(s) \/ Watch(s) \/ Released(s)
  <2>1. /\ UNCHANGED <<regVars, expired, forwarded, peer, proxyVars, usedBy>>
        /\ \/ Finish(s)
           \/ UNCHANGED conn /\ \E l \in {"wait", "timedOut", "await"} : pc' = [pc EXCEPT ![s] = l]
    BY <1>3 DEF StartWait, WaitTimeout, Watch, Released
  <2>2. /\ pc' \in [Sockets -> {"hello", "bind", "pending", "wait", "timedOut",
                                "proxy", "watch", "await", "finished"}]
        /\ conn' \in [Sockets -> {"open", "closed"}]
    <3>1. \E l \in {"wait", "timedOut", "await", "finished"} : pc' = [pc EXCEPT ![s] = l]
      BY <2>1 DEF Finish
    <3>2. conn' = conn \/ conn' = [conn EXCEPT ![s] = "closed"]
      BY <2>1 DEF Finish
    <3>3. pc' \in [Sockets -> {"hello", "bind", "pending", "wait", "timedOut",
                              "proxy", "watch", "await", "finished"}]
      BY <3>1 DEF TypeOK
    <3> QED
      BY <3>2, <3>3 DEF TypeOK
  <2> QED
    BY <2>1, <2>2 DEF TypeOK, regVars, proxyVars
<1>4. CASE GiveUp(s)
  <2>1. /\ CleanupSession(SidOf[s]) \/ UNCHANGED <<state, ready, doneClosed, spent>>
        /\ Finish(s) /\ UNCHANGED <<expired, active, bound, forwarded, peer, usedBy>>
        /\ UNCHANGED proxyVars
    BY <1>4 DEF GiveUp
  <2>2. /\ state' \in [Sids -> {"unborn", "live", "gone"}] /\ ready' \in [Sids -> [Side -> BOOLEAN]]
        /\ doneClosed' \in [Sids -> BOOLEAN] /\ spent' \subseteq Sids
    BY <2>1, CleanupFacts DEF TypeOK
  <2> QED
    BY <2>1, <2>2 DEF TypeOK, proxyVars, Finish
<1>5. CASE Wake(s)
  <2>1. CASE StillLive(s)
    <3>1. /\ peer' = [peer EXCEPT ![s] = bound[SidOf[s]][Other(Role(s))]]
          /\ pc' = [pc EXCEPT ![s] = "proxy"] /\ fwd' = [fwd EXCEPT ![s] = [d \in Ends |-> "read"]]
          /\ UNCHANGED conn /\ UNCHANGED regVars
          /\ UNCHANGED <<expired, forwarded, flush, due, billed, read, delivered, usedBy>>
      BY <1>5, <2>1 DEF Wake
    <3>2. [d \in Ends |-> "read"] \in [Ends -> {"none", "read", "add", "write", "close",
                                                "closing", "closeWait", "ended"}]
      OBVIOUS
    <3>3. fwd' \in [Sockets -> [Ends -> {"none", "read", "add", "write", "close",
                                        "closing", "closeWait", "ended"}]]
      BY <3>1, <3>2 DEF TypeOK
    <3>4. bound[SidOf[s]][Other(Role(s))] \in Sockets \cup {None}
      <4>1. bound[SidOf[s]] \in [Side -> Sockets \cup {None}]
        BY DEF TypeOK
      <4> QED
        BY <4>1
    <3> QED
      BY <3>1, <3>3, <3>4 DEF TypeOK, regVars
  <2>2. CASE ~StillLive(s)
    <3>1. /\ Finish(s) /\ UNCHANGED <<regVars, expired, forwarded, peer, usedBy>>
          /\ UNCHANGED proxyVars
      BY <1>5, <2>2 DEF Wake, proxyVars
    <3>2. /\ conn' \in [Sockets -> {"open", "closed"}]
          /\ pc' \in [Sockets -> {"hello", "bind", "pending", "wait", "timedOut",
                                  "proxy", "watch", "await", "finished"}]
      BY <3>1 DEF Finish, TypeOK
    <3> QED
      BY <3>1, <3>2 DEF TypeOK, regVars, proxyVars
  <2> QED
    BY <2>1, <2>2
<1> QED
  BY <1>1, <1>2, <1>3, <1>4, <1>5 DEF HandlerStep

Labels == {"none", "read", "add", "write", "close", "closing", "closeWait", "ended"}

\* A loop's step changes its own position and no other.
LEMMA LoopFacts ==
    ASSUME TypeOK, NEW s \in Sockets, NEW d \in Ends, NEW l \in Labels,
           fwd' = [fwd EXCEPT ![s][d] = l]
    PROVE  /\ fwd' \in [Sockets -> [Ends -> Labels]]
           /\ fwd'[s][d] = l
           /\ \A u \in Sockets, v \in Ends : ~(u = s /\ v = d) => fwd'[u][v] = fwd[u][v]
<1>1. fwd \in [Sockets -> [Ends -> Labels]]
  BY DEF TypeOK, Labels
<1>2. fwd' \in [Sockets -> [Ends -> Labels]]
  BY <1>1, NestedUpdate
<1>3. \A u \in Sockets, v \in Ends : fwd'[u][v] = IF u = s /\ v = d THEN l ELSE fwd[u][v]
  BY <1>1, NestedUpdate
<1> QED
  BY <1>2, <1>3

LEMMA ProxyType ==
    ASSUME TypeOK, NEW s \in Sockets,
           FlushSteps(s) \/ \E d \in Ends : ReadFrame(s, d) \/ LoopStep(s, d)
    PROVE  TypeOK'
<1> USE SocketFacts
<1>0. FlushStep(s) => flush' \in [Sockets -> {"no", "left", "right", "session", "bill", "done"}]
  BY DEF FlushStep, FlushOrder, TypeOK
<1>1. CASE CloseEnd(s)
  <2>1. conn' \in [Sockets -> {"open", "closed"}]
    BY <1>1 DEF CloseEnd, TypeOK
  <2> QED
    BY <1>0, <1>1, <2>1 DEF CloseEnd, TypeOK, regVars
<1>2. CASE CloseSession(s)
  <2>1. CASE state[SidOf[s]] = "live"
    <3>1. /\ CleanupSession(SidOf[s]) /\ FlushStep(s)
          /\ due' = [due EXCEPT ![SidOf[s]] = forwarded[SidOf[s]]]
          /\ forwarded' = [forwarded EXCEPT ![SidOf[s]] = 0]
          /\ UNCHANGED <<expired, active, bound, conn, pc, peer, fwd, billed, read, delivered, usedBy>>
      BY <1>2, <2>1 DEF CloseSession
    <3>2. due' \in [Sids -> Nat] /\ forwarded' \in [Sids -> Nat]
      BY <3>1 DEF TypeOK
    <3> QED
      BY <1>0, <3>1, <3>2, CleanupFacts DEF TypeOK
  <2>2. CASE state[SidOf[s]] # "live"
    BY <1>0, <1>2, <2>2 DEF CloseSession, TypeOK
  <2> QED
    BY <2>1, <2>2
<1>3. CASE Bill(s)
  <2>1. due' \in [Sids -> Nat] /\ billed' \in [Sids -> Nat]
    BY <1>3 DEF Bill, TypeOK
  <2> QED
    BY <1>0, <1>3, <2>1 DEF Bill, TypeOK, regVars
<1>4. ASSUME NEW d \in Ends, ReadFrame(s, d) \/ LoopStep(s, d) PROVE TypeOK'
  <2> DEFINE FwdType == fwd' \in [Sockets -> [Ends -> {"none", "read", "add", "write", "close",
                                                      "closing", "closeWait", "ended"}]]
  <2>0. ASSUME NEW l \in Labels, fwd' = [fwd EXCEPT ![s][d] = l] PROVE FwdType
    BY <2>0, LoopFacts DEF Labels
  <2>1. CASE ReadFrame(s, d)
    <3>1. FwdType
      BY <2>0, <2>1 DEF ReadFrame, Loop, Labels
    <3>2. read' \in [Sids -> Nat]
      BY <2>1 DEF ReadFrame, TypeOK
    <3> QED
      BY <2>1, <3>1, <3>2 DEF ReadFrame, TypeOK, regVars
  <2>2. CASE ReadError(s, d)
    <3>1. FwdType
      BY <2>0, <2>2 DEF ReadError, Loop, Labels
    <3> QED
      BY <2>2, <3>1 DEF ReadError, TypeOK, regVars
  <2>3. CASE AddBytes(s, d)
    <3>1. FwdType
      BY <2>0, <2>3 DEF AddBytes, Loop, Labels
    <3>2. forwarded' \in [Sids -> Nat]
      BY <2>3 DEF AddBytes, Counted, TypeOK
    <3> QED
      BY <2>3, <3>1, <3>2 DEF AddBytes, TypeOK, regVars
  <2>4. CASE WriteFrame(s, d)
    <3>1. FwdType
      BY <2>0, <2>4 DEF WriteFrame, Loop, Labels
    <3>2. delivered' \in [Sids -> Nat]
      <4>1. delivered' = [delivered EXCEPT ![SidOf[s]] = @ + 1] \/ UNCHANGED delivered
        BY <2>4 DEF WriteFrame
      <4>2. delivered \in [Sids -> Nat] /\ delivered[SidOf[s]] + 1 \in Nat
        BY DEF TypeOK
      <4> QED
        BY <4>1, <4>2
    <3> QED
      BY <2>4, <3>1, <3>2 DEF WriteFrame, TypeOK, regVars
  <2>5. CASE EnterClose(s, d)
    <3>1. FwdType
      BY <2>0, <2>5 DEF EnterClose, Loop, Labels
    <3> QED
      BY <2>5, <3>1 DEF EnterClose, TypeOK, regVars
  <2>6. CASE LeaveClose(s, d)
    <3>1. FwdType
      BY <2>0, <2>6 DEF LeaveClose, Labels
    <3> QED
      BY <2>6, <3>1 DEF LeaveClose, Finish, TypeOK, regVars
  <2> QED
    BY <1>4, <2>1, <2>2, <2>3, <2>4, <2>5, <2>6 DEF LoopStep
<1> QED
  BY <1>1, <1>2, <1>3, <1>4 DEF FlushSteps

LEMMA NextType == TypeOK /\ [Next]_vars => TypeOK'
<1> SUFFICES ASSUME TypeOK, [Next]_vars PROVE TypeOK'
  OBVIOUS
<1>1. CASE UNCHANGED vars
  BY <1>1 DEF vars, TypeOK
<1> QED
  BY <1>1, RegistryType, HandlerType, ProxyType DEF Next

\* The registry's fields and the handlers' locals have their types.
THEOREM TypeCorrect == Spec => []TypeOK
BY InitType, NextType, PTL DEF Spec

-----------------------------------------------------------------------------
(* The invariant *)

LEMMA InitInv == Init => IInv
<1> SUFFICES ASSUME Init PROVE IInv
  OBVIOUS
<1>1. TypeOK
  BY InitType
<1>2. Tokens
  BY SocketFacts DEF Init, Tokens
<1>3. \A s \in Sockets : ~Owner(s) /\ ~Proxied(s)
  BY DEF Init, Owner, Proxied
<1>4. Entries
  BY DEF Init, Entries, BoundAt, Side
<1>5. Proxies
  BY <1>3 DEF Init, Proxies, ProxyAt, Proxied, Ends
<1>6. Meters
  BY <1>3 DEF Init, Meters, Unused
<1> QED
  BY <1>1, <1>2, <1>3, <1>4, <1>5, <1>6 DEF IInv, Owners, Closings

\* A session has at most one proxy, and both its sides are bound then.
LEMMA ProxyFacts ==
    ASSUME IInv, NEW s \in Sockets, Proxied(s)
    PROVE  /\ pc[s] \in {"proxy", "finished"}
           /\ active[SidOf[s]]
           /\ state[SidOf[s]] # "unborn"
           /\ peer[s] \in Sockets /\ SidOf[peer[s]] = SidOf[s] /\ Role(peer[s]) = Other(Role(s))
           /\ \A t \in Sockets : Owner(t) /\ SidOf[t] = SidOf[s] => t = s
<1> USE SocketFacts
<1>1. pc[s] \in {"proxy", "finished"} /\ peer[s] = bound[SidOf[s]][Other(Role(s))]
  BY DEF IInv, Proxies, ProxyAt
<1>2. Owner(s) /\ bound[SidOf[s]][Role(s)] = s
  BY DEF IInv, Owners, Owner
<1>3. \A t \in Sockets : Owner(t) /\ SidOf[t] = SidOf[s] => t = s
  BY <1>2 DEF IInv, Owners
<1>4. bound[SidOf[s]]["browser"] # None /\ bound[SidOf[s]]["agent"] # None
  BY <1>1, <1>2 DEF Proxied, Role, Other
<1>5. active[SidOf[s]]
  BY <1>4 DEF IInv, Entries
<1>6. state[SidOf[s]] # "unborn"
  BY <1>1 DEF IInv, Tokens
<1>7. peer[s] \in Sockets
  BY DEF IInv, TypeOK, Proxied
<1>8. BoundAt(SidOf[s], Other(Role(s)))
  BY DEF IInv, Entries, Side
<1>9. SidOf[peer[s]] = SidOf[s] /\ Role(peer[s]) = Other(Role(s))
  BY <1>1, <1>8 DEF BoundAt, Proxied
<1> QED
  BY <1>1, <1>3, <1>5, <1>6, <1>7, <1>9

\* Session i, which has no proxy, leaves the table.
Leaves(i) ==
    /\ state[i] = "live" /\ state'[i] = "gone"
    /\ \A s \in Sockets : SidOf[s] = i => ~Proxied(s)
    /\ \A j \in Sids \ {i} :
           state'[j] = state[j] /\ ready'[j] = ready[j] /\ (j \in spent' <=> j \in spent)

\* A handler moves on to another place where it owns nothing new.
Moves(s) ==
    /\ state[SidOf[s]] # "unborn"
    /\ pc[s] \in {"hello", "bind", "pending", "wait", "timedOut", "watch", "await"}
    /\ pc'[s] \in {"bind", "wait", "timedOut", "await", "finished"}
    /\ pc'[s] = "bind" => pc[s] = "hello"
    /\ pc'[s] \in {"wait", "timedOut"} => pc[s] \in {"pending", "wait"}
    /\ \A t \in Sockets \ {s} : pc'[t] = pc[t]

\* Neither a handler that moves on nor a session without a proxy that leaves the
\* table disturbs the invariant, together or alone.
LEMMA QuietStep ==
    ASSUME IInv, TypeOK',
           UNCHANGED <<active, bound, usedBy, forwarded, peer, fwd, flush, due, billed, read, delivered>>,
           UNCHANGED <<state, ready, spent>> \/ \E i \in Sids : Leaves(i),
           UNCHANGED pc \/ \E s \in Sockets : Moves(s),
           \A t \in Sockets : conn[t] = "closed" => conn'[t] = "closed"
    PROVE  IInv'
<1> USE SocketFacts
<1>1. \A j \in Sids : /\ state'[j] = "unborn" <=> state[j] = "unborn"
                      /\ state'[j] # "gone" => state[j] # "gone" /\ ready'[j] = ready[j]
                      /\ state'[j] # "gone" => (j \in spent' <=> j \in spent)
  BY DEF Leaves
<1>2. \A t \in Sockets : Proxied(t) => state'[SidOf[t]] = state[SidOf[t]]
  BY DEF Leaves
<1>3. \A t \in Sockets : Proxied(t)' <=> Proxied(t)
  BY DEF Proxied
<1>4. \A t \in Sockets : Proxied(t) => pc'[t] = pc[t]
  BY ProxyFacts DEF Moves
<1>5. \A t \in Sockets : Owner(t)' => Owner(t)
  BY <1>3 DEF Owner, Moves
<1>6. \A t \in Sockets : /\ pc[t] \notin {"hello", "bind"} => pc'[t] \notin {"hello", "bind"}
                         /\ pc'[t] = "proxy" => pc[t] = "proxy"
                         /\ state[SidOf[t]] = "unborn" => pc'[t] = pc[t]
  BY DEF Moves
<1>7. Tokens'
  BY <1>1, <1>6 DEF IInv, Tokens
<1>8. Entries'
  <2> SUFFICES ASSUME NEW j \in Sids, NEW r \in Side PROVE BoundAt(j, r)'
    BY DEF IInv, Entries, Side
  <2>1. BoundAt(j, r)
    BY DEF IInv, Entries, Side
  <2>2. bound[j][r] \in Sockets \cup {None}
    <3>1. bound[j] \in [Side -> Sockets \cup {None}]
      BY DEF IInv, TypeOK
    <3> QED
      BY <3>1
  <2> QED
    BY <1>1, <1>6, <2>1, <2>2 DEF BoundAt
<1>9. Owners'
  BY <1>5 DEF IInv, Owners
<1>10. Proxies'
  BY <1>2, <1>3, <1>4, <1>6 DEF IInv, Proxies, ProxyAt
<1>11. Closings'
  <2> SUFFICES ASSUME NEW t \in Sockets, Proxied(t) PROVE ClosedAt(t)'
    BY <1>3 DEF Closings
  <2> QED
    BY ProxyFacts DEF IInv, Closings, ClosedAt
<1>12. Meters'
  <2>1. \A t \in Sockets : Proxied(t) => MeterAt(t, SidOf[t])'
    BY <1>2 DEF IInv, Meters, MeterAt, Accounted, Loops, At
  <2>2. \A j \in Sids : Unused(j)' <=> Unused(j)
    BY DEF Unused
  <2> QED
    BY <1>3, <2>1, <2>2 DEF IInv, Meters
<1> QED
  BY <1>7, <1>8, <1>9, <1>10, <1>11, <1>12 DEF IInv

LEMMA CreateInv ==
    ASSUME IInv, TypeOK', NEW i \in Sids, CreatePendingSession(i)
    PROVE  IInv'
<1> USE SocketFacts
<1>1. /\ state[i] = "unborn" /\ state' = [state EXCEPT ![i] = "live"]
      /\ UNCHANGED <<active, bound, ready, forwarded, spent, conn, pc, peer, usedBy>>
      /\ UNCHANGED <<fwd, flush, due, billed, read, delivered>>
  BY DEF CreatePendingSession, proxyVars
<1>2. state \in [Sids -> {"unborn", "live", "gone"}]
  BY DEF IInv, TypeOK
<1>3. \A j \in Sids : /\ state'[j] = "unborn" => state[j] = "unborn"
                      /\ state'[j] = "gone" <=> state[j] = "gone"
  BY <1>1, <1>2
<1>4. \A t \in Sockets : Proxied(t) => state'[SidOf[t]] = state[SidOf[t]]
  BY <1>1, <1>2, ProxyFacts
<1>5. \A t \in Sockets : (Proxied(t)' <=> Proxied(t)) /\ (Owner(t)' <=> Owner(t))
  BY <1>1 DEF Proxied, Owner
<1>6. Tokens' /\ Owners'
  BY <1>1, <1>3, <1>5 DEF IInv, Tokens, Owners
<1>7. Entries'
  BY <1>1, <1>3 DEF IInv, Entries, BoundAt
<1>8. Proxies'
  BY <1>1, <1>4, <1>5 DEF IInv, Proxies, ProxyAt
<1>9. Closings'
  BY <1>1, <1>5 DEF IInv, Closings, ClosedAt
<1>10. Meters'
  <2>1. \A t \in Sockets : Proxied(t) => MeterAt(t, SidOf[t])'
    BY <1>1, <1>4 DEF IInv, Meters, MeterAt, Accounted, Loops, At
  <2>2. \A j \in Sids : Unused(j)' <=> Unused(j)
    BY <1>1 DEF Unused
  <2> QED
    BY <1>5, <2>1, <2>2 DEF IInv, Meters
<1> QED
  BY <1>6, <1>7, <1>8, <1>9, <1>10 DEF IInv

LEMMA CleanupLeaves ==
    ASSUME IInv, NEW i \in Sids, state[i] = "live", CleanupSession(i),
           \A s \in Sockets : SidOf[s] = i => ~Proxied(s)
    PROVE  Leaves(i)
<1>1. TypeOK
  BY DEF IInv
<1>2. state'[i] = "gone"
  BY <1>1, CleanupFacts
<1>3. \A j \in Sids \ {i} :
          state'[j] = state[j] /\ ready'[j] = ready[j] /\ (j \in spent' <=> j \in spent)
  <2>1. spent' = spent \ {i}
    BY DEF CleanupSession
  <2>2. \A j \in Sids \ {i} : state'[j] = state[j] /\ ready'[j] = ready[j]
    BY <1>1 DEF CleanupSession, TypeOK
  <2> QED
    BY <2>1, <2>2
<1> QED
  BY <1>2, <1>3 DEF Leaves

LEMMA RegistryInv ==
    ASSUME IInv, TypeOK', NEW i \in Sids,
           CreatePendingSession(i) \/ Expire(i) \/ CleanupExpired(i)
    PROVE  IInv'
<1>1. CASE Expire(i)
  BY <1>1, QuietStep DEF Expire, regVars, proxyVars
<1>2. CASE CleanupExpired(i)
  <2>1. state[i] = "live" /\ ~active[i] /\ CleanupSession(i)
    BY <1>2 DEF CleanupExpired
  <2>2. Leaves(i)
    BY <2>1, CleanupLeaves, ProxyFacts
  <2> QED
    BY <1>2, <2>2, QuietStep DEF CleanupExpired, proxyVars
<1> QED
  BY <1>1, <1>2, CreateInv

\* A handler that has not finished and does not proxy moves on.
LEMMA QuietInv ==
    ASSUME IInv, TypeOK', NEW s \in Sockets,
           \/ Hello(s) \/ Disconnect(s) \/ StartWait(s) \/ WaitTimeout(s) \/ GiveUp(s)
           \/ Watch(s) \/ Released(s)
           \/ BindSocket(s) /\ ~Bindable(s)
           \/ Wake(s) /\ ~StillLive(s)
    PROVE  IInv'
<1> USE SocketFacts
<1> DEFINE Rest == UNCHANGED <<active, bound, usedBy, forwarded, peer, fwd, flush, due, billed,
                               read, delivered>>
<1>0. pc \in [Sockets -> {"hello", "bind", "pending", "wait", "timedOut",
                          "proxy", "watch", "await", "finished"}]
      /\ conn \in [Sockets -> {"open", "closed"}]
  BY DEF IInv, TypeOK
<1>1. pc[s] # "hello" => state[SidOf[s]] # "unborn"
  BY DEF IInv, Tokens
<1>2. ASSUME Finish(s), pc[s] \in {"hello", "bind", "pending", "wait", "timedOut", "watch", "await"},
             state[SidOf[s]] # "unborn"
      PROVE  Moves(s) /\ \A t \in Sockets : conn[t] = "closed" => conn'[t] = "closed"
  BY <1>0, <1>2 DEF Finish, Moves
<1>3. CASE Hello(s)
  BY <1>0, <1>2, <1>3, QuietStep DEF Hello, regVars, proxyVars, Moves
<1>4. CASE Disconnect(s)
  BY <1>0, <1>4, QuietStep DEF Disconnect, regVars, proxyVars
<1>5. CASE StartWait(s)
  BY <1>0, <1>1, <1>2, <1>5, QuietStep DEF StartWait, regVars, proxyVars, Moves
<1>6. CASE WaitTimeout(s)
  BY <1>0, <1>1, <1>6, QuietStep DEF WaitTimeout, regVars, proxyVars, Moves
<1>7. CASE GiveUp(s)
  <2>1. pc[s] = "timedOut" /\ Finish(s) /\ Rest
    BY <1>7 DEF GiveUp, proxyVars
  <2>2. \A t \in Sockets : SidOf[t] = SidOf[s] => ~Proxied(t)
    BY <2>1, ProxyFacts DEF Owner
  <2>3. UNCHANGED <<state, ready, spent>> \/ Leaves(SidOf[s])
    BY <1>7, <2>2, CleanupLeaves DEF GiveUp
  <2> QED
    BY <1>1, <1>2, <2>1, <2>3, QuietStep
<1>8. CASE Watch(s)
  BY <1>0, <1>1, <1>2, <1>8, QuietStep DEF Watch, regVars, proxyVars, Moves
<1>9. CASE Released(s)
  BY <1>1, <1>2, <1>9, QuietStep DEF Released, regVars, proxyVars
<1>10. CASE BindSocket(s) /\ ~Bindable(s)
  BY <1>1, <1>2, <1>10, QuietStep DEF BindSocket, proxyVars
<1>11. CASE Wake(s) /\ ~StillLive(s)
  BY <1>1, <1>2, <1>11, QuietStep DEF Wake, regVars
<1> QED
  BY <1>3, <1>4, <1>5, <1>6, <1>7, <1>8, <1>9, <1>10, <1>11

\* A socket that may bind finds its place in the entry empty: the browser's token
\* was not used and the agent dials once.
LEMMA BindFresh ==
    ASSUME IInv, NEW s \in Sockets, pc[s] = "bind", Bindable(s)
    PROVE  /\ bound[SidOf[s]][Role(s)] = None /\ ~active[SidOf[s]]
           /\ s \in Browsers => usedBy[SidOf[s]] = {}
           /\ ~Owner(s) /\ ~Proxied(s)
<1> USE SocketFacts
<1> DEFINE i == SidOf[s]
           x == bound[i][Role(s)]
<1>1. state[i] = "live" /\ (s \in Browsers => i \notin spent)
  BY DEF Bindable
<1>2. s \in Browsers => usedBy[i] = {}
  BY <1>1 DEF IInv, Tokens
<1>3. BoundAt(i, Role(s))
  BY DEF IInv, Entries, Side
<1>4. x \in Sockets \cup {None}
  <2>1. bound[i] \in [Side -> Sockets \cup {None}]
    BY DEF IInv, TypeOK
  <2> QED
    BY <2>1
<1>5. x = None
  <2> SUFFICES ASSUME x # None PROVE FALSE
    OBVIOUS
  <2>1. x \in Sockets /\ SidOf[x] = i /\ Role(x) = Role(s) /\ pc[x] \notin {"hello", "bind"}
    BY <1>3, <1>4 DEF BoundAt
  <2>2. CASE s \in Browsers
    BY <1>2, <1>3, <2>2 DEF BoundAt, Role
  <2>3. CASE s \notin Browsers
    <3>1. s \in Agents /\ x \in Agents
      BY <2>1, <2>3 DEF Role, Sockets
    <3> QED
      BY <2>1, <3>1, AgentDialsOnce
  <2> QED
    BY <2>2, <2>3
<1>6. ~active[i]
  BY <1>5 DEF IInv, Entries, Role
<1>7. ~Proxied(s)
  BY ProxyFacts
<1> QED
  BY <1>2, <1>5, <1>6, <1>7 DEF Owner

\* What a successful bind does, cell by cell.
Paired(s) == bound[SidOf[s]][Other(Role(s))] # None
BindEffect(s) ==
    /\ pc[s] = "bind" /\ state[SidOf[s]] = "live"
    /\ \A j \in Sids, r \in Side :
          bound'[j][r] = IF j = SidOf[s] /\ r = Role(s) THEN s ELSE bound[j][r]
    /\ ready'[SidOf[s]][Role(s)] = TRUE
    /\ \A j \in Sids, r \in Side : j # SidOf[s] \/ r # Role(s) => ready'[j][r] = ready[j][r]
    /\ active'[SidOf[s]] = Paired(s)
    /\ \A j \in Sids \ {SidOf[s]} : active'[j] = active[j]
    /\ pc'[s] = IF Paired(s) THEN "watch" ELSE "pending"
    /\ \A t \in Sockets \ {s} : pc'[t] = pc[t]
    /\ \A j \in Sids : usedBy'[j] = IF j = SidOf[s] /\ s \in Browsers THEN {s} ELSE usedBy[j]
    /\ \A j \in Sids : j \in spent' <=> j \in spent \/ (j = SidOf[s] /\ s \in Browsers)
    /\ UNCHANGED <<state, forwarded, peer, fwd, flush, due, billed, read, delivered, conn>>

LEMMA BindFacts ==
    ASSUME IInv, NEW s \in Sockets, BindSocket(s), Bindable(s)
    PROVE  BindEffect(s)
<1> USE SocketFacts
<1> DEFINE i == SidOf[s]
<1>1. /\ Bind(s) /\ pc[s] = "bind"
      /\ spent' = IF s \in Browsers THEN spent \cup {i} ELSE spent
      /\ usedBy' = [usedBy EXCEPT ![i] = IF s \in Browsers THEN @ \cup {s} ELSE @]
      /\ UNCHANGED <<state, forwarded, peer, fwd, flush, due, billed, read, delivered, conn>>
  BY DEF BindSocket, proxyVars
<1>2. state[i] = "live"
  BY DEF Bindable
<1>3. ~active[i] /\ (s \in Browsers => usedBy[i] = {})
  BY <1>1, BindFresh
<1>4. /\ bound \in [Sids -> [Side -> Sockets \cup {None}]] /\ ready \in [Sids -> [Side -> BOOLEAN]]
      /\ active \in [Sids -> BOOLEAN] /\ usedBy \in [Sids -> SUBSET Browsers]
      /\ pc \in [Sockets -> {"hello", "bind", "pending", "wait", "timedOut",
                             "proxy", "watch", "await", "finished"}]
  BY DEF IInv, TypeOK
<1>5. BoundAt(i, Other(Role(s)))
  BY DEF IInv, Entries, Side
<1>6. ready[i][Other(Role(s))] = Paired(s)
  BY <1>2, <1>5 DEF BoundAt, Paired
<1>7. bound' = [bound EXCEPT ![i][Role(s)] = s] /\ ready' = [ready EXCEPT ![i][Role(s)] = TRUE]
  BY <1>1 DEF Bind
<1>8. active' = [active EXCEPT ![i] = @ \/ Paired(s)]
      /\ pc' = [pc EXCEPT ![s] = IF Paired(s) THEN "watch" ELSE "pending"]
  BY <1>1, <1>6 DEF Bind
<1>9. \A j \in Sids, r \in Side : bound'[j][r] = IF j = i /\ r = Role(s) THEN s ELSE bound[j][r]
  BY <1>4, <1>7, NestedUpdate
<1>10. /\ ready'[i][Role(s)] = TRUE
       /\ \A j \in Sids, r \in Side : j # i \/ r # Role(s) => ready'[j][r] = ready[j][r]
  <2>1. ready'[i] = [ready[i] EXCEPT ![Role(s)] = TRUE] /\ \A j \in Sids \ {i} : ready'[j] = ready[j]
    BY <1>4, <1>7
  <2>2. ready[i] \in [Side -> BOOLEAN]
    BY <1>4
  <2> QED
    BY <2>1, <2>2
<1>11. active'[i] = Paired(s) /\ \A j \in Sids \ {i} : active'[j] = active[j]
  BY <1>3, <1>4, <1>8 DEF Paired
<1>12. /\ pc'[s] = IF Paired(s) THEN "watch" ELSE "pending"
       /\ \A t \in Sockets \ {s} : pc'[t] = pc[t]
  BY <1>4, <1>8
<1>13. \A j \in Sids : usedBy'[j] = IF j = i /\ s \in Browsers THEN {s} ELSE usedBy[j]
  BY <1>1, <1>3, <1>4
<1>14. \A j \in Sids : j \in spent' <=> j \in spent \/ (j = i /\ s \in Browsers)
  BY <1>1
<1> QED
  BY <1>1, <1>2, <1>9, <1>10, <1>11, <1>12, <1>13, <1>14 DEF BindEffect

LEMMA BindInv ==
    ASSUME IInv, TypeOK', NEW s \in Sockets, BindSocket(s), Bindable(s)
    PROVE  IInv'
<1> USE SocketFacts
<1> DEFINE i == SidOf[s]
           o == Other(Role(s))
<1>0. i \in Sids /\ Role(s) \in Side /\ o \in Side /\ o # Role(s)
  BY DEF Other, Role
<1>1. /\ pc[s] = "bind" /\ state[i] = "live"
      /\ \A j \in Sids, r \in Side : bound'[j][r] = IF j = i /\ r = Role(s) THEN s ELSE bound[j][r]
      /\ ready'[i][Role(s)] = TRUE
      /\ \A j \in Sids, r \in Side : j # i \/ r # Role(s) => ready'[j][r] = ready[j][r]
      /\ active'[i] = Paired(s) /\ \A j \in Sids \ {i} : active'[j] = active[j]
      /\ pc'[s] = IF Paired(s) THEN "watch" ELSE "pending"
      /\ \A t \in Sockets \ {s} : pc'[t] = pc[t]
      /\ \A j \in Sids : usedBy'[j] = IF j = i /\ s \in Browsers THEN {s} ELSE usedBy[j]
      /\ \A j \in Sids : j \in spent' <=> j \in spent \/ (j = i /\ s \in Browsers)
      /\ UNCHANGED <<state, forwarded, peer, fwd, flush, due, billed, read, delivered, conn>>
  BY BindFacts DEF BindEffect
<1>2. /\ bound[i][Role(s)] = None /\ ~active[i]
      /\ (s \in Browsers => usedBy[i] = {})
      /\ ~Owner(s) /\ ~Proxied(s)
  BY <1>1, BindFresh
<1>3. \A t \in Sockets : Proxied(t)' <=> Proxied(t)
  BY <1>1 DEF Proxied
<1>4. \A t \in Sockets : Owner(t)' <=> (Owner(t) \/ (t = s /\ ~Paired(s)))
  BY <1>1, <1>2, <1>3 DEF Owner
<1>5. Tokens'
  <2>1. \A t \in Sockets : state'[SidOf[t]] = "unborn" => pc'[t] = "hello"
    BY <1>1 DEF IInv, Tokens
  <2>2. \A j \in Sids : \A x, y \in usedBy'[j] : x = y
    BY <1>1 DEF IInv, Tokens
  <2>3. \A j \in Sids : state'[j] # "gone" /\ usedBy'[j] # {} => j \in spent'
    BY <1>1 DEF IInv, Tokens
  <2> QED
    BY <2>1, <2>2, <2>3 DEF Tokens
<1>6. Entries'
  <2>1. ASSUME NEW j \in Sids, NEW r \in Side, j # i \/ r # Role(s) PROVE BoundAt(j, r)'
    <3>1. BoundAt(j, r)
      BY DEF IInv, Entries, Side
    <3>2. bound'[j][r] = bound[j][r] /\ ready'[j][r] = ready[j][r]
      BY <1>1, <2>1
    <3>3. bound[j][r] \in Sockets \cup {None}
      <4>1. bound[j] \in [Side -> Sockets \cup {None}]
        BY DEF IInv, TypeOK
      <4> QED
        BY <4>1
    <3>4. bound[j][r] # None => pc'[bound[j][r]] = pc[bound[j][r]]
      BY <1>1, <2>1, <3>1, <3>3 DEF BoundAt
    <3>5. bound[j][r] # None /\ r = "browser" => bound[j][r] \in usedBy'[j]
      BY <1>1, <1>2, <2>1, <3>1 DEF BoundAt, Role
    <3> QED
      BY <1>1, <3>1, <3>2, <3>4, <3>5 DEF BoundAt
  <2>2. BoundAt(i, Role(s))'
    <3>1. bound'[i][Role(s)] = s /\ ready'[i][Role(s)] = TRUE /\ pc'[s] \notin {"hello", "bind"}
      BY <1>0, <1>1
    <3>2. Role(s) = "browser" => s \in usedBy'[i]
      BY <1>0, <1>1 DEF Role
    <3> QED
      BY <3>1, <3>2 DEF BoundAt
  <2>3. \A j \in Sids : active'[j] = (bound'[j]["browser"] # None /\ bound'[j]["agent"] # None)
    <3> SUFFICES ASSUME NEW j \in Sids
                 PROVE  active'[j] = (bound'[j]["browser"] # None /\ bound'[j]["agent"] # None)
      OBVIOUS
    <3>1. CASE j = i
      <4>1. bound'[i][Role(s)] = s /\ bound'[i][o] = bound[i][o] /\ active'[i] = Paired(s)
        BY <1>0, <1>1
      <4> QED
        BY <3>1, <4>1 DEF Role, Other, Paired
    <3>2. CASE j # i
      <4>1. /\ bound'[j]["browser"] = bound[j]["browser"] /\ bound'[j]["agent"] = bound[j]["agent"]
            /\ active'[j] = active[j]
        BY <1>1, <3>2 DEF Side
      <4> QED
        BY <4>1 DEF IInv, Entries
    <3> QED
      BY <3>1, <3>2
  <2> QED
    BY <2>1, <2>2, <2>3 DEF Entries, Side
<1>7. \A t \in Sockets : Owner(t) => bound[SidOf[t]][Role(t)] = t /\ (SidOf[t] # i \/ Role(t) # Role(s))
  BY <1>2 DEF IInv, Owners
<1>8. Owners'
  <2>1. \A t \in Sockets : Owner(t)' => bound'[SidOf[t]][Role(t)] = t
    <3> SUFFICES ASSUME NEW t \in Sockets, Owner(t)' PROVE bound'[SidOf[t]][Role(t)] = t
      OBVIOUS
    <3>1. bound'[SidOf[t]][Role(t)] = IF SidOf[t] = i /\ Role(t) = Role(s) THEN s
                                      ELSE bound[SidOf[t]][Role(t)]
      BY <1>1
    <3>2. CASE t = s
      BY <3>1, <3>2
    <3>3. CASE t # s
      BY <1>4, <1>7, <3>1, <3>3
    <3> QED
      BY <3>2, <3>3
  <2>2. \A t \in Sockets : Owner(t) /\ SidOf[t] = i => Paired(s)
    BY <1>7 DEF Role, Other, Paired
  <2>3. \A t, u \in Sockets : Owner(t)' /\ Owner(u)' /\ SidOf[t] = SidOf[u] => t = u
    BY <1>4, <2>2 DEF IInv, Owners
  <2> QED
    BY <2>1, <2>3 DEF Owners
<1>9. Proxies'
  <2> SUFFICES ASSUME NEW t \in Sockets PROVE ProxyAt(t)'
    BY DEF Proxies
  <2>1. ProxyAt(t)
    BY DEF IInv, Proxies
  <2>2. CASE t = s
    BY <1>1, <1>2, <1>3, <2>1, <2>2 DEF ProxyAt
  <2>3. CASE t # s
    <3>1. Proxied(t) => bound'[SidOf[t]][Other(Role(t))] = bound[SidOf[t]][Other(Role(t))]
      <4>1. Proxied(t) => bound[SidOf[t]][Other(Role(t))] # None
        BY <2>1 DEF ProxyAt, Proxied
      <4> QED
        BY <1>1, <1>2, <4>1
    <3> QED
      BY <1>1, <1>3, <2>1, <2>3, <3>1 DEF ProxyAt
  <2> QED
    BY <2>2, <2>3
<1>10. Closings'
  BY <1>1, <1>3 DEF IInv, Closings, ClosedAt
<1>11. Meters'
  <2>1. \A t \in Sockets : Proxied(t) => MeterAt(t, SidOf[t])'
    BY <1>1 DEF IInv, Meters, MeterAt, Accounted, Loops, At
  <2>2. \A j \in Sids : Unused(j)' <=> Unused(j)
    BY <1>1 DEF Unused
  <2> QED
    BY <1>3, <2>1, <2>2 DEF IInv, Meters
<1> QED
  BY <1>5, <1>6, <1>8, <1>9, <1>10, <1>11 DEF IInv

\* The pending side finds its peer bound and starts the proxy of an unused session.
LEMMA WakeInv ==
    ASSUME IInv, TypeOK', NEW s \in Sockets, Wake(s), StillLive(s)
    PROVE  IInv'
<1> USE SocketFacts
<1> DEFINE i == SidOf[s]
           x == bound[i][Other(Role(s))]
<1>1. /\ pc[s] = "wait" /\ ready[i][Other(Role(s))] /\ state[i] = "live"
      /\ peer' = [peer EXCEPT ![s] = x] /\ pc' = [pc EXCEPT ![s] = "proxy"]
      /\ fwd' = [fwd EXCEPT ![s] = [d \in Ends |-> "read"]]
      /\ UNCHANGED <<state, active, bound, ready, spent, forwarded, flush, due, billed, read,
                     delivered, usedBy, conn>>
  BY DEF Wake, StillLive, regVars
<1>2. /\ peer \in [Sockets -> Sockets \cup {None}]
      /\ pc \in [Sockets -> {"hello", "bind", "pending", "wait", "timedOut",
                             "proxy", "watch", "await", "finished"}]
      /\ fwd \in [Sockets -> [Ends -> Labels]]
  BY DEF IInv, TypeOK, Labels
<1>3. /\ peer'[s] = x /\ pc'[s] = "proxy"
      /\ \A t \in Sockets \ {s} : peer'[t] = peer[t] /\ pc'[t] = pc[t] /\ fwd'[t] = fwd[t]
  BY <1>1, <1>2
<1>4. \A d \in Ends : fwd'[s][d] = "read"
  BY <1>1, <1>2
<1>5. x # None
  <2>1. BoundAt(i, Other(Role(s)))
    BY DEF IInv, Entries, Side
  <2> QED
    BY <1>1, <2>1 DEF BoundAt
<1>6. ~Proxied(s) /\ Owner(s) /\ Proxied(s)' /\ Owner(s)'
  BY <1>1, <1>3, <1>5, ProxyFacts DEF Owner, Proxied
<1>7. \A t \in Sockets \ {s} : (Proxied(t)' <=> Proxied(t)) /\ (Owner(t)' <=> Owner(t))
  BY <1>3 DEF Owner, Proxied
<1>8. Unused(i)
  BY <1>6, ProxyFacts DEF IInv, Meters
<1>9. Tokens' /\ Owners'
  BY <1>1, <1>3, <1>6, <1>7 DEF IInv, Tokens, Owners
<1>10. Entries'
  BY <1>1, <1>2 DEF IInv, Entries, BoundAt
<1>11. Proxies'
  <2> SUFFICES ASSUME NEW t \in Sockets PROVE ProxyAt(t)'
    BY DEF Proxies
  <2>1. ProxyAt(t)
    BY DEF IInv, Proxies
  <2>2. CASE t = s
    BY <1>1, <1>3, <1>6, <2>1, <2>2 DEF ProxyAt
  <2>3. CASE t # s
    BY <1>1, <1>3, <1>7, <2>1, <2>3 DEF ProxyAt
  <2> QED
    BY <2>2, <2>3
<1>12. flush[s] = "no"
  BY <1>6 DEF IInv, Proxies, ProxyAt
<1>13. Closings'
  BY <1>1, <1>3, <1>7, <1>12 DEF IInv, Closings, ClosedAt
<1>14. Meters'
  <2>1. MeterAt(s, i)'
    <3>1. /\ forwarded'[i] = 0 /\ due'[i] = 0 /\ billed'[i] = 0 /\ delivered'[i] = 0
          /\ read'[i] \in Nat
      BY <1>1, <1>8 DEF Unused, TypeOK
    <3>2. Loops(s, "write")' = 0 /\ Loops(s, "add")' = 0
      BY <1>4 DEF Loops, At
    <3> QED
      BY <3>1, <3>2 DEF MeterAt, Accounted
  <2>2. \A t \in Sockets \ {s} : Proxied(t) => MeterAt(t, SidOf[t])'
    BY <1>1, <1>3 DEF IInv, Meters, MeterAt, Accounted, Loops, At
  <2>3. \A j \in Sids : Unused(j)' <=> Unused(j)
    BY <1>1 DEF Unused
  <2> QED
    BY <1>6, <1>7, <2>1, <2>2, <2>3 DEF IInv, Meters
<1> QED
  BY <1>9, <1>10, <1>11, <1>13, <1>14 DEF IInv

LEMMA LoopsProxied ==
    ASSUME IInv, NEW s \in Sockets, flush[s] # "no" \/ \E d \in Ends : fwd[s][d] # "none"
    PROVE  Proxied(s)
BY DEF IInv, Proxies, ProxyAt

\* A step of the proxy of s touches the counters and the entry of its session
\* only; what is left to show is about s itself.
LEMMA ProxyStep ==
    ASSUME IInv, TypeOK', NEW s \in Sockets, Proxied(s),
           UNCHANGED <<active, bound, peer, usedBy>>,
           UNCHANGED <<state, ready, spent>> \/ CleanupSession(SidOf[s]),
           pc'[s] \in {pc[s], "finished"}, \A t \in Sockets \ {s} : pc'[t] = pc[t],
           \A t \in Sockets \ {s} : flush'[t] = flush[t] /\ \A d \in Ends : fwd'[t][d] = fwd[t][d],
           \A j \in Sids \ {SidOf[s]} :
               /\ forwarded'[j] = forwarded[j] /\ due'[j] = due[j] /\ billed'[j] = billed[j]
               /\ delivered'[j] = delivered[j] /\ read'[j] = read[j],
           \A t \in Sockets : conn[t] = "closed" => conn'[t] = "closed",
           state'[SidOf[s]] = "live" <=> flush'[s] \in {"no", "left", "right", "session"},
           ClosedAt(s)', MeterAt(s, SidOf[s])'
    PROVE  IInv'
<1> USE SocketFacts
<1>1. /\ pc[s] \in {"proxy", "finished"} /\ state[SidOf[s]] # "unborn"
      /\ \A t \in Sockets : Owner(t) /\ SidOf[t] = SidOf[s] => t = s
  BY ProxyFacts
<1>2. TypeOK
  BY DEF IInv
<1>3. \A j \in Sids \ {SidOf[s]} : state'[j] = state[j] /\ ready'[j] = ready[j] /\ (j \in spent' <=> j \in spent)
  <2>1. CASE UNCHANGED <<state, ready, spent>>
    BY <2>1
  <2>2. CASE CleanupSession(SidOf[s])
    BY <1>2, <2>2 DEF CleanupSession, TypeOK
  <2> QED
    BY <2>1, <2>2
<1>4. \A j \in Sids : /\ state'[j] = "unborn" <=> state[j] = "unborn"
                      /\ state'[j] # "gone" => state[j] # "gone" /\ ready'[j] = ready[j]
                      /\ state'[j] # "gone" => (j \in spent' <=> j \in spent)
  <2>1. \/ state'[SidOf[s]] = state[SidOf[s]] /\ ready'[SidOf[s]] = ready[SidOf[s]]
           /\ (SidOf[s] \in spent' <=> SidOf[s] \in spent)
        \/ state'[SidOf[s]] = "gone"
    BY <1>2, CleanupFacts
  <2> QED
    BY <1>1, <1>3, <2>1
<1>5. \A t \in Sockets : (Proxied(t)' <=> Proxied(t)) /\ (Owner(t)' <=> Owner(t))
  BY <1>1 DEF Proxied, Owner
<1>6. \A t \in Sockets : Proxied(t) /\ t # s => SidOf[t] \in Sids \ {SidOf[s]}
  BY <1>1 DEF Owner
<1>7. Tokens'
  BY <1>1, <1>4 DEF IInv, Tokens
<1>8. Entries'
  <2> SUFFICES ASSUME NEW j \in Sids, NEW r \in Side PROVE BoundAt(j, r)'
    BY DEF IInv, Entries, Side
  <2>1. BoundAt(j, r)
    BY DEF IInv, Entries, Side
  <2>2. bound[j][r] \in Sockets \cup {None}
    <3>1. bound[j] \in [Side -> Sockets \cup {None}]
      BY <1>2 DEF TypeOK
    <3> QED
      BY <3>1
  <2>3. bound[j][r] \in Sockets /\ pc[bound[j][r]] \notin {"hello", "bind"}
            => pc'[bound[j][r]] \notin {"hello", "bind"}
    OBVIOUS
  <2> QED
    BY <1>4, <2>1, <2>2, <2>3 DEF BoundAt
<1>9. Owners'
  BY <1>5 DEF IInv, Owners
<1>10. Proxies'
  <2> SUFFICES ASSUME NEW t \in Sockets PROVE ProxyAt(t)'
    BY DEF Proxies
  <2>1. ProxyAt(t)
    BY DEF IInv, Proxies
  <2>2. CASE t = s
    BY <1>1, <1>5, <2>1, <2>2 DEF ProxyAt
  <2>3. CASE t # s
    BY <1>3, <1>5, <1>6, <2>1, <2>3 DEF ProxyAt
  <2> QED
    BY <2>2, <2>3
<1>11. Closings'
  <2> SUFFICES ASSUME NEW t \in Sockets, Proxied(t), t # s PROVE ClosedAt(t)'
    BY <1>5 DEF Closings
  <2> QED
    BY ProxyFacts DEF IInv, Closings, ClosedAt
<1>12. Meters'
  <2>1. ASSUME NEW t \in Sockets, Proxied(t), t # s PROVE MeterAt(t, SidOf[t])'
    <3>1. MeterAt(t, SidOf[t])
      BY <2>1 DEF IInv, Meters
    <3> QED
      BY <1>3, <1>6, <2>1, <3>1 DEF MeterAt, Accounted, Loops, At
  <2>2. \A j \in Sids \ {SidOf[s]} : Unused(j)' <=> Unused(j)
    BY DEF Unused
  <2> QED
    BY <1>5, <2>1, <2>2 DEF IInv, Meters
<1> QED
  BY <1>7, <1>8, <1>9, <1>10, <1>11, <1>12 DEF IInv

\* The numbers of the session of a proxy, for the arithmetic below.
LEMMA MeterFacts ==
    ASSUME IInv, NEW s \in Sockets, Proxied(s)
    PROVE  LET i == SidOf[s]
           IN  /\ forwarded[i] \in Nat /\ due[i] \in Nat /\ billed[i] \in Nat
               /\ delivered[i] \in Nat /\ read[i] \in Nat
               /\ MeterAt(s, i) /\ ClosedAt(s)
               /\ state[i] = "live" <=> flush[s] \in {"no", "left", "right", "session"}
BY SocketFacts DEF IInv, TypeOK, Meters, Closings, Proxies, ProxyAt

LEMMA FlushFacts ==
    ASSUME TypeOK, NEW s \in Sockets, FlushStep(s)
    PROVE  /\ flush[s] = "left" => flush'[s] = "right"
           /\ flush[s] = "right" => flush'[s] = "session"
           /\ flush[s] = "session" => flush'[s] = "bill"
           /\ flush[s] = "bill" => flush'[s] = "done"
           /\ flush[s] # "no"
           /\ \A t \in Sockets \ {s} : flush'[t] = flush[t]
BY DEF FlushStep, FlushOrder, TypeOK

LEMMA FlushInv ==
    ASSUME IInv, TypeOK', NEW s \in Sockets, FlushSteps(s)
    PROVE  IInv'
<1> USE SocketFacts
<1> DEFINE i == SidOf[s]
<1>0. TypeOK /\ FlushStep(s)
  BY DEF IInv, FlushSteps, CloseEnd, CloseSession, Bill
<1>1. Proxied(s) /\ flush[s] # "no"
  BY <1>0, FlushFacts, LoopsProxied
<1>2. /\ forwarded[i] \in Nat /\ due[i] \in Nat /\ billed[i] \in Nat
      /\ delivered[i] \in Nat /\ read[i] \in Nat
      /\ MeterAt(s, i) /\ ClosedAt(s)
      /\ state[i] = "live" <=> flush[s] \in {"no", "left", "right", "session"}
  BY <1>1, MeterFacts
<1>3. /\ flush[s] = "left" => flush'[s] = "right"
      /\ flush[s] = "right" => flush'[s] = "session"
      /\ flush[s] = "session" => flush'[s] = "bill"
      /\ flush[s] = "bill" => flush'[s] = "done"
      /\ \A t \in Sockets \ {s} : flush'[t] = flush[t]
  BY <1>0, FlushFacts
<1>4. peer[s] \in Sockets
  BY <1>1, ProxyFacts
<1>5. CASE CloseEnd(s)
  <2>1. /\ flush[s] \in {"left", "right"}
        /\ conn' = [conn EXCEPT ![IF flush[s] = "left" THEN s ELSE peer[s]] = "closed"]
        /\ UNCHANGED <<state, active, bound, ready, spent, forwarded, pc, peer, fwd, due, billed,
                       read, delivered, usedBy>>
    BY <1>5 DEF CloseEnd, regVars, Ends
  <2>2. conn'[IF flush[s] = "left" THEN s ELSE peer[s]] = "closed"
        /\ \A t \in Sockets : conn[t] = "closed" => conn'[t] = "closed"
    BY <1>0, <1>4, <2>1 DEF TypeOK
  <2>3. ClosedAt(s)'
    BY <1>2, <1>3, <1>4, <2>1, <2>2 DEF ClosedAt
  <2>4. MeterAt(s, i)'
    BY <1>2, <1>3, <2>1 DEF MeterAt, Accounted, Loops, At
  <2> QED
    BY <1>1, <1>2, <1>3, <2>1, <2>2, <2>3, <2>4, ProxyStep
<1>6. CASE CloseSession(s)
  <2>1. flush[s] = "session" /\ state[i] = "live"
    BY <1>2, <1>6 DEF CloseSession
  <2>2. /\ due' = [due EXCEPT ![i] = forwarded[i]]
        /\ forwarded' = [forwarded EXCEPT ![i] = 0]
        /\ CleanupSession(i)
        /\ UNCHANGED <<active, bound, conn, pc, peer, fwd, billed, read, delivered, usedBy>>
    BY <1>6, <2>1 DEF CloseSession
  <2>3. /\ due'[i] = forwarded[i] /\ forwarded'[i] = 0 /\ state'[i] = "gone"
        /\ \A j \in Sids \ {i} : due'[j] = due[j] /\ forwarded'[j] = forwarded[j]
    BY <1>0, <2>2 DEF TypeOK, CleanupSession
  <2>4. ClosedAt(s)'
    BY <1>2, <1>3, <2>1, <2>2 DEF ClosedAt
  <2>5. MeterAt(s, i)'
    BY <1>2, <1>3, <2>1, <2>2, <2>3 DEF MeterAt, Accounted, Loops, At
  <2> QED
    BY <1>1, <1>3, <2>1, <2>2, <2>3, <2>4, <2>5, ProxyStep
<1>7. CASE Bill(s)
  <2>1. /\ flush[s] = "bill"
        /\ due' = [due EXCEPT ![i] = 0]
        /\ billed' = [billed EXCEPT ![i] = @ + due[i]]
        /\ UNCHANGED <<state, active, bound, ready, spent, forwarded, conn, pc, peer, fwd, read,
                       delivered, usedBy>>
    BY <1>7 DEF Bill, regVars
  <2>2. /\ due'[i] = 0 /\ billed'[i] = billed[i] + due[i]
        /\ \A j \in Sids \ {i} : due'[j] = due[j] /\ billed'[j] = billed[j]
    BY <1>0, <2>1 DEF TypeOK
  <2>3. ClosedAt(s)'
    BY <1>2, <1>3, <2>1 DEF ClosedAt
  <2>4. MeterAt(s, i)'
    BY <1>2, <1>3, <2>1, <2>2 DEF MeterAt, Accounted, Loops, At
  <2> QED
    BY <1>1, <1>2, <1>3, <2>1, <2>2, <2>3, <2>4, ProxyStep
<1> QED
  BY <1>5, <1>6, <1>7 DEF FlushSteps

\* How a loop's step from one label to another changes what is counted.
LEMMA LoopCounts ==
    ASSUME TypeOK, NEW s \in Sockets, NEW d \in Ends, NEW k \in Labels, NEW l \in Labels,
           fwd[s][d] = k, fwd' = [fwd EXCEPT ![s][d] = l]
    PROVE  /\ Loops(s, "add") \in Nat /\ Loops(s, "write") \in Nat
           /\ k # "add" /\ l = "add" => Loops(s, "add")' = Loops(s, "add") + 1
           /\ k = "add" /\ l # "add" => Loops(s, "add")' = Loops(s, "add") - 1
           /\ k # "add" /\ l # "add" => Loops(s, "add")' = Loops(s, "add")
           /\ k # "write" /\ l = "write" => Loops(s, "write")' = Loops(s, "write") + 1
           /\ k = "write" /\ l # "write" => Loops(s, "write")' = Loops(s, "write") - 1
           /\ k # "write" /\ l # "write" => Loops(s, "write")' = Loops(s, "write")
           /\ \A t \in Sockets \ {s} : \A e \in Ends : fwd'[t][e] = fwd[t][e]
<1>1. fwd'[s][d] = l /\ \A u \in Sockets, v \in Ends : ~(u = s /\ v = d) => fwd'[u][v] = fwd[u][v]
  <2>1. fwd'[s][d] = l
    BY LoopFacts
  <2>2. \A u \in Sockets, v \in Ends : ~(u = s /\ v = d) => fwd'[u][v] = fwd[u][v]
    BY LoopFacts
  <2> QED
    BY <2>1, <2>2
<1>2. CASE d = "left"
  <2>1. fwd'[s]["left"] = l /\ fwd'[s]["right"] = fwd[s]["right"] /\ fwd[s]["left"] = k
    BY <1>1, <1>2 DEF Ends
  <2> QED
    BY <1>1, <2>1 DEF Loops, At
<1>3. CASE d = "right"
  <2>1. fwd'[s]["right"] = l /\ fwd'[s]["left"] = fwd[s]["left"] /\ fwd[s]["right"] = k
    BY <1>1, <1>3 DEF Ends
  <2> QED
    BY <1>1, <2>1 DEF Loops, At
<1> QED
  BY <1>2, <1>3 DEF Ends

LEMMA LoopInv ==
    ASSUME IInv, TypeOK', NEW s \in Sockets, NEW d \in Ends, ReadFrame(s, d) \/ LoopStep(s, d)
    PROVE  IInv'
<1> USE SocketFacts
<1> DEFINE i == SidOf[s]
<1>0. TypeOK
  BY DEF IInv
<1>1. Proxied(s)
  <2>1. fwd[s][d] # "none"
    BY DEF ReadFrame, LoopStep, ReadError, AddBytes, WriteFrame, EnterClose, LeaveClose, Loop
  <2> QED
    BY <2>1, LoopsProxied
<1>2. /\ forwarded[i] \in Nat /\ due[i] \in Nat /\ billed[i] \in Nat
      /\ delivered[i] \in Nat /\ read[i] \in Nat
      /\ MeterAt(s, i) /\ ClosedAt(s)
      /\ state[i] = "live" <=> flush[s] \in {"no", "left", "right", "session"}
  BY <1>1, MeterFacts
<1>3. ASSUME UNCHANGED <<flush, conn, peer>> PROVE ClosedAt(s)'
  BY <1>2, <1>3 DEF ClosedAt
<1>4. CASE ReadFrame(s, d)
  <2>1. /\ fwd[s][d] = "read" /\ fwd' = [fwd EXCEPT ![s][d] = "add"]
        /\ read' = [read EXCEPT ![i] = @ + 1]
        /\ UNCHANGED <<state, active, bound, ready, spent, forwarded, conn, pc, peer, flush, due,
                       billed, delivered, usedBy>>
    BY <1>4 DEF ReadFrame, Loop, regVars
  <2>2. /\ Loops(s, "add")' = Loops(s, "add") + 1 /\ Loops(s, "write")' = Loops(s, "write")
        /\ Loops(s, "add") \in Nat /\ Loops(s, "write") \in Nat
        /\ \A t \in Sockets \ {s} : \A e \in Ends : fwd'[t][e] = fwd[t][e]
    BY <1>0, <2>1, LoopCounts DEF Labels
  <2>3. read'[i] = read[i] + 1 /\ \A j \in Sids \ {i} : read'[j] = read[j]
    BY <1>0, <2>1 DEF TypeOK
  <2>4. MeterAt(s, i)'
    BY <1>2, <2>1, <2>2, <2>3 DEF MeterAt, Accounted
  <2> QED
    BY <1>1, <1>2, <1>3, <2>1, <2>2, <2>3, <2>4, ProxyStep
<1>5. CASE ReadError(s, d)
  <2>1. /\ fwd[s][d] = "read" /\ fwd' = [fwd EXCEPT ![s][d] = "close"]
        /\ UNCHANGED <<state, active, bound, ready, spent, forwarded, conn, pc, peer, flush, due,
                       billed, read, delivered, usedBy>>
    BY <1>5 DEF ReadError, Loop, regVars
  <2>2. /\ Loops(s, "add")' = Loops(s, "add") /\ Loops(s, "write")' = Loops(s, "write")
        /\ \A t \in Sockets \ {s} : \A e \in Ends : fwd'[t][e] = fwd[t][e]
    BY <1>0, <2>1, LoopCounts DEF Labels
  <2>3. MeterAt(s, i)'
    BY <1>2, <2>1, <2>2 DEF MeterAt, Accounted
  <2> QED
    BY <1>1, <1>2, <1>3, <2>1, <2>2, <2>3, ProxyStep
<1>6. CASE AddBytes(s, d)
  <2>1. /\ fwd[s][d] = "add" /\ fwd' = [fwd EXCEPT ![s][d] = "write"]
        /\ forwarded' = [forwarded EXCEPT ![i] = IF state[i] = "live" THEN @ + 1 ELSE @]
        /\ UNCHANGED <<state, active, bound, ready, spent, conn, pc, peer, flush, due,
                       billed, read, delivered, usedBy>>
    BY <1>6 DEF AddBytes, Loop, regVars, Counted
  <2>2. /\ Loops(s, "add")' = Loops(s, "add") - 1 /\ Loops(s, "write")' = Loops(s, "write") + 1
        /\ Loops(s, "add") \in Nat /\ Loops(s, "write") \in Nat
        /\ \A t \in Sockets \ {s} : \A e \in Ends : fwd'[t][e] = fwd[t][e]
    BY <1>0, <2>1, LoopCounts DEF Labels
  <2>3. /\ forwarded'[i] = IF state[i] = "live" THEN forwarded[i] + 1 ELSE forwarded[i]
        /\ \A j \in Sids \ {i} : forwarded'[j] = forwarded[j]
    BY <1>0, <2>1 DEF TypeOK
  <2>4. MeterAt(s, i)'
    BY <1>2, <2>1, <2>2, <2>3 DEF MeterAt, Accounted
  <2> QED
    BY <1>1, <1>2, <1>3, <2>1, <2>2, <2>3, <2>4, ProxyStep
<1>7. CASE WriteFrame(s, d)
  <2>1. /\ fwd[s][d] = "write"
        /\ UNCHANGED <<state, active, bound, ready, spent, forwarded, conn, pc, peer, flush, due,
                       billed, read, usedBy>>
        /\ \/ /\ fwd' = [fwd EXCEPT ![s][d] = "read"]
              /\ delivered' = [delivered EXCEPT ![i] = @ + 1]
           \/ /\ fwd' = [fwd EXCEPT ![s][d] = "close"]
              /\ delivered' = delivered
    BY <1>7 DEF WriteFrame, Loop, regVars
  <2>2. /\ Loops(s, "add")' = Loops(s, "add") /\ Loops(s, "write")' = Loops(s, "write") - 1
        /\ Loops(s, "add") \in Nat /\ Loops(s, "write") \in Nat
        /\ \A t \in Sockets \ {s} : \A e \in Ends : fwd'[t][e] = fwd[t][e]
    <3>1. CASE fwd' = [fwd EXCEPT ![s][d] = "read"]
      BY <1>0, <2>1, <3>1, LoopCounts DEF Labels
    <3>2. CASE fwd' = [fwd EXCEPT ![s][d] = "close"]
      BY <1>0, <2>1, <3>2, LoopCounts DEF Labels
    <3> QED
      BY <2>1, <3>1, <3>2
  <2>3. /\ delivered'[i] \in {delivered[i], delivered[i] + 1}
        /\ \A j \in Sids \ {i} : delivered'[j] = delivered[j]
    BY <1>0, <2>1 DEF TypeOK
  <2>4. MeterAt(s, i)'
    BY <1>2, <2>1, <2>2, <2>3 DEF MeterAt, Accounted
  <2> QED
    BY <1>1, <1>2, <1>3, <2>1, <2>2, <2>3, <2>4, ProxyStep
<1>8. CASE EnterClose(s, d)
  <2>1. /\ fwd[s][d] = "close"
        /\ fwd' = [fwd EXCEPT ![s][d] = IF flush[s] = "no" THEN "closing" ELSE "closeWait"]
        /\ flush' = [flush EXCEPT ![s] = IF @ = "no" THEN "left" ELSE @]
        /\ UNCHANGED <<state, active, bound, ready, spent, forwarded, conn, pc, peer, due,
                       billed, read, delivered, usedBy>>
    BY <1>8 DEF EnterClose, Loop, regVars
  <2>2. /\ Loops(s, "add")' = Loops(s, "add") /\ Loops(s, "write")' = Loops(s, "write")
        /\ \A t \in Sockets \ {s} : \A e \in Ends : fwd'[t][e] = fwd[t][e]
    BY <1>0, <2>1, LoopCounts DEF Labels
  <2>3. /\ flush'[s] = IF flush[s] = "no" THEN "left" ELSE flush[s]
        /\ \A t \in Sockets \ {s} : flush'[t] = flush[t]
    BY <1>0, <2>1 DEF TypeOK
  <2>4. MeterAt(s, i)' /\ ClosedAt(s)'
    BY <1>2, <2>1, <2>2, <2>3 DEF MeterAt, Accounted, ClosedAt
  <2> QED
    BY <1>1, <1>2, <2>1, <2>2, <2>3, <2>4, ProxyStep
<1>9. CASE LeaveClose(s, d)
  <2>1. /\ fwd[s][d] \in {"closing", "closeWait"} /\ fwd' = [fwd EXCEPT ![s][d] = "ended"]
        /\ Finish(s) \/ UNCHANGED <<pc, conn>>
        /\ UNCHANGED <<state, active, bound, ready, spent, forwarded, peer, flush, due,
                       billed, read, delivered, usedBy>>
    BY <1>9 DEF LeaveClose, regVars
  <2>2. /\ Loops(s, "add")' = Loops(s, "add") /\ Loops(s, "write")' = Loops(s, "write")
        /\ \A t \in Sockets \ {s} : \A e \in Ends : fwd'[t][e] = fwd[t][e]
    BY <1>0, <2>1, LoopCounts DEF Labels
  <2>3. /\ pc'[s] \in {pc[s], "finished"} /\ \A t \in Sockets \ {s} : pc'[t] = pc[t]
        /\ \A t \in Sockets : conn[t] = "closed" => conn'[t] = "closed"
    BY <1>0, <2>1 DEF TypeOK, Finish
  <2>4. MeterAt(s, i)'
    BY <1>2, <2>1, <2>2 DEF MeterAt, Accounted
  <2>5. ClosedAt(s)'
    BY <1>1, <1>2, <2>1, <2>3, ProxyFacts DEF ClosedAt
  <2> QED
    BY <1>1, <1>2, <2>1, <2>2, <2>3, <2>4, <2>5, ProxyStep
<1> QED
  BY <1>4, <1>5, <1>6, <1>7, <1>8, <1>9 DEF LoopStep

LEMMA NextInv == IInv /\ [Next]_vars => IInv'
<1> SUFFICES ASSUME IInv, [Next]_vars PROVE IInv'
  OBVIOUS
<1>1. TypeOK'
  BY NextType DEF IInv
<1>2. CASE UNCHANGED vars
  BY <1>1, <1>2, QuietStep DEF vars
<1>3. ASSUME NEW s \in Sockets, HandlerStep(s) PROVE IInv'
  BY <1>1, <1>3, QuietInv, BindInv, WakeInv DEF HandlerStep
<1> QED
  BY <1>1, <1>2, <1>3, RegistryInv, QuietInv, FlushInv, LoopInv DEF Next

\* The invariant the results below rest on.
THEOREM Invariant == Spec => []IInv
BY InitInv, NextInv, PTL DEF Spec

-----------------------------------------------------------------------------
(* The results *)

\* A session pairs once, whichever of binding, timing out and cleaning up comes
\* first: its token binds one browser, one handler forwards, to the bound peer.
THEOREM PairsOnce == Spec => []PairedOnce
<1>1. IInv => PairedOnce
  <2> SUFFICES ASSUME IInv PROVE PairedOnce
    OBVIOUS
  <2>1. TokenUsedOnce
    <3> SUFFICES ASSUME NEW i \in Sids PROVE Cardinality(usedBy[i]) <= 1
      BY DEF TokenUsedOnce
    <3>1. CASE usedBy[i] = {}
      BY <3>1, FS_EmptySet
    <3>2. CASE usedBy[i] # {}
      <4>1. PICK x : x \in usedBy[i]
        BY <3>2
      <4>2. usedBy[i] = {x}
        BY <4>1 DEF IInv, Tokens
      <4>3. Cardinality({x}) = 1
        BY FS_Singleton
      <4> QED
        BY <4>2, <4>3
    <3> QED
      BY <3>1, <3>2
  <2>2. \A s \in Sockets : pc[s] = "proxy" => Proxied(s)
    BY DEF IInv, Proxies, ProxyAt
  <2>3. ProxyHasPeer
    BY <2>2, ProxyFacts DEF ProxyHasPeer, Role, Other
  <2>4. OneProxy
    BY <2>2, ProxyFacts DEF OneProxy, Owner
  <2> QED
    BY <2>1, <2>3, <2>4 DEF PairedOnce
<1> QED
  BY <1>1, Invariant, PTL

\* No frame is billed twice, whichever loops and handlers end the session.
THEOREM BilledAtMostOnce == Spec => []BilledOnce
<1>1. IInv => BilledOnce
  <2> SUFFICES ASSUME IInv, NEW i \in Sids PROVE Accounted(i) <= read[i]
    BY DEF BilledOnce
  <2>1. CASE Unused(i)
    BY <2>1 DEF IInv, TypeOK, Unused, Accounted
  <2>2. ASSUME NEW s \in Sockets, SidOf[s] = i, Proxied(s) PROVE Accounted(i) <= read[i]
    <3>1. /\ forwarded[i] \in Nat /\ due[i] \in Nat /\ billed[i] \in Nat /\ read[i] \in Nat
          /\ MeterAt(s, i)
      BY <2>2, MeterFacts
    <3>2. Loops(s, "add") \in Nat
      BY DEF Loops, At
    <3> QED
      BY <3>1, <3>2 DEF MeterAt, Accounted
  <2> QED
    BY <2>1, <2>2 DEF IInv, Meters
<1> QED
  BY <1>1, Invariant, PTL

-----------------------------------------------------------------------------
(* The refinement *)

Metered == [i \in Sids |-> Accounted(i)]

LEMMA PhaseOf ==
    ASSUME NEW i \in Sids
    PROVE  /\ state[i] = "unborn" => Phase[i] = "none"
           /\ state[i] = "gone" => Phase[i] = "ended"
           /\ state[i] = "live" /\ active[i] => Phase[i] = "paired"
           /\ state[i] = "live" /\ ~active[i] => Phase[i] = "offered"
BY DEF Phase, PhaseAt

LEMMA PhaseOfNext ==
    ASSUME NEW i \in Sids
    PROVE  /\ state'[i] = "unborn" => Phase'[i] = "none"
           /\ state'[i] = "gone" => Phase'[i] = "ended"
           /\ state'[i] = "live" /\ active'[i] => Phase'[i] = "paired"
           /\ state'[i] = "live" /\ ~active'[i] => Phase'[i] = "offered"
BY DEF Phase, PhaseAt

LEMMA PhaseKept ==
    ASSUME IInv, NEW j \in Sids, state'[j] = state[j], active'[j] = active[j]
    PROVE  Phase'[j] = Phase[j]
<1>1. state[j] \in {"unborn", "live", "gone"} /\ active[j] \in BOOLEAN
  BY DEF IInv, TypeOK
<1> QED
  BY <1>1, PhaseOf, PhaseOfNext

LEMMA PhaseIsFunction ==
    Phase = [j \in Sids |-> Phase[j]] /\ Phase' = [j \in Sids |-> Phase'[j]]
BY DEF Phase

\* Only the phase of session i may have changed, or only its meter.
LEMMA PhaseFrame ==
    ASSUME IInv, NEW i \in Sids, \A j \in Sids \ {i} : state'[j] = state[j] /\ active'[j] = active[j]
    PROVE  Phase' = [Phase EXCEPT ![i] = Phase'[i]]
<1>1. \A j \in Sids \ {i} : Phase'[j] = Phase[j]
  BY PhaseKept
<1> QED
  BY <1>1, PhaseIsFunction

LEMMA MeterFrame ==
    ASSUME NEW i \in Sids, \A j \in Sids \ {i} : Accounted(j)' = Accounted(j)
    PROVE  Metered' = [Metered EXCEPT ![i] = Accounted(i)']
BY DEF Metered

LEMMA MeterSame ==
    ASSUME \A j \in Sids : Accounted(j)' = Accounted(j)
    PROVE  Metered' = Metered
BY DEF Metered

LEMMA PhaseSame ==
    ASSUME IInv, \A j \in Sids : state'[j] = state[j] /\ active'[j] = active[j]
    PROVE  Phase' = Phase
BY PhaseKept, PhaseIsFunction

\* The step as the tunnel sees it: a move of one session's phase.
LEMMA TunnelMove ==
    ASSUME IInv, NEW i \in Sids,
           \A j \in Sids \ {i} : state'[j] = state[j] /\ active'[j] = active[j],
           \A j \in Sids : Accounted(j)' = Accounted(j), UNCHANGED <<delivered, billed>>,
           <<Phase[i], Phase'[i]>> \in {<<"none", "offered">>, <<"offered", "paired">>,
                                        <<"offered", "ended">>, <<"paired", "ended">>}
    PROVE  Tunnel!Next
<1>1. Phase' = [Phase EXCEPT ![i] = Phase'[i]] /\ Metered' = Metered
  BY PhaseFrame, MeterSame
<1> QED
  BY <1>1 DEF Tunnel!Next, Tunnel!Offer, Tunnel!Pair, Tunnel!End, Tunnel!Move, Metered

\* Nothing the tunnel keeps has changed.
LEMMA TunnelStutter ==
    ASSUME IInv, \A j \in Sids : state'[j] = state[j] /\ active'[j] = active[j],
           \A j \in Sids : Accounted(j)' = Accounted(j), UNCHANGED <<delivered, billed>>
    PROVE  UNCHANGED Tunnel!tunnelVars
BY PhaseSame, MeterSame DEF Tunnel!tunnelVars, Metered

LEMMA TunnelInit == Init => Tunnel!Init
BY DEF Init, Tunnel!Init, Phase, PhaseAt, Accounted

LEMMA RegistryTunnel ==
    ASSUME IInv, NEW i \in Sids, CreatePendingSession(i) \/ Expire(i) \/ CleanupExpired(i)
    PROVE  Tunnel!Next \/ UNCHANGED Tunnel!tunnelVars
<1>0. TypeOK
  BY DEF IInv
<1>1. CASE CreatePendingSession(i)
  <2>1. /\ state[i] = "unborn" /\ state'[i] = "live" /\ \A j \in Sids \ {i} : state'[j] = state[j]
        /\ UNCHANGED <<active, forwarded, due, billed, delivered>>
    BY <1>0, <1>1 DEF CreatePendingSession, proxyVars, TypeOK
  <2>2. ~active[i]
    <3>1. bound[i]["browser"] = None
      <4>1. bound[i]["browser"] \in Sockets \cup {None}
        <5>1. bound[i] \in [Side -> Sockets \cup {None}]
          BY <1>0 DEF TypeOK
        <5> QED
          BY <5>1 DEF Side
      <4> QED
        BY <2>1, <4>1 DEF IInv, Entries, BoundAt, Tokens
    <3> QED
      BY <3>1 DEF IInv, Entries
  <2>3. Phase[i] = "none" /\ Phase'[i] = "offered"
    BY <2>1, <2>2, PhaseOf, PhaseOfNext
  <2> QED
    BY <2>1, <2>3, TunnelMove DEF Accounted
<1>2. CASE Expire(i)
  BY <1>2, TunnelStutter DEF Expire, regVars, proxyVars, Accounted
<1>3. CASE CleanupExpired(i)
  <2>1. /\ state[i] = "live" /\ ~active[i] /\ state'[i] = "gone"
        /\ \A j \in Sids \ {i} : state'[j] = state[j]
        /\ UNCHANGED <<active, forwarded, due, billed, delivered>>
    BY <1>0, <1>3 DEF CleanupExpired, CleanupSession, proxyVars, TypeOK
  <2>2. Phase[i] = "offered" /\ Phase'[i] = "ended"
    BY <2>1, PhaseOf, PhaseOfNext
  <2> QED
    BY <2>1, <2>2, TunnelMove DEF Accounted
<1> QED
  BY <1>1, <1>2, <1>3

LEMMA HandlerTunnel ==
    ASSUME IInv, NEW s \in Sockets, Hello(s) \/ Disconnect(s) \/ HandlerStep(s)
    PROVE  Tunnel!Next \/ UNCHANGED Tunnel!tunnelVars
<1> USE SocketFacts
<1> DEFINE i == SidOf[s]
<1>0. TypeOK
  BY DEF IInv
<1>1. CASE Hello(s) \/ Disconnect(s) \/ StartWait(s) \/ WaitTimeout(s) \/ Watch(s) \/ Released(s)
           \/ Wake(s)
  BY <1>1, TunnelStutter DEF Hello, Disconnect, StartWait, WaitTimeout, Watch, Released, Wake,
     regVars, proxyVars, Accounted
<1>2. CASE GiveUp(s)
  <2>1. /\ pc[s] = "timedOut" /\ UNCHANGED <<active, forwarded, due, billed, delivered>>
        /\ IF state[i] = "live" THEN CleanupSession(i) ELSE UNCHANGED state
    BY <1>2 DEF GiveUp, proxyVars
  <2>2. CASE state[i] = "live"
    <3>1. state'[i] = "gone" /\ \A j \in Sids \ {i} : state'[j] = state[j]
      BY <1>0, <2>1, <2>2 DEF CleanupSession, TypeOK
    <3>2. Phase[i] \in {"offered", "paired"} /\ Phase'[i] = "ended"
      BY <2>2, <3>1, PhaseOf, PhaseOfNext
    <3> QED
      BY <2>1, <3>1, <3>2, TunnelMove DEF Accounted
  <2>3. CASE state[i] # "live"
    BY <2>1, <2>3, TunnelStutter DEF Accounted
  <2> QED
    BY <2>2, <2>3
<1>3. CASE BindSocket(s) /\ ~Bindable(s)
  BY <1>3, TunnelStutter DEF BindSocket, proxyVars, Accounted
<1>4. CASE BindSocket(s) /\ Bindable(s)
  <2>1. /\ pc[s] = "bind" /\ state[i] = "live" /\ active'[i] = Paired(s)
        /\ \A j \in Sids \ {i} : active'[j] = active[j]
        /\ UNCHANGED <<state, forwarded, due, billed, delivered>>
    BY <1>4, BindFacts DEF BindEffect
  <2>2. ~active[i]
    BY <1>4, <2>1, BindFresh
  <2>3. CASE Paired(s)
    <3>1. Phase[i] = "offered" /\ Phase'[i] = "paired"
      BY <2>1, <2>2, <2>3, PhaseOf, PhaseOfNext
    <3> QED
      BY <2>1, <3>1, TunnelMove DEF Accounted
  <2>4. CASE ~Paired(s)
    <3>1. active'[i] = active[i]
      BY <1>0, <2>1, <2>2, <2>4 DEF TypeOK, Paired
    <3> QED
      BY <2>1, <3>1, TunnelStutter DEF Accounted
  <2> QED
    BY <2>3, <2>4
<1> QED
  BY <1>1, <1>2, <1>3, <1>4 DEF HandlerStep

LEMMA FlushTunnel ==
    ASSUME IInv, NEW s \in Sockets, FlushSteps(s)
    PROVE  Tunnel!Next \/ UNCHANGED Tunnel!tunnelVars
<1> USE SocketFacts
<1> DEFINE i == SidOf[s]
<1>0. TypeOK /\ Proxied(s)
  BY FlushFacts, LoopsProxied DEF IInv, FlushSteps, CloseEnd, CloseSession, Bill
<1>1. /\ forwarded[i] \in Nat /\ due[i] \in Nat /\ billed[i] \in Nat
      /\ MeterAt(s, i)
      /\ state[i] = "live" <=> flush[s] \in {"no", "left", "right", "session"}
  BY <1>0, MeterFacts
<1>2. active[i] /\ state[i] # "unborn"
  BY <1>0, ProxyFacts
<1>3. CASE CloseEnd(s)
  BY <1>3, TunnelStutter DEF CloseEnd, regVars, Accounted
<1>4. CASE CloseSession(s)
  <2>1. flush[s] = "session" /\ state[i] = "live"
    BY <1>1, <1>4 DEF CloseSession
  <2>2. /\ due' = [due EXCEPT ![i] = forwarded[i]]
        /\ forwarded' = [forwarded EXCEPT ![i] = 0]
        /\ CleanupSession(i)
        /\ UNCHANGED <<active, billed, delivered>>
    BY <1>4, <2>1 DEF CloseSession
  <2>3. /\ due'[i] = forwarded[i] /\ forwarded'[i] = 0 /\ state'[i] = "gone"
        /\ \A j \in Sids \ {i} : due'[j] = due[j] /\ forwarded'[j] = forwarded[j] /\ state'[j] = state[j]
    BY <1>0, <2>2 DEF TypeOK, CleanupSession
  <2>4. \A j \in Sids : Accounted(j)' = Accounted(j)
    <3>1. Accounted(i)' = Accounted(i)
      BY <1>1, <2>1, <2>2, <2>3 DEF Accounted, MeterAt
    <3>2. \A j \in Sids \ {i} : Accounted(j)' = Accounted(j)
      BY <2>2, <2>3 DEF Accounted
    <3> QED
      BY <3>1, <3>2
  <2>5. Phase[i] = "paired" /\ Phase'[i] = "ended"
    BY <1>2, <2>1, <2>3, PhaseOf, PhaseOfNext
  <2> QED
    BY <2>2, <2>3, <2>4, <2>5, TunnelMove
<1>5. CASE Bill(s)
  <2>1. /\ flush[s] = "bill"
        /\ due' = [due EXCEPT ![i] = 0]
        /\ billed' = [billed EXCEPT ![i] = @ + due[i]]
        /\ UNCHANGED <<state, active, forwarded, delivered>>
    BY <1>5 DEF Bill, regVars
  <2>2. /\ due'[i] = 0 /\ billed'[i] = billed[i] + due[i]
        /\ \A j \in Sids \ {i} : due'[j] = due[j] /\ billed'[j] = billed[j]
    BY <1>0, <2>1 DEF TypeOK
  <2>3. state[i] = "gone" /\ billed[i] = 0 /\ forwarded[i] = 0
    BY <1>0, <1>1, <1>2, <2>1 DEF MeterAt, TypeOK
  <2>4. \A j \in Sids : Accounted(j)' = Accounted(j)
    <3>1. Accounted(i)' = Accounted(i)
      BY <1>1, <2>1, <2>2 DEF Accounted
    <3>2. \A j \in Sids \ {i} : Accounted(j)' = Accounted(j)
      BY <2>1, <2>2 DEF Accounted
    <3> QED
      BY <3>1, <3>2
  <2>5. billed' = [billed EXCEPT ![i] = Metered[i]]
    <3>1. Metered[i] = billed[i] + due[i]
      BY <1>1, <2>3 DEF Metered, Accounted
    <3> QED
      BY <2>1, <3>1
  <2>6. Phase[i] = "ended" /\ Phase' = Phase /\ Metered' = Metered
    BY <2>1, <2>3, <2>4, PhaseOf, PhaseSame, MeterSame
  <2> QED
    BY <2>1, <2>3, <2>5, <2>6 DEF Tunnel!Next, Tunnel!Charge, Metered
<1> QED
  BY <1>3, <1>4, <1>5 DEF FlushSteps

LEMMA LoopTunnel ==
    ASSUME IInv, NEW s \in Sockets, NEW d \in Ends, ReadFrame(s, d) \/ LoopStep(s, d)
    PROVE  Tunnel!Next \/ UNCHANGED Tunnel!tunnelVars
<1> USE SocketFacts
<1> DEFINE i == SidOf[s]
<1>0. TypeOK
  BY DEF IInv
<1>1. Proxied(s)
  <2>1. fwd[s][d] # "none"
    BY DEF ReadFrame, LoopStep, ReadError, AddBytes, WriteFrame, EnterClose, LeaveClose, Loop
  <2> QED
    BY <2>1, LoopsProxied
<1>2. /\ forwarded[i] \in Nat /\ due[i] \in Nat /\ billed[i] \in Nat /\ delivered[i] \in Nat
      /\ MeterAt(s, i) /\ ClosedAt(s)
      /\ state[i] = "live" <=> flush[s] \in {"no", "left", "right", "session"}
  BY <1>1, MeterFacts
<1>3. active[i] /\ peer[s] \in Sockets
  BY <1>1, ProxyFacts
<1>4. CASE ReadFrame(s, d) \/ ReadError(s, d) \/ EnterClose(s, d) \/ LeaveClose(s, d)
  BY <1>4, TunnelStutter DEF ReadFrame, ReadError, EnterClose, LeaveClose, regVars, Accounted
<1>5. CASE AddBytes(s, d)
  <2>1. /\ forwarded' = [forwarded EXCEPT ![i] = IF state[i] = "live" THEN @ + 1 ELSE @]
        /\ UNCHANGED <<state, active, due, billed, delivered>>
    BY <1>5 DEF AddBytes, regVars, Counted
  <2>2. /\ forwarded'[i] = IF state[i] = "live" THEN forwarded[i] + 1 ELSE forwarded[i]
        /\ \A j \in Sids \ {i} : forwarded'[j] = forwarded[j]
    BY <1>0, <2>1 DEF TypeOK
  <2>3. \A j \in Sids \ {i} : Accounted(j)' = Accounted(j)
    BY <2>1, <2>2 DEF Accounted
  <2>4. CASE state[i] = "live"
    <3>1. Accounted(i)' = Metered[i] + 1
      BY <1>2, <2>1, <2>2, <2>4 DEF Accounted, Metered
    <3>2. Metered' = [Metered EXCEPT ![i] = @ + 1]
      BY <2>3, <3>1, MeterFrame
    <3>3. Phase[i] = "paired" /\ Phase' = Phase
      BY <1>3, <2>1, <2>4, PhaseOf, PhaseSame
    <3> QED
      BY <2>1, <3>2, <3>3 DEF Tunnel!Next, Tunnel!Meter, Metered
  <2>5. CASE state[i] # "live"
    <3>1. Accounted(i)' = Accounted(i)
      BY <2>1, <2>2, <2>5 DEF Accounted
    <3> QED
      BY <2>1, <2>3, <3>1, TunnelStutter
  <2> QED
    BY <2>4, <2>5
<1>6. CASE WriteFrame(s, d)
  <2>1. /\ fwd[s][d] = "write" /\ UNCHANGED <<state, active, forwarded, due, billed>>
        /\ \/ conn[Target(s, d)] = "open" /\ delivered' = [delivered EXCEPT ![i] = @ + 1]
           \/ UNCHANGED delivered
    BY <1>6 DEF WriteFrame, regVars
  <2>2. CASE UNCHANGED delivered
    BY <2>1, <2>2, TunnelStutter DEF Accounted
  <2>3. CASE conn[Target(s, d)] = "open" /\ delivered' = [delivered EXCEPT ![i] = @ + 1]
    <3>1. state[i] = "live"
      <4>1. conn[s] = "open" \/ conn[peer[s]] = "open"
        BY <2>3 DEF Target
      <4>2. flush[s] \in {"no", "left", "right", "session", "bill", "done"}
        BY <1>0 DEF TypeOK
      <4> QED
        BY <1>2, <4>1, <4>2 DEF ClosedAt
    <3>2. delivered[i] < Metered[i]
      <4>1. Loops(s, "write") \in {1, 2}
        BY <2>1 DEF Loops, At, Ends
      <4> QED
        BY <1>2, <3>1, <4>1 DEF MeterAt, Metered, Accounted
    <3>3. Phase[i] = "paired" /\ Phase' = Phase
      BY <1>3, <2>1, <3>1, PhaseOf, PhaseSame
    <3>4. Metered' = Metered
      BY <2>1, MeterSame DEF Accounted
    <3> QED
      BY <2>1, <2>3, <3>2, <3>3, <3>4 DEF Tunnel!Next, Tunnel!Deliver, Metered
  <2> QED
    BY <2>1, <2>2, <2>3
<1> QED
  BY <1>4, <1>5, <1>6 DEF LoopStep

\* The registry and its handlers implement the metered tunnel: a session pairs
\* once, a frame is counted before it is written, both only while the session is
\* in the table, and the account is charged once, with what was counted.
THEOREM ImplementsMeteredTunnel == Spec => ImplementsTunnel
<1>1. IInv /\ [Next]_vars => [Tunnel!Next]_(Tunnel!tunnelVars)
  <2> SUFFICES ASSUME IInv, [Next]_vars PROVE Tunnel!Next \/ UNCHANGED Tunnel!tunnelVars
    OBVIOUS
  <2>1. CASE UNCHANGED vars
    BY <2>1, TunnelStutter DEF vars, Accounted
  <2> QED
    BY <2>1, RegistryTunnel, HandlerTunnel, FlushTunnel, LoopTunnel DEF Next
<1> QED
  BY <1>1, TunnelInit, Invariant, PTL DEF Spec, ImplementsTunnel, Tunnel!Spec

-----------------------------------------------------------------------------
(* The account that pays for the relay: RelayQuota *)

\* Every action of the account and of ApplyRelayBytes keeps the types: no
\* statement makes the usage column negative.
THEOREM QuotaTypeCorrect == QuotaSpec => []QuotaTypeOK
<1>1. QuotaInit => QuotaTypeOK
  <2> SUFFICES ASSUME QuotaInit PROVE QuotaTypeOK
    OBVIOUS
  <2>1. archive \in Seq([period : Nat, bytes : Nat])
    BY DEF QuotaInit
  <2>2. snap \in [Sessions -> Account]
    BY DEF QuotaInit, Account
  <2>3. bytes \in [Sessions -> 0 .. MaxBytes]
    BY QuotaAssumption DEF QuotaInit
  <2>4. stage \in [Sessions -> {"idle", "open", "find", "archive", "save", "add"}]
    BY DEF QuotaInit
  <2> QED
    BY <2>1, <2>2, <2>3, <2>4 DEF QuotaInit, QuotaTypeOK
<1>2. QuotaTypeOK /\ [QuotaNext]_quotaVars => QuotaTypeOK'
  <2> SUFFICES ASSUME QuotaTypeOK, [QuotaNext]_quotaVars PROVE QuotaTypeOK'
    OBVIOUS
  <2> USE QuotaAssumption DEF QuotaTypeOK, Account, Goto
  <2>1. CASE PeriodEnds
    BY <2>1 DEF PeriodEnds
  <2>2. ASSUME NEW s \in Sessions, Open(s) PROVE QuotaTypeOK'
    BY <2>2 DEF Open
  <2>3. ASSUME NEW s \in Sessions, NEW n \in 0 .. MaxBytes, CloseRelay(s, n)
        PROVE QuotaTypeOK'
    BY <2>3 DEF CloseRelay
  <2>4. ASSUME NEW s \in Sessions, Find(s) PROVE QuotaTypeOK'
    BY <2>4 DEF Find
  <2>5. ASSUME NEW s \in Sessions, Archive(s) PROVE QuotaTypeOK'
    <3>1. [period |-> snap[s].period, bytes |-> snap[s].usage] \in [period : Nat, bytes : Nat]
      OBVIOUS
    <3>2. archive' \in Seq([period : Nat, bytes : Nat])
      BY <2>5, <3>1 DEF Archive
    <3> QED
      BY <2>5, <3>2 DEF Archive
  <2>6. ASSUME NEW s \in Sessions, Save(s) PROVE QuotaTypeOK'
    <3>1. snap[s].period \in Nat
      OBVIOUS
    <3>2. usage' \in Nat /\ period' \in Nat
      BY <2>6, <3>1 DEF Save
    <3>3. stage' \in [Sessions -> {"idle", "open", "find", "archive", "save", "add"}]
      BY <2>6 DEF Save
    <3> QED
      BY <2>6, <3>2, <3>3 DEF Save
  <2>7. ASSUME NEW s \in Sessions, Increment(s) PROVE QuotaTypeOK'
    BY <2>7 DEF Increment, Incremented
  <2>8. ASSUME NEW s \in Sessions, Fail(s) PROVE QuotaTypeOK'
    BY <2>8 DEF Fail
  <2>9. CASE UNCHANGED quotaVars
    BY <2>9 DEF quotaVars
  <2> QED
    BY <2>1, <2>2, <2>3, <2>4, <2>5, <2>6, <2>7, <2>8, <2>9 DEF QuotaNext, Statement
<1> QED
  BY <1>1, <1>2, PTL DEF QuotaSpec

------------------------------------------------------------------------------
\* The usage and what the busy sessions may still add stay below the bound.
QuotaInv == usage + Cardinality(Busy) * MaxBytes < Limit + Cardinality(Sessions) * MaxBytes

\* Sessions that are busy are finitely many, and an idle one leaves room.
LEMMA BusyFinite ==
    /\ IsFiniteSet(Busy) /\ Cardinality(Busy) \in Nat
    /\ Cardinality(Sessions) \in Nat
    /\ Cardinality(Busy) <= Cardinality(Sessions)
<1>1. Busy \subseteq Sessions
  BY DEF Busy
<1> QED
  BY <1>1, QuotaAssumption, FS_Subset, FS_CardinalityType

\* One more session becomes busy: there was room for it.
LEMMA BusyGrows ==
    ASSUME QuotaTypeOK, NEW s \in Sessions, stage[s] = "idle", NEW label,
           label # "idle", Goto(s, label)
    PROVE  /\ Cardinality(Busy') = Cardinality(Busy) + 1
           /\ Cardinality(Busy') <= Cardinality(Sessions)
<1>1. Busy' = Busy \cup {s} /\ s \notin Busy
  BY DEF QuotaTypeOK, Goto, Busy
<1>2. Cardinality(Busy') = Cardinality(Busy) + 1
  BY <1>1, BusyFinite, FS_AddElement
<1>3. Busy' \subseteq Sessions
  BY <1>1 DEF Busy
<1> QED
  BY <1>2, <1>3, QuotaAssumption, FS_Subset

\* A session ends, or goes on: Busy shrinks by it, or stays.
LEMMA BusyMoves ==
    ASSUME QuotaTypeOK, NEW s \in Sessions, stage[s] # "idle", NEW label, Goto(s, label)
    PROVE  Cardinality(Busy') = Cardinality(Busy) - (IF label = "idle" THEN 1 ELSE 0)
<1>1. CASE label = "idle"
  <2>1. Busy' = Busy \ {s} /\ s \in Busy
    BY <1>1 DEF QuotaTypeOK, Goto, Busy
  <2> QED
    BY <1>1, <2>1, BusyFinite, FS_RemoveElement
<1>2. CASE label # "idle"
  <2>1. Busy' = Busy
    BY <1>2 DEF QuotaTypeOK, Goto, Busy
  <2> QED
    BY <1>2, <2>1, BusyFinite
<1> QED
  BY <1>1, <1>2

\* The relay quota is overshot by at most what the concurrent sessions carry:
\* checkRelayQuota admits below the limit, ApplyRelayBytes charges at the end.
THEOREM QuotaIsSoft == QuotaSpec => []SoftQuota
<1> DEFINE N == Cardinality(Sessions)
           K == Cardinality(Busy)
<1>0. N \in Nat \ {0} /\ MaxBytes \in Nat \ {0} /\ Limit \in Nat
  BY QuotaAssumption, FS_CardinalityType, FS_EmptySet
<1>1. QuotaInit => QuotaInv
  <2> SUFFICES ASSUME QuotaInit PROVE QuotaInv
    OBVIOUS
  <2>1. K = 0
    <3>1. Busy = {}
      BY DEF QuotaInit, Busy
    <3> QED
      BY <3>1, FS_EmptySet
  <2>2. K * MaxBytes = 0 /\ N * MaxBytes \in Nat \ {0}
    BY <1>0, <2>1
  <2> QED
    BY <1>0, <2>2 DEF QuotaInit, QuotaInv
<1>2. QuotaTypeOK /\ QuotaInv /\ [QuotaNext]_quotaVars => QuotaInv'
  <2> SUFFICES ASSUME QuotaTypeOK, QuotaInv, [QuotaNext]_quotaVars PROVE QuotaInv'
    OBVIOUS
  <2>0. K \in Nat /\ K * MaxBytes \in Nat /\ N * MaxBytes \in Nat /\ usage \in Nat
    BY <1>0, BusyFinite DEF QuotaTypeOK
  <2>1. ASSUME NEW s \in Sessions, Open(s) PROVE QuotaInv'
    <3>1. K' = K + 1 /\ K' <= N
      BY <2>1, BusyGrows DEF Open
    <3>2. K' * MaxBytes \in Nat /\ K' * MaxBytes <= N * MaxBytes
      BY <1>0, <2>0, <3>1
    <3>3. usage' = usage /\ usage < Limit
      BY <1>0, <2>0, <2>1 DEF Open, QuotaExceeded
    <3> QED
      BY <1>0, <2>0, <3>2, <3>3 DEF QuotaInv
  <2>2. ASSUME NEW s \in Sessions, Increment(s) PROVE QuotaInv'
    <3>1. K' = K - 1
      BY <2>2, BusyMoves DEF Increment
    <3>2. K' * MaxBytes = K * MaxBytes - MaxBytes
      BY <1>0, <2>0, <3>1
    <3>3. usage' = usage + bytes[s] /\ bytes[s] \in 0 .. MaxBytes
      BY <2>2 DEF Increment, Incremented, QuotaTypeOK
    <3> QED
      BY <1>0, <2>0, <3>2, <3>3 DEF QuotaInv
  <2>3. ASSUME K' <= K, K' \in Nat, usage' <= usage, usage' \in Nat PROVE QuotaInv'
    <3>1. K' * MaxBytes <= K * MaxBytes
      BY <1>0, <2>0, <2>3
    <3> QED
      BY <1>0, <2>0, <2>3, <3>1 DEF QuotaInv
  <2>4. ASSUME NEW s \in Sessions, NEW label, stage[s] # "idle", Goto(s, label),
               usage' \in {usage, 0}
        PROVE  QuotaInv'
    <3>1. K' = K - (IF label = "idle" THEN 1 ELSE 0) /\ s \in Busy
      BY <2>4, BusyMoves DEF Busy
    <3>2. K # 0
      BY <3>1, BusyFinite, FS_EmptySet
    <3> QED
      BY <2>0, <2>3, <2>4, <3>1, <3>2
  <2>5. CASE PeriodEnds \/ UNCHANGED quotaVars
    <3>1. Busy' = Busy /\ usage' = usage
      BY <2>5 DEF PeriodEnds, quotaVars, Busy
    <3> QED
      BY <2>0, <2>3, <3>1
  <2>6. ASSUME NEW s \in Sessions, NEW n \in 0 .. MaxBytes, CloseRelay(s, n)
        PROVE  QuotaInv'
    BY <2>4, <2>6 DEF CloseRelay
  <2>7. ASSUME NEW s \in Sessions, Find(s) \/ Archive(s) \/ Save(s) \/ Fail(s)
        PROVE  QuotaInv'
    BY <2>4, <2>7 DEF Find, Archive, Save, Fail
  <2> QED
    BY <2>1, <2>2, <2>5, <2>6, <2>7 DEF QuotaNext, Statement
<1>3. QuotaInv /\ QuotaTypeOK => SoftQuota
  <2> SUFFICES ASSUME QuotaInv, QuotaTypeOK PROVE SoftQuota
    OBVIOUS
  <2>1. K * MaxBytes \in Nat /\ N * MaxBytes \in Nat
    BY <1>0, BusyFinite
  <2> QED
    BY <1>0, <2>1 DEF QuotaInv, SoftQuota, QuotaTypeOK
<1> QED
  BY <1>1, <1>2, <1>3, QuotaTypeCorrect, PTL DEF QuotaSpec

\* Until a period ends no interleaving of ApplyRelayBytes calls loses an
\* increment: the UPDATE adds to the column, not to the record that was read.
THEOREM NoIncrementLost == QuotaSpec => []IncrementsExact
<1>1. QuotaInit => IncrementsExact
  BY DEF QuotaInit, IncrementsExact
<1>2. QuotaTypeOK /\ IncrementsExact /\ [QuotaNext]_quotaVars => IncrementsExact'
  <2> SUFFICES ASSUME QuotaTypeOK, IncrementsExact, [QuotaNext]_quotaVars PROVE IncrementsExact'
    OBVIOUS
  <2> USE DEF IncrementsExact
  <2>1. ASSUME NEW s \in Sessions, Increment(s) PROVE IncrementsExact'
    BY <2>1 DEF Increment, Incremented
  <2>2. ASSUME NEW s \in Sessions, Save(s) PROVE IncrementsExact'
    <3>1. snap[s].period \in Nat
      BY DEF QuotaTypeOK, Account
    <3> QED
      BY <2>2, <3>1 DEF Save
  <2>3. CASE PeriodEnds
    BY <2>3 DEF PeriodEnds
  <2>4. CASE UNCHANGED <<usage, period, ended, applied>>
    BY <2>4
  <2>5. ASSUME NEW s \in Sessions, Open(s) \/ Find(s) \/ Archive(s) \/ Fail(s)
        PROVE  UNCHANGED <<usage, period, ended, applied>>
    BY <2>5 DEF Open, Find, Archive, Fail
  <2>6. ASSUME NEW s \in Sessions, NEW n \in 0 .. MaxBytes, CloseRelay(s, n)
        PROVE  UNCHANGED <<usage, period, ended, applied>>
    BY <2>6 DEF CloseRelay
  <2>7. CASE UNCHANGED quotaVars
    BY <2>7 DEF quotaVars
  <2> QED
    BY <2>1, <2>2, <2>3, <2>4, <2>5, <2>6, <2>7 DEF QuotaNext, Statement
<1> QED
  BY <1>1, <1>2, QuotaTypeCorrect, PTL DEF QuotaSpec

------------------------------------------------------------------------------
(* The books                                                               *)

\* Without a race one call at most rolls the period over, what it read is still
\* the usage, and after it has archived the usage counts twice until it saves.
BooksInv ==
    ~raced =>
        /\ \A s, t \in Rolling : s = t
        /\ \A s \in Rolling : snap[s].usage = usage
        /\ \A s \in Rolling : stage[s] = "save" => archived = applied
        /\ (\A s \in Sessions : stage[s] # "save") => usage + archived = applied

\* A step that touches neither the books nor the calls that roll over.
LEMMA BooksStay ==
    ASSUME BooksInv, raced' \in BOOLEAN, raced \in BOOLEAN, raced => raced',
           Rolling' = Rolling,
           \A t \in Rolling : snap'[t] = snap[t] /\ stage'[t] = stage[t],
           UNCHANGED <<usage, applied, archived>>
    PROVE  BooksInv'
<1>1. \A t \in Sessions : stage[t] = "save" <=> stage'[t] = "save"
  BY DEF Rolling
<1> QED
  BY <1>1 DEF BooksInv

\* No byte is charged to no period or to two of them as long as no call runs
\* into the rollover of another and no rollover fails halfway.
THEOREM BooksBalance == QuotaSpec => []Balanced
<1>1. QuotaInit => BooksInv
  BY DEF QuotaInit, BooksInv, Rolling
<1>2. QuotaTypeOK /\ BooksInv /\ [QuotaNext]_quotaVars => BooksInv'
  <2> SUFFICES ASSUME QuotaTypeOK, BooksInv, [QuotaNext]_quotaVars PROVE BooksInv'
    OBVIOUS
  <2>0. /\ usage \in Nat /\ archived \in Nat /\ applied \in Nat /\ raced \in BOOLEAN
        /\ stage \in [Sessions -> {"idle", "open", "find", "archive", "save", "add"}]
        /\ snap \in [Sessions -> Account]
    BY DEF QuotaTypeOK
  <2>1. CASE PeriodEnds \/ UNCHANGED quotaVars
    BY <2>0, <2>1, BooksStay DEF PeriodEnds, quotaVars, Rolling
  <2>2. ASSUME NEW s \in Sessions, Open(s) PROVE BooksInv'
    <3>1. Rolling' = Rolling /\ \A t \in Rolling : snap'[t] = snap[t] /\ stage'[t] = stage[t]
      BY <2>0, <2>2 DEF Open, Goto, Rolling
    <3> QED
      BY <2>0, <2>2, <3>1, BooksStay DEF Open
  <2>3. ASSUME NEW s \in Sessions, NEW n \in 0 .. MaxBytes, CloseRelay(s, n)
        PROVE  BooksInv'
    <3>1. Rolling' = Rolling /\ \A t \in Rolling : snap'[t] = snap[t] /\ stage'[t] = stage[t]
      BY <2>0, <2>3 DEF CloseRelay, Goto, Rolling
    <3> QED
      BY <2>0, <2>3, <3>1, BooksStay DEF CloseRelay
  <2>4. ASSUME NEW s \in Sessions, Find(s) PROVE BooksInv'
    <3>1. CASE ended /\ Rolling = {}
      <4>1. Rolling' = {s} /\ snap'[s].usage = usage
        BY <2>0, <2>4, <3>1 DEF Find, Goto, Rolling
      <4>2. \A t \in Sessions : stage[t] # "save" /\ stage'[t] # "save"
        BY <2>0, <2>4, <3>1 DEF Find, Goto, Rolling
      <4> QED
        BY <2>0, <2>4, <4>1, <4>2 DEF Find, BooksInv
    <3>2. CASE ended /\ Rolling # {}
      BY <2>4, <3>2 DEF Find, BooksInv
    <3>3. CASE ~ended
      <4>1. Rolling' = Rolling /\ \A t \in Rolling : snap'[t] = snap[t] /\ stage'[t] = stage[t]
        BY <2>0, <2>4, <3>3 DEF Find, Goto, Rolling
      <4> QED
        BY <2>0, <2>4, <3>3, <4>1, BooksStay DEF Find
    <3> QED
      BY <3>1, <3>2, <3>3
  <2>5. ASSUME NEW s \in Sessions, Archive(s) PROVE BooksInv'
    <3> SUFFICES ASSUME ~raced PROVE BooksInv'
      BY <2>5 DEF Archive, BooksInv
    <3>1. Rolling = {s} /\ Rolling' = {s} /\ stage'[s] = "save"
      BY <2>0, <2>5 DEF Archive, Goto, Rolling, BooksInv
    <3>2. \A t \in Sessions : stage[t] # "save"
      BY <2>5, <3>1 DEF Archive, Rolling
    <3>3. archived' = archived + usage /\ usage + archived = applied
      BY <2>5, <3>1, <3>2 DEF Archive, BooksInv
    <3>4. archived' = applied'
      BY <2>0, <2>5, <3>3 DEF Archive
    <3> QED
      BY <2>0, <2>5, <3>1, <3>4 DEF Archive, BooksInv
  <2>6. ASSUME NEW s \in Sessions, Save(s) PROVE BooksInv'
    <3> SUFFICES ASSUME ~raced PROVE BooksInv'
      BY <2>6 DEF Save, BooksInv
    <3>1. Rolling = {s} /\ Rolling' = {}
      BY <2>0, <2>6 DEF Save, Goto, Rolling, BooksInv
    <3>2. usage' = 0 /\ archived = applied
      BY <2>0, <2>6, <3>1 DEF Save, BooksInv
    <3>3. 0 + archived = applied
      BY <2>0, <3>2
    <3>4. usage' + archived' = applied'
      BY <2>6, <3>2, <3>3 DEF Save
    <3> QED
      BY <3>1, <3>4 DEF BooksInv
  <2>7. ASSUME NEW s \in Sessions, Increment(s) PROVE BooksInv'
    <3> SUFFICES ASSUME ~raced' PROVE BooksInv'
      BY DEF BooksInv
    <3>1. ~raced /\ Rolling = {}
      BY <2>7 DEF Increment
    <3>2. Rolling' = {} /\ \A t \in Sessions : stage[t] # "save"
      BY <2>0, <2>7, <3>1 DEF Increment, Goto, Rolling
    <3>3. usage + archived = applied
      BY <3>1, <3>2 DEF BooksInv
    <3>4. bytes[s] \in Nat
      BY QuotaAssumption DEF QuotaTypeOK
    <3>5. usage' + archived' = applied'
      BY <2>0, <2>7, <3>3, <3>4 DEF Increment, Incremented
    <3> QED
      BY <3>2, <3>5 DEF BooksInv
  <2>8. ASSUME NEW s \in Sessions, Fail(s) PROVE BooksInv'
    <3> SUFFICES ASSUME ~raced' PROVE BooksInv'
      BY DEF BooksInv
    <3>1. ~raced /\ stage[s] # "save" /\ UNCHANGED <<usage, applied, archived, snap>>
      BY <2>8 DEF Fail
    <3>2. /\ Rolling' \subseteq Rolling
          /\ \A t \in Sessions : stage'[t] = "save" <=> stage[t] = "save"
      BY <2>0, <2>8, <3>1 DEF Fail, Goto, Rolling
    <3>3. /\ \A t, u \in Rolling' : t = u
          /\ \A t \in Rolling' : snap'[t].usage = usage'
      BY <3>1, <3>2 DEF BooksInv
    <3>4. \A t \in Rolling' : stage'[t] = "save" => archived' = applied'
      BY <3>1, <3>2 DEF BooksInv, Rolling
    <3>5. (\A t \in Sessions : stage'[t] # "save") => usage' + archived' = applied'
      BY <3>1, <3>2 DEF BooksInv
    <3> QED
      BY <3>3, <3>4, <3>5 DEF BooksInv
  <2> QED
    BY <2>1, <2>2, <2>3, <2>4, <2>5, <2>6, <2>7, <2>8 DEF QuotaNext, Statement
<1>3. BooksInv => Balanced
  BY DEF BooksInv, Balanced, Busy
<1> QED
  BY <1>1, <1>2, <1>3, QuotaTypeCorrect, PTL DEF QuotaSpec
=============================================================================
