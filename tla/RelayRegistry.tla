---------------------------- MODULE RelayRegistry ----------------------------
(***************************************************************************)
(* The relay of the signaling server: the table of relay sessions          *)
(* (relay/registry.go) and the goroutines of the relay WebSocket handler   *)
(* (handler/relay_ws.go) that bind a browser socket and an agent socket to *)
(* a session, forward frames between them and bill the account.            *)
(*                                                                         *)
(* Every critical section of Registry.mu is one action; a handler's path   *)
(* between two of them is its program counter.  A handler is named by the  *)
(* socket it serves.  A session id and the browser token's jti are issued  *)
(* together and once (auth_ok), so one constant stands for both.  A frame  *)
(* has one byte.                                                           *)
(***************************************************************************)
EXTENDS Integers, FiniteSets

CONSTANTS
    Sids,       \* relay sessions
    Browsers,   \* sockets whose hello carries a browser policy token
    Agents,     \* sockets whose hello carries an agent relay token
    SidOf,      \* socket -> the session its token names
    MaxFrames,  \* bound on the frames read per session
    None

Sockets == Browsers \cup Agents

ASSUME RelayAssumption ==
    /\ Browsers \cap Agents = {}
    /\ SidOf \in [Sockets -> Sids]
    /\ MaxFrames \in Nat
    /\ None \notin Sockets

\* The agent dials the relay once for each relay_prepare (daemon.go:1141); the
\* registry itself would let a second agent socket replace the first.
ASSUME AgentDialsOnce ==
    \A a, b \in Agents : SidOf[a] = SidOf[b] => a = b

VARIABLES
    state,          \* sid -> "unborn", "live" (in Registry.sessions) or "gone"
    expired,        \* sid -> the time is after ExpiresAt, which is also the
                    \*        expiry of both tokens
    active,         \* sid -> entry.active
    bound,          \* sid -> entry.browserSocket and entry.agentSocket
    ready,          \* sid -> browserReady / agentReady are closed
    doneClosed,     \* sid -> entry.done is closed
    forwarded,      \* sid -> entry.forwardedBytes
    spent,          \* Registry.spentJTI
    conn,           \* socket -> "open" or "closed", as the server sees it
    pc,             \* socket -> where its handler is
    peer,           \* socket -> the other socket, once its handler proxies
    fwd,            \* socket -> its proxy's two forwarding loops
    flush,          \* socket -> how far its proxy's closeAndFlush is
    due,            \* sid -> the bytes CloseSession returned, until they are billed
    billed,         \* sid -> bytes passed to ApplyRelayBytes
    read,           \* history: sid -> frames read from either socket
    delivered,      \* history: sid -> frames written to the other socket
    usedBy          \* history: sid -> browser sockets that bound with its token

regVars == <<state, active, bound, ready, doneClosed, spent>>
proxyVars == <<fwd, flush, due, billed, read, delivered>>
vars == <<state, expired, active, bound, ready, doneClosed, forwarded, spent,
          conn, pc, peer, fwd, flush, due, billed, read, delivered, usedBy>>

Side == {"browser", "agent"}
Role(s) == IF s \in Browsers THEN "browser" ELSE "agent"
Other(side) == IF side = "browser" THEN "agent" ELSE "browser"
Ends == {"left", "right"}

Init ==
    /\ state = [i \in Sids |-> "unborn"]
    /\ expired = [i \in Sids |-> FALSE]
    /\ active = [i \in Sids |-> FALSE]
    /\ bound = [i \in Sids |-> [r \in Side |-> None]]
    /\ ready = [i \in Sids |-> [r \in Side |-> FALSE]]
    /\ doneClosed = [i \in Sids |-> FALSE]
    /\ forwarded = [i \in Sids |-> 0]
    /\ spent = {}
    /\ conn = [s \in Sockets |-> "open"]
    /\ pc = [s \in Sockets |-> "hello"]
    /\ peer = [s \in Sockets |-> None]
    /\ fwd = [s \in Sockets |-> [d \in Ends |-> "none"]]
    /\ flush = [s \in Sockets |-> "no"]
    /\ due = [i \in Sids |-> 0]
    /\ billed = [i \in Sids |-> 0]
    /\ read = [i \in Sids |-> 0]
    /\ delivered = [i \in Sids |-> 0]
    /\ usedBy = [i \in Sids |-> {}]

------------------------------------------------------------------------------
(* The registry                                                            *)

\* cleanupSessionLocked: waiters and watchers are released, the entry and its
\* spent jti are forgotten.
CleanupSession(i) ==
    /\ state' = [state EXCEPT ![i] = "gone"]
    /\ ready' = [ready EXCEPT ![i] = [r \in Side |-> TRUE]]
    /\ doneClosed' = [doneClosed EXCEPT ![i] = TRUE]
    /\ spent' = spent \ {i}

\* CreatePendingSession, from the agent's auth_ok; both tokens are sent after.
CreatePendingSession(i) ==
    /\ state[i] = "unborn"
    /\ state' = [state EXCEPT ![i] = "live"]
    /\ UNCHANGED <<expired, active, bound, ready, doneClosed, forwarded, spent,
                   conn, pc, peer, proxyVars, usedBy>>

Expire(i) ==
    /\ state[i] # "unborn" /\ ~expired[i]
    /\ expired' = [expired EXCEPT ![i] = TRUE]
    /\ UNCHANGED <<regVars, forwarded, conn, pc, peer, proxyVars, usedBy>>

\* CleanupExpired for one session, run by cron every minute.
CleanupExpired(i) ==
    /\ state[i] = "live" /\ ~active[i] /\ expired[i]
    /\ CleanupSession(i)
    /\ UNCHANGED <<expired, active, bound, forwarded, conn, pc, peer, proxyVars,
                   usedBy>>

\* The client goes away; the server's reads and writes on the socket fail.
Disconnect(s) ==
    /\ conn[s] = "open" /\ pc[s] # "hello"
    /\ conn' = [conn EXCEPT ![s] = "closed"]
    /\ UNCHANGED <<regVars, expired, forwarded, pc, peer, proxyVars, usedBy>>

------------------------------------------------------------------------------
(* RelayWS                                                                 *)

\* The handler returns, directly or after conn.Close; CloseNow is deferred.
Finish(s) ==
    /\ pc' = [pc EXCEPT ![s] = "finished"]
    /\ conn' = [conn EXCEPT ![s] = "closed"]

\* The hello arrives and its token is verified against the clock; or no hello
\* arrives in time, or the token is refused.
Hello(s) ==
    /\ pc[s] = "hello" /\ state[SidOf[s]] # "unborn"
    /\ \/ /\ ~expired[SidOf[s]]
          /\ pc' = [pc EXCEPT ![s] = "bind"]
          /\ UNCHANGED conn
       \/ Finish(s)
    /\ UNCHANGED <<regVars, expired, forwarded, peer, proxyVars, usedBy>>

\* The clock was read before the hello was verified, so the expiry test inside
\* the critical section repeats that verdict.
Bindable(s) ==
    /\ state[SidOf[s]] = "live"
    /\ s \in Browsers => SidOf[s] \notin spent

\* The side that arrives first is pending and will own the proxy; the second
\* one marks the session active.
Bind(s) ==
    LET i == SidOf[s]
        paired == ready[i][Other(Role(s))]
    IN  /\ bound' = [bound EXCEPT ![i][Role(s)] = s]
        /\ ready' = [ready EXCEPT ![i][Role(s)] = TRUE]
        /\ active' = [active EXCEPT ![i] = @ \/ paired]
        /\ pc' = [pc EXCEPT ![s] = IF paired THEN "watch" ELSE "pending"]

\* BindBrowserSocket and BindAgentSocket.
BindSocket(s) ==
    /\ pc[s] = "bind"
    /\ \/ /\ Bindable(s)
          /\ Bind(s)
          /\ spent' = IF s \in Browsers THEN spent \cup {SidOf[s]} ELSE spent
          /\ usedBy' = [usedBy EXCEPT ![SidOf[s]] =
                            IF s \in Browsers THEN @ \cup {s} ELSE @]
          /\ UNCHANGED conn
       \/ /\ ~Bindable(s)
          /\ Finish(s)
          /\ UNCHANGED <<bound, ready, active, spent, usedBy>>
    /\ UNCHANGED <<state, expired, doneClosed, forwarded, peer, proxyVars>>

\* WaitForAgent / WaitForBrowser up to the select.
StartWait(s) ==
    /\ pc[s] = "pending"
    /\ IF state[SidOf[s]] = "live"
       THEN pc' = [pc EXCEPT ![s] = "wait"] /\ UNCHANGED conn
       ELSE Finish(s)
    /\ UNCHANGED <<regVars, expired, forwarded, peer, proxyVars, usedBy>>

\* The pending window closes; the timer may win against a peer that arrives.
WaitTimeout(s) ==
    /\ pc[s] = "wait"
    /\ pc' = [pc EXCEPT ![s] = "timedOut"]
    /\ UNCHANGED <<regVars, expired, forwarded, conn, peer, proxyVars, usedBy>>

\* The timed-out handler locks again, cleans up and fails.
GiveUp(s) ==
    /\ pc[s] = "timedOut"
    /\ IF state[SidOf[s]] = "live"
       THEN CleanupSession(SidOf[s])
       ELSE UNCHANGED <<state, ready, doneClosed, spent>>
    /\ Finish(s)
    /\ UNCHANGED <<expired, active, bound, forwarded, peer, proxyVars, usedBy>>

\* Mutant: the peer is taken from the entry the handler saw before it waited.
StillLiveUnchecked(s) == TRUE

StillLive(s) == state[SidOf[s]] = "live"

\* The peer's channel is closed: look the entry up again, then proxy or fail.
Wake(s) ==
    /\ pc[s] = "wait" /\ ready[SidOf[s]][Other(Role(s))]
    /\ IF StillLive(s)
       THEN /\ peer' = [peer EXCEPT ![s] = bound[SidOf[s]][Other(Role(s))]]
            /\ pc' = [pc EXCEPT ![s] = "proxy"]
            /\ fwd' = [fwd EXCEPT ![s] = [d \in Ends |-> "read"]]
            /\ UNCHANGED conn
       ELSE Finish(s) /\ UNCHANGED <<peer, fwd>>
    /\ UNCHANGED <<regVars, expired, forwarded, flush, due, billed, read,
                   delivered, usedBy>>

\* The active side: WatchSession, then wait for the session's end.
Watch(s) ==
    /\ pc[s] = "watch"
    /\ IF state[SidOf[s]] = "live"
       THEN pc' = [pc EXCEPT ![s] = "await"] /\ UNCHANGED conn
       ELSE Finish(s)
    /\ UNCHANGED <<regVars, expired, forwarded, peer, proxyVars, usedBy>>

Released(s) ==
    /\ pc[s] = "await" /\ doneClosed[SidOf[s]]
    /\ Finish(s)
    /\ UNCHANGED <<regVars, expired, forwarded, peer, proxyVars, usedBy>>

------------------------------------------------------------------------------
(* proxyRelayPair: s owns the proxy; its loop "left" reads s and writes the *)
(* peer, its loop "right" reads the peer and writes s.                      *)

Source(s, d) == IF d = "left" THEN s ELSE peer[s]
Target(s, d) == IF d = "left" THEN peer[s] ELSE s

Loop(s, d, from, to) ==
    /\ fwd[s][d] = from
    /\ fwd' = [fwd EXCEPT ![s][d] = to]

ReadFrame(s, d) ==
    /\ Loop(s, d, "read", "add")
    /\ conn[Source(s, d)] = "open" /\ read[SidOf[s]] < MaxFrames
    /\ read' = [read EXCEPT ![SidOf[s]] = @ + 1]
    /\ UNCHANGED <<regVars, expired, forwarded, conn, pc, peer, flush, due,
                   billed, delivered, usedBy>>

ReadError(s, d) ==
    /\ Loop(s, d, "read", "close")
    /\ conn[Source(s, d)] = "closed"
    /\ UNCHANGED <<regVars, expired, forwarded, conn, pc, peer, flush, due,
                   billed, read, delivered, usedBy>>

Counted(n) == n + 1

\* AddForwardedBytes, before the frame is written.
AddBytes(s, d) ==
    /\ Loop(s, d, "add", "write")
    /\ forwarded' = [forwarded EXCEPT ![SidOf[s]] =
                        IF state[SidOf[s]] = "live" THEN Counted(@) ELSE @]
    /\ UNCHANGED <<regVars, expired, conn, pc, peer, flush, due, billed, read,
                   delivered, usedBy>>

WriteFrame(s, d) ==
    /\ fwd[s][d] = "write"
    /\ \/ /\ conn[Target(s, d)] = "open"
          /\ Loop(s, d, "write", "read")
          /\ delivered' = [delivered EXCEPT ![SidOf[s]] = @ + 1]
       \/ /\ conn[Target(s, d)] = "closed"
          /\ Loop(s, d, "write", "close")
          /\ UNCHANGED delivered
    /\ UNCHANGED <<regVars, expired, forwarded, conn, pc, peer, flush, due,
                   billed, read, usedBy>>

\* once.Do: the first loop to fail runs closeAndFlush, the other waits for it.
EnterClose(s, d) ==
    /\ Loop(s, d, "close", IF flush[s] = "no" THEN "closing" ELSE "closeWait")
    /\ flush' = [flush EXCEPT ![s] = IF @ = "no" THEN "left" ELSE @]
    /\ UNCHANGED <<regVars, expired, forwarded, conn, pc, peer, due, billed,
                   read, delivered, usedBy>>

\* Mutant: the session is closed and billed while the right socket is open.
FlushOrderEager == [left |-> "session", session |-> "right", right |-> "bill", bill |-> "done"]

\* Mutant: the session is left in the table.
FlushOrderForgetful == [left |-> "right", right |-> "bill", session |-> "bill", bill |-> "done"]

\* Close both sockets, then the session, then bill.
FlushOrder == [left |-> "right", right |-> "session", session |-> "bill", bill |-> "done"]

FlushStep(s) ==
    /\ flush[s] \in {"left", "right", "session", "bill"}
    /\ flush' = [flush EXCEPT ![s] = FlushOrder[@]]

\* left.Close, right.Close
CloseEnd(s) ==
    /\ flush[s] \in Ends
    /\ FlushStep(s)
    /\ conn' = [conn EXCEPT ![IF flush[s] = "left" THEN s ELSE peer[s]] = "closed"]
    /\ UNCHANGED <<regVars, expired, forwarded, pc, peer, fwd, due, billed, read,
                   delivered, usedBy>>

\* Mutant: the entry and its count survive CloseSession.
CloseSessionKeeping(s) ==
    /\ flush[s] = "session"
    /\ FlushStep(s)
    /\ due' = [due EXCEPT ![SidOf[s]] = forwarded[SidOf[s]]]
    /\ UNCHANGED <<regVars, expired, forwarded, conn, pc, peer, fwd, billed, read,
                   delivered, usedBy>>

\* CloseSession: whoever finds the entry gets its bytes.
CloseSession(s) ==
    /\ flush[s] = "session"
    /\ FlushStep(s)
    /\ IF state[SidOf[s]] = "live"
       THEN /\ due' = [due EXCEPT ![SidOf[s]] = forwarded[SidOf[s]]]
            /\ forwarded' = [forwarded EXCEPT ![SidOf[s]] = 0]
            /\ CleanupSession(SidOf[s])
       ELSE UNCHANGED <<due, forwarded, state, ready, doneClosed, spent>>
    /\ UNCHANGED <<expired, active, bound, conn, pc, peer, fwd, billed, read,
                   delivered, usedBy>>

\* The call of ApplyRelayBytes (whose error is not looked at).
Bill(s) ==
    /\ flush[s] = "bill"
    /\ FlushStep(s)
    /\ due' = [due EXCEPT ![SidOf[s]] = 0]
    /\ billed' = [billed EXCEPT ![SidOf[s]] = @ + due[SidOf[s]]]
    /\ UNCHANGED <<regVars, expired, forwarded, conn, pc, peer, fwd, read,
                   delivered, usedBy>>

\* Mutant: only the loop that ran closeAndFlush ends.
LeaveCloseAlone(s, d) ==
    /\ flush[s] = "done" /\ fwd[s][d] = "closing"
    /\ fwd' = [fwd EXCEPT ![s][d] = "ended"]
    /\ IF d = "left" THEN Finish(s) ELSE UNCHANGED <<pc, conn>>
    /\ UNCHANGED <<regVars, expired, forwarded, peer, flush, due, billed, read,
                   delivered, usedBy>>

\* The loop returns; the handler returns with its own loop, "left".
LeaveClose(s, d) ==
    /\ flush[s] = "done" /\ fwd[s][d] \in {"closing", "closeWait"}
    /\ fwd' = [fwd EXCEPT ![s][d] = "ended"]
    /\ IF d = "left" THEN Finish(s) ELSE UNCHANGED <<pc, conn>>
    /\ UNCHANGED <<regVars, expired, forwarded, peer, flush, due, billed, read,
                   delivered, usedBy>>

------------------------------------------------------------------------------
HandlerStep(s) ==
    \/ BindSocket(s) \/ StartWait(s) \/ WaitTimeout(s) \/ GiveUp(s) \/ Wake(s)
    \/ Watch(s) \/ Released(s)

LoopStep(s, d) ==
    \/ ReadError(s, d) \/ AddBytes(s, d) \/ WriteFrame(s, d)
    \/ EnterClose(s, d) \/ LeaveClose(s, d)

FlushSteps(s) == CloseEnd(s) \/ CloseSession(s) \/ Bill(s)

Next ==
    \/ \E i \in Sids : CreatePendingSession(i) \/ Expire(i) \/ CleanupExpired(i)
    \/ \E s \in Sockets :
        \/ Hello(s) \/ Disconnect(s) \/ HandlerStep(s) \/ FlushSteps(s)
        \/ \E d \in Ends : ReadFrame(s, d) \/ LoopStep(s, d)

Spec == Init /\ [][Next]_vars

\* A loop inside Write depends on its client: the context is never cancelled
\* (sessionCtx, relay_ws.go:52), so a client that stays connected and does not
\* read blocks it for as long as it likes.
Blocked(s, d) == fwd[s][d] = "write" /\ conn[Target(s, d)] = "open"

\* Goroutines that are not blocked run, timers fire, time passes and cron runs
\* its cleanup.  Clients need not connect, send, read or leave.
Fairness ==
    /\ \A i \in Sids : WF_vars(Expire(i)) /\ WF_vars(CleanupExpired(i))
    /\ \A s \in Sockets :
        /\ WF_vars(HandlerStep(s)) /\ WF_vars(FlushSteps(s))
        /\ \A d \in Ends : WF_vars(~Blocked(s, d) /\ LoopStep(s, d))

FairSpec == Spec /\ Fairness

------------------------------------------------------------------------------
(* Properties                                                              *)

\* The registry's fields and the handlers' locals have their types.
TypeOK ==
    /\ state \in [Sids -> {"unborn", "live", "gone"}]
    /\ expired \in [Sids -> BOOLEAN]
    /\ active \in [Sids -> BOOLEAN]
    /\ bound \in [Sids -> [Side -> Sockets \cup {None}]]
    /\ ready \in [Sids -> [Side -> BOOLEAN]]
    /\ doneClosed \in [Sids -> BOOLEAN]
    /\ forwarded \in [Sids -> Nat]
    /\ spent \subseteq Sids
    /\ conn \in [Sockets -> {"open", "closed"}]
    /\ pc \in [Sockets -> {"hello", "bind", "pending", "wait", "timedOut",
                           "proxy", "watch", "await", "finished"}]
    /\ peer \in [Sockets -> Sockets \cup {None}]
    /\ fwd \in [Sockets -> [Ends -> {"none", "read", "add", "write", "close",
                                     "closing", "closeWait", "ended"}]]
    /\ flush \in [Sockets -> {"no", "left", "right", "session", "bill", "done"}]
    /\ due \in [Sids -> Nat]
    /\ billed \in [Sids -> Nat]
    /\ read \in [Sids -> Nat]
    /\ delivered \in [Sids -> Nat]
    /\ usedBy \in [Sids -> SUBSET Browsers]

\* A browser policy token binds one socket, ever: forgetting the spent jti with
\* the session does not open it again.
TokenUsedOnce == \A i \in Sids : Cardinality(usedBy[i]) <= 1

\* A handler that proxies has a peer: a socket of the other role that was bound
\* to the same session, although the wait channels are also closed by cleanup.
ProxyHasPeer ==
    \A s \in Sockets : pc[s] = "proxy" =>
        /\ peer[s] \in Sockets
        /\ SidOf[peer[s]] = SidOf[s] /\ Role(peer[s]) # Role(s)

\* At most one handler forwards for a session: of two sockets that arrive in
\* any order exactly the pending one becomes the owner.
OneProxy ==
    \A s, t \in Sockets :
        pc[s] = "proxy" /\ pc[t] = "proxy" /\ SidOf[s] = SidOf[t] => s = t

\* A session pairs once: whatever its two sides do, and whichever of binding,
\* timing out and cleaning up comes first, its token binds one browser, one
\* handler forwards, and that handler has the bound peer.
PairedOnce == TokenUsedOnce /\ ProxyHasPeer /\ OneProxy

\* Bytes of a session that are counted, taken out to be billed, or billed.
Accounted(i) == forwarded[i] + due[i] + billed[i]

\* No frame is billed twice, whichever loops and handlers end the session.
BilledOnce == \A i \in Sids : Accounted(i) <= read[i]

\* "Pending relay session state must not linger indefinitely"
\* (2026-04-18-secure-relay-design.md:515): a session that is never paired is
\* removed, by a timed-out handler or by the cron cleanup; and a paired one after
\* either of its clients has left, whichever handler owns the proxy and whatever
\* it was doing, unless a frame of the client that left is stuck for ever in the
\* Write to the other one, which stays connected and does not read.  (So it is
\* always removed once both have left; and it may linger with one stalled client.)
Departed(s) == bound[SidOf[s]][Role(s)] = s /\ active[SidOf[s]] /\ conn[s] = "closed"
LastFrameStuck(s) ==
    \E o \in Sockets, d \in Ends : Blocked(o, d) /\ Source(o, d) = s
SessionsRemoved ==
    /\ \A i \in Sids : state[i] = "live" ~> (active[i] \/ state[i] = "gone")
    /\ \A s \in Sockets :
           \/ Departed(s) ~> state[SidOf[s]] = "gone"
           \/ <>[]LastFrameStuck(s)

\* A paired session never outlives one of its clients for ever.  This does not hold:
\* see LastFrameStuck (MCRelayRegistryStalled.cfg).
DepartedRemoved == \A s \in Sockets : Departed(s) ~> state[SidOf[s]] = "gone"

\* Once the session is gone every handler and every loop of it ends, whichever
\* way the sockets died.
AllEnd ==
    \A s \in Sockets :
        (state[SidOf[s]] = "gone" /\ pc[s] # "hello")
            ~> (pc[s] = "finished" /\ \A d \in Ends : fwd[s][d] \in {"none", "ended"})

\* The registry and its handlers implement the metered tunnel.
PhaseAt(i) ==
    CASE state[i] = "unborn" -> "none"
      [] state[i] = "gone" -> "ended"
      [] state[i] = "live" -> IF active[i] THEN "paired" ELSE "offered"
Phase == [i \in Sids |-> PhaseAt(i)]

Tunnel == INSTANCE RelayTunnel WITH
            phase <- Phase, metered <- [i \in Sids |-> Accounted(i)],
            delivered <- delivered, charged <- billed

ImplementsTunnel == Tunnel!Spec
==============================================================================
