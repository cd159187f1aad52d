--------------------------- MODULE SessionChannels ---------------------------
(***************************************************************************)
(* The channels of one share: how the daemon admits a browser, makes a     *)
(* direct peer or a relay channel for it, keeps it in the tables of the    *)
(* session object, starts a transfer session on it, and closes it when the *)
(* browser leaves or the share is revoked, expires or is removed.          *)
(*                                                                         *)
(* A task is the goroutine of one join or relay_prepare message; it makes  *)
(* at most one channel, which carries its name.  A closer is a goroutine   *)
(* that ends a session.  A step is a critical section of Daemon.mu,        *)
(* Session.mu, noncesMu, Peer.mu or closeMu, or an event of the transport. *)
(***************************************************************************)
EXTENDS Integers

CONSTANTS
    Objects,        \* session objects the code can name, one after the other
    Tasks,          \* join and relay_prepare messages
    Closers,        \* revocations, expiries, removals and stops
    Conns,          \* connection ids of browsers
    Sids,           \* ids of relay sessions
    MaxNonces,      \* bound: nonces in use at a time
    MaxRequests,    \* bound: requests of one channel that are under way together
    MaxDownloads    \* the share's limit

ASSUME ChannelsAssumption ==
    /\ Conns \cap Sids = {}
    /\ "none" \notin Objects \cup Tasks \cup Conns \cup Sids
    /\ MaxNonces \in Nat /\ MaxRequests \in Nat /\ MaxDownloads \in Nat \ {0}

VARIABLES
    cur,            \* Daemon.sessions[code]
    obj,            \* the session objects
    nonces,         \* Daemon.nonces, 0 for no entry
    task,
    chan,           \* the channel sets
    xfer,           \* the transfer session of each channel
    closer

vars == <<cur, obj, nonces, task, chan, xfer, closer>>

NoObject == "none"
NoTask == "none"
NoKey == "none"
Keys == Conns \cup Sids
Nonces == 1 .. MaxNonces
Listeners == {"owner", "manager"}

\* peers and relayChannels are one table: their keys differ.
SessionObject == [made : BOOLEAN, closing : BOOLEAN, downloads : Nat,
                  table : [Keys -> Tasks \cup {NoTask}]]
Task == [pc : {"idle", "create", "register", "replace", "offer", "dial",
               "handshake", "drop", "check", "close", "done"},
         key : Keys \cup {NoKey},
         obj : Objects \cup {NoObject},
         old : Tasks \cup {NoTask},         \* the channel it replaced
         nonce : {0} \cup Nonces]           \* the nonce it was admitted by
Channel == [kind : {"none", "direct", "relay"},
            conn : {"none", "up", "down"},  \* PeerConnection or WebSocket
            closed : BOOLEAN,
            opening : BOOLEAN,              \* openCallbackRunning
            answered : BOOLEAN,
            armed : BOOLEAN,                \* the next control message is the hello
            failed : BOOLEAN,               \* ICE gave up
            listeners : SUBSET Listeners,
            due : SUBSET Listeners,         \* collected by notifyClosed, not yet run
            ran : [Listeners -> Nat]]
Transfer == [pc : {"off", "ready", "current", "install", "counted", "on", "skip"},
             downloads : Nat,               \* Manager.downloads
             asked : Nat,                   \* requests allowed and not yet counted
             shared : BOOLEAN]              \* history: it was not alone with the limit
Closer == [pc : {"idle", "detach", "close", "done"},
           obj : Objects \cup {NoObject}, todo : SUBSET Tasks]

TypeOK ==
    /\ cur \in Objects \cup {NoObject}
    /\ obj \in [Objects -> SessionObject]
    /\ nonces \in [Conns -> {0} \cup Nonces]
    /\ task \in [Tasks -> Task] /\ chan \in [Tasks -> Channel]
    /\ xfer \in [Tasks -> Transfer] /\ closer \in [Closers -> Closer]

NoChannel == [kind |-> "none", conn |-> "none", closed |-> FALSE, opening |-> FALSE,
              answered |-> FALSE, armed |-> FALSE, failed |-> FALSE,
              listeners |-> {}, due |-> {}, ran |-> [l \in Listeners |-> 0]]

Init ==
    /\ cur = NoObject
    /\ obj = [o \in Objects |-> [made |-> FALSE, closing |-> FALSE, downloads |-> 0,
                                 table |-> [k \in Keys |-> NoTask]]]
    /\ nonces = [c \in Conns |-> 0]
    /\ task = [t \in Tasks |-> [pc |-> "idle", key |-> NoKey, obj |-> NoObject,
                                old |-> NoTask, nonce |-> 0]]
    /\ chan = [t \in Tasks |-> NoChannel]
    /\ xfer = [t \in Tasks |-> [pc |-> "off", downloads |-> 0, asked |-> 0, shared |-> FALSE]]
    /\ closer = [k \in Closers |-> [pc |-> "idle", obj |-> NoObject, todo |-> {}]]

Goto(t, pc) == task' = [task EXCEPT ![t].pc = pc]
Entry(t) == obj[task[t].obj].table[task[t].key]
\* directPeerCurrent, relayChannelCurrent
Current(t) ==
    /\ cur = task[t].obj
    /\ ~obj[cur].closing
    /\ Entry(t) = t
\* Mutant: the entry is removed whoever has it.
RemoveAnyway(t) == obj' = [obj EXCEPT ![task[t].obj].table[task[t].key] = NoTask]
\* removeRelayChannelIfCurrent, and the same test in createPeer's two callbacks
RemoveIfCurrent(t) ==
    obj' = IF Entry(t) = t THEN [obj EXCEPT ![task[t].obj].table[task[t].key] = NoTask] ELSE obj

-----------------------------------------------------------------------------
(* The end of a channel: Peer.notifyClosed, SecureRelayChannel.notifyClose *)

\* The callbacks have been collected (closeNotified); a close that comes while
\* a peer's open callback runs (closePending) waits for its end.
Notified(c) == c.closed /\ ~c.opening

Notify(c) ==
    IF c.closed THEN c
    ELSE [c EXCEPT !.closed = TRUE, !.due = IF c.opening THEN @ ELSE c.listeners]

\* Close.  A relay channel's conn is written by Start without a lock: until
\* Start's goroutine has taken Session.mu again, another one may still read nil.
\* On a transport that is down nothing is exchanged any more.
Shut(c, sees) ==
    IF c.conn = "up" /\ sees
    THEN [Notify(c) EXCEPT !.conn = "down", !.answered = FALSE, !.armed = FALSE, !.failed = FALSE]
    ELSE Notify(c)
Visible(t) == IF task[t].pc \in {"handshake", "check"} /\ chan[t].kind = "relay"
              THEN BOOLEAN ELSE {TRUE}
Close(t) == \E sees \in Visible(t) : chan' = [chan EXCEPT ![t] = Shut(@, sees)]

\* Mutant: a listener added after the end is only remembered.
AddOnCloseAlways(c, l) == [c EXCEPT !.listeners = @ \cup {l}]

\* A listener added after the end runs at once.
AddOnClose(c, l) ==
    [c EXCEPT !.listeners = @ \cup {l}, !.due = IF Notified(c) THEN @ \cup {l} ELSE @]

Called(c, l) == [c EXCEPT !.due = @ \ {l}, !.ran[l] = @ + 1]

\* The owner's callback takes the channel out of the table; the manager's is
\* Manager.handleClose.
RunListener(t, l) ==
    /\ l \in chan[t].due
    /\ chan' = [chan EXCEPT ![t] = Called(@, l)]
    /\ IF l = "owner" THEN RemoveIfCurrent(t) ELSE UNCHANGED obj
    /\ UNCHANGED <<cur, nonces, task, xfer, closer>>

\* A lane closes, the relay socket fails, or a scheduled write does: everything ends.
TransportEnds(t) ==
    /\ chan[t].conn = "up"
    /\ chan[t].answered \/ chan[t].armed
    /\ chan' = [chan EXCEPT ![t] = Shut(@, TRUE)]
    /\ UNCHANGED <<cur, obj, nonces, task, xfer, closer>>

\* The ICE connection is given up: callbacks run, the PeerConnection stays.
ConnectionFails(t) ==
    /\ chan[t].kind = "direct" /\ chan[t].conn = "up" /\ chan[t].answered
    /\ ~chan[t].closed
    /\ chan' = [chan EXCEPT ![t] = [Notify(@) EXCEPT !.failed = TRUE]]
    /\ UNCHANGED <<cur, obj, nonces, task, xfer, closer>>

-----------------------------------------------------------------------------
(* Admission: handleKnock, handleJoin *)

\* A nonce is fresh if neither another connection nor a join has it; of those the
\* first is taken.
Taken(c) == {task[t].nonce : t \in Tasks} \cup {nonces[d] : d \in Conns \ {c}}

\* The nonce replaces an earlier one of the same connection.  (Expired ones are
\* swept as well; a join with one is refused anyway.)
\* Bound: nobody knocks once no message is left that could join.
HandleKnock(c) ==
    /\ cur # NoObject
    /\ \E t \in Tasks : task[t].pc = "idle"
    /\ \E n \in Nonces \ Taken(c) :
        /\ \A m \in Nonces \ Taken(c) : n <= m
        /\ nonces' = [nonces EXCEPT ![c] = n]
    /\ UNCHANGED <<cur, obj, task, chan, xfer, closer>>

\* A join is good if the nonce has not expired and the HMAC, where the share has
\* a password, is right; one of a protected Immich share never is.
Admit(t, c, good) ==
    /\ task[t].pc = "idle"
    /\ cur # NoObject
    /\ IF nonces[c] # 0 /\ good
       THEN task' = [task EXCEPT ![t].pc = "create", ![t].key = c, ![t].nonce = nonces[c]]
       ELSE Goto(t, "done")

\* Mutant: the nonce is read and left where it is.
JoinReadsNonce(t, c, good) ==
    /\ Admit(t, c, good)
    /\ UNCHANGED <<cur, obj, nonces, chan, xfer, closer>>

\* handleJoin: the nonce is gone whatever comes of it.  The session is looked up
\* again by createPeer, which runs in a goroutine of its own.
HandleJoin(t, c, good) ==
    /\ Admit(t, c, good)
    /\ nonces' = [nonces EXCEPT ![c] = 0]
    /\ UNCHANGED <<cur, obj, chan, xfer, closer>>

-----------------------------------------------------------------------------
(* createPeer and handleRelayPrepare: both make the channel, wire it and   *)
(* register it only while the session they looked up is current            *)

Make(t, key, kind, conn) ==
    IF cur = NoObject
    THEN Goto(t, "done") /\ UNCHANGED chan
    ELSE /\ task' = [task EXCEPT ![t].pc = "register", ![t].key = key, ![t].obj = cur]
         /\ chan' = [chan EXCEPT ![t] = [NoChannel EXCEPT !.kind = kind, !.conn = conn,
                                                          !.listeners = {"owner"}]]

CreatePeer(t) ==
    /\ task[t].pc = "create"
    /\ \/ Make(t, task[t].key, "direct", "up")
       \/ Goto(t, "done") /\ UNCHANGED chan              \* relay-only, or no peer
    /\ UNCHANGED <<cur, obj, nonces, xfer, closer>>

\* The responder is installed on the control lane before the channel starts.
HandleRelayPrepare(t, s) ==
    /\ task[t].pc = "idle"
    /\ \/ Make(t, s, "relay", "none")
       \/ Goto(t, "done") /\ UNCHANGED chan              \* no key, or no channel
    /\ UNCHANGED <<cur, obj, nonces, xfer, closer>>

Register(t) ==
    /\ task[t].pc = "register"
    /\ IF cur # task[t].obj \/ obj[task[t].obj].closing
       THEN Goto(t, "close") /\ UNCHANGED obj
       ELSE /\ obj' = [obj EXCEPT ![cur].table[task[t].key] = t]
            /\ task' = [task EXCEPT ![t].pc = "replace", ![t].old = Entry(t)]
    /\ UNCHANGED <<cur, nonces, chan, xfer, closer>>

\* The channel it replaced is closed outside the locks.
CloseReplaced(t) ==
    /\ task[t].pc = "replace"
    /\ task' = [task EXCEPT ![t].pc = IF chan[t].kind = "direct" THEN "offer" ELSE "dial",
                            ![t].old = NoTask]
    /\ IF task[t].old \notin {NoTask, t} THEN Close(task[t].old) ELSE UNCHANGED chan
    /\ UNCHANGED <<cur, obj, nonces, xfer, closer>>

\* CreateOffer fails on a closed connection, or for a reason of its own.
CreateOffer(t) ==
    /\ task[t].pc = "offer"
    /\ \/ chan[t].conn = "up" /\ Goto(t, "check")
       \/ Goto(t, "drop")
    /\ UNCHANGED <<cur, obj, nonces, chan, xfer, closer>>

\* Start: dial and hello ...
Dial(t) ==
    /\ task[t].pc = "dial"
    /\ \/ Goto(t, "handshake") /\ chan' = [chan EXCEPT ![t].conn = "up"]
       \/ Goto(t, "drop") /\ chan' = [chan EXCEPT ![t] = Notify(@)]
    /\ UNCHANGED <<cur, obj, nonces, xfer, closer>>

\* ... then the Noise handshake, after which the read loop runs.
RunHandshake(t) ==
    /\ task[t].pc = "handshake"
    /\ \/ /\ chan[t].conn = "up"
          /\ Goto(t, "check") /\ chan' = [chan EXCEPT ![t].armed = TRUE]
       \/ Goto(t, "drop") /\ chan' = [chan EXCEPT ![t] = Shut(@, TRUE)]
    /\ UNCHANGED <<cur, obj, nonces, xfer, closer>>

\* The offer or the start failed.  Start has closed its channel already.
Drop(t) ==
    /\ task[t].pc = "drop"
    /\ RemoveIfCurrent(t)
    /\ Goto(t, IF chan[t].kind = "direct" THEN "close" ELSE "done")
    /\ UNCHANGED <<cur, nonces, chan, xfer, closer>>

\* Mutant: what was offered or started is not looked at again.
SkipCheck(t) ==
    /\ task[t].pc = "check"
    /\ Goto(t, "done")
    /\ UNCHANGED <<cur, obj, nonces, chan, xfer, closer>>

\* The session may have been closed, or the entry replaced, meanwhile.
Check(t) ==
    /\ task[t].pc = "check"
    /\ Goto(t, IF Current(t) THEN "done" ELSE "close")
    /\ UNCHANGED <<cur, obj, nonces, chan, xfer, closer>>

CloseOwn(t) ==
    /\ task[t].pc = "close"
    /\ Goto(t, "done")
    /\ chan' = [chan EXCEPT ![t] = Shut(@, TRUE)]
    /\ UNCHANGED <<cur, obj, nonces, xfer, closer>>

\* handleAnswer: the peer that has the connection's entry now gets the answer;
\* only the answer to its own offer connects it.
HandleAnswer(t) ==
    /\ task[t].pc = "done" /\ chan[t].kind = "direct" /\ chan[t].conn = "up"
    /\ cur = task[t].obj /\ Entry(t) = t
    /\ ~chan[t].answered
    /\ chan' = [chan EXCEPT ![t].answered = TRUE]
    /\ UNCHANGED <<cur, obj, nonces, task, xfer, closer>>

-----------------------------------------------------------------------------
(* The transport handshake and the transfer session *)

\* The third lane opens and the responder is installed.
LanesOpen(t) ==
    /\ chan[t].kind = "direct" /\ chan[t].conn = "up" /\ chan[t].answered
    /\ ~chan[t].closed /\ ~chan[t].armed /\ xfer[t].pc = "off"
    /\ chan' = [chan EXCEPT ![t].armed = TRUE]
    /\ UNCHANGED <<cur, obj, nonces, task, xfer, closer>>

\* The first control message.  A bad one, or an acknowledgement that cannot be
\* sent, closes the channel; a peer that was closed meanwhile is not opened.
Hello(t, good) ==
    /\ chan[t].armed /\ chan[t].conn = "up" /\ xfer[t].pc = "off"
    /\ IF good /\ ~chan[t].closed
       THEN /\ xfer' = [xfer EXCEPT ![t].pc = "ready"]
            /\ chan' = [chan EXCEPT ![t].opening = (@ \/ chan[t].kind = "direct")]
       ELSE /\ xfer' = [xfer EXCEPT ![t].pc = "skip"]
            /\ chan' = [chan EXCEPT ![t] = IF chan[t].failed /\ good THEN @ ELSE Shut(@, TRUE)]
    /\ UNCHANGED <<cur, obj, nonces, task, closer>>

WireChecks(t) ==
    /\ xfer[t].pc = "ready"
    /\ xfer' = [xfer EXCEPT ![t].pc = IF Current(t) THEN "current" ELSE "skip"]
    /\ UNCHANGED <<cur, obj, nonces, task, chan, closer>>

\* NewManager takes the control lane and listens for the end.
InstallChannels(t) ==
    /\ xfer[t].pc = "current"
    /\ xfer' = [xfer EXCEPT ![t].pc = "install"]
    /\ chan' = [chan EXCEPT ![t] = AddOnClose(@, "manager")]
    /\ UNCHANGED <<cur, obj, nonces, task, closer>>

\* The channel may add to the download count of its session: its transport is
\* not down, or the last frame of a download was sent and is not counted yet.
CanServe(t) ==
    /\ xfer[t].pc \in {"counted", "on"}
    /\ chan[t].conn # "down" \/ xfer[t].asked > 0
Rival(t) == \E u \in Tasks \ {t} : task[u].obj = task[t].obj /\ CanServe(u)

\* Mutant: every channel counts from zero.
TakeCountFromZero(t) ==
    /\ xfer[t].pc = "install"
    /\ xfer' = [xfer EXCEPT ![t].pc = "counted", ![t].shared = Rival(t)]
    /\ UNCHANGED <<cur, obj, nonces, task, chan, closer>>

\* The download count of the session, read under its lock, goes into the manager.
TakeCount(t) ==
    /\ xfer[t].pc = "install"
    /\ xfer' = [xfer EXCEPT ![t].pc = "counted", ![t].downloads = obj[task[t].obj].downloads,
                            ![t].shared = Rival(t)]
    /\ UNCHANGED <<cur, obj, nonces, task, chan, closer>>

\* The callbacks are set and HandleOpen called: requests are answered from now on.
Activate(t) ==
    /\ xfer[t].pc = "counted"
    /\ xfer' = [xfer EXCEPT ![t].pc = "on"]
    /\ UNCHANGED <<cur, obj, nonces, task, chan, closer>>

\* The open callback returns; a close that came during it is announced now.
OpenReturns(t) ==
    /\ chan[t].opening /\ xfer[t].pc \in {"on", "skip"}
    /\ chan' = [chan EXCEPT ![t].opening = FALSE,
                            ![t].due = IF chan[t].closed THEN chan[t].listeners ELSE @]
    /\ UNCHANGED <<cur, obj, nonces, task, xfer, closer>>

\* A request is checked against the count of its own manager, when it arrives.
AllowDownload(t) ==
    /\ xfer[t].pc = "on" /\ ~chan[t].opening /\ chan[t].conn = "up"
    /\ xfer[t].asked < MaxRequests
    /\ xfer[t].downloads < MaxDownloads
    /\ xfer' = [xfer EXCEPT ![t].asked = @ + 1, ![t].shared = @ \/ xfer[t].asked > 0]
    /\ UNCHANGED <<cur, obj, nonces, task, chan, closer>>

\* The last frame was accepted: the manager's count, then the session's.  The
\* channel may have ended in between.
DownloadComplete(t) ==
    /\ xfer[t].asked > 0
    /\ xfer' = [xfer EXCEPT ![t].asked = @ - 1, ![t].downloads = @ + 1]
    /\ obj' = [obj EXCEPT ![task[t].obj].downloads = @ + 1]
    /\ UNCHANGED <<cur, nonces, task, chan, closer>>

\* A download that is refused later, fails or is cancelled is not counted.
DownloadEnds(t) ==
    /\ xfer[t].asked > 0
    /\ xfer' = [xfer EXCEPT ![t].asked = @ - 1]
    /\ UNCHANGED <<cur, obj, nonces, task, chan, closer>>

-----------------------------------------------------------------------------
(* Sessions come and go *)

\* A share is created, or registered again: an earlier object is overwritten.
InsertSession(o) ==
    /\ ~obj[o].made
    /\ obj' = [obj EXCEPT ![o].made = TRUE]
    /\ cur' = o
    /\ UNCHANGED <<nonces, task, chan, xfer, closer>>

\* RevokeSession, pruneExpiredSessions: out of the table, then closed.
Revoke(k) ==
    /\ closer[k].pc = "idle" /\ cur # NoObject
    /\ closer' = [closer EXCEPT ![k].pc = "detach", ![k].obj = cur]
    /\ cur' = NoObject
    /\ UNCHANGED <<obj, nonces, task, chan, xfer>>

\* syncImmichShares: closed, unregistered, and only then out of the table.
\* Stop, and a removal that fails, leave it there.
RemoveLink(k) ==
    /\ closer[k].pc = "idle" /\ cur # NoObject
    /\ closer' = [closer EXCEPT ![k].pc = "detach", ![k].obj = cur]
    /\ UNCHANGED <<cur, obj, nonces, task, chan, xfer>>

\* closeSessionResources: the tables are emptied under the lock ...
Attached(o) == {t \in Tasks : \E key \in Keys : obj[o].table[key] = t}
Detach(k) ==
    /\ closer[k].pc = "detach"
    /\ closer' = [closer EXCEPT ![k].pc = "close", ![k].todo = Attached(closer[k].obj)]
    /\ obj' = [obj EXCEPT ![closer[k].obj].table = [key \in Keys |-> NoTask],
                          ![closer[k].obj].closing = TRUE]
    /\ UNCHANGED <<cur, nonces, task, chan, xfer>>

\* ... and the channels closed one by one, direct peers first.
CloseNext(k) ==
    /\ closer[k].pc = "close"
    /\ \E t \in closer[k].todo :
        /\ \/ chan[t].kind = "direct"
           \/ \A u \in closer[k].todo : chan[u].kind = "relay"
        /\ closer' = [closer EXCEPT ![k].todo = @ \ {t}]
        /\ Close(t)
    /\ UNCHANGED <<cur, obj, nonces, task, xfer>>

CloserEnds(k) ==
    /\ closer[k].pc = "close" /\ closer[k].todo = {}
    /\ closer' = [closer EXCEPT ![k].pc = "done"]
    /\ \/ cur' = IF cur = closer[k].obj THEN NoObject ELSE cur
       \/ UNCHANGED cur
    /\ UNCHANGED <<obj, nonces, task, chan, xfer>>

-----------------------------------------------------------------------------
TaskStep(t) ==
    \/ CreatePeer(t) \/ Register(t) \/ CloseReplaced(t) \/ CreateOffer(t)
    \/ Dial(t) \/ RunHandshake(t) \/ Drop(t) \/ Check(t) \/ CloseOwn(t)

ChannelStep(t) ==
    \/ \E l \in Listeners : RunListener(t, l)
    \/ WireChecks(t) \/ InstallChannels(t) \/ TakeCount(t) \/ Activate(t)
    \/ OpenReturns(t)

CloserStep(k) == Detach(k) \/ CloseNext(k) \/ CloserEnds(k)

\* What browsers, the network and users do, or not.
Environment ==
    \/ \E t \in Tasks : \/ \E c \in Conns, good \in BOOLEAN : HandleJoin(t, c, good)
                        \/ \E s \in Sids : HandleRelayPrepare(t, s)
                        \/ \E good \in BOOLEAN : Hello(t, good)
                        \/ HandleAnswer(t) \/ LanesOpen(t) \/ AllowDownload(t)
                        \/ DownloadComplete(t) \/ DownloadEnds(t)
                        \/ TransportEnds(t) \/ ConnectionFails(t)
    \/ \E c \in Conns : HandleKnock(c)
    \/ \E o \in Objects : InsertSession(o)
    \/ \E k \in Closers : Revoke(k) \/ RemoveLink(k)

Next ==
    \/ \E t \in Tasks : TaskStep(t) \/ ChannelStep(t)
    \/ \E k \in Closers : CloserStep(k)
    \/ Environment

Spec == Init /\ [][Next]_vars

-----------------------------------------------------------------------------
(* Properties *)

\* One knock admits one join: of two joins that arrive together only one finds
\* the nonce, so one proof makes one peer.
NonceOnce ==
    \A t, u \in Tasks : t # u /\ task[t].nonce = task[u].nonce => task[t].nonce = 0

\* A transport that is up and whose task has returned can still be closed: it
\* is in the table of its session, or somebody holds it to close it.  A session
\* that is closed between lookup, registration, start and the last check leaves
\* none behind.  (A peer whose ICE connection failed is left open by the code.)
NoOrphan ==
    \A t \in Tasks :
        chan[t].conn = "up" /\ task[t].pc = "done" /\ ~chan[t].failed =>
            \/ Entry(t) = t
            \/ \E k \in Closers : t \in closer[k].todo
            \/ \E u \in Tasks : task[u].pc = "replace" /\ task[u].old = t

\* Every channel counts for itself from the number it found when it was opened.
\* One after the other, however they were replaced and closed, they keep the limit
\* of the share together: it is exceeded only if some channel took its number while
\* another could still serve, or allowed a request while another one was under way.
LimitHeldInTurn ==
    \A o \in Objects :
        obj[o].downloads > MaxDownloads =>
            \E t \in Tasks : task[t].obj = o /\ xfer[t].shared

\* Downloads of a share never exceed its limit, whoever asks for them.
LimitHolds == \A o \in Objects : obj[o].downloads <= MaxDownloads

\* An entry disappears only with its own channel or with the session: a late
\* close callback, or a failed offer or start, never removes a replacement.
EntryKept ==
    \A o \in Objects, key \in Keys :
        obj'[o].table[key] = NoTask /\ obj[o].table[key] # NoTask =>
            \/ obj'[o].closing
            \/ chan'[obj[o].table[key]].closed
            \/ task[obj[o].table[key]].pc = "drop"
EntryStays == [][EntryKept]_vars

Contract(t) == INSTANCE CloseContract WITH
    closed <- chan[t].closed, opening <- chan[t].opening,
    added <- chan[t].listeners, owed <- chan[t].due, ran <- chan[t].ran

\* The contract is about the channel: where that is the same, nothing happened.
ContractStep ==
    \A t \in Tasks :
        chan'[t] = chan[t] \/ Contract(t)!Next \/ UNCHANGED Contract(t)!contract

\* Both channel sets keep the contract of their close listeners: whoever closes
\* the channel, and whenever a transfer session starts to listen, every listener
\* is called, and none before the end, twice, or during the open callback.
ImplementsContract ==
    /\ \A t \in Tasks : Contract(t)!Init
    /\ [][ContractStep]_vars

=============================================================================
