----------------------------- MODULE AgentShares -----------------------------
(***************************************************************************)
(* The shares of one agent, from the request that creates them to their    *)
(* removal: the daemon's table of sessions, the store (memory and file),   *)
(* the signaling client with its one pending-registration slot, and the    *)
(* rows the signaling server keeps for the agent's key.                    *)
(*                                                                         *)
(* Goroutines: API requests that create or revoke a share (Callers), the   *)
(* Immich poller, the expiry pruner, the loader that runs before them      *)
(* after a start, and Listen, the only reader of the socket.  A step is a  *)
(* critical section of the daemon, the store or the slot, a message sent   *)
(* or read, or the server's handling of one message.  The process may      *)
(* crash between any two of them; a lost connection ends the process too   *)
(* (runDaemon returns on the listener's error).                            *)
(***************************************************************************)
EXTENDS Integers, FiniteSets, Sequences

CONSTANTS
    Callers,        \* API requests, each of which creates or revokes one share
    CanCancel,      \* those whose context can be cancelled
    Fresh,          \* codes the server can generate
    Links,          \* keys of Immich links; a link's code is its key
    MaxCalls,       \* bound: registrations
    MaxSyncs,       \* bound: runs of the poller
    MaxCrashes      \* bound: restarts

ASSUME SharesAssumption ==
    /\ CanCancel \subseteq Callers
    /\ Fresh \cap Links = {}
    /\ "none" \notin Fresh \cup Links      \* a code is not empty
    /\ {"poll", "prune", "load"} \cap Callers = {}
    /\ MaxCalls \in Nat /\ MaxSyncs \in Nat /\ MaxCrashes \in Nat

VARIABLES
    phase,          \* down, load (loadSessionsFromStore), up
    sessions,       \* Daemon.sessions
    mem,            \* Store.data
    file,           \* sessions.json
    proc,           \* the goroutines
    slot,           \* pendingReg: the call it belongs to
    buf,            \* the one-place response channel of every call
    lis,            \* Listen: the reply it is about to put into a channel
    up, down,       \* the socket, in both directions
    rows,           \* codes registered with the server
    issued,         \* codes it has generated; a random code does not come twice
    links,          \* Immich's shared links
    calls, syncs, crashes,
    unwritten,      \* history: codes deleted from mem since a write of the file last succeeded
    kept,           \* history: codes generated for a share that was saved, and not removed since
    gone,           \* history: generated codes that RevokeSession or the pruner has removed
    back,           \* history: those that a late save or a restart has brought back since
    handled         \* history: codes whose deregister message the server has read

agent == <<phase, sessions, proc>>
store == <<mem, file, unwritten>>
client == <<slot, buf, lis>>
wire == <<up, down>>
counters == <<calls, syncs, crashes>>
history == <<kept, gone, back, handled>>
server == <<rows, issued>>
vars == <<agent, store, client, wire, server, links, counters, history>>

Codes == Fresh \cup Links
NoCode == "none"
Calls == 1 .. MaxCalls
NoCall == 0
Procs == Callers \cup {"poll", "prune", "load"}

Kinds == {"cloud", "immich"}
Entry == Kinds \cup {"none"}
\* A session object is named by the registration that made it.
Session == [obj : Calls \cup {NoCall}, kind : Entry]
NoSession == [obj |-> NoCall, kind |-> "none"]

\* share_registered carries a code, an error none.
Reply == {r \in [ok : BOOLEAN, code : Codes \cup {NoCode}, to : Calls \cup {NoCall}] :
            r.ok => r.code \in Codes}
Refusal(call) == [ok |-> FALSE, code |-> NoCode, to |-> call]
Request == [type : {"register_share", "unregister_share", "deregister"},
            code : Codes \cup {NoCode}, call : Calls \cup {NoCall}]

Proc == [pc : {"idle", "done", "each", "list", "register", "await", "clear", "client",
               "save", "insert", "sweep", "remove", "delete", "unmap", "drop", "tell"},
         kind : Kinds,                          \* of the share being registered
         code : Codes \cup {NoCode},            \* preferred, then registered code
         call : Calls \cup {NoCall},
         reply : Reply,
         todo : SUBSET (Codes \X (Calls \cup {NoCall})),     \* still to be handled
         seen : SUBSET Links]                   \* the poller's list
Idle == [pc |-> "idle", kind |-> "cloud", code |-> NoCode, call |-> NoCall,
         reply |-> Refusal(NoCall), todo |-> {}, seen |-> {}]

Init ==
    /\ phase = "down"
    /\ sessions = [c \in Codes |-> NoSession]
    /\ mem = [c \in Codes |-> "none"] /\ file = mem
    /\ proc = [p \in Procs |-> Idle]
    /\ slot = NoCall
    /\ buf = [i \in Calls |-> <<>>]
    /\ lis = [ch |-> NoCall, msg |-> Refusal(NoCall)]
    /\ up = <<>> /\ down = <<>>
    /\ rows = {} /\ issued = {} /\ links = {}
    /\ calls = 0 /\ syncs = 0 /\ crashes = 0
    /\ unwritten = {} /\ kept = {} /\ gone = {} /\ back = {} /\ handled = {}

Goto(p, pc) == proc' = [proc EXCEPT ![p].pc = pc]
Done == [Idle EXCEPT !.pc = "done"]
Finish(p) == proc' = [proc EXCEPT ![p] = IF p \in Callers THEN Done ELSE Idle]
\* The next link of the poller or the next entry of the loader; a request ends.
Continue(p) ==
    IF p \in {"poll", "load"}
    THEN proc' = [proc EXCEPT ![p] = [Idle EXCEPT !.pc = "each", !.todo = proc[p].todo,
                                                  !.seen = proc[p].seen]]
    ELSE Finish(p)
\* An error: the loader goes on with the next entry, everyone else returns.
Fail(p) == IF p = "load" THEN Continue(p) ELSE Finish(p)

Message(type, code, call) == [type |-> type, code |-> code, call |-> call]
Send(type, code, call) == up' = Append(up, Message(type, code, call))

-----------------------------------------------------------------------------
(* Store: every operation changes the memory and then replaces the file,   *)
(* which may fail                                                          *)

\* lost: what m leaves out; a write that succeeds brings the file up to date.
Write(m, ok, lost) ==
    /\ mem' = m
    /\ file' = IF ok THEN m ELSE file
    /\ unwritten' = IF ok THEN {} ELSE unwritten \cup lost

\* Mutant: the file gets the new entry only.
SaveSessionAlone(c, kind, ok) == Write([d \in Codes |-> IF d = c THEN kind ELSE "none"], ok, {})

SaveSession(c, kind, ok) == Write([mem EXCEPT ![c] = kind], ok, {})

\* A code that is not there is not an error, and nothing is written.
DeleteSession(c, ok) ==
    IF mem[c] = "none" THEN ok /\ UNCHANGED store
                       ELSE Write([mem EXCEPT ![c] = "none"], ok, {c})

-----------------------------------------------------------------------------
(* Signaling client: RegisterShareWithOptions and Listen *)

\* The slot is claimed and the request written.
Claim(p) ==
    /\ proc[p].pc = "register"
    /\ slot = NoCall
    /\ calls < MaxCalls
    /\ calls' = calls + 1
    /\ slot' = calls + 1
    /\ Send("register_share", proc[p].code, calls + 1)
    /\ proc' = [proc EXCEPT ![p].pc = "await", ![p].call = calls + 1]
    /\ UNCHANGED <<phase, sessions, store, buf, lis, down, server, links, syncs, crashes, history>>

\* "registration already in progress", or the write fails.
RegisterFails(p) ==
    /\ proc[p].pc = "register"
    /\ Fail(p)
    /\ UNCHANGED <<phase, sessions, store, client, wire, server, links, counters, history>>

ReceiveReply(p) ==
    LET i == proc[p].call IN
    /\ proc[p].pc = "await"
    /\ buf[i] # <<>>
    /\ buf' = [buf EXCEPT ![i] = Tail(@)]
    /\ proc' = [proc EXCEPT ![p].pc = "clear", ![p].reply = Head(buf[i])]
    /\ UNCHANGED <<phase, sessions, store, slot, lis, wire, server, links, counters, history>>

Cancel(p) ==
    /\ p \in CanCancel
    /\ proc[p].pc = "await"
    /\ proc' = [proc EXCEPT ![p].pc = "clear", ![p].reply = Refusal(proc[p].call)]
    /\ UNCHANGED <<phase, sessions, store, client, wire, server, links, counters, history>>

\* Mutant: an error path forgets the slot.
ReleaseSlotUnlessRefused(p) == slot' = IF proc[p].reply.ok THEN NoCall ELSE slot

ReleaseSlot(p) == slot' = NoCall

\* The deferred release of the slot, and what the caller does with the result:
\* CreateSession and the loader put the session into the table, an Immich share
\* first needs a client and an entry in the store.
ClearSlot(p) ==
    LET r == proc[p].reply IN
    /\ proc[p].pc = "clear"
    /\ ReleaseSlot(p)
    /\ IF r.ok
       THEN proc' = [proc EXCEPT ![p].code = r.code, ![p].reply = Refusal(NoCall),
                         ![p].pc = IF p = "load" \/ proc[p].kind = "cloud" THEN "insert" ELSE "client"]
       ELSE Fail(p)
    /\ UNCHANGED <<phase, sessions, store, buf, lis, wire, server, links, counters, history>>

\* A reply, or any error, goes to the call in flight, else to OnMessage, which logs it.
ListenRead ==
    /\ phase # "down"
    /\ down # <<>>
    /\ lis.ch = NoCall
    /\ down' = Tail(down)
    /\ lis' = IF slot = NoCall THEN lis ELSE [ch |-> slot, msg |-> Head(down)]
    /\ UNCHANGED <<agent, store, slot, buf, up, server, links, counters, history>>

ListenDeliver ==
    /\ lis.ch # NoCall
    /\ buf[lis.ch] = <<>>
    /\ buf' = [buf EXCEPT ![lis.ch] = <<lis.msg>>]
    /\ lis' = [ch |-> NoCall, msg |-> Refusal(NoCall)]
    /\ UNCHANGED <<agent, store, slot, wire, server, links, counters, history>>
-----------------------------------------------------------------------------
(* Server, as far as the agent sees it: handleRegisterShare,               *)
(* handleUnregisterShare; each may fail and answer with an error           *)

Answer(r) == down' = Append(down, r)

\* A new code is unused; a preferred one is created or reclaimed.
ServerRegisters ==
    /\ up # <<>> /\ Head(up).type = "register_share"
    /\ up' = Tail(up)
    /\ \/ \E c \in IF Head(up).code = NoCode THEN Fresh \ issued ELSE {Head(up).code} :
             /\ rows' = rows \cup {c}
             /\ issued' = issued \cup ({c} \cap Fresh)
             /\ Answer([ok |-> TRUE, code |-> c, to |-> Head(up).call])
       \/ Answer(Refusal(Head(up).call)) /\ UNCHANGED server
    /\ UNCHANGED <<agent, store, client, links, counters, history>>

\* share_unregistered reaches nobody at the agent; an error does.
ServerUnregisters ==
    /\ up # <<>> /\ Head(up).type = "unregister_share"
    /\ up' = Tail(up)
    /\ \/ rows' = rows \ {Head(up).code} /\ UNCHANGED down
       \/ Answer(Refusal(NoCall)) /\ UNCHANGED rows
    /\ UNCHANGED <<issued, agent, store, client, links, counters, history>>

\* The switch of the agent handler has no case "deregister".
ServerIgnores ==
    /\ up # <<>> /\ Head(up).type = "deregister"
    /\ up' = Tail(up)
    /\ handled' = handled \cup {Head(up).code}
    /\ UNCHANGED <<agent, store, client, down, server, links, counters, kept, gone, back>>

-----------------------------------------------------------------------------
(* CreateSession, createManualImmichSession, registerImmichShare *)

CreateSession(p) ==
    /\ phase = "up" /\ proc[p].pc = "idle"
    /\ proc' = [proc EXCEPT ![p] = [Idle EXCEPT !.pc = "register"]]
    /\ UNCHANGED <<phase, sessions, store, client, wire, server, links, counters, history>>

\* A share that is there already is answered at once.
CreateManual(p, k) ==
    /\ phase = "up" /\ proc[p].pc = "idle"
    /\ sessions[k].kind # "immich"
    /\ proc' = [proc EXCEPT ![p] = [Idle EXCEPT !.pc = "list", !.kind = "immich", !.code = k]]
    /\ UNCHANGED <<phase, sessions, store, client, wire, server, links, counters, history>>

PollShares(p) ==
    /\ proc[p].pc = "list"
    /\ IF proc[p].code \in links THEN Goto(p, "register") ELSE Finish(p)
    /\ UNCHANGED <<phase, sessions, store, client, wire, server, links, counters, history>>

NewImmichClient(p) ==
    /\ proc[p].pc = "client"
    /\ \/ Goto(p, "save") /\ UNCHANGED up
       \/ Fail(p) /\ Send("unregister_share", proc[p].code, NoCall)
    /\ UNCHANGED <<phase, sessions, store, client, down, server, links, counters, history>>

\* A cloud share is inserted and then saved, whatever comes of it; an Immich
\* share is saved and then inserted, or given back to the server.  Nobody looks
\* whether a cloud share is still in the table when it is saved.
Insert(p) ==
    LET c == proc[p].code IN
    /\ proc[p].pc = "insert"
    /\ sessions' = [sessions EXCEPT ![c] = [obj |-> proc[p].call, kind |-> proc[p].kind]]
    /\ IF p \in Callers /\ proc[p].kind = "cloud" THEN Goto(p, "save") ELSE Continue(p)
    /\ UNCHANGED <<phase, store, client, wire, server, links, counters, history>>

SaveCloud(p) ==
    LET c == proc[p].code IN
    /\ proc[p].pc = "save" /\ proc[p].kind = "cloud"
    /\ \E ok \in BOOLEAN :
          /\ SaveSession(c, "cloud", ok)
          /\ kept' = IF ok /\ c \in Fresh THEN kept \cup {c} ELSE kept
    /\ back' = back \cup ({c} \cap gone)
    /\ Finish(p)
    /\ UNCHANGED <<phase, sessions, client, wire, server, links, counters, gone, handled>>

SaveImmich(p) ==
    LET c == proc[p].code IN
    /\ proc[p].pc = "save" /\ proc[p].kind = "immich"
    /\ \/ /\ SaveSession(c, "immich", TRUE)
          /\ Goto(p, "insert")
          /\ UNCHANGED up
       \/ /\ SaveSession(c, "immich", FALSE)
          /\ Send("unregister_share", c, NoCall)
          /\ Fail(p)
    /\ UNCHANGED <<phase, sessions, client, down, server, links, counters, history>>

-----------------------------------------------------------------------------
(* RevokeSession, pruneExpiredSessions: out of the table, out of the store, *)
(* and a message to the server                                              *)

Detach(p, cs) ==
    /\ sessions' = [c \in Codes |-> IF c \in cs THEN NoSession ELSE sessions[c]]
    /\ proc' = [proc EXCEPT ![p] = [Idle EXCEPT !.pc = "drop", !.todo = cs \X {NoCall}]]
    /\ UNCHANGED <<phase, store, client, wire, server, links, counters, history>>

RevokeSession(p, c) ==
    /\ phase = "up" /\ proc[p].pc = "idle"
    /\ sessions[c] # NoSession
    /\ Detach(p, {c})

\* Immich shares have no expiry.
PruneExpired ==
    /\ phase = "up" /\ proc["prune"].pc = "idle"
    /\ \E cs \in SUBSET {c \in Codes : sessions[c].kind = "cloud"} \ {{}} : Detach("prune", cs)

\* A removal counts whether or not the code was in the store and the write succeeded.
Drop(p) ==
    /\ proc[p].pc = "drop"
    /\ \E t \in proc[p].todo, ok \in BOOLEAN :
          /\ DeleteSession(t[1], ok)
          /\ kept' = kept \ {t[1]}
          /\ gone' = gone \cup ({t[1]} \cap Fresh)
          /\ back' = back \ {t[1]}
          /\ proc' = [proc EXCEPT ![p].pc = "tell", ![p].code = t[1], ![p].todo = @ \ {t}]
    /\ UNCHANGED <<phase, sessions, client, wire, server, links, counters, handled>>

TellServer(p) ==
    /\ proc[p].pc = "tell"
    /\ Send("deregister", proc[p].code, NoCall)
    /\ IF proc[p].todo = {} THEN Finish(p) ELSE Goto(p, "drop")
    /\ UNCHANGED <<phase, sessions, store, client, down, server, links, counters, history>>

-----------------------------------------------------------------------------
(* syncImmichShares: first the links that are new, then the shares whose    *)
(* link is gone; any error ends the run                                     *)

StartSync ==
    /\ phase = "up" /\ proc["poll"].pc = "idle"
    /\ syncs < MaxSyncs
    /\ syncs' = syncs + 1
    /\ proc' = [proc EXCEPT !["poll"] = [Idle EXCEPT !.pc = "each", !.todo = links \X {NoCall},
                                                    !.seen = links]]
    /\ UNCHANGED <<phase, sessions, store, client, wire, server, links, calls, crashes, history>>

SyncEach ==
    /\ proc["poll"].pc = "each"
    /\ \E t \in proc["poll"].todo :
          proc' = [proc EXCEPT !["poll"].todo = @ \ {t},
                     !["poll"].code = t[1], !["poll"].kind = "immich",
                     !["poll"].pc = IF sessions[t[1]] = NoSession THEN "register" ELSE "each"]
    /\ UNCHANGED <<phase, sessions, store, client, wire, server, links, counters, history>>

\* Mutant: shares of every kind are taken for Immich shares.
SyncSweepAllKinds ==
    LET left == {c \in Codes : sessions[c] # NoSession /\ c \notin proc["poll"].seen} IN
    /\ proc["poll"].pc = "each" /\ proc["poll"].todo = {}
    /\ IF left = {} THEN Finish("poll")
       ELSE proc' = [proc EXCEPT !["poll"].pc = "remove",
                                 !["poll"].todo = {<<c, sessions[c].obj>> : c \in left}]
    /\ UNCHANGED <<phase, sessions, store, client, wire, server, links, counters, history>>

SyncSweep ==
    LET left == {c \in Codes : sessions[c].kind = "immich" /\ c \notin proc["poll"].seen} IN
    /\ proc["poll"].pc = "each" /\ proc["poll"].todo = {}
    /\ IF left = {} THEN Finish("poll")
       ELSE proc' = [proc EXCEPT !["poll"].pc = "remove",
                                 !["poll"].todo = {<<c, sessions[c].obj>> : c \in left}]
    /\ UNCHANGED <<phase, sessions, store, client, wire, server, links, counters, history>>

\* The channels of the session are closed (SessionChannels), then the server is
\* told; a write that fails ends the run.
SyncUnregister ==
    /\ proc["poll"].pc = "remove"
    /\ \E t \in proc["poll"].todo :
          \/ /\ Send("unregister_share", t[1], NoCall)
             /\ proc' = [proc EXCEPT !["poll"].pc = "delete", !["poll"].todo = @ \ {t},
                                     !["poll"].code = t[1], !["poll"].call = t[2]]
          \/ UNCHANGED up /\ Finish("poll")
    /\ UNCHANGED <<phase, sessions, store, client, down, server, links, counters, history>>

SyncDelete ==
    LET c == proc["poll"].code IN
    /\ proc["poll"].pc = "delete"
    /\ \E ok \in BOOLEAN :
          /\ DeleteSession(c, ok)
          /\ IF ok THEN Goto("poll", "unmap") ELSE Finish("poll")
    /\ kept' = kept \ {c}
    /\ UNCHANGED <<phase, sessions, client, wire, server, links, counters, gone, back, handled>>

SyncUnmap ==
    LET c == proc["poll"].code IN
    /\ proc["poll"].pc = "unmap"
    /\ sessions' = IF sessions[c].obj = proc["poll"].call
                    THEN [sessions EXCEPT ![c] = NoSession] ELSE sessions
    /\ IF proc["poll"].todo = {} THEN Finish("poll") ELSE Goto("poll", "remove")
    /\ UNCHANGED <<phase, store, client, wire, server, links, counters, history>>

-----------------------------------------------------------------------------
(* Start, loadSessionsFromStore and the end of the process *)

\* Entries that have expired are left out.
Start ==
    /\ phase = "down"
    /\ phase' = "load"
    /\ \E ex \in SUBSET {c \in Codes : mem[c] = "cloud"} :
          proc' = [proc EXCEPT !["load"] =
                     [Idle EXCEPT !.pc = "each",
                                  !.todo = {c \in Codes \ ex : mem[c] # "none"} \X {NoCall}]]
    /\ UNCHANGED <<sessions, store, client, wire, server, links, counters, history>>

\* An entry is registered again under its code, or skipped when its client
\* cannot be made.
LoadEach ==
    /\ proc["load"].pc = "each"
    /\ \E t \in proc["load"].todo, pc \in {"register", "each"} :
          proc' = [proc EXCEPT !["load"].todo = @ \ {t}, !["load"].code = t[1],
                              !["load"].kind = mem[t[1]], !["load"].pc = pc]
    /\ UNCHANGED <<phase, sessions, store, client, wire, server, links, counters, history>>

LoadDone ==
    /\ proc["load"].pc = "each" /\ proc["load"].todo = {}
    /\ phase' = "up"
    /\ Finish("load")
    /\ UNCHANGED <<sessions, store, client, wire, server, links, counters, history>>

\* Everything but the file is lost, and with it what the server has not read.
Crash ==
    /\ phase # "down"
    /\ crashes < MaxCrashes
    /\ crashes' = crashes + 1
    /\ phase' = "down"
    /\ sessions' = [c \in Codes |-> NoSession]
    /\ mem' = file /\ UNCHANGED file
    /\ unwritten' = {} /\ back' = back \cup unwritten
    /\ proc' = [p \in Procs |-> IF p \in Callers /\ proc[p].pc # "idle" THEN Done ELSE Idle]
    /\ slot' = NoCall
    /\ buf' = [i \in Calls |-> <<>>]
    /\ lis' = [ch |-> NoCall, msg |-> Refusal(NoCall)]
    /\ up' = <<>> /\ down' = <<>>
    /\ UNCHANGED <<server, links, calls, syncs, kept, gone, handled>>

\* The owner of the photo library adds and removes links.
LinksChange ==
    /\ \E k \in Links : links' = (links \ {k}) \cup ({k} \ links)
    /\ UNCHANGED <<agent, store, client, wire, server, counters, history>>

Register(p) == Claim(p) \/ RegisterFails(p) \/ ReceiveReply(p) \/ Cancel(p) \/ ClearSlot(p)
Immich(p) == PollShares(p) \/ NewImmichClient(p) \/ SaveImmich(p)
Remove(p) == Drop(p) \/ TellServer(p)

Next ==
    \/ \E p \in Procs : Register(p) \/ Insert(p) \/ Immich(p) \/ SaveCloud(p) \/ Remove(p)
    \/ \E p \in Callers : CreateSession(p) \/ \E c \in Codes : RevokeSession(p, c)
    \/ \E p \in Callers, k \in Links : CreateManual(p, k)
    \/ ListenRead \/ ListenDeliver
    \/ ServerRegisters \/ ServerUnregisters \/ ServerIgnores
    \/ PruneExpired
    \/ StartSync \/ SyncEach \/ SyncSweep \/ SyncUnregister \/ SyncDelete \/ SyncUnmap
    \/ Start \/ LoadEach \/ LoadDone \/ Crash
    \/ LinksChange

Spec == Init /\ [][Next]_vars

-----------------------------------------------------------------------------
(* Properties *)

TypeOK ==
    /\ phase \in {"down", "load", "up"}
    /\ sessions \in [Codes -> Session]
    /\ mem \in [Codes -> Entry] /\ file \in [Codes -> Entry]
    /\ proc \in [Procs -> Proc]
    /\ slot \in Calls \cup {NoCall}
    /\ buf \in [Calls -> Seq(Reply)]
    /\ lis \in [ch : Calls \cup {NoCall}, msg : Reply]
    /\ up \in Seq(Request) /\ down \in Seq(Reply)
    /\ rows \subseteq Codes /\ issued \subseteq Fresh /\ links \subseteq Links
    /\ calls \in 0 .. MaxCalls /\ syncs \in 0 .. MaxSyncs /\ crashes \in 0 .. MaxCrashes
    /\ unwritten \subseteq Codes /\ kept \subseteq Codes /\ gone \subseteq Fresh /\ back \subseteq Codes
    /\ handled \subseteq Codes \cup {NoCode}

\* The registration slot belongs to a call that is still going to release it:
\* no cancelled, refused or failed registration leaves the agent answering
\* "registration already in progress" for ever (RegisterShareWithOptions).
SlotHasOwner ==
    slot # NoCall => \E p \in Procs : proc[p].call = slot /\ proc[p].pc \in {"await", "clear"}

\* A share whose creation was saved survives crashes, failed writes of other
\* operations and every other share's removal: it stays in sessions.json until
\* it is removed itself (Store.save writes the whole memory).
Durable == \A c \in kept : file[c] # "none"

\* A share that was revoked or has expired never comes back: not in the table,
\* not in the store.  The code does not promise this: a creator saves its share
\* although it has been revoked since the insertion (CreateSession), and a failed
\* write leaves the entry in the file, where a restart finds it (RevokeSession
\* only logs the error).
RemovedStaysRemoved == \A c \in gone : sessions[c] = NoSession /\ mem[c] = "none"

\* These are the only two ways: a removed share is in the table or the store only
\* if its creator saved it after the removal, or if the process restarted before
\* any write of the file had succeeded after the one that failed to remove it.
\* The next write of any share takes it out of the file.
ReturnsExplained ==
    \A c \in gone \ back :
        /\ sessions[c] = NoSession /\ mem[c] = "none"
        /\ file[c] # "none" => c \in unwritten

\* Across crashes and failed writes sessions.json is the truth about shares:
\* what was saved is there until it is removed, and what was removed comes back
\* in no other way than the two that the code leaves open.
StoreFaithful == Durable /\ ReturnsExplained

\* The code a request was given is registered with the server for as long as
\* the share exists, although replies of cancelled registrations reach later
\* ones and the poller gives codes back.
KeptResolves == kept \subseteq rows

\* A code the server was told to deregister is not registered any more
\* (RevokeSession: "deregistering it from the signaling server").
Deregistered == handled \cap rows = {}

\* The reply a registration returns answers that registration (pendingReg:
\* "receives the response for the RegisterShare call currently in flight").
ReplyIsMine ==
    \A p \in Procs : proc[p].pc = "clear" => proc[p].reply.to = proc[p].call

\* The only reader of the socket never waits for a caller that will not come:
\* a full response channel belongs to a call that is still going to read it.
ListenGoesOn ==
    lis.ch # NoCall /\ buf[lis.ch] # <<>> =>
        \E p \in Procs : proc[p].call = lis.ch /\ proc[p].pc = "await"

=============================================================================
