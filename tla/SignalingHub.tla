----------------------------- MODULE SignalingHub -----------------------------
(***************************************************************************)
(* The signaling server: the Hub's routing tables (hub/hub.go,             *)
(* hub/ownership.go), the agent and browser WebSocket handlers             *)
(* (handler/agent_ws.go, handler/browser_ws.go), the sessions table and    *)
(* the revocation and rotation of API keys (handler/api_keys.go).          *)
(*                                                                         *)
(* Every critical section of Hub.mu and every database statement or        *)
(* transaction is one action; between two of them a handler is at its      *)
(* program counter.  A handler is named by the socket it serves, and a     *)
(* browser's socket also stands for its connID.  Sending to a socket looks *)
(* at nothing but the socket, so it belongs to the step that chose it.     *)
(***************************************************************************)
EXTENDS Integers, FiniteSets

CONSTANTS
    Keys,       \* API keys
    Account,    \* key -> its account
    Agents,     \* agent sockets
    KeyOf,      \* agent socket -> the key it authenticates with
    Browsers,   \* browser sockets
    Codes,      \* share codes
    CodeOf,     \* browser socket -> the code it opens
    FailKinds,  \* "auth_failed" (HMAC) and "auth_fail" (Immich password)
    FailLimit,  \* kind -> failures after which the browser is closed
    MaxRows,    \* bound on the session records created
    None

\* The entries of the sessions table, of Hub.pairs and of Hub.browserOwners.
Row == [id : Nat, key : Keys]
Pair == [key : Keys, agent : Agents, browser : Browsers]
Owner == [key : Keys, code : Codes, agent : Agents]

ASSUME HubAssumption ==
    /\ KeyOf \in [Agents -> Keys] /\ CodeOf \in [Browsers -> Codes]
    /\ Agents \cap Browsers = {}
    /\ FailLimit \in [FailKinds -> Nat \ {0}]
    /\ MaxRows \in Nat
    /\ None \notin Keys \cup Agents \cup Browsers \cup Codes \cup Pair

VARIABLES
    keyState,   \* api_keys: "absent", "active", "revoking" (is_active is false,
                \* CloseAgent has not run yet), "revoked"
    rows,       \* sessions table: code -> [id, key] or None
    made,       \* session records created
    agents,     \* Hub.agents: key -> agent socket
    codes,      \* Hub.codes: code -> key
    pairs,      \* Hub.pairs: code -> [key, agent, browser]
    owners,     \* Hub.browserOwners (and connBrowsers): browser -> [key, code, agent]
    fails,      \* Hub.connFails and connImmichFails: browser -> kind -> count
    closing,    \* key -> sockets its CloseAgent still has to close
    conn,       \* socket -> "new", "open", "closed"
    apc, arg,   \* agent socket -> where its handler is, and with what
    enrolled,   \* agent socket -> its handler's agentID is set
    bpc, bkey,  \* browser -> where its handler is, and the key it looked up
    joined,     \* browsers whose join an agent has received
    foreign,    \* history: browsers sent a message of another key's agent
    latest,     \* history: key -> the socket that said hello last
    kept        \* history: browser -> its code has stayed with its key

dbVars == <<keyState, rows, made>>
hubVars == <<agents, codes, pairs, owners, fails>>
browserVars == <<bpc, bkey, joined>>
historyVars == <<foreign, latest, kept>>
vars == <<keyState, rows, made, agents, codes, pairs, owners, fails, closing,
          conn, apc, arg, enrolled, bpc, bkey, joined, foreign, latest, kept>>

Sockets == Agents \cup Browsers

Init ==
    /\ keyState \in [Keys -> {"absent", "active"}]
    /\ rows = [c \in Codes |-> None] /\ made = 0
    /\ agents = [k \in Keys |-> None]
    /\ codes = [c \in Codes |-> None]
    /\ pairs = [c \in Codes |-> None]
    /\ owners = [b \in Browsers |-> None]
    /\ fails = [b \in Browsers |-> [f \in FailKinds |-> 0]]
    /\ closing = [k \in Keys |-> {}]
    /\ conn = [x \in Sockets |-> "new"]
    /\ apc = [a \in Agents |-> "auth"] /\ arg = [a \in Agents |-> None]
    /\ enrolled = [a \in Agents |-> FALSE]
    /\ bpc = [b \in Browsers |-> "lookup"] /\ bkey = [b \in Browsers |-> None]
    /\ joined = {}
    /\ foreign = {}
    /\ latest = [k \in Keys |-> None]
    /\ kept = [b \in Browsers |-> FALSE]

AgentGoto(a, label, x) ==
    /\ apc' = [apc EXCEPT ![a] = label]
    /\ arg' = [arg EXCEPT ![a] = x]

AgentAt(a, label) == apc[a] = label /\ UNCHANGED <<conn, enrolled, browserVars, closing>>

\* History: the browsers whose code is no longer theirs once codes is newCodes.
Keeping(newCodes) ==
    [b \in Browsers |-> kept[b] /\ newCodes[CodeOf[b]] = bkey[b]]

\* The client goes away, or the network does.
Disconnect(x) ==
    /\ conn[x] = "open"
    /\ conn' = [conn EXCEPT ![x] = "closed"]
    /\ UNCHANGED <<dbVars, hubVars, closing, apc, arg, enrolled, browserVars,
                   historyVars>>

------------------------------------------------------------------------------
(* Who may send to whom                                                    *)

AgentOwnsSession(a, c) == agents[KeyOf[a]] = a /\ codes[c] = KeyOf[a]

\* browserForAgentLocked
BrowserForAgent(a, b) ==
    /\ owners[b] # None
    /\ owners[b].key = KeyOf[a] /\ owners[b].agent = a
    /\ AgentOwnsSession(a, owners[b].code)

\* Mutant: whoever owns the code may write to the browser that is paired.
PairForAgentLoose(a, c) == pairs[c] # None /\ AgentOwnsSession(a, c)

\* ForwardToBrowser's check
PairForAgent(a, c) ==
    /\ pairs[c] # None
    /\ AgentOwnsSession(a, c) /\ pairs[c].agent = a

\* Browser b is sent a message of agent a.
Tell(a, b) == foreign' = IF KeyOf[a] = bkey[b] THEN foreign ELSE foreign \cup {b}

------------------------------------------------------------------------------
(* The agent handler                                                       *)

\* APIKeyAuth and the upgrade
Connect(a) ==
    /\ apc[a] = "auth" /\ keyState[KeyOf[a]] = "active"
    /\ conn' = [conn EXCEPT ![a] = "open"]
    /\ AgentGoto(a, "loop", None)
    /\ UNCHANGED <<dbVars, hubVars, closing, enrolled, browserVars, historyVars>>

\* Mutant: a reconnecting agent does not take over the browsers.
RebindNothing(k, a) == UNCHANGED <<pairs, owners>>

\* RegisterAgent: the browsers the key still owns follow it to the new socket.
Rebind(k, a) ==
    /\ pairs' = [c \in Codes |->
            IF pairs[c] # None /\ codes[c] = k /\ pairs[c].key = k
            THEN [pairs[c] EXCEPT !.agent = a] ELSE pairs[c]]
    /\ owners' = [b \in Browsers |->
            IF owners[b] # None /\ owners[b].key = k /\ codes[owners[b].code] = k
            THEN [owners[b] EXCEPT !.agent = a] ELSE owners[b]]

\* A hello, accepted once for each socket
Hello(a) ==
    /\ conn[a] = "open" /\ apc[a] = "loop" /\ ~enrolled[a]
    /\ enrolled' = [enrolled EXCEPT ![a] = TRUE]
    /\ agents' = [agents EXCEPT ![KeyOf[a]] = a]
    /\ Rebind(KeyOf[a], a)
    /\ latest' = [latest EXCEPT ![KeyOf[a]] = a]
    /\ UNCHANGED <<dbVars, codes, fails, closing, conn, apc, arg, browserVars,
                   foreign, kept>>

\* A message is read and passes the fence IsCurrentAgent; one from a replaced
\* socket is dropped.
Accept(a) ==
    /\ conn[a] = "open" /\ apc[a] = "loop"
    /\ enrolled[a] /\ agents[KeyOf[a]] = a

RegisterShare(a, c) ==
    /\ Accept(a)
    /\ AgentGoto(a, "claim", c)
    /\ UNCHANGED <<dbVars, hubVars, closing, conn, enrolled, browserVars, historyVars>>

\* claimSessionCode, or createSession for a random code: a transaction.
Claim(a) ==
    LET c == arg[a] IN
    /\ AgentAt(a, "claim")
    /\ \/ /\ rows[c] = None /\ made < MaxRows
          /\ rows' = [rows EXCEPT ![c] = [id |-> made, key |-> KeyOf[a]]]
          /\ made' = made + 1
          /\ AgentGoto(a, "registerCode", c)
       \/ /\ rows[c] # None /\ Account[rows[c].key] = Account[KeyOf[a]]
          /\ rows' = [rows EXCEPT ![c].key = KeyOf[a]]
          /\ AgentGoto(a, "registerCode", c)
          /\ UNCHANGED made
       \/ \* another account's, another agent's, or a database error
          /\ AgentGoto(a, "loop", None)
          /\ UNCHANGED <<rows, made>>
    /\ UNCHANGED <<keyState, hubVars, historyVars>>

RegisterCode(a) ==
    /\ AgentAt(a, "registerCode")
    /\ codes' = [codes EXCEPT ![arg[a]] = KeyOf[a]]
    /\ kept' = Keeping(codes')
    /\ AgentGoto(a, "loop", None)
    /\ UNCHANGED <<dbVars, agents, pairs, owners, fails, foreign, latest>>

UnregisterShare(a, c) ==
    /\ Accept(a)
    /\ AgentGoto(a, "find", c)
    /\ UNCHANGED <<dbVars, hubVars, closing, conn, enrolled, browserVars, historyVars>>

\* handleUnregisterShare: getSessionByCode and the ownership test ...
FindShare(a) ==
    LET row == rows[arg[a]] IN
    /\ AgentAt(a, "find")
    /\ \/ /\ row # None /\ row.key = KeyOf[a]
          /\ AgentGoto(a, "delete", [code |-> arg[a], id |-> row.id])
       \/ \* no session, another key's, or a database error
          AgentGoto(a, "loop", None)
    /\ UNCHANGED <<dbVars, hubVars, historyVars>>

\* ... Delete, by record id, which may fail ...
DeleteShare(a) ==
    LET c == arg[a].code IN
    /\ AgentAt(a, "delete")
    /\ \/ /\ rows' = IF rows[c] # None /\ rows[c].id = arg[a].id
                     THEN [rows EXCEPT ![c] = None] ELSE rows
          /\ AgentGoto(a, "unregisterCode", c)
       \/ /\ AgentGoto(a, "loop", None)
          /\ UNCHANGED rows
    /\ UNCHANGED <<keyState, made, hubVars, historyVars>>

\* ... UnregisterCode's critical section ...
UnregisterCode(a) ==
    LET c == arg[a] IN
    /\ AgentAt(a, "unregisterCode")
    /\ IF codes[c] = KeyOf[a]
       THEN /\ codes' = [codes EXCEPT ![c] = None]
            /\ pairs' = [pairs EXCEPT ![c] = None]
            /\ kept' = Keeping(codes')
            /\ IF pairs[c] # None THEN AgentGoto(a, "closeBrowser", pairs[c].browser)
                                  ELSE AgentGoto(a, "loop", None)
       ELSE /\ AgentGoto(a, "loop", None)
            /\ UNCHANGED <<codes, pairs, kept>>
    /\ UNCHANGED <<dbVars, agents, owners, fails, foreign, latest>>

\* ... and the end of the browser that was paired.
CloseBrowser(a) ==
    /\ apc[a] = "closeBrowser"
    /\ conn' = [conn EXCEPT ![arg[a]] = "closed"]
    /\ AgentGoto(a, "loop", None)
    /\ UNCHANGED <<dbVars, hubVars, closing, enrolled, browserVars, historyVars>>

\* The offer an agent makes after browser j has joined: ForwardToBrowser.
\* ICE candidates take the same way.
Offer(a, j) ==
    /\ Accept(a) /\ j \in joined
    /\ PairForAgent(a, CodeOf[j])
    /\ Tell(a, pairs[CodeOf[j]].browser)
    /\ UNCHANGED <<dbVars, hubVars, closing, conn, apc, arg, enrolled,
                   browserVars, latest, kept>>

\* ForwardToBrowserByConnID
Nonce(a, b) ==
    /\ Accept(a) /\ BrowserForAgent(a, b)
    /\ Tell(a, b)
    /\ UNCHANGED <<dbVars, hubVars, closing, conn, apc, arg, enrolled,
                   browserVars, latest, kept>>

\* auth_ok: the binding and the session record are looked up, a relay session
\* may be prepared (RelayRegistry, RelayQuota), then the policy is forwarded.
AuthOk(a, b) ==
    /\ Accept(a) /\ BrowserForAgent(a, b)
    /\ AgentGoto(a, "session", b)
    /\ UNCHANGED <<dbVars, hubVars, closing, conn, enrolled, browserVars, historyVars>>

FindSession(a) ==
    LET row == rows[CodeOf[arg[a]]] IN
    /\ AgentAt(a, "session")
    /\ \/ /\ row # None /\ row.key = KeyOf[a]
          /\ AgentGoto(a, "policy", arg[a])
       \/ \* no session, another key's, or a database error
          AgentGoto(a, "loop", None)
    /\ UNCHANGED <<dbVars, hubVars, historyVars>>

RelayPolicy(a) ==
    /\ AgentAt(a, "policy")
    /\ IF BrowserForAgent(a, arg[a]) THEN Tell(a, arg[a]) ELSE UNCHANGED foreign
    /\ AgentGoto(a, "loop", None)
    /\ UNCHANGED <<dbVars, hubVars, latest, kept>>

\* auth_failed and auth_fail: IncrementAuthFailure, IncrementImmichAuthFailure
\* (only whether the limit is reached matters, so the count stops there) ...
AuthFailed(a, b, f) ==
    /\ Accept(a) /\ BrowserForAgent(a, b)
    /\ fails' = [fails EXCEPT ![b][f] = IF @ < FailLimit[f] THEN @ + 1 ELSE @]
    /\ AgentGoto(a, "judge", [browser |-> b, over |-> fails'[b][f] = FailLimit[f]])
    /\ UNCHANGED <<dbVars, agents, codes, pairs, owners, closing, conn, enrolled,
                   browserVars, historyVars>>

\* ... then CloseBrowserConnWithError, or the remaining attempts.  Both check
\* the binding again.
Judge(a) ==
    LET b == arg[a].browser IN
    /\ apc[a] = "judge"
    /\ IF BrowserForAgent(a, b)
       THEN /\ conn' = IF arg[a].over THEN [conn EXCEPT ![b] = "closed"] ELSE conn
            /\ Tell(a, b)
       ELSE UNCHANGED <<conn, foreign>>
    /\ AgentGoto(a, "loop", None)
    /\ UNCHANGED <<dbVars, hubVars, closing, enrolled, browserVars, latest, kept>>

\* Mutant: the entry is removed whoever holds it.
UnregisterAgentAny(a) == agents' = [agents EXCEPT ![KeyOf[a]] = None]

UnregisterAgent(a) ==
    agents' = IF agents[KeyOf[a]] = a THEN [agents EXCEPT ![KeyOf[a]] = None] ELSE agents

\* The read fails and the handler returns.
AgentGone(a) ==
    /\ conn[a] = "closed" /\ apc[a] = "loop"
    /\ IF enrolled[a] THEN UnregisterAgent(a) ELSE UNCHANGED agents
    /\ AgentGoto(a, "done", None)
    /\ UNCHANGED <<dbVars, codes, pairs, owners, fails, closing, conn, enrolled,
                   browserVars, historyVars>>

------------------------------------------------------------------------------
(* The browser handler                                                     *)

\* The session is looked up and the socket accepted.
Open(b) ==
    /\ bpc[b] = "lookup" /\ rows[CodeOf[b]] # None
    /\ bkey' = [bkey EXCEPT ![b] = rows[CodeOf[b]].key]
    /\ bpc' = [bpc EXCEPT ![b] = "pair"]
    /\ conn' = [conn EXCEPT ![b] = "open"]
    /\ UNCHANGED <<dbVars, hubVars, closing, apc, arg, enrolled, joined, historyVars>>

\* GetAgentConn and PairSession; without an agent the handler returns.
PairSession(b) ==
    LET c == CodeOf[b]
        k == bkey[b]
    IN  /\ bpc[b] = "pair"
        /\ \/ /\ codes[c] = k /\ agents[k] # None
              /\ pairs' = [pairs EXCEPT ![c] = [key |-> k, agent |-> agents[k], browser |-> b]]
              /\ owners' = [owners EXCEPT ![b] = [key |-> k, code |-> c, agent |-> agents[k]]]
              /\ bpc' = [bpc EXCEPT ![b] = "loop"]
              /\ kept' = [kept EXCEPT ![b] = TRUE]
              /\ UNCHANGED conn
           \/ /\ codes[c] # k \/ agents[k] = None
              /\ conn' = [conn EXCEPT ![b] = "closed"]
              /\ bpc' = [bpc EXCEPT ![b] = "done"]
              /\ UNCHANGED <<pairs, owners, kept>>
        /\ UNCHANGED <<dbVars, agents, codes, fails, closing, apc, arg, enrolled,
                       bkey, joined, foreign, latest>>

\* A join (like a knock or a submitted password) goes to the key's agent.
Join(b) ==
    /\ bpc[b] = "loop" /\ conn[b] = "open" /\ agents[bkey[b]] # None
    /\ joined' = joined \cup {b}
    /\ UNCHANGED <<dbVars, hubVars, closing, conn, apc, arg, enrolled, bpc, bkey,
                   historyVars>>

\* The read fails, or the account or its quota rules the session out: the
\* deferred UnregisterBrowserConn ...
BrowserGone(b) ==
    /\ bpc[b] = "loop" /\ conn[b] = "closed"
    /\ owners' = [owners EXCEPT ![b] = None]
    /\ fails' = [fails EXCEPT ![b] = [f \in FailKinds |-> 0]]
    /\ bpc' = [bpc EXCEPT ![b] = "unpair"]
    /\ UNCHANGED <<dbVars, agents, codes, pairs, closing, conn, apc, arg, enrolled,
                   bkey, joined, historyVars>>

\* Mutant: only another browser's pair is removed.
StillCurrentNot(b) == pairs[CodeOf[b]] # None /\ pairs[CodeOf[b]].browser # b

\* Mutant: whoever is paired is removed.
StillCurrentAny(b) == pairs[CodeOf[b]] # None

StillCurrent(b) == pairs[CodeOf[b]] # None /\ pairs[CodeOf[b]].browser = b

\* ... and UnpairSession.
UnpairSession(b) ==
    /\ bpc[b] = "unpair"
    /\ pairs' = IF StillCurrent(b) THEN [pairs EXCEPT ![CodeOf[b]] = None] ELSE pairs
    /\ bpc' = [bpc EXCEPT ![b] = "done"]
    /\ UNCHANGED <<dbVars, agents, codes, owners, fails, closing, conn, apc, arg,
                   enrolled, bkey, joined, historyVars>>

------------------------------------------------------------------------------
(* Keys and sessions                                                       *)

\* RevokeAPIKey saves is_active = false ...
RevokeKey(k) ==
    /\ keyState[k] = "active"
    /\ keyState' = [keyState EXCEPT ![k] = "revoking"]
    /\ UNCHANGED <<rows, made, hubVars, closing, conn, apc, arg, enrolled,
                   browserVars, historyVars>>

\* ... RotateAPIKey makes a new key and moves the sessions in a transaction ...
RotateKey(k, new) ==
    /\ keyState[k] = "active" /\ keyState[new] = "absent"
    /\ Account[new] = Account[k]
    /\ keyState' = [keyState EXCEPT ![k] = "revoking", ![new] = "active"]
    /\ rows' = [c \in Codes |->
            IF rows[c] # None /\ rows[c].key = k
            THEN [rows[c] EXCEPT !.key = new] ELSE rows[c]]
    /\ UNCHANGED <<made, hubVars, closing, conn, apc, arg, enrolled, browserVars,
                   historyVars>>

\* ... and both call CloseAgent: the tables first, then the sockets.
CloseAgent(k) ==
    LET stale == {c \in Codes : codes[c] = k} IN
    /\ keyState[k] = "revoking"
    /\ keyState' = [keyState EXCEPT ![k] = "revoked"]
    /\ agents' = [agents EXCEPT ![k] = None]
    /\ codes' = [c \in Codes |-> IF c \in stale THEN None ELSE codes[c]]
    /\ pairs' = [c \in Codes |-> IF c \in stale THEN None ELSE pairs[c]]
    /\ closing' = [closing EXCEPT ![k] = ({agents[k]} \ {None}) \cup
                        {pairs[c].browser : c \in {d \in stale : pairs[d] # None}}]
    /\ kept' = Keeping(codes')
    /\ UNCHANGED <<rows, made, owners, fails, conn, apc, arg, enrolled,
                   browserVars, foreign, latest>>

CloseSocket(k, x) ==
    /\ x \in closing[k]
    /\ closing' = [closing EXCEPT ![k] = @ \ {x}]
    /\ conn' = [conn EXCEPT ![x] = "closed"]
    /\ UNCHANGED <<dbVars, hubVars, apc, arg, enrolled, browserVars, historyVars>>

\* deleteExpiredSessions, run by cron, touches the table only.
ExpireRow(c) ==
    /\ rows[c] # None
    /\ rows' = [rows EXCEPT ![c] = None]
    /\ UNCHANGED <<keyState, made, hubVars, closing, conn, apc, arg, enrolled,
                   browserVars, historyVars>>

------------------------------------------------------------------------------
HandlerStep(a) ==
    \/ Claim(a) \/ RegisterCode(a) \/ FindShare(a) \/ DeleteShare(a)
    \/ UnregisterCode(a) \/ CloseBrowser(a) \/ FindSession(a) \/ RelayPolicy(a)
    \/ Judge(a) \/ AgentGone(a)

Message(a) ==
    \/ Hello(a)
    \/ \E c \in Codes : RegisterShare(a, c) \/ UnregisterShare(a, c)
    \/ \E b \in Browsers :
        \/ Offer(a, b) \/ Nonce(a, b) \/ AuthOk(a, b)
        \/ \E f \in FailKinds : AuthFailed(a, b, f)

BrowserStep(b) == Open(b) \/ PairSession(b) \/ Join(b) \/ BrowserGone(b) \/ UnpairSession(b)

Admin ==
    \/ \E k \in Keys :
        \/ RevokeKey(k) \/ CloseAgent(k)
        \/ \E new \in Keys : RotateKey(k, new)
        \/ \E x \in Sockets : CloseSocket(k, x)
    \/ \E c \in Codes : ExpireRow(c)

Next ==
    \/ \E x \in Sockets : Disconnect(x)
    \/ \E a \in Agents : Connect(a) \/ Message(a) \/ HandlerStep(a)
    \/ \E b \in Browsers : BrowserStep(b)
    \/ Admin

Spec == Init /\ [][Next]_vars

------------------------------------------------------------------------------
(* Properties                                                              *)

\* The browser is its code's pair.
Paired(b) == \E c \in Codes : pairs[c] # None /\ pairs[c].browser = b

\* What a handler carries from one step to the next.
Args == Codes \cup Browsers \cup {None} \cup [code : Codes, id : Nat]
            \cup [browser : Browsers, over : BOOLEAN]

\* The tables, the handlers' locals and the histories have their types.
TypeOK ==
    /\ keyState \in [Keys -> {"absent", "active", "revoking", "revoked"}]
    /\ rows \in [Codes -> Row \cup {None}] /\ made \in Nat
    /\ agents \in [Keys -> Agents \cup {None}]
    /\ codes \in [Codes -> Keys \cup {None}]
    /\ pairs \in [Codes -> Pair \cup {None}]
    /\ owners \in [Browsers -> Owner \cup {None}]
    /\ fails \in [Browsers -> [FailKinds -> Nat]]
    /\ closing \in [Keys -> SUBSET Sockets]
    /\ conn \in [Sockets -> {"new", "open", "closed"}]
    /\ apc \in [Agents -> {"auth", "loop", "claim", "registerCode", "find", "delete",
                           "unregisterCode", "closeBrowser", "session", "policy",
                           "judge", "done"}]
    /\ arg \in [Agents -> Args]
    /\ enrolled \in [Agents -> BOOLEAN]
    /\ bpc \in [Browsers -> {"lookup", "pair", "loop", "unpair", "done"}]
    /\ bkey \in [Browsers -> Keys \cup {None}]
    /\ joined \subseteq Browsers
    /\ foreign \subseteq Browsers
    /\ latest \in [Keys -> Agents \cup {None}]
    /\ kept \in [Browsers -> BOOLEAN]

\* CHANGELOG.md:12, "Scope agent-to-browser signaling and relay policy to the
\* owning API key": a browser is sent messages of agents of one key only, the
\* one that owned the share when the browser opened it, whatever is reconnected,
\* reassigned, rotated, removed or registered again meanwhile.
Scoped == foreign = {}

\* "while preserving agent reconnects" (hub.go:54-56): while the code stays with
\* the key, a browser and its pair are bound to the key's present agent socket,
\* so the new socket's answers reach it.
NotStranded ==
    \A b \in Browsers :
        owners[b] # None /\ kept[b] /\ agents[bkey[b]] # None =>
            /\ owners[b].agent = agents[bkey[b]]
            /\ Paired(b) => pairs[CodeOf[b]].agent = agents[bkey[b]]

\* A handler that has returned left nothing in the Hub: no code resolves to a
\* dead agent and no offer goes to a browser that has left.
NoGhosts ==
    /\ \A b \in Browsers : bpc[b] = "done" => owners[b] = None /\ ~Paired(b)
    /\ \A a \in Agents : apc[a] = "done" => \A k \in Keys : agents[k] # a

\* "old disconnect removed the replacement" (ownership_test.go:26) never happens:
\* the socket that said hello last serves its key until its handler returns or
\* the key is revoked.
LatestServes ==
    \A k \in Keys :
        latest[k] # None /\ apc[latest[k]] # "done" /\ keyState[k] # "revoked" =>
            agents[k] = latest[k]

\* "only if the caller is cleaning up the browser connection that is still
\* current" (hub.go:149-150): a pair ends with its code, or when its own browser
\* leaves, never by the late exit of a browser it replaced.
PairOutlivesOthers ==
    [][\A c \in Codes : pairs[c] # None /\ pairs'[c] = None =>
          codes'[c] # codes[c] \/ bpc'[pairs[c].browser] = "done"]_vars

\* 2026-04-06-slice-10a-accounts-design.md:177: CloseAgent removes the code
\* mappings of the key "so revoked shares stop resolving immediately".
RevokedStopsResolving ==
    \A k \in Keys : keyState[k] = "revoked" => \A c \in Codes : codes[c] # k
==============================================================================
