-------------------------- MODULE SignalingHubProofs --------------------------
(***************************************************************************)
(* The signaling server keeps keys apart, serves the latest socket of each *)
(* key, strands no browser on a reconnect and keeps no ghost, for any      *)
(* number of keys, agents, browsers and codes.                             *)
(***************************************************************************)
EXTENDS SignalingHub, TLAPS

\* What each step of an agent's handler carries.
ArgOK ==
    \A a \in Agents :
        /\ apc[a] \in {"claim", "registerCode", "find", "unregisterCode"} => arg[a] \in Codes
        /\ apc[a] = "delete" => arg[a] \in [code : Codes, id : Nat]
        /\ apc[a] \in {"session", "policy", "closeBrowser"} => arg[a] \in Browsers
        /\ apc[a] = "judge" => arg[a] \in [browser : Browsers, over : BOOLEAN]

\* A browser past its lookup knows its key.
KeyKnown == \A b \in Browsers : bpc[b] # "lookup" => bkey[b] \in Keys

\* Hub.agents holds the latest socket of each key, whose handler still runs.
AgentOK ==
    \A k \in Keys : agents[k] # None =>
        /\ agents[k] = latest[k] /\ KeyOf[agents[k]] = k
        /\ enrolled[agents[k]] /\ apc[agents[k]] # "done"

\* A pair joins a browser that has not left to an agent of the key it opened.
PairOK ==
    \A c \in Codes : pairs[c] # None =>
        /\ CodeOf[pairs[c].browser] = c
        /\ pairs[c].key = bkey[pairs[c].browser]
        /\ KeyOf[pairs[c].agent] = bkey[pairs[c].browser]
        /\ bpc[pairs[c].browser] \in {"loop", "unpair"}

\* So does a binding in Hub.browserOwners.
OwnerOK ==
    \A b \in Browsers : owners[b] # None =>
        /\ owners[b].code = CodeOf[b] /\ owners[b].key = bkey[b]
        /\ KeyOf[owners[b].agent] = bkey[b]
        /\ bpc[b] = "loop"

\* The history variable kept means what it says.
KeptOK == \A b \in Browsers : kept[b] => codes[CodeOf[b]] = bkey[b] /\ bpc[b] # "lookup"

\* NotStranded, for the pair and for the binding.
PairFollows ==
    \A c \in Codes : pairs[c] # None /\ kept[pairs[c].browser] =>
        agents[bkey[pairs[c].browser]] \in {None, pairs[c].agent}

OwnerFollows ==
    \A b \in Browsers : owners[b] # None /\ kept[b] =>
        agents[bkey[b]] \in {None, owners[b].agent}

\* LatestServes, for one key.
ServesOK ==
    \A k \in Keys :
        latest[k] # None => /\ KeyOf[latest[k]] = k
                            /\ apc[latest[k]] # "done" /\ keyState[k] # "revoked" => agents[k] = latest[k]

------------------------------------------------------------------------------
(* Types                                                                   *)

TypeInv == TypeOK /\ ArgOK /\ KeyKnown

Pcs == {"auth", "loop", "claim", "registerCode", "find", "delete", "unregisterCode",
        "closeBrowser", "session", "policy", "judge", "done"}

\* Moving one handler to a label that its argument suits keeps ArgOK and the
\* types of apc and arg.
LEMMA GotoTyped ==
    ASSUME TypeInv, NEW a \in Agents, NEW label \in Pcs, NEW x \in Args,
           AgentGoto(a, label, x),
           label \in {"claim", "registerCode", "find", "unregisterCode"} => x \in Codes,
           label = "delete" => x \in [code : Codes, id : Nat],
           label \in {"session", "policy", "closeBrowser"} => x \in Browsers,
           label = "judge" => x \in [browser : Browsers, over : BOOLEAN]
    PROVE  apc' \in [Agents -> Pcs] /\ arg' \in [Agents -> Args] /\ ArgOK'
<1>1. apc \in [Agents -> Pcs] /\ arg \in [Agents -> Args]
    BY DEF TypeInv, TypeOK, Pcs
<1>2. apc' \in [Agents -> Pcs] /\ arg' \in [Agents -> Args]
    BY <1>1 DEF AgentGoto
<1>3. ASSUME NEW d \in Agents
      PROVE  IF d = a THEN apc'[d] = label /\ arg'[d] = x
                      ELSE apc'[d] = apc[d] /\ arg'[d] = arg[d]
    BY <1>1 DEF AgentGoto
<1>4. ArgOK'
    BY <1>3 DEF TypeInv, ArgOK
<1> QED
    BY <1>2, <1>4

\* Going back to the read loop carries nothing.
LEMMA LoopTyped ==
    ASSUME TypeInv, NEW a \in Agents, NEW label \in {"loop", "done"},
           AgentGoto(a, label, None)
    PROVE  apc' \in [Agents -> Pcs] /\ arg' \in [Agents -> Args] /\ ArgOK'
<1>1. label \in Pcs /\ None \in Args
    BY DEF Pcs, Args
<1> QED
    BY <1>1, GotoTyped

USE DEF dbVars, hubVars, browserVars, historyVars

\* The types hold at the start.
LEMMA InitTypeInv == Init => TypeInv
BY HubAssumption DEF Init, TypeInv, TypeOK, ArgOK, KeyKnown, Args, Sockets

\* Every step of an agent's handler keeps the types.
LEMMA HandlerTyped ==
    ASSUME TypeInv, NEW a \in Agents, HandlerStep(a)
    PROVE  TypeInv'
<1> USE HubAssumption
<1> DEFINE Goto == apc' \in [Agents -> Pcs] /\ arg' \in [Agents -> Args] /\ ArgOK'
<1>1. CASE Claim(a)
  <2>1. arg[a] \in Codes
    BY <1>1 DEF Claim, AgentAt, TypeInv, ArgOK
  <2>2. AgentGoto(a, "registerCode", arg[a]) \/ AgentGoto(a, "loop", None)
    BY <1>1 DEF Claim
  <2>3. Goto
    BY <2>1, <2>2, GotoTyped, LoopTyped DEF Pcs, Args
  <2>4. rows' \in [Codes -> Row \cup {None}] /\ made' \in Nat
    <3>1. [id |-> made, key |-> KeyOf[a]] \in Row
        BY DEF TypeInv, TypeOK, Row
    <3>2. rows[arg[a]] \in Row => [rows[arg[a]] EXCEPT !.key = KeyOf[a]] \in Row
        BY DEF Row
    <3>3. rows[arg[a]] \in Row \cup {None}
        BY <2>1 DEF TypeInv, TypeOK
    <3>4. \/ /\ rows' = [rows EXCEPT ![arg[a]] = [id |-> made, key |-> KeyOf[a]]]
             /\ made' = made + 1
          \/ /\ rows' = [rows EXCEPT ![arg[a]] = [rows[arg[a]] EXCEPT !.key = KeyOf[a]]]
             /\ rows[arg[a]] # None /\ made' = made
          \/ rows' = rows /\ made' = made
        BY <1>1 DEF Claim
    <3>5. rows \in [Codes -> Row \cup {None}] /\ made \in Nat
        BY DEF TypeInv, TypeOK
    <3> QED
        BY <2>1, <3>1, <3>2, <3>3, <3>4, <3>5
  <2> QED
    BY <1>1, <2>3, <2>4 DEF Claim, AgentAt, TypeInv, TypeOK, KeyKnown, Pcs
<1>2. CASE RegisterCode(a)
  <2>1. Goto
    BY <1>2, LoopTyped DEF RegisterCode
  <2>2. codes' \in [Codes -> Keys \cup {None}] /\ kept' \in [Browsers -> BOOLEAN]
    BY <1>2 DEF RegisterCode, Keeping, TypeInv, TypeOK
  <2> QED
    BY <1>2, <2>1, <2>2 DEF RegisterCode, AgentAt, TypeInv, TypeOK, KeyKnown, Pcs
<1>3. CASE FindShare(a)
  <2>1. arg[a] \in Codes
    BY <1>3 DEF FindShare, AgentAt, TypeInv, ArgOK
  <2>2. \/ /\ AgentGoto(a, "delete", [code |-> arg[a], id |-> rows[arg[a]].id])
           /\ rows[arg[a]] # None
        \/ AgentGoto(a, "loop", None)
    BY <1>3 DEF FindShare
  <2>3. rows[arg[a]] # None => [code |-> arg[a], id |-> rows[arg[a]].id] \in [code : Codes, id : Nat]
    BY <2>1 DEF TypeInv, TypeOK, Row
  <2>4. Goto
    BY <2>1, <2>2, <2>3, GotoTyped, LoopTyped DEF Pcs, Args
  <2> QED
    BY <1>3, <2>4 DEF FindShare, AgentAt, TypeInv, TypeOK, KeyKnown, Pcs
<1>4. CASE DeleteShare(a)
  <2>1. arg[a].code \in Codes
    BY <1>4 DEF DeleteShare, AgentAt, TypeInv, ArgOK
  <2>2. Goto
    BY <1>4, <2>1, GotoTyped DEF DeleteShare, Pcs, Args
  <2>3. rows' \in [Codes -> Row \cup {None}]
    BY <1>4, <2>1 DEF DeleteShare, TypeInv, TypeOK
  <2> QED
    BY <1>4, <2>2, <2>3 DEF DeleteShare, AgentAt, TypeInv, TypeOK, KeyKnown, Pcs
<1>5. CASE UnregisterCode(a)
  <2>1. arg[a] \in Codes
    BY <1>5 DEF UnregisterCode, AgentAt, TypeInv, ArgOK
  <2>2. \/ AgentGoto(a, "closeBrowser", pairs[arg[a]].browser) /\ pairs[arg[a]] # None
        \/ AgentGoto(a, "loop", None)
    BY <1>5 DEF UnregisterCode
  <2>3. pairs[arg[a]] # None => pairs[arg[a]].browser \in Browsers
    BY <2>1 DEF TypeInv, TypeOK, Pair
  <2>4. Goto
    BY <2>1, <2>2, <2>3, GotoTyped, LoopTyped DEF Pcs, Args
  <2>5. /\ codes' \in [Codes -> Keys \cup {None}]
        /\ pairs' \in [Codes -> Pair \cup {None}]
    <3>1. /\ codes' = codes \/ codes' = [codes EXCEPT ![arg[a]] = None]
          /\ pairs' = pairs \/ pairs' = [pairs EXCEPT ![arg[a]] = None]
      BY <1>5 DEF UnregisterCode
    <3>2. codes \in [Codes -> Keys \cup {None}] /\ pairs \in [Codes -> Pair \cup {None}]
      BY DEF TypeInv, TypeOK
    <3> QED
      BY <2>1, <3>1, <3>2
  <2>6. kept' \in [Browsers -> BOOLEAN]
    <3>1. kept' = Keeping(codes') \/ kept' = kept
        BY <1>5 DEF UnregisterCode
    <3>2. CASE kept' = Keeping(codes')
        BY <3>2 DEF Keeping, TypeInv, TypeOK
    <3>3. CASE kept' = kept
        BY <3>3 DEF TypeInv, TypeOK
    <3> QED
        BY <3>1, <3>2, <3>3
  <2> QED
    BY <1>5, <2>4, <2>5, <2>6 DEF UnregisterCode, AgentAt, TypeInv, TypeOK, KeyKnown, Pcs
<1>6. CASE CloseBrowser(a)
  <2>1. Goto
    BY <1>6, LoopTyped DEF CloseBrowser
  <2>2. conn' \in [Sockets -> {"new", "open", "closed"}]
    BY <1>6 DEF CloseBrowser, TypeInv, TypeOK
  <2> QED
    BY <1>6, <2>1, <2>2 DEF CloseBrowser, TypeInv, TypeOK, KeyKnown, Pcs
<1>7. CASE FindSession(a)
  <2>1. arg[a] \in Browsers
    BY <1>7 DEF FindSession, AgentAt, TypeInv, ArgOK
  <2>2. AgentGoto(a, "policy", arg[a]) \/ AgentGoto(a, "loop", None)
    BY <1>7 DEF FindSession
  <2>3. Goto
    BY <2>1, <2>2, GotoTyped, LoopTyped DEF Pcs, Args
  <2> QED
    BY <1>7, <2>3 DEF FindSession, AgentAt, TypeInv, TypeOK, KeyKnown, Pcs
<1>8. CASE RelayPolicy(a)
  <2>1. arg[a] \in Browsers
    BY <1>8 DEF RelayPolicy, AgentAt, TypeInv, ArgOK
  <2>2. Goto
    BY <1>8, LoopTyped DEF RelayPolicy
  <2>3. foreign' \subseteq Browsers
    BY <1>8, <2>1 DEF RelayPolicy, Tell, TypeInv, TypeOK
  <2> QED
    BY <1>8, <2>2, <2>3 DEF RelayPolicy, AgentAt, TypeInv, TypeOK, KeyKnown, Pcs
<1>9. CASE Judge(a)
  <2>1. arg[a].browser \in Browsers
    BY <1>9 DEF Judge, TypeInv, ArgOK
  <2>2. Goto
    BY <1>9, LoopTyped DEF Judge
  <2>3. foreign' \subseteq Browsers /\ conn' \in [Sockets -> {"new", "open", "closed"}]
    BY <1>9, <2>1 DEF Judge, Tell, TypeInv, TypeOK
  <2> QED
    BY <1>9, <2>2, <2>3 DEF Judge, TypeInv, TypeOK, KeyKnown, Pcs
<1>10. CASE AgentGone(a)
  <2>1. Goto
    BY <1>10, LoopTyped DEF AgentGone
  <2>2. agents' \in [Keys -> Agents \cup {None}]
    <3>1. agents' = agents \/ agents' = [agents EXCEPT ![KeyOf[a]] = None]
      BY <1>10 DEF AgentGone, UnregisterAgent
    <3>2. agents \in [Keys -> Agents \cup {None}]
      BY DEF TypeInv, TypeOK
    <3> QED
      BY <3>1, <3>2
  <2> QED
    BY <1>10, <2>1, <2>2 DEF AgentGone, TypeInv, TypeOK, KeyKnown, Pcs
<1> QED
    BY <1>1, <1>2, <1>3, <1>4, <1>5, <1>6, <1>7, <1>8, <1>9, <1>10 DEF HandlerStep

\* Every message an agent sends keeps the types.
LEMMA MessageTyped ==
    ASSUME TypeInv, NEW a \in Agents, Message(a)
    PROVE  TypeInv'
<1> USE HubAssumption
<1> DEFINE Goto == apc' \in [Agents -> Pcs] /\ arg' \in [Agents -> Args] /\ ArgOK'
<1>1. CASE Hello(a)
  <2>1. /\ agents' \in [Keys -> Agents \cup {None}]
        /\ latest' \in [Keys -> Agents \cup {None}]
        /\ enrolled' \in [Agents -> BOOLEAN]
    BY <1>1 DEF Hello, TypeInv, TypeOK
  <2>2. pairs' \in [Codes -> Pair \cup {None}]
    <3>1. \A p \in Pair : [p EXCEPT !.agent = a] \in Pair
        BY DEF Pair
    <3> QED
        BY <1>1, <3>1 DEF Hello, Rebind, TypeInv, TypeOK
  <2>3. owners' \in [Browsers -> Owner \cup {None}]
    <3>1. \A o \in Owner : [o EXCEPT !.agent = a] \in Owner
        BY DEF Owner
    <3> QED
        BY <1>1, <3>1 DEF Hello, Rebind, TypeInv, TypeOK
  <2> QED
    BY <1>1, <2>1, <2>2, <2>3 DEF Hello, TypeInv, TypeOK, ArgOK, KeyKnown
<1>2. ASSUME NEW c \in Codes, RegisterShare(a, c) \/ UnregisterShare(a, c)
      PROVE  TypeInv'
  <2>1. Goto
    BY <1>2, GotoTyped DEF RegisterShare, UnregisterShare, Pcs, Args
  <2> QED
    BY <1>2, <2>1 DEF RegisterShare, UnregisterShare, TypeInv, TypeOK, KeyKnown, Pcs
<1>3. ASSUME NEW b \in Browsers, Offer(a, b)
      PROVE  TypeInv'
  <2>1. CodeOf[b] \in Codes /\ pairs[CodeOf[b]] # None
    BY <1>3 DEF Offer, PairForAgent
  <2>2. foreign' \subseteq Browsers
    BY <1>3, <2>1 DEF Offer, Tell, TypeInv, TypeOK, Pair
  <2> QED
    BY <1>3, <2>2 DEF Offer, TypeInv, TypeOK, ArgOK, KeyKnown
<1>4. ASSUME NEW b \in Browsers, Nonce(a, b)
      PROVE  TypeInv'
    BY <1>4 DEF Nonce, Tell, TypeInv, TypeOK, ArgOK, KeyKnown
<1>5. ASSUME NEW b \in Browsers, AuthOk(a, b)
      PROVE  TypeInv'
  <2>1. Goto
    BY <1>5, GotoTyped DEF AuthOk, Pcs, Args
  <2> QED
    BY <1>5, <2>1 DEF AuthOk, TypeInv, TypeOK, KeyKnown, Pcs
<1>6. ASSUME NEW b \in Browsers, NEW f \in FailKinds, AuthFailed(a, b, f)
      PROVE  TypeInv'
  <2>1. fails' \in [Browsers -> [FailKinds -> Nat]]
    BY <1>6 DEF AuthFailed, TypeInv, TypeOK
  <2>2. Goto
    BY <1>6, GotoTyped DEF AuthFailed, Pcs, Args
  <2> QED
    BY <1>6, <2>1, <2>2 DEF AuthFailed, TypeInv, TypeOK, KeyKnown, Pcs
<1> QED
    BY <1>1, <1>2, <1>3, <1>4, <1>5, <1>6 DEF Message

\* Every step of a browser's handler keeps the types.
LEMMA BrowserTyped ==
    ASSUME TypeInv, NEW b \in Browsers, BrowserStep(b)
    PROVE  TypeInv'
<1> USE HubAssumption
<1>1. CASE Open(b)
  <2>1. CodeOf[b] \in Codes /\ rows[CodeOf[b]].key \in Keys
    BY <1>1 DEF Open, TypeInv, TypeOK, Row
  <2> QED
    BY <1>1, <2>1 DEF Open, TypeInv, TypeOK, ArgOK, KeyKnown
<1>2. CASE PairSession(b)
  <2>1. CodeOf[b] \in Codes /\ bkey[b] \in Keys
    BY <1>2 DEF PairSession, TypeInv, KeyKnown
  <2>2. /\ pairs' \in [Codes -> Pair \cup {None}]
        /\ owners' \in [Browsers -> Owner \cup {None}]
    <3>1. agents[bkey[b]] # None =>
            /\ [key |-> bkey[b], agent |-> agents[bkey[b]], browser |-> b] \in Pair
            /\ [key |-> bkey[b], code |-> CodeOf[b], agent |-> agents[bkey[b]]] \in Owner
        BY <2>1 DEF TypeInv, TypeOK, Pair, Owner
    <3>2. \/ /\ agents[bkey[b]] # None
             /\ pairs' = [pairs EXCEPT ![CodeOf[b]] =
                    [key |-> bkey[b], agent |-> agents[bkey[b]], browser |-> b]]
             /\ owners' = [owners EXCEPT ![b] =
                    [key |-> bkey[b], code |-> CodeOf[b], agent |-> agents[bkey[b]]]]
          \/ pairs' = pairs /\ owners' = owners
        BY <1>2 DEF PairSession
    <3>3. pairs \in [Codes -> Pair \cup {None}] /\ owners \in [Browsers -> Owner \cup {None}]
        BY DEF TypeInv, TypeOK
    <3> QED
        BY <2>1, <3>1, <3>2, <3>3
  <2>3. /\ conn' \in [Sockets -> {"new", "open", "closed"}]
        /\ bpc' \in [Browsers -> {"lookup", "pair", "loop", "unpair", "done"}]
    <3>1. /\ conn' = conn \/ conn' = [conn EXCEPT ![b] = "closed"]
          /\ bpc' = [bpc EXCEPT ![b] = "loop"] \/ bpc' = [bpc EXCEPT ![b] = "done"]
        BY <1>2 DEF PairSession
    <3> QED
        BY <3>1 DEF TypeInv, TypeOK
  <2>4. kept' \in [Browsers -> BOOLEAN]
    <3>1. kept' = [kept EXCEPT ![b] = TRUE] \/ kept' = kept
        BY <1>2 DEF PairSession
    <3>2. kept \in [Browsers -> BOOLEAN]
        BY DEF TypeInv, TypeOK
    <3> QED
        BY <3>1, <3>2
  <2> QED
    BY <1>2, <2>1, <2>2, <2>3, <2>4 DEF PairSession, TypeInv, TypeOK, ArgOK, KeyKnown
<1>3. CASE Join(b)
    BY <1>3 DEF Join, TypeInv, TypeOK, ArgOK, KeyKnown
<1>4. CASE BrowserGone(b)
    BY <1>4 DEF BrowserGone, TypeInv, TypeOK, ArgOK, KeyKnown
<1>5. CASE UnpairSession(b)
    BY <1>5 DEF UnpairSession, TypeInv, TypeOK, ArgOK, KeyKnown
<1> QED
    BY <1>1, <1>2, <1>3, <1>4, <1>5 DEF BrowserStep

\* Revocation, rotation and expiry keep the types.
LEMMA AdminTyped ==
    ASSUME TypeInv, Admin
    PROVE  TypeInv'
<1> USE HubAssumption
<1>1. ASSUME NEW k \in Keys, RevokeKey(k)
      PROVE  TypeInv'
    BY <1>1 DEF RevokeKey, TypeInv, TypeOK, ArgOK, KeyKnown
<1>2. ASSUME NEW k \in Keys, CloseAgent(k)
      PROVE  TypeInv'
  <2>1. /\ agents' \in [Keys -> Agents \cup {None}]
        /\ codes' \in [Codes -> Keys \cup {None}]
        /\ keyState' \in [Keys -> {"absent", "active", "revoking", "revoked"}]
        /\ kept' \in [Browsers -> BOOLEAN]
    BY <1>2 DEF CloseAgent, Keeping, TypeInv, TypeOK
  <2>2. pairs' \in [Codes -> Pair \cup {None}]
    BY <1>2 DEF CloseAgent, TypeInv, TypeOK
  <2>3. closing' \in [Keys -> SUBSET Sockets]
    <3> DEFINE Ends == ({agents[k]} \ {None}) \cup
                  {pairs[c].browser : c \in {d \in {e \in Codes : codes[e] = k} : pairs[d] # None}}
    <3>1. Ends \subseteq Sockets
        BY DEF TypeInv, TypeOK, Sockets, Pair
    <3>2. closing' = [closing EXCEPT ![k] = Ends]
        BY <1>2 DEF CloseAgent
    <3> HIDE DEF Ends
    <3> QED
        BY <3>1, <3>2 DEF TypeInv, TypeOK
  <2> QED
    BY <1>2, <2>1, <2>2, <2>3 DEF CloseAgent, TypeInv, TypeOK, ArgOK, KeyKnown
<1>3. ASSUME NEW k \in Keys, NEW new \in Keys, RotateKey(k, new)
      PROVE  TypeInv'
  <2>1. rows' \in [Codes -> Row \cup {None}]
    <3>1. \A r \in Row : [r EXCEPT !.key = new] \in Row
        BY DEF Row
    <3> QED
        BY <1>3, <3>1 DEF RotateKey, TypeInv, TypeOK
  <2> QED
    BY <1>3, <2>1 DEF RotateKey, TypeInv, TypeOK, ArgOK, KeyKnown
<1>4. ASSUME NEW k \in Keys, NEW x \in Sockets, CloseSocket(k, x)
      PROVE  TypeInv'
    BY <1>4 DEF CloseSocket, TypeInv, TypeOK, ArgOK, KeyKnown
<1>5. ASSUME NEW c \in Codes, ExpireRow(c)
      PROVE  TypeInv'
    BY <1>5 DEF ExpireRow, TypeInv, TypeOK, ArgOK, KeyKnown
<1> QED
    BY <1>1, <1>2, <1>3, <1>4, <1>5 DEF Admin

\* Every step of the server keeps the types.
LEMMA NextTypeInv == TypeInv /\ [Next]_vars => TypeInv'
<1> SUFFICES ASSUME TypeInv, [Next]_vars PROVE TypeInv'
    OBVIOUS
<1> USE HubAssumption
<1>1. ASSUME NEW x \in Sockets, Disconnect(x)
      PROVE  TypeInv'
    BY <1>1 DEF Disconnect, TypeInv, TypeOK, ArgOK, KeyKnown
<1>2. ASSUME NEW a \in Agents, Connect(a)
      PROVE  TypeInv'
  <2>1. apc' \in [Agents -> Pcs] /\ arg' \in [Agents -> Args] /\ ArgOK'
    BY <1>2, LoopTyped DEF Connect
  <2> QED
    BY <1>2, <2>1 DEF Connect, TypeInv, TypeOK, KeyKnown, Pcs
<1>3. CASE UNCHANGED vars
    BY <1>3 DEF vars, TypeInv, TypeOK, ArgOK, KeyKnown
<1> QED
    BY <1>1, <1>2, <1>3, MessageTyped, HandlerTyped, BrowserTyped, AdminTyped DEF Next

\* The tables, the handlers' locals and the histories keep their types.
THEOREM TypeCorrect == Spec => []TypeOK
<1>1. TypeInv => TypeOK
    BY DEF TypeInv
<1> QED
    BY <1>1, InitTypeInv, NextTypeInv, PTL DEF Spec

------------------------------------------------------------------------------
(* The tables agree                                                        *)

RelInv ==
    /\ AgentOK /\ PairOK /\ OwnerOK /\ KeptOK
    /\ PairFollows /\ OwnerFollows /\ ServesOK

\* Nothing is enrolled, replaced or gone.
QuietAgents ==
    /\ UNCHANGED <<agents, latest, enrolled>>
    /\ \A a \in Agents : apc'[a] = "done" <=> apc[a] = "done"
    /\ \A k \in Keys : keyState[k] = "revoked" => keyState'[k] = "revoked"

\* Nothing is routed anew.
QuietBrowsers == UNCHANGED <<codes, pairs, owners, bpc, bkey, kept>>

\* A handler that goes on to another label has not returned.
LEMMA GotoQuiet ==
    ASSUME TypeInv, NEW a \in Agents, NEW label, NEW x, AgentGoto(a, label, x),
           label # "done", apc[a] # "done"
    PROVE  \A d \in Agents : apc'[d] = "done" <=> apc[d] = "done"
<1>1. apc \in [Agents -> Pcs]
    BY DEF TypeInv, TypeOK, Pcs
<1>2. \A d \in Agents : apc'[d] = IF d = a THEN label ELSE apc[d]
    BY <1>1 DEF AgentGoto
<1> QED
    BY <1>2

\* Most steps of a handler leave the routing alone.
LEMMA HandlerQuiet ==
    ASSUME TypeInv, NEW a \in Agents, HandlerStep(a)
    PROVE  \/ QuietAgents /\ QuietBrowsers
           \/ QuietAgents /\ (RegisterCode(a) \/ UnregisterCode(a))
           \/ AgentGone(a)
<1>1. CASE Claim(a)
    BY <1>1, GotoQuiet DEF Claim, AgentAt, QuietAgents, QuietBrowsers
<1>2. CASE RegisterCode(a)
    BY <1>2, GotoQuiet DEF RegisterCode, AgentAt, QuietAgents
<1>3. CASE FindShare(a)
    BY <1>3, GotoQuiet DEF FindShare, AgentAt, QuietAgents, QuietBrowsers
<1>4. CASE DeleteShare(a)
    BY <1>4, GotoQuiet DEF DeleteShare, AgentAt, QuietAgents, QuietBrowsers
<1>5. CASE UnregisterCode(a)
    BY <1>5, GotoQuiet DEF UnregisterCode, AgentAt, QuietAgents
<1>6. CASE CloseBrowser(a)
    BY <1>6, GotoQuiet DEF CloseBrowser, QuietAgents, QuietBrowsers
<1>7. CASE FindSession(a)
    BY <1>7, GotoQuiet DEF FindSession, AgentAt, QuietAgents, QuietBrowsers
<1>8. CASE RelayPolicy(a)
    BY <1>8, GotoQuiet DEF RelayPolicy, AgentAt, QuietAgents, QuietBrowsers
<1>9. CASE Judge(a)
    BY <1>9, GotoQuiet DEF Judge, QuietAgents, QuietBrowsers
<1> QED
    BY <1>1, <1>2, <1>3, <1>4, <1>5, <1>6, <1>7, <1>8, <1>9 DEF HandlerStep

\* So do the messages, but for the first.
LEMMA MessageQuiet ==
    ASSUME TypeInv, NEW a \in Agents, Message(a)
    PROVE  (QuietAgents /\ QuietBrowsers) \/ Hello(a)
<1>1. ASSUME NEW c \in Codes, RegisterShare(a, c) \/ UnregisterShare(a, c)
      PROVE  QuietAgents /\ QuietBrowsers
    BY <1>1, GotoQuiet DEF RegisterShare, UnregisterShare, Accept, QuietAgents, QuietBrowsers
<1>2. ASSUME NEW b \in Browsers, Offer(a, b) \/ Nonce(a, b)
      PROVE  QuietAgents /\ QuietBrowsers
    BY <1>2 DEF Offer, Nonce, QuietAgents, QuietBrowsers
<1>3. ASSUME NEW b \in Browsers, AuthOk(a, b)
      PROVE  QuietAgents /\ QuietBrowsers
    BY <1>3, GotoQuiet DEF AuthOk, Accept, QuietAgents, QuietBrowsers
<1>4. ASSUME NEW b \in Browsers, NEW f \in FailKinds, AuthFailed(a, b, f)
      PROVE  QuietAgents /\ QuietBrowsers
    BY <1>4, GotoQuiet DEF AuthFailed, Accept, QuietAgents, QuietBrowsers
<1> QED
    BY <1>1, <1>2, <1>3, <1>4 DEF Message

\* So do the steps of a browser and of the administrator but for these.
LEMMA OtherQuiet ==
    ASSUME TypeInv
    PROVE  /\ \A b \in Browsers : BrowserStep(b) =>
                /\ QuietAgents
                /\ QuietBrowsers \/ Open(b) \/ PairSession(b) \/ BrowserGone(b) \/ UnpairSession(b)
           /\ Admin => (QuietAgents /\ QuietBrowsers) \/ \E k \in Keys : CloseAgent(k)
           /\ \A x \in Sockets : Disconnect(x) => QuietAgents /\ QuietBrowsers
           /\ \A a \in Agents : Connect(a) => QuietAgents /\ QuietBrowsers
           /\ UNCHANGED vars => QuietAgents /\ QuietBrowsers
<1>1. ASSUME NEW b \in Browsers, BrowserStep(b)
      PROVE  /\ QuietAgents
             /\ QuietBrowsers \/ Open(b) \/ PairSession(b) \/ BrowserGone(b) \/ UnpairSession(b)
    BY <1>1 DEF BrowserStep, Open, PairSession, Join, BrowserGone, UnpairSession,
                QuietAgents, QuietBrowsers
<1>2. ASSUME NEW k \in Keys, RevokeKey(k)
      PROVE  QuietAgents /\ QuietBrowsers
    BY <1>2 DEF RevokeKey, QuietAgents, QuietBrowsers, TypeInv, TypeOK
<1>3. ASSUME NEW k \in Keys, NEW new \in Keys, RotateKey(k, new)
      PROVE  QuietAgents /\ QuietBrowsers
    BY <1>3 DEF RotateKey, QuietAgents, QuietBrowsers, TypeInv, TypeOK
<1>4. ASSUME NEW k \in Keys, NEW x \in Sockets, CloseSocket(k, x)
      PROVE  QuietAgents /\ QuietBrowsers
    BY <1>4 DEF CloseSocket, QuietAgents, QuietBrowsers
<1>5. ASSUME NEW c \in Codes, ExpireRow(c)
      PROVE  QuietAgents /\ QuietBrowsers
    BY <1>5 DEF ExpireRow, QuietAgents, QuietBrowsers
<1>6. Admin => (QuietAgents /\ QuietBrowsers) \/ \E k \in Keys : CloseAgent(k)
    BY <1>2, <1>3, <1>4, <1>5 DEF Admin
<1>7. ASSUME NEW x \in Sockets, Disconnect(x)
      PROVE  QuietAgents /\ QuietBrowsers
    BY <1>7 DEF Disconnect, QuietAgents, QuietBrowsers
<1>8. ASSUME NEW a \in Agents, Connect(a)
      PROVE  QuietAgents /\ QuietBrowsers
    BY <1>8, GotoQuiet DEF Connect, QuietAgents, QuietBrowsers
<1>9. UNCHANGED vars => QuietAgents /\ QuietBrowsers
    BY DEF vars, QuietAgents, QuietBrowsers
<1> QED
    BY <1>1, <1>6, <1>7, <1>8, <1>9

\* The tables agree at the start.
LEMMA InitRelInv == Init => RelInv
BY HubAssumption DEF Init, RelInv, AgentOK, PairOK, OwnerOK, KeptOK, PairFollows,
    OwnerFollows, ServesOK

\* A quiet step keeps them in agreement.
LEMMA QuietRelInv ==
    ASSUME TypeInv, RelInv, QuietAgents, QuietBrowsers
    PROVE  RelInv'
<1>1. /\ \A k \in Keys : agents[k] # None => agents[k] \in Agents
      /\ \A k \in Keys : latest[k] # None => latest[k] \in Agents
    BY DEF TypeInv, TypeOK
<1>2. AgentOK' /\ ServesOK'
    BY <1>1 DEF RelInv, AgentOK, ServesOK, QuietAgents
<1>3. PairOK' /\ OwnerOK' /\ KeptOK' /\ PairFollows' /\ OwnerFollows'
    BY DEF RelInv, PairOK, OwnerOK, KeptOK, PairFollows, OwnerFollows, QuietAgents,
        QuietBrowsers
<1> QED
    BY <1>2, <1>3 DEF RelInv

\* Steps that leave Hub.agents alone keep what is said of it.
LEMMA QuietAgentOK ==
    ASSUME TypeInv, RelInv, QuietAgents
    PROVE  AgentOK' /\ ServesOK'
<1>1. /\ \A k \in Keys : agents[k] # None => agents[k] \in Agents
      /\ \A k \in Keys : latest[k] # None => latest[k] \in Agents
    BY DEF TypeInv, TypeOK
<1> QED
    BY <1>1 DEF RelInv, AgentOK, ServesOK, QuietAgents

\* RegisterAgent: the browsers that still belong to the key follow it.
LEMMA HelloRelInv ==
    ASSUME TypeInv, RelInv, NEW a \in Agents, Hello(a)
    PROVE  RelInv'
<1> USE HubAssumption
<1> DEFINE key == KeyOf[a]
<1>1. /\ key \in Keys
      /\ agents \in [Keys -> Agents \cup {None}] /\ latest \in [Keys -> Agents \cup {None}]
      /\ enrolled \in [Agents -> BOOLEAN]
    BY DEF TypeInv, TypeOK
<1>2. /\ \A k \in Keys : agents'[k] = IF k = key THEN a ELSE agents[k]
      /\ \A k \in Keys : latest'[k] = IF k = key THEN a ELSE latest[k]
    BY <1>1 DEF Hello
<1>3. /\ enrolled'[a] /\ \A d \in Agents : d # a => enrolled'[d] = enrolled[d]
      /\ apc[a] = "loop"
      /\ UNCHANGED <<apc, keyState, codes, bpc, bkey, kept>>
    BY <1>1 DEF Hello
<1>4. \A c \in Codes : pairs'[c] =
            IF pairs[c] # None /\ codes[c] = key /\ pairs[c].key = key
            THEN [pairs[c] EXCEPT !.agent = a] ELSE pairs[c]
    BY DEF Hello, Rebind
<1>5. \A b \in Browsers : owners'[b] =
            IF owners[b] # None /\ owners[b].key = key /\ codes[owners[b].code] = key
            THEN [owners[b] EXCEPT !.agent = a] ELSE owners[b]
    BY DEF Hello, Rebind
<1>6. ASSUME NEW c \in Codes, pairs'[c] # None
      PROVE  /\ pairs[c] # None /\ pairs[c] \in Pair /\ pairs'[c] \in Pair
             /\ pairs'[c].key = pairs[c].key /\ pairs'[c].browser = pairs[c].browser
             /\ pairs'[c].agent = IF codes[c] = key /\ pairs[c].key = key THEN a ELSE pairs[c].agent
  <2>1. pairs[c] \in Pair \cup {None}
    BY DEF TypeInv, TypeOK
  <2>2. pairs[c] # None
    BY <1>4, <1>6
  <2>3. CASE codes[c] = key /\ pairs[c].key = key
    BY <1>4, <2>1, <2>2, <2>3 DEF Pair
  <2>4. CASE ~(codes[c] = key /\ pairs[c].key = key)
    BY <1>4, <2>1, <2>2, <2>4 DEF Pair
  <2> QED
    BY <2>3, <2>4
<1>7. ASSUME NEW b \in Browsers, owners'[b] # None
      PROVE  /\ owners[b] # None /\ owners[b] \in Owner
             /\ owners'[b].key = owners[b].key /\ owners'[b].code = owners[b].code
             /\ owners'[b].agent = IF owners[b].key = key /\ codes[owners[b].code] = key
                                   THEN a ELSE owners[b].agent
  <2>1. owners[b] \in Owner \cup {None}
    BY DEF TypeInv, TypeOK
  <2>2. owners[b] # None
    BY <1>5, <1>7
  <2>3. CASE owners[b].key = key /\ codes[owners[b].code] = key
    BY <1>5, <2>1, <2>2, <2>3 DEF Owner
  <2>4. CASE ~(owners[b].key = key /\ codes[owners[b].code] = key)
    BY <1>5, <2>1, <2>2, <2>4 DEF Owner
  <2> QED
    BY <2>3, <2>4
<1> HIDE DEF key
<1>8. AgentOK'
    BY <1>1, <1>2, <1>3 DEF RelInv, AgentOK, key
<1>9. ServesOK'
    BY <1>1, <1>2, <1>3 DEF RelInv, ServesOK, key
<1>10. PairOK'
    BY <1>3, <1>6 DEF RelInv, PairOK, key
<1>11. OwnerOK'
    BY <1>3, <1>7 DEF RelInv, OwnerOK, key
<1>12. KeptOK'
    BY <1>3 DEF RelInv, KeptOK
<1>13. PairFollows'
  <2> SUFFICES ASSUME NEW c \in Codes, pairs'[c] # None, kept'[pairs'[c].browser]
               PROVE  agents'[bkey'[pairs'[c].browser]] \in {None, pairs'[c].agent}
    BY DEF PairFollows
  <2> DEFINE b == pairs[c].browser
  <2>1. b \in Browsers /\ pairs[c] # None /\ kept[b] /\ pairs'[c].browser = b
    BY <1>3, <1>6 DEF Pair
  <2>2. CodeOf[b] = c /\ pairs[c].key = bkey[b] /\ codes[c] = bkey[b] /\ bkey[b] \in Keys
    BY <2>1 DEF RelInv, PairOK, KeptOK, TypeInv, KeyKnown
  <2>3. agents[bkey[b]] \in {None, pairs[c].agent}
    BY <2>1 DEF RelInv, PairFollows
  <2> QED
    BY <1>2, <1>3, <1>6, <2>1, <2>2, <2>3
<1>14. OwnerFollows'
  <2> SUFFICES ASSUME NEW b \in Browsers, owners'[b] # None, kept'[b]
               PROVE  agents'[bkey'[b]] \in {None, owners'[b].agent}
    BY DEF OwnerFollows
  <2>1. owners[b] # None /\ kept[b]
    BY <1>3, <1>7
  <2>2. owners[b].code = CodeOf[b] /\ owners[b].key = bkey[b] /\ codes[CodeOf[b]] = bkey[b]
        /\ bkey[b] \in Keys
    BY <2>1 DEF RelInv, OwnerOK, KeptOK, TypeInv, KeyKnown
  <2>3. agents[bkey[b]] \in {None, owners[b].agent}
    BY <2>1 DEF RelInv, OwnerFollows
  <2> QED
    BY <1>2, <1>3, <1>7, <2>1, <2>2, <2>3
<1> QED
    BY <1>8, <1>9, <1>10, <1>11, <1>12, <1>13, <1>14 DEF RelInv

\* A step that only takes codes and pairs away, or gives a code to another key,
\* keeps the rest in agreement: what is kept and what is paired was so before.
LEMMA FewerPairs ==
    ASSUME TypeInv, RelInv, UNCHANGED <<agents, bpc, bkey>>,
           \A c \in Codes : pairs'[c] \in {None, pairs[c]},
           \A b \in Browsers : owners'[b] \in {None, owners[b]},
           \A b \in Browsers : kept'[b] => kept[b]
    PROVE  PairOK' /\ OwnerOK' /\ PairFollows' /\ OwnerFollows'
<1>1. \A c \in Codes : pairs[c] # None => pairs[c].browser \in Browsers
    BY DEF TypeInv, TypeOK, Pair
<1>2. PairOK'
    BY DEF RelInv, PairOK
<1>3. OwnerOK'
    BY DEF RelInv, OwnerOK
<1>4. PairFollows'
    BY <1>1 DEF RelInv, PairFollows
<1>5. OwnerFollows'
    BY DEF RelInv, OwnerFollows
<1> QED
    BY <1>2, <1>3, <1>4, <1>5

\* RegisterCode: the browsers of the code's former key are no longer kept.
LEMMA RegisterCodeRelInv ==
    ASSUME TypeInv, RelInv, NEW a \in Agents, RegisterCode(a), QuietAgents
    PROVE  RelInv'
<1>1. UNCHANGED <<pairs, owners, agents, bpc, bkey>>
    BY DEF RegisterCode, AgentAt
<1>2. \A b \in Browsers : kept'[b] = (kept[b] /\ codes'[CodeOf[b]] = bkey[b])
    BY DEF RegisterCode, Keeping
<1>3. PairOK' /\ OwnerOK' /\ PairFollows' /\ OwnerFollows'
    BY <1>1, <1>2, FewerPairs
<1>4. KeptOK'
    BY <1>1, <1>2 DEF RelInv, KeptOK
<1> QED
    BY <1>3, <1>4, QuietAgentOK DEF RelInv

\* UnregisterCode: the pair goes with the code.
LEMMA UnregisterCodeRelInv ==
    ASSUME TypeInv, RelInv, NEW a \in Agents, UnregisterCode(a), QuietAgents
    PROVE  RelInv'
<1>1. UNCHANGED <<owners, agents, bpc, bkey>>
    BY DEF UnregisterCode, AgentAt
<1>2. CASE codes[arg[a]] = KeyOf[a]
  <2>1. pairs' = [pairs EXCEPT ![arg[a]] = None]
    BY <1>2 DEF UnregisterCode
  <2>2. \A c \in Codes : pairs'[c] \in {None, pairs[c]}
    BY <2>1 DEF TypeInv, TypeOK
  <2>3. \A b \in Browsers : kept'[b] = (kept[b] /\ codes'[CodeOf[b]] = bkey[b])
    BY <1>2 DEF UnregisterCode, Keeping
  <2>4. PairOK' /\ OwnerOK' /\ PairFollows' /\ OwnerFollows'
    BY <1>1, <2>2, <2>3, FewerPairs
  <2>5. KeptOK'
    BY <1>1, <2>3 DEF RelInv, KeptOK
  <2> QED
    BY <2>4, <2>5, QuietAgentOK DEF RelInv
<1>3. CASE codes[arg[a]] # KeyOf[a]
  <2>1. QuietBrowsers
    BY <1>1, <1>3 DEF UnregisterCode, QuietBrowsers
  <2> QED
    BY <2>1, QuietRelInv
<1> QED
    BY <1>2, <1>3

\* UnregisterAgent: only the latest socket takes its key away.
LEMMA AgentGoneRelInv ==
    ASSUME TypeInv, RelInv, NEW a \in Agents, AgentGone(a)
    PROVE  RelInv'
<1> USE HubAssumption
<1>1. /\ KeyOf[a] \in Keys /\ agents \in [Keys -> Agents \cup {None}]
      /\ latest \in [Keys -> Agents \cup {None}] /\ apc \in [Agents -> Pcs]
    BY DEF TypeInv, TypeOK, Pcs
<1>2. /\ UNCHANGED <<keyState, codes, pairs, owners, bpc, bkey, kept, latest, enrolled>>
      /\ apc' = [apc EXCEPT ![a] = "done"]
    BY DEF AgentGone, AgentGoto
<1>3. \A k \in Keys : agents'[k] = IF agents[k] = a THEN None ELSE agents[k]
  <2>1. CASE enrolled[a]
    BY <1>1, <2>1 DEF AgentGone, UnregisterAgent, RelInv, AgentOK
  <2>2. CASE ~enrolled[a]
    BY <1>1, <2>2 DEF AgentGone, RelInv, AgentOK
  <2> QED
    BY <2>1, <2>2
<1>4. AgentOK'
    BY <1>1, <1>2, <1>3 DEF RelInv, AgentOK
<1>5. ServesOK'
    BY <1>1, <1>2, <1>3 DEF RelInv, ServesOK
<1>6. PairOK' /\ OwnerOK' /\ KeptOK'
    BY <1>2 DEF RelInv, PairOK, OwnerOK, KeptOK
<1>7. PairFollows'
  <2> SUFFICES ASSUME NEW c \in Codes, pairs[c] # None, kept[pairs[c].browser]
               PROVE  agents'[bkey[pairs[c].browser]] \in {None, pairs[c].agent}
    BY <1>2 DEF PairFollows
  <2>1. bkey[pairs[c].browser] \in Keys
    BY DEF RelInv, PairOK, TypeInv, TypeOK, KeyKnown, Pair
  <2> QED
    BY <1>3, <2>1 DEF RelInv, PairFollows
<1>8. OwnerFollows'
  <2> SUFFICES ASSUME NEW b \in Browsers, owners[b] # None, kept[b]
               PROVE  agents'[bkey[b]] \in {None, owners[b].agent}
    BY <1>2 DEF OwnerFollows
  <2>1. bkey[b] \in Keys
    BY DEF RelInv, OwnerOK, TypeInv, KeyKnown
  <2> QED
    BY <1>3, <2>1 DEF RelInv, OwnerFollows
<1> QED
    BY <1>4, <1>5, <1>6, <1>7, <1>8 DEF RelInv

\* Open: a browser that has just looked up its key is in no table.
LEMMA OpenRelInv ==
    ASSUME TypeInv, RelInv, NEW b \in Browsers, Open(b), QuietAgents
    PROVE  RelInv'
<1>1. /\ UNCHANGED <<codes, pairs, owners, kept, agents>>
      /\ bpc[b] = "lookup"
      /\ \A d \in Browsers : d # b => bpc'[d] = bpc[d] /\ bkey'[d] = bkey[d]
      /\ bpc'[b] = "pair"
    BY DEF Open, TypeInv, TypeOK
<1>2. \A c \in Codes : pairs[c] # None =>
            pairs[c].browser \in Browsers /\ pairs[c].browser # b
    BY <1>1 DEF RelInv, PairOK, TypeInv, TypeOK, Pair
<1>3. owners[b] = None /\ ~kept[b]
    BY <1>1 DEF RelInv, OwnerOK, KeptOK
<1>4. PairOK'
    BY <1>1, <1>2 DEF RelInv, PairOK
<1>5. OwnerOK'
    BY <1>1, <1>3 DEF RelInv, OwnerOK
<1>6. KeptOK'
    BY <1>1, <1>3 DEF RelInv, KeptOK
<1>7. PairFollows'
    BY <1>1, <1>2 DEF RelInv, PairFollows
<1>8. OwnerFollows'
    BY <1>1, <1>3 DEF RelInv, OwnerFollows
<1> QED
    BY <1>4, <1>5, <1>6, <1>7, <1>8, QuietAgentOK DEF RelInv

\* PairSession: a new pair takes the key's present socket.
LEMMA PairRelInv ==
    ASSUME TypeInv, RelInv, NEW b \in Browsers, PairSession(b), QuietAgents
    PROVE  RelInv'
<1> USE HubAssumption
<1> DEFINE code == CodeOf[b]
           key == bkey[b]
<1>1. code \in Codes /\ key \in Keys /\ bpc[b] = "pair" /\ UNCHANGED <<codes, bkey, agents>>
    BY DEF PairSession, TypeInv, KeyKnown
<1>2. \A c \in Codes : pairs[c] # None =>
            pairs[c].browser \in Browsers /\ pairs[c].browser # b
  <2>1. \A c \in Codes : pairs[c] # None => pairs[c].browser \in Browsers
    BY DEF TypeInv, TypeOK, Pair
  <2>2. \A c \in Codes : pairs[c] # None => bpc[pairs[c].browser] \in {"loop", "unpair"}
    BY DEF RelInv, PairOK
  <2> QED
    BY <1>1, <2>1, <2>2
<1>3. /\ bpc \in [Browsers -> {"lookup", "pair", "loop", "unpair", "done"}]
      /\ kept \in [Browsers -> BOOLEAN]
      /\ pairs \in [Codes -> Pair \cup {None}] /\ owners \in [Browsers -> Owner \cup {None}]
    BY DEF TypeInv, TypeOK
<1>4. CASE codes[code] = key /\ agents[key] # None
  <2>1. /\ pairs' = [pairs EXCEPT ![code] = [key |-> key, agent |-> agents[key], browser |-> b]]
        /\ owners' = [owners EXCEPT ![b] = [key |-> key, code |-> code, agent |-> agents[key]]]
        /\ bpc' = [bpc EXCEPT ![b] = "loop"]
        /\ kept' = [kept EXCEPT ![b] = TRUE]
    BY <1>4 DEF PairSession
  <2>2. KeyOf[agents[key]] = key
    BY <1>1, <1>4 DEF RelInv, AgentOK
  <2>3. /\ pairs'[code].key = key /\ pairs'[code].agent = agents[key]
        /\ pairs'[code].browser = b
        /\ \A c \in Codes : c # code => pairs'[c] = pairs[c]
    BY <1>1, <1>3, <2>1
  <2>4. /\ owners'[b].key = key /\ owners'[b].code = code /\ owners'[b].agent = agents[key]
        /\ \A d \in Browsers : d # b => owners'[d] = owners[d]
    BY <1>3, <2>1
  <2>5. /\ bpc'[b] = "loop" /\ kept'[b]
        /\ \A d \in Browsers : d # b => bpc'[d] = bpc[d] /\ kept'[d] = kept[d]
    BY <1>3, <2>1
  <2> HIDE DEF code, key
  <2>6. PairOK'
    BY <1>1, <1>2, <2>2, <2>3, <2>5 DEF RelInv, PairOK, code, key
  <2>7. OwnerOK'
    BY <1>1, <2>2, <2>4, <2>5 DEF RelInv, OwnerOK, code, key
  <2>8. KeptOK'
    BY <1>1, <1>4, <2>5 DEF RelInv, KeptOK, code, key
  <2>9. PairFollows'
    BY <1>1, <1>2, <2>3, <2>5 DEF RelInv, PairFollows, code, key
  <2>10. OwnerFollows'
    BY <1>1, <2>4, <2>5 DEF RelInv, OwnerFollows, code, key
  <2> QED
    BY <2>6, <2>7, <2>8, <2>9, <2>10, QuietAgentOK DEF RelInv
<1>5. CASE codes[code] # key \/ agents[key] = None
  <2>1. UNCHANGED <<pairs, owners, kept>> /\ bpc' = [bpc EXCEPT ![b] = "done"]
    BY <1>5 DEF PairSession
  <2>2. bpc'[b] = "done" /\ \A d \in Browsers : d # b => bpc'[d] = bpc[d]
    BY <1>3, <2>1
  <2>3. PairOK'
    BY <1>1, <1>2, <2>1, <2>2 DEF RelInv, PairOK
  <2>4. OwnerOK' /\ KeptOK'
    BY <1>1, <2>1, <2>2 DEF RelInv, OwnerOK, KeptOK
  <2>5. PairFollows' /\ OwnerFollows'
    BY <1>1, <2>1 DEF RelInv, PairFollows, OwnerFollows
  <2> QED
    BY <2>3, <2>4, <2>5, QuietAgentOK DEF RelInv
<1> QED
    BY <1>4, <1>5

\* UnregisterBrowserConn: the binding goes, the pair may stay for one more step.
LEMMA BrowserGoneRelInv ==
    ASSUME TypeInv, RelInv, NEW b \in Browsers, BrowserGone(b), QuietAgents
    PROVE  RelInv'
<1>1. /\ UNCHANGED <<codes, pairs, kept, agents, bkey>>
      /\ owners'[b] = None /\ \A d \in Browsers : d # b => owners'[d] = owners[d]
      /\ bpc'[b] = "unpair" /\ \A d \in Browsers : d # b => bpc'[d] = bpc[d]
    BY DEF BrowserGone, TypeInv, TypeOK
<1>2. \A c \in Codes : pairs[c] # None => pairs[c].browser \in Browsers
    BY DEF TypeInv, TypeOK, Pair
<1>3. PairOK'
    BY <1>1, <1>2 DEF RelInv, PairOK
<1>4. OwnerOK' /\ KeptOK'
    BY <1>1 DEF RelInv, OwnerOK, KeptOK
<1>5. PairFollows' /\ OwnerFollows'
    BY <1>1 DEF RelInv, PairFollows, OwnerFollows
<1> QED
    BY <1>3, <1>4, <1>5, QuietAgentOK DEF RelInv

\* UnpairSession: the browser's own pair is the only one to go.
LEMMA UnpairRelInv ==
    ASSUME TypeInv, RelInv, NEW b \in Browsers, UnpairSession(b), QuietAgents
    PROVE  /\ RelInv'
           /\ \A c \in Codes : pairs'[c] # pairs[c] => pairs[c].browser = b /\ bpc'[b] = "done"
<1> USE HubAssumption
<1>1. /\ UNCHANGED <<codes, owners, kept, agents, bkey>>
      /\ bpc[b] = "unpair"
      /\ bpc'[b] = "done" /\ \A d \in Browsers : d # b => bpc'[d] = bpc[d]
    BY DEF UnpairSession, TypeInv, TypeOK
<1>2. \A c \in Codes : pairs[c] # None => pairs[c].browser \in Browsers
    BY DEF TypeInv, TypeOK, Pair
<1>3. \A c \in Codes : \/ pairs'[c] = pairs[c]
                       \/ pairs'[c] = None /\ pairs[c].browser = b
    BY DEF UnpairSession, StillCurrent, TypeInv, TypeOK
<1>4. \A c \in Codes : pairs'[c] # None => pairs[c].browser # b
  <2> SUFFICES ASSUME NEW c \in Codes, pairs'[c] # None, pairs[c].browser = b
               PROVE  FALSE
    OBVIOUS
  <2>1. pairs[c] # None /\ CodeOf[b] = c
    BY <1>3 DEF RelInv, PairOK
  <2> QED
    BY <2>1 DEF UnpairSession, StillCurrent, TypeInv, TypeOK
<1>5. PairOK'
    BY <1>1, <1>2, <1>3, <1>4 DEF RelInv, PairOK
<1>6. OwnerOK' /\ KeptOK'
    BY <1>1 DEF RelInv, OwnerOK, KeptOK
<1>7. PairFollows' /\ OwnerFollows'
    BY <1>1, <1>3 DEF RelInv, PairFollows, OwnerFollows
<1> QED
    BY <1>1, <1>3, <1>5, <1>6, <1>7, QuietAgentOK DEF RelInv

\* CloseAgent: the key's socket, codes and pairs go together.
LEMMA CloseAgentRelInv ==
    ASSUME TypeInv, RelInv, NEW k \in Keys, CloseAgent(k)
    PROVE  /\ RelInv'
           /\ \A c \in Codes : pairs'[c] # pairs[c] => codes'[c] # codes[c]
<1> USE HubAssumption
<1>1. /\ agents \in [Keys -> Agents \cup {None}]
      /\ keyState \in [Keys -> {"absent", "active", "revoking", "revoked"}]
    BY DEF TypeInv, TypeOK
<1>2. UNCHANGED <<owners, bpc, bkey, latest, enrolled, apc>>
    BY DEF CloseAgent
<1>3. /\ agents'[k] = None /\ \A j \in Keys : j # k => agents'[j] = agents[j]
      /\ keyState'[k] = "revoked" /\ \A j \in Keys : j # k => keyState'[j] = keyState[j]
    BY <1>1 DEF CloseAgent
<1>4. /\ \A c \in Codes : codes'[c] = IF codes[c] = k THEN None ELSE codes[c]
      /\ \A c \in Codes : pairs'[c] = IF codes[c] = k THEN None ELSE pairs[c]
    BY DEF CloseAgent
<1>5. \A b \in Browsers : kept'[b] = (kept[b] /\ codes'[CodeOf[b]] = bkey[b])
    BY DEF CloseAgent, Keeping
<1>6. AgentOK' /\ ServesOK'
    BY <1>2, <1>3 DEF RelInv, AgentOK, ServesOK
<1>7. PairOK' /\ OwnerOK' /\ KeptOK'
  <2>1. PairOK'
    BY <1>2, <1>4 DEF RelInv, PairOK
  <2>2. OwnerOK'
    BY <1>2 DEF RelInv, OwnerOK
  <2>3. KeptOK'
    BY <1>2, <1>5 DEF RelInv, KeptOK
  <2> QED
    BY <2>1, <2>2, <2>3
<1>8. PairFollows'
  <2> SUFFICES ASSUME NEW c \in Codes, pairs'[c] # None, kept'[pairs'[c].browser]
               PROVE  agents'[bkey'[pairs'[c].browser]] \in {None, pairs'[c].agent}
    BY DEF PairFollows
  <2>1. pairs'[c] = pairs[c] /\ pairs[c] # None /\ pairs[c].browser \in Browsers
    BY <1>4 DEF TypeInv, TypeOK, Pair
  <2>2. kept[pairs[c].browser] /\ bkey[pairs[c].browser] \in Keys
    BY <1>5, <2>1 DEF RelInv, PairOK, TypeInv, KeyKnown
  <2> QED
    BY <1>2, <1>3, <2>1, <2>2 DEF RelInv, PairFollows
<1>9. OwnerFollows'
  <2> SUFFICES ASSUME NEW b \in Browsers, owners[b] # None, kept'[b]
               PROVE  agents'[bkey[b]] \in {None, owners[b].agent}
    BY <1>2 DEF OwnerFollows
  <2>1. kept[b] /\ bkey[b] \in Keys
    BY <1>5 DEF RelInv, OwnerOK, TypeInv, KeyKnown
  <2> QED
    BY <1>3, <2>1 DEF RelInv, OwnerFollows
<1> QED
    BY <1>4, <1>6, <1>7, <1>8, <1>9 DEF RelInv

\* Every step keeps the tables in agreement.
LEMMA NextRelInv == TypeInv /\ RelInv /\ [Next]_vars => RelInv'
<1> SUFFICES ASSUME TypeInv, RelInv, [Next]_vars PROVE RelInv'
    OBVIOUS
<1>1. ASSUME NEW a \in Agents, HandlerStep(a)
      PROVE  RelInv'
    BY <1>1, HandlerQuiet, QuietRelInv, RegisterCodeRelInv, UnregisterCodeRelInv, AgentGoneRelInv
<1>2. ASSUME NEW a \in Agents, Message(a)
      PROVE  RelInv'
    BY <1>2, MessageQuiet, QuietRelInv, HelloRelInv
<1>3. ASSUME NEW b \in Browsers, BrowserStep(b)
      PROVE  RelInv'
    BY <1>3, OtherQuiet, QuietRelInv, OpenRelInv, PairRelInv, BrowserGoneRelInv, UnpairRelInv
<1>4. CASE Admin
    BY <1>4, OtherQuiet, QuietRelInv, CloseAgentRelInv
<1>5. ASSUME NEW x \in Sockets, Disconnect(x)
      PROVE  RelInv'
    BY <1>5, OtherQuiet, QuietRelInv
<1>6. ASSUME NEW a \in Agents, Connect(a)
      PROVE  RelInv'
    BY <1>6, OtherQuiet, QuietRelInv
<1>7. CASE UNCHANGED vars
    BY <1>7, OtherQuiet, QuietRelInv
<1> QED
    BY <1>1, <1>2, <1>3, <1>4, <1>5, <1>6, <1>7 DEF Next

------------------------------------------------------------------------------
(* The theorems                                                            *)

\* What is sent to a browser comes from an agent of the key it opened.
LEMMA ScopedNext == TypeInv /\ RelInv /\ Scoped /\ [Next]_vars => Scoped'
<1> SUFFICES ASSUME TypeInv, RelInv, Scoped, [Next]_vars PROVE Scoped'
    OBVIOUS
<1> USE HubAssumption
<1>1. ASSUME NEW a \in Agents, NEW b \in Browsers, BrowserForAgent(a, b), Tell(a, b)
      PROVE  Scoped'
    BY <1>1 DEF BrowserForAgent, RelInv, OwnerOK, Tell, Scoped
<1>2. ASSUME NEW a \in Agents, NEW j \in Browsers, Offer(a, j)
      PROVE  Scoped'
  <2>1. CodeOf[j] \in Codes /\ pairs[CodeOf[j]] # None /\ pairs[CodeOf[j]].agent = a
    BY <1>2 DEF Offer, PairForAgent
  <2>2. KeyOf[a] = bkey[pairs[CodeOf[j]].browser]
    BY <2>1 DEF RelInv, PairOK
  <2> QED
    BY <1>2, <2>2 DEF Offer, Tell, Scoped
<1>3. ASSUME NEW a \in Agents, NEW j \in Browsers, Nonce(a, j)
      PROVE  Scoped'
    BY <1>1, <1>3 DEF Nonce
<1>4. ASSUME NEW a \in Agents, RelayPolicy(a)
      PROVE  Scoped'
  <2>1. arg[a] \in Browsers
    BY <1>4 DEF RelayPolicy, AgentAt, TypeInv, ArgOK
  <2> QED
    BY <1>1, <1>4, <2>1 DEF RelayPolicy, Scoped
<1>5. ASSUME NEW a \in Agents, Judge(a)
      PROVE  Scoped'
  <2>1. arg[a].browser \in Browsers
    BY <1>5 DEF Judge, TypeInv, ArgOK
  <2> QED
    BY <1>1, <1>5, <2>1 DEF Judge, Scoped
<1>6. ASSUME NEW a \in Agents, HandlerStep(a)
      PROVE  Scoped'
  <2>1. CASE Claim(a) \/ RegisterCode(a) \/ FindShare(a) \/ DeleteShare(a)
    BY <2>1 DEF Claim, RegisterCode, FindShare, DeleteShare, Scoped
  <2>2. CASE UnregisterCode(a) \/ CloseBrowser(a) \/ FindSession(a) \/ AgentGone(a)
    BY <2>2 DEF UnregisterCode, CloseBrowser, FindSession, AgentGone, Scoped
  <2> QED
    BY <1>4, <1>5, <1>6, <2>1, <2>2 DEF HandlerStep
<1>7. ASSUME NEW a \in Agents, Message(a)
      PROVE  Scoped'
  <2>1. CASE Hello(a)
    BY <2>1 DEF Hello, Scoped
  <2>2. ASSUME NEW c \in Codes, RegisterShare(a, c) \/ UnregisterShare(a, c)
        PROVE  Scoped'
    BY <2>2 DEF RegisterShare, UnregisterShare, Scoped
  <2>3. ASSUME NEW b \in Browsers, AuthOk(a, b)
        PROVE  Scoped'
    BY <2>3 DEF AuthOk, Scoped
  <2>4. ASSUME NEW b \in Browsers, NEW f \in FailKinds, AuthFailed(a, b, f)
        PROVE  Scoped'
    BY <2>4 DEF AuthFailed, Scoped
  <2> QED
    BY <1>2, <1>3, <1>7, <2>1, <2>2, <2>3, <2>4 DEF Message
<1>8. ASSUME NEW b \in Browsers, BrowserStep(b)
      PROVE  Scoped'
    BY <1>8 DEF BrowserStep, Open, PairSession, Join, BrowserGone, UnpairSession, Scoped
<1>9. CASE Admin
    BY <1>9 DEF Admin, RevokeKey, CloseAgent, RotateKey, CloseSocket, ExpireRow, Scoped
<1>10. ASSUME NEW x \in Sockets, Disconnect(x)
       PROVE  Scoped'
    BY <1>10 DEF Disconnect, Scoped
<1>11. ASSUME NEW a \in Agents, Connect(a)
       PROVE  Scoped'
    BY <1>11 DEF Connect, Scoped
<1>12. CASE UNCHANGED vars
    BY <1>12 DEF vars, Scoped
<1> QED
    BY <1>6, <1>7, <1>8, <1>9, <1>10, <1>11, <1>12 DEF Next

\* The invariant of the server.
LEMMA HubInvariant == Spec => [](TypeInv /\ RelInv /\ Scoped)
<1>1. Init => TypeInv /\ RelInv /\ Scoped
    BY InitTypeInv, InitRelInv DEF Init, Scoped
<1>2. TypeInv /\ RelInv /\ Scoped /\ [Next]_vars => (TypeInv /\ RelInv /\ Scoped)'
    BY NextTypeInv, NextRelInv, ScopedNext
<1> QED
    BY <1>1, <1>2, PTL DEF Spec

\* A browser is never sent a message of an agent of another key than the one it
\* opened (ForwardToBrowser, ForwardToBrowserByConnID, CloseBrowserConnWithError).
THEOREM KeysStayApart == Spec => []Scoped
BY HubInvariant, PTL

\* A reconnect rebinds every browser whose code stayed with the key
\* (RegisterAgent).
THEOREM ReconnectsStrandNobody == Spec => []NotStranded
<1>1. TypeInv /\ RelInv => NotStranded
  <2> SUFFICES ASSUME TypeInv, RelInv, NEW b \in Browsers, owners[b] # None, kept[b],
                      agents[bkey[b]] # None
               PROVE  /\ owners[b].agent = agents[bkey[b]]
                      /\ Paired(b) => pairs[CodeOf[b]].agent = agents[bkey[b]]
    BY DEF NotStranded
  <2>1. owners[b].agent = agents[bkey[b]]
    BY DEF RelInv, OwnerFollows
  <2>2. ASSUME NEW c \in Codes, pairs[c] # None, pairs[c].browser = b
        PROVE  CodeOf[b] = c /\ pairs[c].agent = agents[bkey[b]]
    BY <2>2 DEF RelInv, PairOK, PairFollows
  <2> QED
    BY <2>1, <2>2 DEF Paired
<1> QED
    BY <1>1, HubInvariant, PTL

\* A handler that has returned left nothing in the Hub (UnregisterAgent,
\* UnregisterBrowserConn, UnpairSession).
THEOREM NothingHaunts == Spec => []NoGhosts
<1>1. TypeInv /\ RelInv => NoGhosts
  <2> SUFFICES ASSUME TypeInv, RelInv PROVE NoGhosts
    OBVIOUS
  <2>1. \A b \in Browsers : bpc[b] = "done" => owners[b] = None
    BY DEF RelInv, OwnerOK
  <2>2. \A b \in Browsers : bpc[b] = "done" => ~Paired(b)
    BY DEF RelInv, PairOK, Paired
  <2>3. \A a \in Agents : apc[a] = "done" => \A k \in Keys : agents[k] # a
    BY HubAssumption DEF RelInv, AgentOK
  <2> QED
    BY <2>1, <2>2, <2>3 DEF NoGhosts
<1> QED
    BY <1>1, HubInvariant, PTL

\* The late exit of a replaced socket never removes its replacement.
THEOREM LatestSocketServes == Spec => []LatestServes
<1>1. RelInv => LatestServes
    BY DEF RelInv, ServesOK, LatestServes
<1> QED
    BY <1>1, HubInvariant, PTL

\* What a step may do to a pair.
PairEnds ==
    \A c \in Codes : pairs[c] # None /\ pairs'[c] = None =>
        codes'[c] # codes[c] \/ bpc'[pairs[c].browser] = "done"

\* Every step obeys it.
LEMMA StepsEndPairs ==
    ASSUME TypeInv, RelInv, [Next]_vars
    PROVE  PairEnds
<1>1. QuietBrowsers => PairEnds
  BY DEF QuietBrowsers, PairEnds
<1>2. ASSUME NEW a \in Agents, HandlerStep(a)
      PROVE  PairEnds
  <2>1. CASE RegisterCode(a) \/ AgentGone(a)
      BY <2>1 DEF RegisterCode, AgentGone, PairEnds
  <2>2. CASE UnregisterCode(a)
      BY <2>2, HubAssumption DEF UnregisterCode, TypeInv, TypeOK, PairEnds
  <2> QED
      BY <1>1, <1>2, <2>1, <2>2, HandlerQuiet
<1>3. ASSUME NEW a \in Agents, Message(a)
      PROVE  PairEnds
  <2>1. CASE Hello(a)
    <3>1. ASSUME NEW c \in Codes, pairs[c] # None
          PROVE  pairs'[c] # None
      <4>1. pairs[c] \in Pair /\ pairs'[c] \in {pairs[c], [pairs[c] EXCEPT !.agent = a]}
          BY <2>1, <3>1 DEF Hello, Rebind, TypeInv, TypeOK
      <4>2. [pairs[c] EXCEPT !.agent = a] \in Pair /\ None \notin Pair
          BY <4>1, HubAssumption DEF Pair
      <4> QED
          BY <3>1, <4>1, <4>2
    <3> QED
      BY <3>1 DEF PairEnds
  <2> QED
      BY <1>1, <1>3, <2>1, MessageQuiet
<1>4. ASSUME NEW b \in Browsers, BrowserStep(b)
      PROVE  PairEnds
  <2>1. CASE Open(b) \/ BrowserGone(b)
      BY <2>1 DEF Open, BrowserGone, PairEnds
  <2>2. CASE PairSession(b)
    <3>1. bkey[b] \in Keys /\ CodeOf[b] \in Codes
      BY <2>2, HubAssumption DEF PairSession, TypeInv, KeyKnown
    <3>2. agents[bkey[b]] # None =>
              [key |-> bkey[b], agent |-> agents[bkey[b]], browser |-> b] \in Pair
      BY <3>1 DEF Pair, TypeInv, TypeOK
    <3> QED
      BY <2>2, <3>1, <3>2, HubAssumption DEF PairSession, TypeInv, TypeOK, PairEnds
  <2>3. CASE UnpairSession(b)
      BY <1>4, <2>3, OtherQuiet, UnpairRelInv DEF PairEnds
  <2> QED
      BY <1>1, <1>4, <2>1, <2>2, <2>3, OtherQuiet
<1>5. CASE Admin
  BY <1>1, <1>5, OtherQuiet, CloseAgentRelInv DEF PairEnds
<1> QED
  BY <1>1, <1>2, <1>3, <1>4, <1>5, OtherQuiet DEF Next

\* A pair ends with its code or when its own browser leaves.
THEOREM PairsOutliveOthers == Spec => PairOutlivesOthers
<1>1. TypeInv /\ RelInv /\ Scoped /\ [Next]_vars => [PairEnds]_vars
    BY StepsEndPairs
<1> QED
    BY <1>1, HubInvariant, PTL DEF Spec, PairOutlivesOthers, PairEnds
==============================================================================
