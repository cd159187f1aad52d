-------------------------- MODULE AgentSharesProofs --------------------------
(***************************************************************************)
(* Proofs about AgentShares for any number of requests, codes, links,      *)
(* registrations, polls and crashes.                                       *)
(***************************************************************************)
EXTENDS AgentShares, SequenceTheorems, TLAPS

Registering == {"await", "clear"}
\* From the reply on, a registration knows its call.
Called == {"await", "clear", "client", "save", "insert"}

\* It has a code from then on, and so has a removal.
Coded == {"client", "save", "insert", "delete", "unmap"}

\* The slot belongs to the one registration that is between claiming and
\* releasing it (RegisterShareWithOptions).
SlotInv ==
    /\ \A p \in Procs : proc[p].pc \in Registering => slot = proc[p].call
    /\ \A p, q \in Procs : proc[p].pc \in Registering /\ proc[q].pc \in Registering => p = q
    /\ slot # NoCall => \E p \in Procs : proc[p].pc \in Registering

\* What the place a goroutine has reached says of its locals.
PollerAdds == {"each", "register", "await", "clear", "client", "save", "insert"}
LocalsAt(p) ==
    /\ proc[p].pc \in Called => proc[p].call \in Calls
    /\ proc[p].pc = "client" => proc[p].kind = "immich"
    /\ proc[p].pc \in Coded => proc[p].code \in Codes
    /\ proc[p].pc = "list" => p \in Callers /\ proc[p].code \in Links
    /\ proc[p].pc = "register" /\ p # "load" => proc[p].code \in Links \cup {NoCode}
    /\ p = "poll" /\ proc[p].pc \in PollerAdds => proc[p].todo \subseteq Links \X {NoCall}
Locals == \A p \in Procs : LocalsAt(p)

\* Nobody works before the loader is done, and the loader never again after it.
LoaderPcs == {"each", "register", "await", "clear", "insert"}
Phases ==
    /\ phase # "up" => \A p \in Procs \ {"load"} : proc[p].pc \in {"idle", "done"}
    /\ phase = "load" => proc["load"].pc \in LoaderPcs
    /\ phase # "load" => proc["load"].pc = "idle"

\* Buffers hold one reply.
Buffers == \A i \in Calls : buf[i] # <<>> => buf[i] = <<Head(buf[i])>>

Basics == TypeOK /\ SlotInv /\ Locals /\ Phases /\ Buffers

-----------------------------------------------------------------------------
(* The loader is alone: what is under way between it and the server is the  *)
(* one registration it waits for, under the code of an entry of the store.  *)

NothingInBuffers == \A i \in Calls : buf[i] = <<>>
Silent == up = <<>> /\ down = <<>> /\ lis.ch = NoCall /\ NothingInBuffers

Answers(r, c) == r.ok => r.code = c
Waits(c, i) ==
    \/ /\ up = <<Message("register_share", c, i)>>
       /\ down = <<>> /\ lis.ch = NoCall /\ NothingInBuffers
    \/ /\ up = <<>> /\ lis.ch = NoCall /\ NothingInBuffers
       /\ Len(down) = 1 /\ Answers(down[1], c)
    \/ /\ up = <<>> /\ down = <<>> /\ NothingInBuffers
       /\ lis.ch = i /\ Answers(lis.msg, c)
    \/ /\ up = <<>> /\ down = <<>> /\ lis.ch = NoCall
       /\ \A j \in Calls \ {i} : buf[j] = <<>>
       /\ buf[i] # <<>> => Answers(Head(buf[i]), c)

Loading ==
    LET l == proc["load"] IN
    /\ phase = "down" => Silent
    /\ phase = "load" =>
          /\ \A t \in l.todo : mem[t[1]] # "none"
          /\ l.pc # "each" => /\ l.code \in Codes
                              /\ mem[l.code] # "none"
                              /\ l.kind = mem[l.code]
          /\ l.pc # "await" => Silent
          /\ l.pc = "await" => Waits(l.code, l.call)
          /\ l.pc = "clear" => Answers(l.reply, l.code)

-----------------------------------------------------------------------------
(* Where a generated code can be: it is carried by one reply or by one      *)
(* goroutine from the moment it is generated until its share is saved, or   *)
(* given back, or lost.                                                     *)

Says(r, c) == r.ok /\ r.code = c
InDown(c) == \E i \in DOMAIN down : Says(down[i], c)
InLis(c) == lis.ch # NoCall /\ Says(lis.msg, c)
InBuf(i, c) == buf[i] # <<>> /\ Says(Head(buf[i]), c)
\* p has the code and its share is not in the table yet; it is, or was.
Early(p, c) ==
    \/ proc[p].pc = "clear" /\ Says(proc[p].reply, c)
    \/ proc[p].pc \in {"client", "insert"} /\ proc[p].code = c
    \/ proc[p].pc = "save" /\ proc[p].kind = "immich" /\ proc[p].code = c
Late(p, c) == proc[p].pc = "save" /\ proc[p].kind = "cloud" /\ proc[p].code = c
Has(p, c) == Early(p, c) \/ Late(p, c)

Coming(c) ==
    \/ InDown(c) \/ InLis(c)
    \/ \E i \in Calls : InBuf(i, c)
    \/ \E p \in Procs : Early(p, c)
Carried(c) == Coming(c) \/ \E p \in Procs : Late(p, c)

Single(c) ==
    /\ \A i, j \in DOMAIN down : Says(down[i], c) /\ Says(down[j], c) => i = j
    /\ InDown(c) => /\ ~InLis(c)
                    /\ \A i \in Calls : ~InBuf(i, c)
                    /\ \A p \in Procs : ~Has(p, c)
    /\ InLis(c) => /\ \A i \in Calls : ~InBuf(i, c)
                   /\ \A p \in Procs : ~Has(p, c)
    /\ \A i, j \in Calls : InBuf(i, c) /\ InBuf(j, c) => i = j
    /\ \A i \in Calls, p \in Procs : InBuf(i, c) => ~Has(p, c)
    /\ \A p, q \in Procs : Has(p, c) /\ Has(q, c) => p = q

\* A code on its way out of the store, or back to the server.
Leaving(c) == \E p \in Procs : proc[p].pc \in {"drop", "tell"} /\ \E t \in proc[p].todo : t[1] = c
Swept(c) ==
    \/ /\ proc["poll"].pc \in {"remove", "delete", "unmap"}
       /\ \E t \in proc["poll"].todo : t[1] = c
    \/ proc["poll"].pc \in {"delete", "unmap"} /\ proc["poll"].code = c
GivenBack(c) == \E i \in DOMAIN up : up[i].type = "unregister_share" /\ up[i].code = c

\* Removed, and neither saved nor loaded again since.
Away == gone \ back

\* A code that is carried is registered, and nobody has saved it or given it
\* back; before Insert its share is not in the table, and nobody has removed it.
CarriedInv(c) ==
    /\ Single(c)
    /\ Carried(c) => /\ c \in issued /\ c \in rows /\ c \notin kept
                     /\ ~GivenBack(c) /\ ~Swept(c)
    /\ Coming(c) => c \notin Away /\ sessions[c] = NoSession /\ ~Leaving(c)
    /\ \A p \in Procs : Late(p, c) =>
          \/ sessions[c] = NoSession
          \/ sessions[c] = [obj |-> proc[p].call, kind |-> "cloud"] /\ ~Leaving(c)

\* What has been done with a code needs the code.
Generated(c) ==
    (\/ sessions[c] # NoSession \/ mem[c] # "none" \/ file[c] # "none"
     \/ Leaving(c) \/ Swept(c) \/ GivenBack(c)) => c \in issued

KeptAt(c) ==
    /\ c \in issued /\ c \in rows
    /\ mem[c] = "cloud" /\ file[c] = "cloud" /\ sessions[c].kind # "immich"
    /\ ~Swept(c) /\ ~GivenBack(c)
GoneAt(c) == c \in issued /\ sessions[c] = NoSession /\ mem[c] = "none"

CodeInv(c) ==
    /\ Generated(c)
    /\ Leaving(c) => sessions[c] = NoSession
    /\ c \in kept => KeptAt(c)
    /\ c \in Away => GoneAt(c)
    /\ phase = "up" => CarriedInv(c)

\* While the agent works, a preferred code is a link's.
PrefersLinks == phase = "up" =>
    \A i \in DOMAIN up : up[i].type = "register_share" => up[i].code \in Links \cup {NoCode}

CodesInv ==
    /\ kept \subseteq Fresh /\ Away \subseteq Fresh
    /\ PrefersLinks
    /\ \A c \in Fresh : CodeInv(c)

\* An entry of the file that the memory has not is waiting for the next write.
Behind == \A c \in Codes : mem[c] = "none" /\ file[c] # "none" => c \in unwritten

IInv == Basics /\ Loading /\ Behind /\ CodesInv

-----------------------------------------------------------------------------
(* What the steps do to the goroutines: one record at a time.               *)

\* A step of p alone.
Only(p) ==
    /\ proc' \in [Procs -> Proc]
    /\ \A q \in Procs \ {p} : proc'[q] = proc[q]
Again(p) ==
    /\ p \in {"poll", "load"}
    /\ proc'[p] = [Idle EXCEPT !.pc = "each", !.todo = proc[p].todo, !.seen = proc[p].seen]

LEMMA Special == {"poll", "prune", "load"} \subseteq Procs /\ {"poll", "prune", "load"} \cap Callers = {}
  BY SharesAssumption DEF Procs

LEMMA NoCallApart == NoCall \notin Calls /\ Calls \subseteq Nat
  BY SharesAssumption DEF Calls, NoCall

LEMMA Refusals == \A i \in Calls \cup {NoCall} : Refusal(i) \in Reply /\ ~Refusal(i).ok
  BY DEF Refusal, Reply

LEMMA IdleTypes == Idle \in Proc /\ Done \in Proc /\ Idle.pc = "idle" /\ Done.pc = "done"
  BY Refusals DEF Idle, Done, Proc, Kinds

\* A record with a new pc, and with other fields of their types.
LEMMA FinishStep ==
    ASSUME TypeOK, NEW p \in Procs, Finish(p)
    PROVE  Only(p) /\ proc'[p] \in {Idle, Done} /\ (p \notin Callers => proc'[p] = Idle)
  BY IdleTypes DEF TypeOK, Finish, Only

LEMMA ContinueStep ==
    ASSUME TypeOK, NEW p \in Procs, Continue(p)
    PROVE  /\ Only(p)
           /\ p \in {"poll", "load"} => Again(p)
           /\ p \notin {"poll", "load"} => proc'[p] \in {Idle, Done}
<1>1. CASE p \in {"poll", "load"}
  <2> DEFINE r == [Idle EXCEPT !.pc = "each", !.todo = proc[p].todo, !.seen = proc[p].seen]
  <2>1. proc[p] \in Proc
    BY DEF TypeOK
  <2>2. r \in Proc
    BY <2>1, IdleTypes DEF Proc
  <2>3. proc' = [proc EXCEPT ![p] = r]
    BY <1>1 DEF Continue
  <2> QED
    BY <1>1, <2>2, <2>3 DEF TypeOK, Only, Again
<1>2. CASE p \notin {"poll", "load"}
  BY <1>2, FinishStep DEF Continue
<1> QED
  BY <1>1, <1>2

LEMMA FailStep ==
    ASSUME TypeOK, NEW p \in Procs, Fail(p)
    PROVE  /\ Only(p)
           /\ p = "load" => Again(p)
           /\ p # "load" => proc'[p] \in {Idle, Done} /\ (p \notin Callers => proc'[p] = Idle)
  BY FinishStep, ContinueStep DEF Fail

LEMMA GotoStep ==
    ASSUME TypeOK, NEW p \in Procs, NEW pc, Goto(p, pc),
           pc \in {"register", "save", "insert", "drop", "unmap", "remove"}
    PROVE  Only(p) /\ proc'[p] = [proc[p] EXCEPT !.pc = pc]
<1> DEFINE r == [proc[p] EXCEPT !.pc = pc]
<1>1. proc[p] \in Proc
  BY DEF TypeOK
<1>2. r \in Proc
  BY <1>1 DEF Proc
<1>3. proc' = [proc EXCEPT ![p] = r]
  BY DEF Goto
<1> HIDE DEF r
<1>4. Only(p) /\ proc'[p] = r
  BY <1>2, <1>3 DEF TypeOK, Only
<1> QED
  BY <1>4 DEF r

\* The types of the locals of one goroutine.
LEMMA ProcTypes ==
    ASSUME TypeOK, NEW p \in Procs
    PROVE  /\ proc[p] \in Proc
           /\ proc[p].kind \in Kinds /\ proc[p].code \in Codes \cup {NoCode}
           /\ proc[p].call \in Calls \cup {NoCall} /\ proc[p].reply \in Reply
           /\ proc[p].todo \subseteq Codes \X (Calls \cup {NoCall})
           /\ proc[p].seen \subseteq Links
<1>1. proc[p] \in Proc
  BY DEF TypeOK
<1> QED
  BY <1>1 DEF Proc

\* One goroutine gets a new record.
LEMMA Becomes ==
    ASSUME TypeOK, NEW p \in Procs, NEW r \in Proc, proc' = [proc EXCEPT ![p] = r]
    PROVE  Only(p) /\ proc'[p] = r
  BY DEF TypeOK, Only

LEMMA MessageType ==
    ASSUME NEW type \in {"register_share", "unregister_share", "deregister"},
           NEW c \in Codes \cup {NoCode}, NEW i \in Calls \cup {NoCall}
    PROVE  Message(type, c, i) \in Request
  BY DEF Message, Request

\* What goes up is appended.
LEMMA SendStep ==
    ASSUME TypeOK, NEW type \in {"register_share", "unregister_share", "deregister"},
           NEW c \in Codes \cup {NoCode}, NEW i \in Calls \cup {NoCall}, Send(type, c, i)
    PROVE  /\ up' \in Seq(Request)
           /\ up' = Append(up, Message(type, c, i))
           /\ \A k \in DOMAIN up' : \/ k \in DOMAIN up /\ up'[k] = up[k]
                                    \/ up'[k] = Message(type, c, i)
<1>1. up' = Append(up, Message(type, c, i)) /\ up \in Seq(Request)
  BY DEF Send, TypeOK
<1>2. Message(type, c, i) \in Request
  BY MessageType
<1> HIDE DEF Message
<1> QED
  BY <1>1, <1>2, AppendProperties

LEMMA ClaimStep ==
    ASSUME TypeOK, NEW p \in Procs, Claim(p)
    PROVE  /\ TypeOK' /\ Only(p) /\ slot' \in Calls
           /\ proc'[p] = [proc[p] EXCEPT !.pc = "await", !.call = slot']
<1> DEFINE r == [proc[p] EXCEPT !.pc = "await", !.call = calls + 1]
<1>1. calls + 1 \in Calls /\ calls' \in 0 .. MaxCalls
  BY SharesAssumption DEF TypeOK, Calls, Claim
<1>2. r \in Proc
  BY <1>1, ProcTypes DEF Proc
<1>3. proc' = [proc EXCEPT ![p] = r]
  BY DEF Claim
<1> HIDE DEF r
<1>4. Only(p) /\ proc'[p] = r
  BY <1>2, <1>3, Becomes
<1>5. up' \in Seq(Request)
  BY <1>1, ProcTypes, SendStep DEF Claim
<1>6. TypeOK'
  BY <1>1, <1>4, <1>5 DEF TypeOK, Claim, store, server, history, Only
<1> QED
  BY <1>1, <1>4, <1>6 DEF r, Claim

LEMMA RegisterFailsStep ==
    ASSUME TypeOK, NEW p \in Procs, RegisterFails(p)
    PROVE  TypeOK'
  BY FailStep DEF RegisterFails, TypeOK, store, client, wire, server, counters, history, Only

LEMMA ReceiveReplyStep ==
    ASSUME TypeOK, NEW p \in Procs, ReceiveReply(p), proc[p].call \in Calls
    PROVE  /\ TypeOK' /\ Only(p)
           /\ proc'[p] = [proc[p] EXCEPT !.pc = "clear", !.reply = Head(buf[proc[p].call])]
<1> DEFINE i == proc[p].call
           r == [proc[p] EXCEPT !.pc = "clear", !.reply = Head(buf[proc[p].call])]
<1>1. buf[i] \in Seq(Reply) /\ buf[i] # <<>>
  BY DEF TypeOK, ReceiveReply
<1>2. Head(buf[i]) \in Reply /\ Tail(buf[i]) \in Seq(Reply)
  BY <1>1
<1>3. r \in Proc
  BY <1>2, ProcTypes DEF Proc
<1>4. proc' = [proc EXCEPT ![p] = r]
  BY DEF ReceiveReply
<1> HIDE DEF r
<1>5. Only(p) /\ proc'[p] = r
  BY <1>3, <1>4, Becomes
<1>6. buf' \in [Calls -> Seq(Reply)]
  BY <1>2 DEF ReceiveReply, TypeOK
<1>7. TypeOK'
  BY <1>5, <1>6 DEF TypeOK, ReceiveReply, store, wire, server, counters, history, Only
<1> QED
  BY <1>5, <1>7 DEF r

LEMMA CancelStep ==
    ASSUME TypeOK, NEW p \in Procs, Cancel(p)
    PROVE  /\ TypeOK' /\ Only(p)
           /\ proc'[p] = [proc[p] EXCEPT !.pc = "clear", !.reply = Refusal(proc[p].call)]
<1> DEFINE r == [proc[p] EXCEPT !.pc = "clear", !.reply = Refusal(proc[p].call)]
<1>1. r \in Proc
  BY ProcTypes, Refusals DEF Proc
<1>2. proc' = [proc EXCEPT ![p] = r]
  BY DEF Cancel
<1> HIDE DEF r
<1>3. Only(p) /\ proc'[p] = r
  BY <1>1, <1>2, Becomes
<1>4. TypeOK'
  BY <1>3 DEF TypeOK, Cancel, store, client, wire, server, counters, history, Only
<1> QED
  BY <1>3, <1>4 DEF r

\* A reply with a code, and then the share; or an error.
LEMMA ClearSlotStep ==
    ASSUME TypeOK, NEW p \in Procs, ClearSlot(p)
    PROVE  /\ TypeOK' /\ Only(p) /\ slot' = NoCall
           /\ ~proc[p].reply.ok => Fail(p)
           /\ proc[p].reply.ok =>
                proc'[p] = [proc[p] EXCEPT !.code = proc[p].reply.code, !.reply = Refusal(NoCall),
                              !.pc = IF p = "load" \/ proc[p].kind = "cloud" THEN "insert" ELSE "client"]
<1> DEFINE r == [proc[p] EXCEPT !.code = proc[p].reply.code, !.reply = Refusal(NoCall),
                      !.pc = IF p = "load" \/ proc[p].kind = "cloud" THEN "insert" ELSE "client"]
<1>1. slot' = NoCall
  BY DEF ClearSlot, ReleaseSlot
<1>2. ASSUME Only(p) PROVE TypeOK'
  BY <1>1, <1>2 DEF TypeOK, ClearSlot, store, wire, server, counters, history, Only
<1>3. CASE proc[p].reply.ok
  <2>1. proc[p].reply.code \in Codes \cup {NoCode}
    BY ProcTypes DEF Reply
  <2>2. r \in Proc
    BY <2>1, ProcTypes, Refusals DEF Proc
  <2>3. proc' = [proc EXCEPT ![p] = r]
    BY <1>3 DEF ClearSlot
  <2> HIDE DEF r
  <2>4. Only(p) /\ proc'[p] = r
    BY <2>2, <2>3, Becomes
  <2> QED
    BY <1>1, <1>2, <1>3, <2>4 DEF r
<1>4. CASE ~proc[p].reply.ok
  <2>1. Fail(p)
    BY <1>4 DEF ClearSlot
  <2> QED
    BY <1>1, <1>2, <1>4, <2>1, FailStep
<1> QED
  BY <1>3, <1>4

-----------------------------------------------------------------------------
(* Listen and the server *)

LEMMA ListenReadStep ==
    ASSUME TypeOK, ListenRead
    PROVE  /\ TypeOK' /\ Head(down) = down[1] /\ Head(down) \in Reply /\ Len(down) > 0
           /\ down' \in Seq(Reply) /\ Len(down') = Len(down) - 1
           /\ \A k \in 1 .. Len(down) - 1 : down'[k] = down[k + 1]
           /\ lis' \in {lis, [ch |-> slot, msg |-> Head(down)]}
<1>1. down \in Seq(Reply) /\ down # <<>>
  BY DEF TypeOK, ListenRead
<1>2. Head(down) \in Reply /\ Tail(down) \in Seq(Reply) /\ Len(down) > 0 /\ Head(down) = down[1]
  BY <1>1, EmptySeq
<1>3. lis' \in {lis, [ch |-> slot, msg |-> Head(down)]}
  BY DEF ListenRead
<1>4. lis' \in [ch : Calls \cup {NoCall}, msg : Reply]
  BY <1>2, <1>3 DEF TypeOK
<1>5. TypeOK'
  BY <1>2, <1>4 DEF TypeOK, ListenRead, agent, store, server, counters, history
<1>6. Len(Tail(down)) = Len(down) - 1 /\ \A k \in 1 .. Len(down) - 1 : Tail(down)[k] = down[k + 1]
  BY <1>1, HeadTailProperties
<1> QED
  BY <1>2, <1>3, <1>5, <1>6 DEF ListenRead

LEMMA ListenDeliverStep ==
    ASSUME TypeOK, ListenDeliver
    PROVE  /\ TypeOK' /\ lis.ch \in Calls /\ ~lis'.msg.ok /\ lis'.ch = NoCall
           /\ buf' = [buf EXCEPT ![lis.ch] = <<lis.msg>>]
           /\ Head(buf'[lis.ch]) = lis.msg /\ buf'[lis.ch] # <<>>
<1>1. lis.ch \in Calls /\ lis.msg \in Reply
  BY DEF TypeOK, ListenDeliver
<1>2. <<lis.msg>> \in Seq(Reply) /\ <<lis.msg>> # <<>> /\ Head(<<lis.msg>>) = lis.msg
  BY <1>1
<1>3. buf' = [buf EXCEPT ![lis.ch] = <<lis.msg>>] /\ buf' \in [Calls -> Seq(Reply)]
  BY <1>1, <1>2 DEF TypeOK, ListenDeliver
<1>4. buf'[lis.ch] = <<lis.msg>>
  BY <1>1, <1>3 DEF TypeOK
<1>5. lis' = [ch |-> NoCall, msg |-> Refusal(NoCall)]
  BY DEF ListenDeliver
<1>6. lis'.ch = NoCall /\ ~lis'.msg.ok /\ lis' \in [ch : Calls \cup {NoCall}, msg : Reply]
  BY <1>5, Refusals
<1>7. TypeOK'
  BY <1>3, <1>6 DEF TypeOK, ListenDeliver, agent, store, wire, server, counters, history
<1> QED
  BY <1>1, <1>2, <1>3, <1>4, <1>6, <1>7

\* The oldest message leaves the socket.
LEMMA ReadUp ==
    ASSUME TypeOK, up # <<>>
    PROVE  /\ Head(up) \in Request /\ Head(up) = up[1] /\ 1 \in DOMAIN up
           /\ Tail(up) \in Seq(Request)
           /\ \A k \in DOMAIN Tail(up) : k + 1 \in DOMAIN up /\ Tail(up)[k] = up[k + 1]
<1>1. up \in Seq(Request)
  BY DEF TypeOK
<1>2. /\ Len(up) \in Nat \ {0} /\ Head(up) = up[1] /\ Head(up) \in Request
      /\ DOMAIN up = 1 .. Len(up) /\ Tail(up) \in Seq(Request)
  BY <1>1, EmptySeq, LenProperties
<1>3. /\ DOMAIN Tail(up) = 1 .. Len(up) - 1
      /\ \A k \in 1 .. Len(up) - 1 : Tail(up)[k] = up[k + 1]
  BY <1>1, <1>2, HeadTailProperties, LenProperties
<1> QED
  BY <1>2, <1>3

\* An answer is the last message down.
LEMMA AnswerStep ==
    ASSUME TypeOK, NEW r \in Reply, Answer(r)
    PROVE  /\ down' = Append(down, r)
           /\ down' \in Seq(Reply) /\ Len(down') = Len(down) + 1 /\ down'[Len(down) + 1] = r
           /\ \A k \in 1 .. Len(down) : down'[k] = down[k]
  BY AppendProperties DEF Answer, TypeOK

\* The server generates a code, takes a preferred one, or answers with an error.
ReplyTo(c, i) == [ok |-> TRUE, code |-> c, to |-> i]

LEMMA ServerRegistersStep ==
    ASSUME TypeOK, ServerRegisters
    PROVE  /\ TypeOK' /\ up # <<>> /\ up' = Tail(up) /\ Head(up).type = "register_share"
           /\ \/ \E c \in Codes :
                    /\ IF Head(up).code = NoCode THEN c \in Fresh \ issued ELSE c = Head(up).code
                    /\ rows' = rows \cup {c} /\ issued' = issued \cup ({c} \cap Fresh)
                    /\ ReplyTo(c, Head(up).call) \in Reply
                    /\ Answer(ReplyTo(c, Head(up).call))
              \/ Refusal(Head(up).call) \in Reply /\ Answer(Refusal(Head(up).call)) /\ UNCHANGED server
<1>1. /\ up # <<>> /\ up' = Tail(up) /\ Head(up).type = "register_share"
      /\ UNCHANGED <<agent, store, client, links, counters, history>>
  BY DEF ServerRegisters
<1>2. up' \in Seq(Request) /\ Head(up).code \in Codes \cup {NoCode} /\ Head(up).call \in Calls \cup {NoCall}
  BY <1>1, ReadUp DEF Request
<1>3. ASSUME down' \in Seq(Reply), rows' \subseteq Codes, issued' \subseteq Fresh PROVE TypeOK'
  BY <1>1, <1>2, <1>3 DEF TypeOK, agent, store, client, counters, history
<1>4. ASSUME NEW c \in IF Head(up).code = NoCode THEN Fresh \ issued ELSE {Head(up).code},
             rows' = rows \cup {c}, issued' = issued \cup ({c} \cap Fresh),
             Answer(ReplyTo(c, Head(up).call))
      PROVE  /\ c \in Codes
             /\ IF Head(up).code = NoCode THEN c \in Fresh \ issued ELSE c = Head(up).code
             /\ ReplyTo(c, Head(up).call) \in Reply
             /\ TypeOK'
  <2>1. c \in Codes
    BY <1>2, <1>4 DEF Codes
  <2>2. ReplyTo(c, Head(up).call) \in Reply
    BY <1>2, <2>1 DEF ReplyTo, Reply
  <2>3. rows' \subseteq Codes /\ issued' \subseteq Fresh
    BY <1>4, <2>1 DEF TypeOK
  <2> QED
    BY <1>3, <1>4, <2>1, <2>2, <2>3, AnswerStep
<1>5. CASE Answer(Refusal(Head(up).call)) /\ UNCHANGED server
  <2>1. Refusal(Head(up).call) \in Reply
    BY <1>2, Refusals
  <2>2. rows' \subseteq Codes /\ issued' \subseteq Fresh
    BY <1>5 DEF TypeOK, server
  <2> QED
    BY <1>1, <1>3, <1>5, <2>1, <2>2, AnswerStep
<1> QED
  BY <1>1, <1>4, <1>5 DEF ServerRegisters, ReplyTo

LEMMA ServerUnregistersStep ==
    ASSUME TypeOK, ServerUnregisters
    PROVE  /\ TypeOK' /\ up # <<>> /\ up' = Tail(up)
           /\ rows \ {Head(up).code} \subseteq rows' /\ rows' \subseteq rows
           /\ \/ UNCHANGED down
              \/ Answer(Refusal(NoCall))
<1>1. /\ up # <<>> /\ up' = Tail(up)
      /\ rows \ {Head(up).code} \subseteq rows' /\ rows' \subseteq rows
      /\ UNCHANGED down \/ Answer(Refusal(NoCall))
  BY DEF ServerUnregisters
<1>2. up' \in Seq(Request)
  BY <1>1, ReadUp
<1>3. down' \in Seq(Reply)
  BY <1>1, Refusals, AnswerStep DEF TypeOK
<1>4. TypeOK'
  BY <1>1, <1>2, <1>3 DEF TypeOK, ServerUnregisters, agent, store, client, counters, history
<1> QED
  BY <1>1, <1>4

LEMMA ServerIgnoresStep ==
    ASSUME TypeOK, ServerIgnores
    PROVE  TypeOK' /\ up # <<>> /\ up' = Tail(up)
<1>1. up # <<>> /\ up' = Tail(up) /\ Head(up).type = "deregister"
  BY DEF ServerIgnores
<1>2. up' \in Seq(Request) /\ Head(up).code \in Codes \cup {NoCode}
  BY <1>1, ReadUp DEF Request
<1> QED
  BY <1>1, <1>2 DEF TypeOK, ServerIgnores, agent, store, client, server, counters, history

-----------------------------------------------------------------------------
(* Creating and removing shares *)

\* A request that starts.
LEMMA CreateStep ==
    ASSUME TypeOK, NEW p \in Callers, CreateSession(p)
    PROVE  TypeOK' /\ Only(p) /\ proc'[p] = [Idle EXCEPT !.pc = "register"]
<1> DEFINE r == [Idle EXCEPT !.pc = "register"]
<1>1. r \in Proc /\ p \in Procs
  BY IdleTypes DEF Proc, Procs
<1>2. proc' = [proc EXCEPT ![p] = r]
  BY DEF CreateSession
<1> HIDE DEF r
<1>3. Only(p) /\ proc'[p] = r
  BY <1>1, <1>2, Becomes
<1>4. TypeOK'
  BY <1>3 DEF TypeOK, CreateSession, store, client, wire, server, counters, history, Only
<1> QED
  BY <1>3, <1>4 DEF r

LEMMA CreateManualStep ==
    ASSUME TypeOK, NEW p \in Callers, NEW k \in Links, CreateManual(p, k)
    PROVE  TypeOK' /\ Only(p) /\ proc'[p] = [Idle EXCEPT !.pc = "list", !.kind = "immich", !.code = k]
<1> DEFINE r == [Idle EXCEPT !.pc = "list", !.kind = "immich", !.code = k]
<1>1. r \in Proc /\ p \in Procs
  BY IdleTypes DEF Proc, Procs, Kinds, Codes
<1>2. proc' = [proc EXCEPT ![p] = r]
  BY DEF CreateManual
<1> HIDE DEF r
<1>3. Only(p) /\ proc'[p] = r
  BY <1>1, <1>2, Becomes
<1>4. TypeOK'
  BY <1>3 DEF TypeOK, CreateManual, store, client, wire, server, counters, history, Only
<1> QED
  BY <1>3, <1>4 DEF r

LEMMA PollSharesStep ==
    ASSUME TypeOK, NEW p \in Procs, PollShares(p)
    PROVE  /\ TypeOK' /\ Only(p)
           /\ proc'[p] = [proc[p] EXCEPT !.pc = "register"] \/ proc'[p] \in {Idle, Done}
<1>1. Only(p) /\ (proc'[p] = [proc[p] EXCEPT !.pc = "register"] \/ proc'[p] \in {Idle, Done})
  BY GotoStep, FinishStep DEF PollShares
<1>2. TypeOK'
  BY <1>1 DEF TypeOK, PollShares, store, client, wire, server, counters, history, Only
<1> QED
  BY <1>1, <1>2

\* A client and then the store, or the code is given back.
LEMMA NewImmichClientStep ==
    ASSUME TypeOK, NEW p \in Procs, NewImmichClient(p)
    PROVE  /\ TypeOK' /\ Only(p)
           /\ \/ proc'[p] = [proc[p] EXCEPT !.pc = "save"] /\ UNCHANGED up
              \/ Fail(p) /\ Send("unregister_share", proc[p].code, NoCall)
<1>1. CASE Goto(p, "save") /\ UNCHANGED up
  <2>1. Only(p) /\ proc'[p] = [proc[p] EXCEPT !.pc = "save"]
    BY <1>1, GotoStep
  <2>2. TypeOK'
    BY <1>1, <2>1 DEF TypeOK, NewImmichClient, store, client, server, counters, history, Only
  <2> QED
    BY <1>1, <2>1, <2>2
<1>2. CASE Fail(p) /\ Send("unregister_share", proc[p].code, NoCall)
  <2>1. Only(p) /\ up' \in Seq(Request)
    BY <1>2, FailStep, SendStep, ProcTypes
  <2>2. TypeOK'
    BY <2>1 DEF TypeOK, NewImmichClient, store, client, server, counters, history, Only
  <2> QED
    BY <1>2, <2>1, <2>2
<1> QED
  BY <1>1, <1>2 DEF NewImmichClient

LEMMA InsertStep ==
    ASSUME TypeOK, NEW p \in Procs, Insert(p), proc[p].code \in Codes
    PROVE  /\ TypeOK' /\ Only(p)
           /\ sessions' = [sessions EXCEPT ![proc[p].code] = [obj |-> proc[p].call, kind |-> proc[p].kind]]
           /\ \/ p \in Callers /\ proc[p].kind = "cloud" /\ proc'[p] = [proc[p] EXCEPT !.pc = "save"]
              \/ Again(p)
              \/ p \notin {"poll", "load"} /\ proc'[p] \in {Idle, Done}
<1> DEFINE s == [obj |-> proc[p].call, kind |-> proc[p].kind]
<1>1. s \in Session
  BY ProcTypes DEF Session, Entry
<1>2. sessions' = [sessions EXCEPT ![proc[p].code] = s]
  BY DEF Insert
<1>3. /\ Only(p)
      /\ \/ p \in Callers /\ proc[p].kind = "cloud" /\ proc'[p] = [proc[p] EXCEPT !.pc = "save"]
         \/ Again(p)
         \/ p \notin {"poll", "load"} /\ proc'[p] \in {Idle, Done}
  BY GotoStep, ContinueStep DEF Insert
<1> HIDE DEF s
<1>4. sessions' \in [Codes -> Session]
  BY <1>1, <1>2 DEF TypeOK
<1>5. TypeOK'
  BY <1>3, <1>4 DEF TypeOK, Insert, store, client, wire, server, counters, history, Only
<1> QED
  BY <1>2, <1>3, <1>5 DEF s

\* The store's operations on one code.
LEMMA SaveSessionStep ==
    ASSUME TypeOK, NEW c \in Codes, NEW kind \in Kinds, NEW ok \in BOOLEAN, SaveSession(c, kind, ok)
    PROVE  /\ mem' = [mem EXCEPT ![c] = kind] /\ file' = (IF ok THEN mem' ELSE file)
           /\ mem' \in [Codes -> Entry] /\ file' \in [Codes -> Entry] /\ unwritten' \subseteq Codes
  BY DEF SaveSession, Write, TypeOK, Entry

LEMMA DeleteSessionStep ==
    ASSUME TypeOK, NEW c \in Codes, NEW ok \in BOOLEAN, DeleteSession(c, ok)
    PROVE  /\ mem' = [mem EXCEPT ![c] = "none"]
           /\ mem[c] = "none" => file' = file
           /\ mem[c] # "none" => file' = (IF ok THEN mem' ELSE file)
           /\ mem' \in [Codes -> Entry] /\ file' \in [Codes -> Entry] /\ unwritten' \subseteq Codes
  BY DEF DeleteSession, Write, TypeOK, Entry, store

LEMMA SaveCloudStep ==
    ASSUME TypeOK, NEW p \in Procs, SaveCloud(p), proc[p].code \in Codes
    PROVE  /\ TypeOK' /\ Only(p) /\ proc'[p] \in {Idle, Done}
           /\ mem' = [mem EXCEPT ![proc[p].code] = "cloud"]
           /\ \E ok \in BOOLEAN :
                /\ file' = IF ok THEN mem' ELSE file
                /\ kept' = IF ok /\ proc[p].code \in Fresh THEN kept \cup {proc[p].code} ELSE kept
           /\ Away' = Away \ {proc[p].code}
<1> DEFINE c == proc[p].code
<1>1. PICK ok \in BOOLEAN :
         /\ SaveSession(c, "cloud", ok)
         /\ kept' = IF ok /\ c \in Fresh THEN kept \cup {c} ELSE kept
  BY DEF SaveCloud
<1>2. /\ mem' = [mem EXCEPT ![c] = "cloud"] /\ file' = (IF ok THEN mem' ELSE file)
      /\ mem' \in [Codes -> Entry] /\ file' \in [Codes -> Entry] /\ unwritten' \subseteq Codes
  BY <1>1, SaveSessionStep DEF Kinds
<1>3. Only(p) /\ proc'[p] \in {Idle, Done}
  BY FinishStep DEF SaveCloud
<1>4. kept' \subseteq Codes /\ back' \subseteq Codes
  BY <1>1 DEF TypeOK, SaveCloud
<1>5. TypeOK'
  BY <1>2, <1>3, <1>4 DEF TypeOK, SaveCloud, client, wire, server, counters, Only
<1>6. gone' = gone /\ back' = back \cup ({c} \cap gone)
  BY DEF SaveCloud
<1>7. Away' = Away \ {c}
  BY <1>6 DEF Away
<1> QED
  BY <1>1, <1>2, <1>3, <1>5, <1>7

LEMMA SaveImmichStep ==
    ASSUME TypeOK, NEW p \in Procs, SaveImmich(p), proc[p].code \in Codes
    PROVE  /\ TypeOK' /\ Only(p)
           /\ mem' = [mem EXCEPT ![proc[p].code] = "immich"]
           /\ \/ file' = mem' /\ UNCHANGED up /\ proc'[p] = [proc[p] EXCEPT !.pc = "insert"]
              \/ UNCHANGED file /\ Fail(p) /\ Send("unregister_share", proc[p].code, NoCall)
<1> DEFINE c == proc[p].code
<1>1. CASE SaveSession(c, "immich", TRUE) /\ Goto(p, "insert") /\ UNCHANGED up
  <2>1. /\ mem' = [mem EXCEPT ![c] = "immich"] /\ file' = mem'
        /\ mem' \in [Codes -> Entry] /\ file' \in [Codes -> Entry] /\ unwritten' \subseteq Codes
    BY <1>1, SaveSessionStep DEF Kinds
  <2>2. Only(p) /\ proc'[p] = [proc[p] EXCEPT !.pc = "insert"]
    BY <1>1, GotoStep
  <2>3. TypeOK'
    BY <1>1, <2>1, <2>2 DEF TypeOK, SaveImmich, client, server, counters, history, Only
  <2> QED
    BY <1>1, <2>1, <2>2, <2>3
<1>2. CASE SaveSession(c, "immich", FALSE) /\ Send("unregister_share", c, NoCall) /\ Fail(p)
  <2>1. /\ mem' = [mem EXCEPT ![c] = "immich"] /\ file' = file
        /\ mem' \in [Codes -> Entry] /\ file' \in [Codes -> Entry] /\ unwritten' \subseteq Codes
    BY <1>2, SaveSessionStep DEF Kinds
  <2>2. Only(p) /\ up' \in Seq(Request)
    BY <1>2, FailStep, SendStep
  <2>3. TypeOK'
    BY <2>1, <2>2 DEF TypeOK, SaveImmich, client, server, counters, history, Only
  <2> QED
    BY <1>2, <2>1, <2>2, <2>3
<1> QED
  BY <1>1, <1>2 DEF SaveImmich

\* Out of the table, and into the list of what is to be dropped.
LEMMA DetachStep ==
    ASSUME TypeOK, NEW p \in Procs, NEW cs \in SUBSET Codes, Detach(p, cs)
    PROVE  /\ TypeOK' /\ Only(p)
           /\ sessions' = [c \in Codes |-> IF c \in cs THEN NoSession ELSE sessions[c]]
           /\ proc'[p] = [Idle EXCEPT !.pc = "drop", !.todo = cs \X {NoCall}]
<1> DEFINE r == [Idle EXCEPT !.pc = "drop", !.todo = cs \X {NoCall}]
<1>1. cs \X {NoCall} \subseteq Codes \X (Calls \cup {NoCall})
  OBVIOUS
<1>2. r \in Proc
  BY <1>1, IdleTypes DEF Proc
<1>3. proc' = [proc EXCEPT ![p] = r]
  BY DEF Detach
<1> HIDE DEF r
<1>4. Only(p) /\ proc'[p] = r
  BY <1>2, <1>3, Becomes
<1>5. sessions' = [c \in Codes |-> IF c \in cs THEN NoSession ELSE sessions[c]]
  BY DEF Detach
<1>6. NoSession \in Session
  BY DEF NoSession, Session, Entry
<1>7. sessions' \in [Codes -> Session]
  BY <1>5, <1>6 DEF TypeOK
<1>8. TypeOK'
  BY <1>4, <1>7 DEF TypeOK, Detach, store, client, wire, server, counters, history, Only
<1> QED
  BY <1>4, <1>5, <1>8 DEF r

\* One entry of the list is dropped.
LEMMA DropStep ==
    ASSUME TypeOK, NEW p \in Procs, Drop(p)
    PROVE  /\ TypeOK' /\ Only(p)
           /\ \E t \in proc[p].todo, ok \in BOOLEAN :
                /\ t[1] \in Codes
                /\ DeleteSession(t[1], ok)
                /\ kept' = kept \ {t[1]} /\ Away' = Away \cup ({t[1]} \cap Fresh)
                /\ proc'[p] = [proc[p] EXCEPT !.pc = "tell", !.code = t[1], !.todo = proc[p].todo \ {t}]
<1>1. PICK t \in proc[p].todo, ok \in BOOLEAN :
          /\ DeleteSession(t[1], ok)
          /\ kept' = kept \ {t[1]}
          /\ gone' = gone \cup ({t[1]} \cap Fresh)
          /\ back' = back \ {t[1]}
          /\ proc' = [proc EXCEPT ![p].pc = "tell", ![p].code = t[1], ![p].todo = @ \ {t}]
  BY DEF Drop
<1>2. t[1] \in Codes
  BY ProcTypes
<1> DEFINE r == [proc[p] EXCEPT !.pc = "tell", !.code = t[1], !.todo = proc[p].todo \ {t}]
<1>3. r \in Proc
  BY <1>2, ProcTypes DEF Proc
<1>4. proc' = [proc EXCEPT ![p] = r]
  BY <1>1
<1> HIDE DEF r
<1>5. Only(p) /\ proc'[p] = r
  BY <1>3, <1>4, Becomes
<1>6. mem' \in [Codes -> Entry] /\ file' \in [Codes -> Entry] /\ unwritten' \subseteq Codes
  BY <1>1, <1>2, DeleteSessionStep
<1>7. kept' \subseteq Codes /\ gone' \subseteq Fresh /\ back' \subseteq Codes
  BY <1>1 DEF TypeOK
<1>8. TypeOK'
  BY <1>5, <1>6, <1>7 DEF TypeOK, Drop, client, wire, server, counters, Only
<1>9. Away' = Away \cup ({t[1]} \cap Fresh)
  <2>1. PICK d : d = t[1]
    OBVIOUS
  <2>2. gone' = gone \cup ({d} \cap Fresh) /\ back' = back \ {d} /\ gone \subseteq Fresh
    BY <1>1, <2>1 DEF TypeOK
  <2> QED
    BY <2>1, <2>2 DEF Away
<1> QED
  BY <1>1, <1>2, <1>5, <1>8, <1>9 DEF r

LEMMA TellServerStep ==
    ASSUME TypeOK, NEW p \in Procs, TellServer(p)
    PROVE  /\ TypeOK' /\ Only(p) /\ Send("deregister", proc[p].code, NoCall)
           /\ proc'[p] \in {Idle, Done} \/ proc'[p] = [proc[p] EXCEPT !.pc = "drop"]
<1>1. Only(p) /\ (proc'[p] \in {Idle, Done} \/ proc'[p] = [proc[p] EXCEPT !.pc = "drop"])
  BY GotoStep, FinishStep DEF TellServer
<1>2. Send("deregister", proc[p].code, NoCall) /\ up' \in Seq(Request)
  BY SendStep, ProcTypes DEF TellServer
<1>3. TypeOK'
  BY <1>1, <1>2 DEF TypeOK, TellServer, store, client, server, counters, history, Only
<1> QED
  BY <1>1, <1>2, <1>3

-----------------------------------------------------------------------------
(* The poller *)

LEMMA StartSyncStep ==
    ASSUME TypeOK, StartSync
    PROVE  /\ TypeOK' /\ Only("poll")
           /\ proc'["poll"] = [Idle EXCEPT !.pc = "each", !.todo = links \X {NoCall}, !.seen = links]
<1> DEFINE r == [Idle EXCEPT !.pc = "each", !.todo = links \X {NoCall}, !.seen = links]
<1>1. links \X {NoCall} \subseteq Codes \X (Calls \cup {NoCall}) /\ links \subseteq Links
  BY DEF TypeOK, Codes
<1>2. r \in Proc
  BY <1>1, IdleTypes DEF Proc
<1>3. proc' = [proc EXCEPT !["poll"] = r]
  BY DEF StartSync
<1> HIDE DEF r
<1>4. Only("poll") /\ proc'["poll"] = r
  BY <1>2, <1>3, Becomes, Special
<1>5. syncs' \in 0 .. MaxSyncs
  BY SharesAssumption DEF TypeOK, StartSync
<1>6. TypeOK'
  BY <1>4, <1>5 DEF TypeOK, StartSync, store, client, wire, server, history, Only
<1> QED
  BY <1>4, <1>6 DEF r

LEMMA SyncEachStep ==
    ASSUME TypeOK, SyncEach
    PROVE  /\ TypeOK' /\ Only("poll")
           /\ \E t \in proc["poll"].todo : \E pc \in {"register", "each"} :
                proc'["poll"] = [proc["poll"] EXCEPT !.pc = pc, !.code = t[1], !.kind = "immich",
                                                     !.todo = proc["poll"].todo \ {t}]
<1>1. PICK t \in proc["poll"].todo :
          proc' = [proc EXCEPT !["poll"].todo = @ \ {t},
                     !["poll"].code = t[1], !["poll"].kind = "immich",
                     !["poll"].pc = IF sessions[t[1]] = NoSession THEN "register" ELSE "each"]
  BY DEF SyncEach
<1> DEFINE pc == IF sessions[t[1]] = NoSession THEN "register" ELSE "each"
           r == [proc["poll"] EXCEPT !.pc = pc, !.code = t[1], !.kind = "immich",
                                     !.todo = proc["poll"].todo \ {t}]
<1>2. t[1] \in Codes
  BY ProcTypes, Special
<1>3. r \in Proc
  <2>1. proc["poll"] \in Proc /\ t[1] \in Codes \cup {NoCode}
    BY <1>2, ProcTypes, Special
  <2>2. proc["poll"].todo \ {t} \subseteq Codes \X (Calls \cup {NoCall})
    BY ProcTypes, Special
  <2>3. pc \in {"register", "each"}
    OBVIOUS
  <2> HIDE DEF pc
  <2> QED
    BY <2>1, <2>2, <2>3 DEF Proc, Kinds
<1>4. proc' = [proc EXCEPT !["poll"] = r]
  BY <1>1
<1>5. Only("poll") /\ proc'["poll"] = r
  <2> HIDE DEF r
  <2> QED
    BY <1>3, <1>4, Becomes, Special
<1>6. TypeOK'
  BY <1>5 DEF TypeOK, SyncEach, store, client, wire, server, counters, history, Only
<1>7. pc \in {"register", "each"}
  OBVIOUS
<1> HIDE DEF pc
<1> QED
  BY <1>5, <1>6, <1>7

LEMMA SyncSweepStep ==
    ASSUME TypeOK, SyncSweep
    PROVE  /\ TypeOK' /\ Only("poll")
           /\ \/ proc'["poll"] \in {Idle, Done}
              \/ \E cs \in SUBSET {c \in Codes : sessions[c].kind = "immich"} :
                    proc'["poll"] = [proc["poll"] EXCEPT !.pc = "remove",
                                         !.todo = {<<c, sessions[c].obj>> : c \in cs}]
<1> DEFINE left == {c \in Codes : sessions[c].kind = "immich" /\ c \notin proc["poll"].seen}
           todo == {<<c, sessions[c].obj>> : c \in left}
           r == [proc["poll"] EXCEPT !.pc = "remove", !.todo = todo]
<1>1. CASE left = {}
  <2>1. Only("poll") /\ proc'["poll"] \in {Idle, Done}
    BY <1>1, FinishStep, Special DEF SyncSweep
  <2>2. TypeOK'
    BY <2>1 DEF TypeOK, SyncSweep, store, client, wire, server, counters, history, Only
  <2> QED
    BY <2>1, <2>2
<1>2. CASE left # {}
  <2>1. todo \subseteq Codes \X (Calls \cup {NoCall})
    BY DEF TypeOK, Session
  <2>2. proc' = [proc EXCEPT !["poll"] = r]
    BY <1>2 DEF SyncSweep
  <2>3. left \in SUBSET {c \in Codes : sessions[c].kind = "immich"}
    OBVIOUS
  <2>4. r \in Proc
    <3> HIDE DEF todo
    <3> QED
      BY <2>1, ProcTypes, Special DEF Proc
  <2>5. Only("poll") /\ proc'["poll"] = r
    <3> HIDE DEF r
    <3> QED
      BY <2>2, <2>4, Becomes, Special
  <2>6. TypeOK'
    BY <2>5 DEF TypeOK, SyncSweep, store, client, wire, server, counters, history, Only
  <2> HIDE DEF left
  <2> QED
    BY <2>3, <2>5, <2>6
<1> QED
  BY <1>1, <1>2

LEMMA SyncUnregisterStep ==
    ASSUME TypeOK, SyncUnregister
    PROVE  /\ TypeOK' /\ Only("poll")
           /\ \/ \E t \in proc["poll"].todo :
                    /\ t[1] \in Codes
                    /\ Send("unregister_share", t[1], NoCall)
                    /\ proc'["poll"] = [proc["poll"] EXCEPT !.pc = "delete", !.code = t[1], !.call = t[2],
                                                            !.todo = proc["poll"].todo \ {t}]
              \/ UNCHANGED up /\ proc'["poll"] \in {Idle, Done}
<1>1. ASSUME NEW t \in proc["poll"].todo,
             Send("unregister_share", t[1], NoCall),
             proc' = [proc EXCEPT !["poll"].pc = "delete", !["poll"].todo = @ \ {t},
                                  !["poll"].code = t[1], !["poll"].call = t[2]]
      PROVE  /\ TypeOK' /\ Only("poll") /\ t[1] \in Codes
             /\ proc'["poll"] = [proc["poll"] EXCEPT !.pc = "delete", !.code = t[1], !.call = t[2],
                                                     !.todo = proc["poll"].todo \ {t}]
  <2> DEFINE r == [proc["poll"] EXCEPT !.pc = "delete", !.code = t[1], !.call = t[2],
                                       !.todo = proc["poll"].todo \ {t}]
  <2>1. t[1] \in Codes /\ t[2] \in Calls \cup {NoCall}
    BY ProcTypes, Special
  <2>2. r \in Proc
    <3>1. proc["poll"] \in Proc /\ t[1] \in Codes \cup {NoCode}
      BY <2>1, ProcTypes, Special
    <3>2. proc["poll"].todo \ {t} \subseteq Codes \X (Calls \cup {NoCall})
      BY ProcTypes, Special
    <3> QED
      BY <2>1, <3>1, <3>2 DEF Proc
  <2>3. proc' = [proc EXCEPT !["poll"] = r]
    BY <1>1
  <2>4. Only("poll") /\ proc'["poll"] = r
    <3> HIDE DEF r
    <3> QED
      BY <2>2, <2>3, Becomes, Special
  <2>5. up' \in Seq(Request)
    BY <1>1, <2>1, SendStep
  <2>6. TypeOK'
    BY <2>4, <2>5 DEF TypeOK, SyncUnregister, store, client, server, counters, history, Only
  <2> QED
    BY <2>1, <2>4, <2>6
<1>2. CASE UNCHANGED up /\ Finish("poll")
  <2>1. Only("poll") /\ proc'["poll"] \in {Idle, Done}
    BY <1>2, FinishStep, Special
  <2>2. TypeOK'
    BY <1>2, <2>1 DEF TypeOK, SyncUnregister, store, client, server, counters, history, Only
  <2> QED
    BY <1>2, <2>1, <2>2
<1> QED
  BY <1>1, <1>2 DEF SyncUnregister

LEMMA SyncDeleteStep ==
    ASSUME TypeOK, SyncDelete, proc["poll"].code \in Codes
    PROVE  /\ TypeOK' /\ Only("poll")
           /\ \E ok \in BOOLEAN : DeleteSession(proc["poll"].code, ok)
           /\ kept' = kept \ {proc["poll"].code} /\ Away' = Away
           /\ \/ proc'["poll"] = [proc["poll"] EXCEPT !.pc = "unmap"]
              \/ proc'["poll"] \in {Idle, Done}
<1> DEFINE c == proc["poll"].code
<1>1. PICK ok \in BOOLEAN :
          /\ DeleteSession(c, ok)
          /\ IF ok THEN Goto("poll", "unmap") ELSE Finish("poll")
  BY DEF SyncDelete
<1>2. /\ Only("poll")
      /\ \/ proc'["poll"] = [proc["poll"] EXCEPT !.pc = "unmap"]
         \/ proc'["poll"] \in {Idle, Done}
  BY <1>1, GotoStep, FinishStep, Special
<1>3. mem' \in [Codes -> Entry] /\ file' \in [Codes -> Entry] /\ unwritten' \subseteq Codes
  BY <1>1, DeleteSessionStep
<1>4. kept' = kept \ {c} /\ gone' = gone /\ back' = back
  BY DEF SyncDelete
<1>5. TypeOK'
  BY <1>2, <1>3, <1>4 DEF TypeOK, SyncDelete, client, wire, server, counters, Only
<1> QED
  BY <1>1, <1>2, <1>4, <1>5 DEF Away

LEMMA SyncUnmapStep ==
    ASSUME TypeOK, SyncUnmap, proc["poll"].code \in Codes
    PROVE  /\ TypeOK' /\ Only("poll")
           /\ \A c \in Codes : sessions'[c] \in {sessions[c], NoSession}
           /\ \/ proc'["poll"] = [proc["poll"] EXCEPT !.pc = "remove"]
              \/ proc'["poll"] \in {Idle, Done}
<1>1. /\ Only("poll")
      /\ \/ proc'["poll"] = [proc["poll"] EXCEPT !.pc = "remove"]
         \/ proc'["poll"] \in {Idle, Done}
  BY GotoStep, FinishStep, Special DEF SyncUnmap
<1>2. NoSession \in Session
  BY DEF NoSession, Session, Entry
<1> HIDE DEF NoSession
<1>3. sessions' \in {sessions, [sessions EXCEPT ![proc["poll"].code] = NoSession]}
  BY DEF SyncUnmap
<1>4. sessions' \in [Codes -> Session] /\ \A c \in Codes : sessions'[c] \in {sessions[c], NoSession}
  BY <1>2, <1>3 DEF TypeOK
<1>5. TypeOK'
  BY <1>1, <1>4 DEF TypeOK, SyncUnmap, store, client, wire, server, counters, history, Only
<1> QED
  BY <1>1, <1>4, <1>5

-----------------------------------------------------------------------------
(* Starting and ending *)

LEMMA StartStep ==
    ASSUME TypeOK, Start
    PROVE  /\ TypeOK' /\ Only("load")
           /\ \E cs \in SUBSET {c \in Codes : mem[c] # "none"} :
                proc'["load"] = [Idle EXCEPT !.pc = "each", !.todo = cs \X {NoCall}]
<1>1. PICK ex \in SUBSET {c \in Codes : mem[c] = "cloud"} :
          proc' = [proc EXCEPT !["load"] =
                     [Idle EXCEPT !.pc = "each",
                                  !.todo = {c \in Codes \ ex : mem[c] # "none"} \X {NoCall}]]
  BY DEF Start
<1> DEFINE cs == {c \in Codes \ ex : mem[c] # "none"}
           r == [Idle EXCEPT !.pc = "each", !.todo = cs \X {NoCall}]
<1>2. cs \X {NoCall} \subseteq Codes \X (Calls \cup {NoCall}) /\ cs \in SUBSET {c \in Codes : mem[c] # "none"}
  OBVIOUS
<1>3. proc' = [proc EXCEPT !["load"] = r]
  BY <1>1
<1> HIDE DEF cs
<1>4. r \in Proc
  BY <1>2, IdleTypes DEF Proc
<1>5. Only("load") /\ proc'["load"] = r
  <2> HIDE DEF r
  <2> QED
    BY <1>3, <1>4, Becomes, Special
<1>6. TypeOK'
  BY <1>5 DEF TypeOK, Start, store, client, wire, server, counters, history, Only
<1> QED
  BY <1>2, <1>5, <1>6

LEMMA LoadEachStep ==
    ASSUME TypeOK, LoadEach, \A t \in proc["load"].todo : mem[t[1]] # "none"
    PROVE  /\ TypeOK' /\ Only("load")
           /\ \E t \in proc["load"].todo : \E pc \in {"register", "each"} :
                /\ t[1] \in Codes
                /\ proc'["load"] = [proc["load"] EXCEPT !.pc = pc, !.code = t[1], !.kind = mem[t[1]],
                                                        !.todo = proc["load"].todo \ {t}]
<1>1. PICK t \in proc["load"].todo, pc \in {"register", "each"} :
          proc' = [proc EXCEPT !["load"].todo = @ \ {t}, !["load"].code = t[1],
                              !["load"].kind = mem[t[1]], !["load"].pc = pc]
  BY DEF LoadEach
<1> DEFINE r == [proc["load"] EXCEPT !.pc = pc, !.code = t[1], !.kind = mem[t[1]],
                                     !.todo = proc["load"].todo \ {t}]
<1>2. t[1] \in Codes
  BY ProcTypes, Special
<1>3. mem[t[1]] \in Kinds
  BY <1>2 DEF TypeOK, Entry
<1>4. r \in Proc
  <2>1. proc["load"] \in Proc /\ t[1] \in Codes \cup {NoCode}
    BY <1>2, ProcTypes, Special
  <2>2. proc["load"].todo \ {t} \subseteq Codes \X (Calls \cup {NoCall})
    BY ProcTypes, Special
  <2> QED
    BY <1>3, <2>1, <2>2 DEF Proc
<1>5. proc' = [proc EXCEPT !["load"] = r]
  BY <1>1
<1>6. Only("load") /\ proc'["load"] = r
  <2> HIDE DEF r
  <2> QED
    BY <1>4, <1>5, Becomes, Special
<1>7. TypeOK'
  BY <1>6 DEF TypeOK, LoadEach, store, client, wire, server, counters, history, Only
<1> QED
  BY <1>2, <1>6, <1>7

LEMMA LoadDoneStep ==
    ASSUME TypeOK, LoadDone
    PROVE  TypeOK' /\ Only("load") /\ proc'["load"] = Idle
<1>1. Only("load") /\ proc'["load"] = Idle
  BY FinishStep, Special DEF LoadDone
<1> QED
  BY <1>1 DEF TypeOK, LoadDone, store, client, wire, server, counters, history, Only

LEMMA CrashStep ==
    ASSUME TypeOK, Crash
    PROVE  TypeOK' /\ \A p \in Procs : proc'[p] \in {Idle, Done} /\ (p \notin Callers => proc'[p] = Idle)
<1>1. /\ proc' \in [Procs -> Proc]
      /\ \A p \in Procs : proc'[p] \in {Idle, Done} /\ (p \notin Callers => proc'[p] = Idle)
  BY IdleTypes DEF Crash
<1>2. NoSession \in Session
  BY DEF NoSession, Session, Entry
<1>3. sessions' \in [Codes -> Session] /\ buf' \in [Calls -> Seq(Reply)]
  BY <1>2 DEF Crash
<1>4. lis' \in [ch : Calls \cup {NoCall}, msg : Reply]
  BY Refusals DEF Crash
<1>5. up' \in Seq(Request) /\ down' \in Seq(Reply)
  BY DEF Crash
<1>6. crashes' \in 0 .. MaxCrashes
  BY SharesAssumption DEF TypeOK, Crash
<1> QED
  BY <1>1, <1>3, <1>4, <1>5, <1>6 DEF TypeOK, Crash, server, history

LEMMA LinksChangeStep ==
    ASSUME TypeOK, LinksChange
    PROVE  TypeOK' /\ UNCHANGED <<agent, store, client, wire, server, counters, history>>
<1>1. links' \subseteq Links
  BY DEF TypeOK, LinksChange
<1> QED
  BY <1>1 DEF TypeOK, LinksChange, agent, store, client, wire, server, counters, history

-----------------------------------------------------------------------------
(* The slot, the locals, the phases and the buffers *)

\* Who can move: everybody but the loader when the agent is up, the loader
\* alone before.
LEMMA Who ==
    ASSUME Phases, NEW p \in Procs, proc[p].pc \notin {"idle", "done"}
    PROVE  \/ phase = "up" /\ p # "load"
           \/ phase = "load" /\ p = "load" /\ proc[p].pc \in LoaderPcs
  BY DEF Phases

\* A goroutine that has ended, or goes on with its list.
LEMMA RestLocals ==
    ASSUME NEW p \in Procs, proc'[p] \in {Idle, Done}
    PROVE  LocalsAt(p)' /\ proc'[p].pc \in {"idle", "done"}
  BY DEF Idle, Done, LocalsAt, Called, Coded, PollerAdds

LEMMA AgainLocals ==
    ASSUME NEW p \in Procs, Again(p), LocalsAt(p), p = "poll" => proc[p].pc \in PollerAdds
    PROVE  LocalsAt(p)' /\ proc'[p].pc = "each" /\ proc'[p].todo = proc[p].todo
<1>1. /\ proc'[p].pc = "each" /\ proc'[p].todo = proc[p].todo
  BY DEF Again, Idle
<1> QED
  BY <1>1 DEF LocalsAt, Called, Coded, PollerAdds

\* A failing registration.
LEMMA FailLocals ==
    ASSUME TypeOK, NEW p \in Procs, Fail(p), LocalsAt(p)
    PROVE  LocalsAt(p)' /\ proc'[p].pc \in {"idle", "done", "each"} /\ (p = "load" => Again(p))
<1>1. CASE p = "load"
  BY <1>1, FailStep, AgainLocals
<1>2. CASE p # "load"
  BY <1>2, FailStep, RestLocals
<1> QED
  BY <1>1, <1>2

\* A step of one goroutine keeps the locals and the phases.
LEMMA KeepsRest ==
    ASSUME Basics, NEW p \in Procs, Only(p), LocalsAt(p)', UNCHANGED phase,
           phase # "up" => p = "load",
           p = "load" => phase = "load" /\ proc'[p].pc \in LoaderPcs
    PROVE  Locals' /\ Phases'
<1>2. Locals'
  <2> SUFFICES ASSUME NEW q \in Procs PROVE LocalsAt(q)'
    BY DEF Locals
  <2>1. CASE q # p
    BY <2>1 DEF Basics, Locals, LocalsAt, Only
  <2> QED
    BY <2>1
<1>3. Phases'
  <2>1. "load" \in Procs
    BY Special
  <2> QED
    BY <2>1 DEF Basics, Phases, Only
<1> QED
  BY <1>2, <1>3

\* Most steps move one goroutine and leave the slot and the buffers alone.
LEMMA Keeps ==
    ASSUME Basics, TypeOK', NEW p \in Procs, Only(p), LocalsAt(p)',
           UNCHANGED <<slot, buf, phase>>,
           proc'[p].pc \in Registering <=> proc[p].pc \in Registering,
           proc[p].pc \in Registering => proc'[p].call = proc[p].call,
           phase # "up" => p = "load",
           p = "load" => phase = "load" /\ proc'[p].pc \in LoaderPcs
    PROVE  Basics'
<1>1. SlotInv'
  BY DEF Basics, SlotInv, Only
<1>2. Locals' /\ Phases'
  BY KeepsRest
<1>4. Buffers'
  BY DEF Basics, Buffers
<1> QED
  BY <1>1, <1>2, <1>4 DEF Basics

LEMMA ClaimBasics == ASSUME Basics, NEW p \in Procs, Claim(p) PROVE Basics'
<1>1. /\ TypeOK' /\ Only(p) /\ slot' \in Calls
      /\ proc'[p] = [proc[p] EXCEPT !.pc = "await", !.call = slot']
  BY ClaimStep DEF Basics
<1>2. proc[p].pc = "register" /\ slot = NoCall /\ UNCHANGED <<phase, buf>>
  BY DEF Claim
<1>3. \/ phase = "up" /\ p # "load"
      \/ phase = "load" /\ p = "load"
  BY <1>2, Who DEF Basics
<1>4. proc'[p].pc = "await" /\ proc'[p].call = slot' /\ proc'[p].todo = proc[p].todo
  BY <1>1, ProcTypes DEF Basics, Proc
<1>5. LocalsAt(p)'
  BY <1>1, <1>2, <1>4 DEF Basics, Locals, LocalsAt, Called, Coded, PollerAdds
<1>6. Locals' /\ Phases'
  BY <1>1, <1>2, <1>3, <1>4, <1>5, KeepsRest DEF LoaderPcs
<1>7. \A q \in Procs : proc[q].pc \notin Registering
  BY <1>2, NoCallApart DEF Basics, SlotInv, Locals, LocalsAt, Called, Registering
<1>8. SlotInv'
  <2>1. \A q \in Procs : proc'[q].pc \in Registering => q = p
    BY <1>1, <1>7 DEF Only
  <2>2. proc'[p].pc \in Registering
    BY <1>4 DEF Registering
  <2> QED
    BY <1>4, <2>1, <2>2 DEF SlotInv
<1>9. Buffers'
  BY <1>2 DEF Basics, Buffers
<1> QED
  BY <1>1, <1>6, <1>8, <1>9 DEF Basics

LEMMA ClearSlotBasics == ASSUME Basics, NEW p \in Procs, ClearSlot(p) PROVE Basics'
<1>1. TypeOK' /\ Only(p) /\ slot' = NoCall
  BY ClearSlotStep DEF Basics
<1>2. proc[p].pc = "clear" /\ UNCHANGED <<phase, buf>>
  BY DEF ClearSlot
<1>3. \/ phase = "up" /\ p # "load"
      \/ phase = "load" /\ p = "load"
  BY <1>2, Who DEF Basics
<1>4. LocalsAt(p)' /\ proc'[p].pc \notin Registering /\ (p = "load" => proc'[p].pc \in LoaderPcs)
  <2>1. CASE ~proc[p].reply.ok
    <3>1. Fail(p)
      BY <2>1, ClearSlotStep DEF Basics
    <3> QED
      BY <3>1, FailLocals, AgainLocals DEF Basics, Locals, Registering, LoaderPcs
  <2>2. CASE proc[p].reply.ok
    <3>1. proc'[p] = [proc[p] EXCEPT !.code = proc[p].reply.code, !.reply = Refusal(NoCall),
                              !.pc = IF p = "load" \/ proc[p].kind = "cloud" THEN "insert" ELSE "client"]
      BY <2>2, ClearSlotStep DEF Basics
    <3>2. proc[p].reply.code \in Codes
      BY <2>2, ProcTypes DEF Basics, Reply
    <3>3. /\ proc'[p].code = proc[p].reply.code /\ proc'[p].call = proc[p].call
          /\ proc'[p].kind = proc[p].kind /\ proc'[p].todo = proc[p].todo
          /\ proc'[p].pc = IF p = "load" \/ proc[p].kind = "cloud" THEN "insert" ELSE "client"
      BY <3>1, ProcTypes DEF Basics, Proc
    <3>4. proc[p].kind \in Kinds
      BY ProcTypes DEF Basics
    <3> QED
      BY <1>2, <3>2, <3>3, <3>4 DEF Basics, Locals, LocalsAt, Called, Coded, PollerAdds, Registering, LoaderPcs, Kinds
  <2> QED
    BY <2>1, <2>2
<1>5. Locals' /\ Phases'
  BY <1>1, <1>2, <1>3, <1>4, KeepsRest
<1>6. \A q \in Procs : proc'[q].pc \notin Registering
  BY <1>1, <1>2, <1>4 DEF Basics, SlotInv, Only, Registering
<1>7. SlotInv'
  BY <1>1, <1>6 DEF SlotInv
<1>8. Buffers'
  BY <1>2 DEF Basics, Buffers
<1> QED
  BY <1>1, <1>5, <1>7, <1>8 DEF Basics

LEMMA ReceiveReplyBasics ==
    ASSUME Basics, NEW p \in Procs, ReceiveReply(p)
    PROVE  Basics' /\ buf' = [buf EXCEPT ![proc[p].call] = <<>>]
<1>1. proc[p].pc = "await" /\ UNCHANGED <<phase, slot>> /\ buf[proc[p].call] # <<>>
  BY DEF ReceiveReply
<1>2. proc[p].call \in Calls
  BY <1>1 DEF Basics, Locals, LocalsAt, Called
<1>3. /\ TypeOK' /\ Only(p)
      /\ proc'[p] = [proc[p] EXCEPT !.pc = "clear", !.reply = Head(buf[proc[p].call])]
  BY <1>2, ReceiveReplyStep DEF Basics
<1>4. /\ proc'[p].pc = "clear" /\ proc'[p].call = proc[p].call
      /\ proc'[p].kind = proc[p].kind /\ proc'[p].todo = proc[p].todo
  BY <1>3, ProcTypes DEF Basics, Proc
<1>5. LocalsAt(p)'
  BY <1>1, <1>4 DEF Basics, Locals, LocalsAt, Called, Coded, PollerAdds
<1>6. \/ phase = "up" /\ p # "load"
      \/ phase = "load" /\ p = "load"
  BY <1>1, Who DEF Basics
<1>7. Locals' /\ Phases'
  BY <1>1, <1>3, <1>4, <1>5, <1>6, KeepsRest DEF LoaderPcs
<1>8. SlotInv'
  <2>1. \A q \in Procs : /\ proc'[q].pc \in Registering <=> proc[q].pc \in Registering
                         /\ proc'[q].call = proc[q].call
    BY <1>1, <1>3, <1>4 DEF Only, Registering
  <2> QED
    BY <1>1, <2>1 DEF Basics, SlotInv
<1>9. Tail(buf[proc[p].call]) = <<>>
  <2>1. buf[proc[p].call] = <<Head(buf[proc[p].call])>>
    BY <1>1, <1>2 DEF Basics, Buffers
  <2>2. \A x : Tail(<<x>>) = <<>>
    OBVIOUS
  <2> QED
    BY <2>1, <2>2
<1>10. buf' = [buf EXCEPT ![proc[p].call] = <<>>]
  BY <1>9 DEF ReceiveReply
<1>11. Buffers'
  BY <1>2, <1>10 DEF Basics, Buffers, TypeOK
<1> QED
  BY <1>3, <1>7, <1>8, <1>10, <1>11 DEF Basics

\* Steps of one goroutine that touch neither the slot nor the buffers.
LEMMA ProcBasics ==
    ASSUME Basics, NEW p \in Procs,
           \/ RegisterFails(p) \/ Cancel(p) \/ PollShares(p) \/ NewImmichClient(p)
           \/ Insert(p) \/ SaveCloud(p) \/ SaveImmich(p) \/ Drop(p) \/ TellServer(p)
    PROVE  Basics'
<1> USE DEF Basics
<1>1. LocalsAt(p)
  BY DEF Locals
<1>2. proc[p].pc \notin {"idle", "done"} /\ UNCHANGED <<slot, buf, phase>>
  BY DEF RegisterFails, Cancel, PollShares, NewImmichClient, Insert, SaveCloud, SaveImmich, Drop,
         TellServer, client
<1>3. \/ phase = "up" /\ p # "load"
      \/ phase = "load" /\ p = "load" /\ proc[p].pc \in LoaderPcs
  BY <1>2, Who
<1>4. ASSUME TypeOK', Only(p), LocalsAt(p)',
             proc'[p].pc \in Registering <=> proc[p].pc \in Registering,
             proc[p].pc \in Registering => proc'[p].call = proc[p].call,
             p = "load" => proc'[p].pc \in LoaderPcs
      PROVE  Basics'
  BY <1>2, <1>3, <1>4, Keeps
<1>5. CASE RegisterFails(p)
  <2>1. proc[p].pc = "register" /\ Fail(p)
    BY <1>5 DEF RegisterFails
  <2>2. TypeOK' /\ Only(p)
    BY <1>5, <2>1, RegisterFailsStep, FailStep
  <2>3. LocalsAt(p)' /\ proc'[p].pc \in {"idle", "done", "each"} /\ (p = "load" => proc'[p].pc = "each")
    BY <1>1, <2>1, FailLocals, AgainLocals
  <2> QED
    BY <1>4, <2>1, <2>2, <2>3 DEF Registering, LoaderPcs
<1>6. CASE Cancel(p)
  <2>1. proc[p].pc = "await" /\ p # "load"
    BY <1>6, SharesAssumption DEF Cancel
  <2>2. /\ TypeOK' /\ Only(p)
        /\ proc'[p] = [proc[p] EXCEPT !.pc = "clear", !.reply = Refusal(proc[p].call)]
    BY <1>6, CancelStep
  <2>3. proc'[p].pc = "clear" /\ proc'[p].call = proc[p].call /\ proc'[p].todo = proc[p].todo
    BY <2>2, ProcTypes DEF Proc
  <2>4. LocalsAt(p)'
    BY <1>1, <2>1, <2>3 DEF LocalsAt, Called, Coded, PollerAdds
  <2> QED
    BY <1>4, <2>1, <2>2, <2>3, <2>4 DEF Registering
<1>7. CASE PollShares(p)
  <2>1. /\ TypeOK' /\ Only(p) /\ proc[p].pc = "list"
        /\ proc'[p] = [proc[p] EXCEPT !.pc = "register"] \/ proc'[p] \in {Idle, Done}
    BY <1>7, PollSharesStep DEF PollShares
  <2>2. CASE proc'[p] = [proc[p] EXCEPT !.pc = "register"]
    <3>1. proc'[p].pc = "register" /\ proc'[p].code = proc[p].code /\ proc'[p].todo = proc[p].todo
      BY <2>2, ProcTypes DEF Proc
    <3>2. p # "poll"
      BY <1>1, <2>1, Special DEF LocalsAt
    <3>3. LocalsAt(p)'
      BY <1>1, <2>1, <3>1, <3>2 DEF LocalsAt, Called, Coded, PollerAdds
    <3> QED
      BY <1>3, <1>4, <2>1, <3>1, <3>3 DEF Registering, LoaderPcs
  <2>3. CASE proc'[p] \in {Idle, Done}
    BY <1>3, <1>4, <2>1, <2>3, RestLocals DEF Registering, LoaderPcs
  <2> QED
    BY <2>1, <2>2, <2>3
<1>8. CASE NewImmichClient(p)
  <2>1. /\ TypeOK' /\ Only(p) /\ proc[p].pc = "client" /\ p # "load"
        /\ proc'[p] = [proc[p] EXCEPT !.pc = "save"] \/ Fail(p)
    BY <1>3, <1>8, NewImmichClientStep DEF NewImmichClient, LoaderPcs
  <2>2. CASE proc'[p] = [proc[p] EXCEPT !.pc = "save"]
    <3>1. /\ proc'[p].pc = "save" /\ proc'[p].code = proc[p].code /\ proc'[p].todo = proc[p].todo
          /\ proc'[p].call = proc[p].call
      BY <2>2, ProcTypes DEF Proc
    <3>2. LocalsAt(p)'
      BY <1>1, <2>1, <3>1 DEF LocalsAt, Called, Coded, PollerAdds
    <3> QED
      BY <1>4, <2>1, <3>1, <3>2 DEF Registering
  <2>3. CASE Fail(p)
    BY <1>1, <1>4, <2>1, <2>3, FailLocals DEF Registering
  <2> QED
    BY <2>1, <2>2, <2>3
<1>9. CASE Insert(p)
  <2>1. proc[p].pc = "insert" /\ proc[p].code \in Codes
    BY <1>1, <1>9 DEF Insert, LocalsAt, Coded
  <2>2. /\ TypeOK' /\ Only(p)
        /\ \/ p \in Callers /\ proc[p].kind = "cloud" /\ proc'[p] = [proc[p] EXCEPT !.pc = "save"]
           \/ Again(p)
           \/ p \notin {"poll", "load"} /\ proc'[p] \in {Idle, Done}
    BY <1>9, <2>1, InsertStep
  <2>3. CASE p \in Callers /\ proc'[p] = [proc[p] EXCEPT !.pc = "save"]
    <3>1. /\ proc'[p].pc = "save" /\ proc'[p].code = proc[p].code /\ proc'[p].todo = proc[p].todo
          /\ proc'[p].call = proc[p].call
      BY <2>3, ProcTypes DEF Proc
    <3>2. LocalsAt(p)' /\ p # "load"
      BY <1>1, <2>1, <2>3, <3>1, Special DEF LocalsAt, Called, Coded, PollerAdds
    <3> QED
      BY <1>4, <2>1, <2>2, <3>1, <3>2 DEF Registering
  <2>4. CASE Again(p)
    BY <1>1, <1>4, <2>1, <2>2, <2>4, AgainLocals DEF Registering, PollerAdds, LoaderPcs
  <2>5. CASE p \notin {"poll", "load"} /\ proc'[p] \in {Idle, Done}
    BY <1>4, <2>1, <2>2, <2>5, RestLocals DEF Registering
  <2> QED
    BY <2>2, <2>3, <2>4, <2>5
<1>10. CASE SaveCloud(p)
  <2>1. proc[p].pc = "save" /\ proc[p].code \in Codes /\ p # "load"
    BY <1>1, <1>3, <1>10 DEF SaveCloud, LocalsAt, Coded, LoaderPcs
  <2> QED
    BY <1>4, <1>10, <2>1, SaveCloudStep, RestLocals DEF Registering
<1>11. CASE SaveImmich(p)
  <2>1. proc[p].pc = "save" /\ proc[p].code \in Codes /\ p # "load"
    BY <1>1, <1>3, <1>11 DEF SaveImmich, LocalsAt, Coded, LoaderPcs
  <2>2. TypeOK' /\ Only(p) /\ (proc'[p] = [proc[p] EXCEPT !.pc = "insert"] \/ Fail(p))
    BY <1>11, <2>1, SaveImmichStep
  <2>3. CASE proc'[p] = [proc[p] EXCEPT !.pc = "insert"]
    <3>1. /\ proc'[p].pc = "insert" /\ proc'[p].code = proc[p].code /\ proc'[p].todo = proc[p].todo
          /\ proc'[p].call = proc[p].call
      BY <2>3, ProcTypes DEF Proc
    <3>2. LocalsAt(p)'
      BY <1>1, <2>1, <3>1 DEF LocalsAt, Called, Coded, PollerAdds
    <3> QED
      BY <1>4, <2>1, <2>2, <3>1, <3>2 DEF Registering
  <2>4. CASE Fail(p)
    BY <1>1, <1>4, <2>1, <2>2, <2>4, FailLocals DEF Registering
  <2> QED
    BY <2>2, <2>3, <2>4
<1>12. CASE Drop(p)
  <2>1. proc[p].pc = "drop" /\ p # "load"
    BY <1>3, <1>12 DEF Drop, LoaderPcs
  <2>2. TypeOK' /\ Only(p) /\ proc'[p].pc = "tell"
    BY <1>12, DropStep, ProcTypes DEF Proc
  <2>3. LocalsAt(p)'
    BY <2>2 DEF LocalsAt, Called, Coded, PollerAdds
  <2> QED
    BY <1>4, <2>1, <2>2, <2>3 DEF Registering
<1>13. CASE TellServer(p)
  <2>1. proc[p].pc = "tell" /\ p # "load"
    BY <1>3, <1>13 DEF TellServer, LoaderPcs
  <2>2. /\ TypeOK' /\ Only(p)
        /\ proc'[p] \in {Idle, Done} \/ proc'[p] = [proc[p] EXCEPT !.pc = "drop"]
    BY <1>13, TellServerStep
  <2>3. CASE proc'[p] = [proc[p] EXCEPT !.pc = "drop"]
    <3>1. proc'[p].pc = "drop"
      BY <2>3, ProcTypes DEF Proc
    <3>2. LocalsAt(p)'
      BY <3>1 DEF LocalsAt, Called, Coded, PollerAdds
    <3> QED
      BY <1>4, <2>1, <2>2, <3>1, <3>2 DEF Registering
  <2>4. CASE proc'[p] \in {Idle, Done}
    BY <1>4, <2>1, <2>2, <2>4, RestLocals DEF Registering
  <2> QED
    BY <2>2, <2>3, <2>4
<1> QED
  BY <1>5, <1>6, <1>7, <1>8, <1>9, <1>10, <1>11, <1>12, <1>13

\* Steps of requests, the pruner and the poller that begin something.
LEMMA BeginBasics ==
    ASSUME Basics, NEW p \in Procs, phase = "up", p # "load", UNCHANGED <<slot, buf, phase>>,
           TypeOK', Only(p), proc[p].pc \notin Registering, proc'[p].pc \notin Registering,
           LocalsAt(p)'
    PROVE  Basics'
  BY Keeps

LEMMA DetachBasics ==
    ASSUME Basics, NEW p \in Procs, NEW cs \in SUBSET Codes, Detach(p, cs),
           phase = "up", proc[p].pc = "idle", p # "load"
    PROVE  Basics'
<1>1. TypeOK' /\ Only(p) /\ proc'[p].pc = "drop"
  BY DetachStep DEF Basics, Idle
<1>2. LocalsAt(p)'
  BY <1>1 DEF LocalsAt, Called, Coded, PollerAdds
<1>3. UNCHANGED <<slot, buf, phase>>
  BY DEF Detach, client
<1> QED
  BY <1>1, <1>2, <1>3, BeginBasics DEF Registering

LEMMA CallerBasics ==
    ASSUME Basics, NEW p \in Callers,
           \/ CreateSession(p)
           \/ \E c \in Codes : RevokeSession(p, c)
           \/ \E k \in Links : CreateManual(p, k)
    PROVE  Basics'
<1>0. p \in Procs /\ p # "load" /\ p # "poll" /\ p # "prune"
  BY SharesAssumption DEF Procs
<1>1. CASE CreateSession(p)
  <2>1. TypeOK' /\ Only(p) /\ proc'[p].pc = "register" /\ proc'[p].code = NoCode
    BY <1>1, CreateStep DEF Basics, Idle
  <2>2. LocalsAt(p)'
    BY <1>0, <2>1 DEF LocalsAt, Called, Coded, PollerAdds
  <2>3. UNCHANGED <<slot, buf, phase>> /\ phase = "up" /\ proc[p].pc = "idle"
    BY <1>1 DEF CreateSession, client
  <2> QED
    BY <1>0, <2>1, <2>2, <2>3, BeginBasics DEF Registering
<1>2. ASSUME NEW c \in Codes, RevokeSession(p, c) PROVE Basics'
  <2>1. {c} \in SUBSET Codes /\ Detach(p, {c}) /\ phase = "up" /\ proc[p].pc = "idle"
    BY <1>2 DEF RevokeSession
  <2> QED
    BY <1>0, <2>1, DetachBasics
<1>3. ASSUME NEW k \in Links, CreateManual(p, k) PROVE Basics'
  <2>1. TypeOK' /\ Only(p) /\ proc'[p].pc = "list" /\ proc'[p].code = k
    <3>1. TypeOK' /\ Only(p) /\ proc'[p] = [Idle EXCEPT !.pc = "list", !.kind = "immich", !.code = k]
      BY <1>3, CreateManualStep DEF Basics
    <3> QED
      BY <3>1 DEF Idle
  <2>2. LocalsAt(p)'
    BY <1>0, <2>1 DEF LocalsAt, Called, Coded, PollerAdds
  <2>3. UNCHANGED <<slot, buf, phase>> /\ phase = "up" /\ proc[p].pc = "idle"
    BY <1>3 DEF CreateManual, client
  <2> QED
    BY <1>0, <2>1, <2>2, <2>3, BeginBasics DEF Registering
<1> QED
  BY <1>1, <1>2, <1>3

LEMMA PruneBasics == ASSUME Basics, PruneExpired PROVE Basics'
<1>1. PICK cs \in SUBSET {c \in Codes : sessions[c].kind = "cloud"} : Detach("prune", cs)
  BY DEF PruneExpired
<1>2. cs \in SUBSET Codes /\ phase = "up" /\ proc["prune"].pc = "idle" /\ "prune" \in Procs
  BY Special DEF PruneExpired
<1> QED
  BY <1>1, <1>2, DetachBasics

LEMMA PollBasics ==
    ASSUME Basics, StartSync \/ SyncEach \/ SyncSweep \/ SyncUnregister \/ SyncDelete \/ SyncUnmap
    PROVE  Basics'
<1> DEFINE p == "poll"
<1>0. p \in Procs /\ LocalsAt(p) /\ TypeOK
  BY Special DEF Basics, Locals
<1>1. ASSUME UNCHANGED <<slot, buf, phase>>, phase = "up", TypeOK', Only(p),
             proc[p].pc \notin Registering, proc'[p].pc \notin Registering, LocalsAt(p)'
      PROVE  Basics'
  BY <1>0, <1>1, BeginBasics
<1>2. proc[p].pc # "idle" /\ proc[p].pc # "done" => phase = "up"
  BY <1>0, Who DEF Basics
<1>3. CASE StartSync
  <2>1. TypeOK' /\ Only(p) /\ proc'[p].pc = "each" /\ proc'[p].todo = links \X {NoCall}
    BY <1>0, <1>3, StartSyncStep DEF Idle
  <2>2. proc'[p].todo \subseteq Links \X {NoCall}
    BY <1>0, <2>1 DEF TypeOK
  <2>4. LocalsAt(p)'
    BY <2>1, <2>2 DEF LocalsAt, Called, Coded, PollerAdds
  <2>3. UNCHANGED <<slot, buf, phase>> /\ phase = "up" /\ proc[p].pc = "idle"
    BY <1>3 DEF StartSync, client
  <2> QED
    BY <1>1, <2>1, <2>3, <2>4 DEF Registering
<1>4. CASE SyncEach
  <2>1. UNCHANGED <<slot, buf, phase>> /\ proc[p].pc = "each"
    BY <1>4 DEF SyncEach, client
  <2>2. PICK t \in proc[p].todo, pc \in {"register", "each"} :
          /\ TypeOK' /\ Only(p)
          /\ proc'[p] = [proc[p] EXCEPT !.pc = pc, !.code = t[1], !.kind = "immich",
                                        !.todo = proc[p].todo \ {t}]
    BY <1>0, <1>4, SyncEachStep
  <2>3. /\ proc'[p].pc = pc /\ proc'[p].code = t[1] /\ proc'[p].todo \subseteq proc[p].todo
    BY <1>0, <2>2, ProcTypes DEF Proc
  <2>4. proc[p].todo \subseteq Links \X {NoCall}
    BY <1>0, <2>1 DEF LocalsAt, PollerAdds
  <2>5. t[1] \in Links
    BY <2>4
  <2>6. LocalsAt(p)'
    BY <2>3, <2>4, <2>5 DEF LocalsAt, Called, Coded, PollerAdds
  <2> QED
    BY <1>1, <1>2, <2>1, <2>2, <2>3, <2>6 DEF Registering
<1>5. CASE SyncSweep
  <2>1. UNCHANGED <<slot, buf, phase>> /\ proc[p].pc = "each"
    BY <1>5 DEF SyncSweep, client
  <2>2. TypeOK' /\ Only(p) /\ proc'[p].pc \in {"idle", "done", "remove"}
    BY <1>0, <1>5, SyncSweepStep, ProcTypes, IdleTypes DEF Proc
  <2>3. LocalsAt(p)'
    BY <2>2 DEF LocalsAt, Called, Coded, PollerAdds
  <2> QED
    BY <1>1, <1>2, <2>1, <2>2, <2>3 DEF Registering
<1>6. CASE SyncUnregister
  <2>1. UNCHANGED <<slot, buf, phase>> /\ proc[p].pc = "remove"
    BY <1>6 DEF SyncUnregister, client
  <2>2. TypeOK' /\ Only(p)
    BY <1>0, <1>6, SyncUnregisterStep
  <2>3. \/ proc'[p].pc = "delete" /\ proc'[p].code \in Codes
        \/ proc'[p].pc \in {"idle", "done"}
    <3>1. ASSUME NEW t, t[1] \in Codes,
                 proc'[p] = [proc[p] EXCEPT !.pc = "delete", !.code = t[1], !.call = t[2],
                                            !.todo = proc[p].todo \ {t}]
          PROVE  proc'[p].pc = "delete" /\ proc'[p].code \in Codes
      BY <1>0, <3>1, ProcTypes DEF Proc
    <3> QED
      BY <1>0, <1>6, <3>1, SyncUnregisterStep, IdleTypes
  <2>4. LocalsAt(p)'
    BY <2>3 DEF LocalsAt, Called, Coded, PollerAdds
  <2> QED
    BY <1>1, <1>2, <2>1, <2>2, <2>3, <2>4 DEF Registering
<1>7. CASE SyncDelete
  <2>1. UNCHANGED <<slot, buf, phase>> /\ proc[p].pc = "delete"
    BY <1>7 DEF SyncDelete, client
  <2>2. proc[p].code \in Codes
    BY <1>0, <2>1 DEF LocalsAt, Coded
  <2>3. /\ TypeOK' /\ Only(p)
        /\ proc'[p] = [proc[p] EXCEPT !.pc = "unmap"] \/ proc'[p] \in {Idle, Done}
    BY <1>0, <1>7, <2>2, SyncDeleteStep
  <2>4. \/ proc'[p].pc = "unmap" /\ proc'[p].code \in Codes
        \/ proc'[p].pc \in {"idle", "done"}
    BY <1>0, <2>2, <2>3, ProcTypes, IdleTypes DEF Proc
  <2>5. LocalsAt(p)'
    BY <2>4 DEF LocalsAt, Called, Coded, PollerAdds
  <2> QED
    BY <1>1, <1>2, <2>1, <2>3, <2>4, <2>5 DEF Registering
<1>8. CASE SyncUnmap
  <2>1. UNCHANGED <<slot, buf, phase>> /\ proc[p].pc = "unmap"
    BY <1>8 DEF SyncUnmap, client
  <2>2. proc[p].code \in Codes
    BY <1>0, <2>1 DEF LocalsAt, Coded
  <2>3. /\ TypeOK' /\ Only(p)
        /\ proc'[p] = [proc[p] EXCEPT !.pc = "remove"] \/ proc'[p] \in {Idle, Done}
    BY <1>0, <1>8, <2>2, SyncUnmapStep
  <2>4. proc'[p].pc \in {"idle", "done", "remove"}
    BY <1>0, <2>3, ProcTypes, IdleTypes DEF Proc
  <2>5. LocalsAt(p)'
    BY <2>4 DEF LocalsAt, Called, Coded, PollerAdds
  <2> QED
    BY <1>1, <1>2, <2>1, <2>3, <2>4, <2>5 DEF Registering
<1> QED
  BY <1>3, <1>4, <1>5, <1>6, <1>7, <1>8

\* Steps that touch no goroutine.
LEMMA QuietBasics ==
    ASSUME Basics,
           \/ ListenRead \/ ListenDeliver \/ ServerRegisters \/ ServerUnregisters \/ ServerIgnores
           \/ LinksChange \/ UNCHANGED vars
    PROVE  Basics'
<1>1. UNCHANGED <<slot, phase, proc>>
  BY DEF ListenRead, ListenDeliver, ServerRegisters, ServerUnregisters, ServerIgnores, LinksChange,
         vars, agent, client
<1>2. SlotInv' /\ Locals' /\ Phases'
  BY <1>1 DEF Basics, SlotInv, Locals, LocalsAt, Phases
<1>3. TypeOK'
  BY ListenReadStep, ListenDeliverStep, ServerRegistersStep, ServerUnregistersStep, ServerIgnoresStep,
     LinksChangeStep DEF Basics, TypeOK, vars, agent, client, store, wire, server, counters, history
<1>4. Buffers'
  <2>1. CASE ListenDeliver
    <3>1. buf' = [buf EXCEPT ![lis.ch] = <<lis.msg>>] /\ lis.ch \in Calls /\ buf \in [Calls -> Seq(Reply)]
      BY <2>1, ListenDeliverStep DEF Basics, TypeOK
    <3>2. \A x : <<Head(<<x>>)>> = <<x>>
      OBVIOUS
    <3> QED
      BY <3>1, <3>2 DEF Basics, Buffers
  <2>2. CASE UNCHANGED buf
    BY <2>2 DEF Basics, Buffers
  <2> QED
    BY <2>1, <2>2 DEF ListenRead, ServerRegisters, ServerUnregisters, ServerIgnores, LinksChange, vars, client
<1> QED
  BY <1>2, <1>3, <1>4 DEF Basics

\* Starting, loading and crashing.
LEMMA PhaseBasics ==
    ASSUME Basics, Loading, Start \/ LoadEach \/ LoadDone \/ Crash
    PROVE  Basics'
<1>0. TypeOK /\ "load" \in Procs
  BY Special DEF Basics
<1>1. CASE Start
  <2>1. PICK cs \in SUBSET {c \in Codes : mem[c] # "none"} :
          TypeOK' /\ Only("load") /\ proc'["load"] = [Idle EXCEPT !.pc = "each", !.todo = cs \X {NoCall}]
    BY <1>0, <1>1, StartStep
  <2>2. proc'["load"].pc = "each"
    BY <2>1 DEF Idle
  <2>3. phase = "down" /\ phase' = "load" /\ UNCHANGED <<slot, buf>>
    BY <1>1 DEF Start, client
  <2>4. \A q \in Procs : proc[q].pc \in {"idle", "done"}
    BY <2>3 DEF Basics, Phases
  <2>5. SlotInv'
    BY <2>1, <2>2, <2>3, <2>4 DEF Basics, SlotInv, Only, Registering
  <2>6. LocalsAt("load")'
    BY <2>2 DEF LocalsAt, Called, Coded, PollerAdds
  <2>7. Locals'
    BY <2>1, <2>6 DEF Basics, Locals, LocalsAt, Only
  <2>8. Phases'
    BY <2>1, <2>2, <2>3, <2>4 DEF Phases, Only, LoaderPcs
  <2>9. Buffers'
    BY <2>3 DEF Basics, Buffers
  <2> QED
    BY <2>1, <2>5, <2>7, <2>8, <2>9 DEF Basics
<1>2. CASE LoadEach
  <2>1. proc["load"].pc = "each" /\ UNCHANGED <<slot, buf, phase>>
    BY <1>2 DEF LoadEach, client
  <2>2. phase = "load"
    BY <1>0, <2>1, Who DEF Basics
  <2>3. \A t \in proc["load"].todo : mem[t[1]] # "none"
    BY <2>2 DEF Loading
  <2>4. TypeOK' /\ Only("load") /\ proc'["load"].pc \in {"register", "each"}
    BY <1>0, <1>2, <2>3, LoadEachStep, ProcTypes DEF Proc
  <2>5. LocalsAt("load")'
    BY <2>4 DEF LocalsAt, Called, Coded, PollerAdds
  <2> QED
    BY <1>0, <2>1, <2>2, <2>4, <2>5, Keeps DEF Registering, LoaderPcs
<1>3. CASE LoadDone
  <2>1. proc["load"].pc = "each" /\ phase' = "up" /\ UNCHANGED <<slot, buf>>
    BY <1>3 DEF LoadDone, client
  <2>2. TypeOK' /\ Only("load") /\ proc'["load"].pc = "idle" /\ proc'["load"] \in {Idle, Done}
    BY <1>0, <1>3, LoadDoneStep, IdleTypes
  <2>3. SlotInv'
    BY <2>1, <2>2 DEF Basics, SlotInv, Only, Registering
  <2>4. LocalsAt("load")'
    BY <1>0, <2>2, RestLocals
  <2>5. Locals'
    BY <2>2, <2>4 DEF Basics, Locals, LocalsAt, Only
  <2>6. Phases'
    BY <2>1, <2>2 DEF Phases
  <2>7. Buffers'
    BY <2>1 DEF Basics, Buffers
  <2> QED
    BY <2>2, <2>3, <2>5, <2>6, <2>7 DEF Basics
<1>4. CASE Crash
  <2>1. /\ TypeOK'
        /\ \A p \in Procs : proc'[p] \in {Idle, Done} /\ (p \notin Callers => proc'[p] = Idle)
    BY <1>0, <1>4, CrashStep
  <2>2. phase' = "down" /\ slot' = NoCall /\ buf' = [i \in Calls |-> <<>>]
    BY <1>4 DEF Crash
  <2>3. \A p \in Procs : LocalsAt(p)' /\ proc'[p].pc \in {"idle", "done"}
    BY <2>1, RestLocals
  <2>4. proc'["load"].pc = "idle"
    BY <2>1, Special, IdleTypes
  <2>5. SlotInv' /\ Phases'
    BY <2>2, <2>3, <2>4 DEF SlotInv, Phases, Registering
  <2>6. Locals' /\ Buffers'
    BY <2>2, <2>3 DEF Locals, Buffers
  <2> QED
    BY <2>1, <2>5, <2>6 DEF Basics
<1> QED
  BY <1>1, <1>2, <1>3, <1>4

LEMMA NextBasics == ASSUME Basics, Loading, [Next]_vars PROVE Basics'
<1>1. ASSUME NEW p \in Procs, Register(p) \/ Insert(p) \/ Immich(p) \/ SaveCloud(p) \/ Remove(p)
      PROVE  Basics'
  BY <1>1, ClaimBasics, ClearSlotBasics, ReceiveReplyBasics, ProcBasics DEF Register, Immich, Remove
<1>2. ASSUME NEW p \in Callers, CreateSession(p) \/ \E c \in Codes : RevokeSession(p, c)
      PROVE  Basics'
  BY <1>2, CallerBasics
<1>3. ASSUME NEW p \in Callers, NEW k \in Links, CreateManual(p, k) PROVE Basics'
  BY <1>3, CallerBasics
<1>4. CASE StartSync \/ SyncEach \/ SyncSweep \/ SyncUnregister \/ SyncDelete \/ SyncUnmap
  BY <1>4, PollBasics
<1>5. CASE Start \/ LoadEach \/ LoadDone \/ Crash
  BY <1>5, PhaseBasics
<1>6. CASE \/ ListenRead \/ ListenDeliver \/ ServerRegisters \/ ServerUnregisters \/ ServerIgnores
           \/ LinksChange \/ UNCHANGED vars
  BY <1>6, QuietBasics
<1> QED
  BY <1>1, <1>2, <1>3, <1>4, <1>5, <1>6, PruneBasics DEF Next

-----------------------------------------------------------------------------
(* The loader *)

Steady == <<agent, store, client, wire, server, counters, history>>

\* A goroutine that rests takes none of the steps of a registration or removal.
LEMMA RestsStill ==
    ASSUME NEW p \in Procs, proc[p].pc \in {"idle", "done"}
    PROVE  ~(Register(p) \/ Insert(p) \/ Immich(p) \/ SaveCloud(p) \/ Remove(p))
<1>1. ~Register(p)
  BY DEF Register, Claim, RegisterFails, ReceiveReply, Cancel, ClearSlot
<1>2. ~Immich(p)
  BY DEF Immich, PollShares, NewImmichClient, SaveImmich
<1>3. ~Insert(p) /\ ~SaveCloud(p) /\ ~Remove(p)
  BY DEF Insert, SaveCloud, Remove, Drop, TellServer
<1> QED
  BY <1>1, <1>2, <1>3

\* Before the start nothing happens but the start.
LEMMA DownMoves ==
    ASSUME Basics, Loading, [Next]_vars, phase = "down"
    PROVE  Start \/ UNCHANGED Steady
<1>1. \A p \in Procs : proc[p].pc \in {"idle", "done"}
  BY DEF Basics, Phases
<1>2. \A p \in Procs : ~(Register(p) \/ Insert(p) \/ Immich(p) \/ SaveCloud(p) \/ Remove(p))
  BY <1>1, RestsStill
<1>3. ~(SyncEach \/ SyncSweep \/ SyncUnregister \/ SyncDelete \/ SyncUnmap \/ LoadEach \/ LoadDone)
  BY <1>1, Special DEF SyncEach, SyncSweep, SyncUnregister, SyncDelete, SyncUnmap, LoadEach, LoadDone
<1>4. ~(ListenRead \/ ListenDeliver \/ ServerRegisters \/ ServerUnregisters \/ ServerIgnores)
  BY DEF Loading, Silent, ListenRead, ListenDeliver, ServerRegisters, ServerUnregisters, ServerIgnores
<1>5. ~(PruneExpired \/ StartSync \/ Crash)
  BY DEF PruneExpired, StartSync, Crash
<1>6. \A p \in Callers : /\ ~CreateSession(p)
                         /\ \A c \in Codes : ~RevokeSession(p, c)
                         /\ \A k \in Links : ~CreateManual(p, k)
  BY DEF CreateSession, RevokeSession, CreateManual
<1>7. LinksChange \/ UNCHANGED vars => UNCHANGED Steady
  BY DEF LinksChange, vars, Steady
<1> QED
  BY <1>2, <1>3, <1>4, <1>5, <1>6, <1>7 DEF Next

\* What is on the wire while the loader works.
LEMMA LoadWire ==
    ASSUME Loading, phase = "load", up # <<>>
    PROVE  /\ proc["load"].pc = "await"
           /\ up = <<Message("register_share", proc["load"].code, proc["load"].call)>>
           /\ Head(up) = Message("register_share", proc["load"].code, proc["load"].call)
           /\ Tail(up) = <<>>
<1> DEFINE m == Message("register_share", proc["load"].code, proc["load"].call)
<1>1. proc["load"].pc = "await" /\ up = <<m>>
  BY DEF Loading, Silent, Waits
<1>2. \A x : Head(<<x>>) = x /\ Tail(<<x>>) = <<>>
  OBVIOUS
<1> HIDE DEF m
<1>3. Head(up) = m /\ Tail(up) = <<>>
  BY <1>1, <1>2
<1> QED
  BY <1>1, <1>3 DEF m

\* The loader is alone.
LEMMA LoadMoves ==
    ASSUME Basics, Loading, [Next]_vars, phase = "load"
    PROVE  \/ Claim("load") \/ RegisterFails("load") \/ ReceiveReply("load") \/ ClearSlot("load")
           \/ Insert("load") \/ ListenRead \/ ListenDeliver \/ ServerRegisters
           \/ LoadEach \/ LoadDone \/ Crash \/ UNCHANGED Steady
<1>1. \A p \in Procs \ {"load"} : proc[p].pc \in {"idle", "done"}
  BY DEF Basics, Phases
<1>2. \A p \in Procs \ {"load"} : ~(Register(p) \/ Insert(p) \/ Immich(p) \/ SaveCloud(p) \/ Remove(p))
  BY <1>1, RestsStill
<1>3. proc["load"].pc \in LoaderPcs /\ "load" \notin CanCancel
  BY SharesAssumption DEF Basics, Phases
<1>4. ~(Cancel("load") \/ Immich("load") \/ SaveCloud("load") \/ Remove("load"))
  BY <1>3 DEF LoaderPcs, Cancel, Immich, PollShares, NewImmichClient, SaveImmich, SaveCloud, Remove, Drop, TellServer
<1>5. ~(SyncEach \/ SyncSweep \/ SyncUnregister \/ SyncDelete \/ SyncUnmap)
  BY <1>1, Special DEF SyncEach, SyncSweep, SyncUnregister, SyncDelete, SyncUnmap
<1>6. ~(ServerUnregisters \/ ServerIgnores)
  BY LoadWire DEF ServerUnregisters, ServerIgnores, Message
<1>7. ~(PruneExpired \/ StartSync \/ Start)
  BY DEF PruneExpired, StartSync, Start
<1>8. \A p \in Callers : /\ ~CreateSession(p)
                         /\ \A c \in Codes : ~RevokeSession(p, c)
                         /\ \A k \in Links : ~CreateManual(p, k)
  BY DEF CreateSession, RevokeSession, CreateManual
<1>9. LinksChange \/ UNCHANGED vars => UNCHANGED Steady
  BY DEF LinksChange, vars, Steady
<1> QED
  BY <1>2, <1>4, <1>5, <1>6, <1>7, <1>8, <1>9 DEF Next, Register

\* While the agent is up the loader is done, and a step leaves the phase or
\* is a crash.
LEMMA UpMoves ==
    ASSUME Basics, [Next]_vars, phase = "up"
    PROVE  /\ ~Start /\ ~LoadEach /\ ~LoadDone
           /\ Crash \/ phase' = "up"
<1>1. proc["load"].pc = "idle"
  BY DEF Basics, Phases
<1>2. ~Start /\ ~LoadEach /\ ~LoadDone
  BY <1>1 DEF Start, LoadEach, LoadDone
<1>3. ASSUME NEW p \in Procs, Register(p) \/ Insert(p) \/ Immich(p) \/ SaveCloud(p) \/ Remove(p)
      PROVE  phase' = phase
  BY <1>3 DEF Register, Claim, RegisterFails, ReceiveReply, Cancel, ClearSlot, Insert, Immich, PollShares,
              NewImmichClient, SaveImmich, SaveCloud, Remove, Drop, TellServer
<1>4. ASSUME NEW p \in Callers, CreateSession(p) \/ \E c \in Codes : RevokeSession(p, c)
      PROVE  phase' = phase
  BY <1>4 DEF CreateSession, RevokeSession, Detach
<1>5. ASSUME NEW p \in Callers, NEW k \in Links, CreateManual(p, k) PROVE phase' = phase
  BY <1>5 DEF CreateManual
<1>6. /\ ListenRead => phase' = phase
      /\ ListenDeliver => phase' = phase
      /\ LinksChange => phase' = phase
      /\ UNCHANGED vars => phase' = phase
  BY DEF ListenRead, ListenDeliver, LinksChange, vars, agent
<1>7. /\ ServerRegisters => phase' = phase
      /\ ServerUnregisters => phase' = phase
      /\ ServerIgnores => phase' = phase
  BY DEF ServerRegisters, ServerUnregisters, ServerIgnores, agent
<1>8. PruneExpired => phase' = phase
  BY DEF PruneExpired, Detach
<1>9. /\ StartSync => phase' = phase
      /\ SyncEach => phase' = phase
      /\ SyncSweep => phase' = phase
      /\ SyncUnregister => phase' = phase
      /\ SyncDelete => phase' = phase
      /\ SyncUnmap => phase' = phase
  BY DEF StartSync, SyncEach, SyncSweep, SyncUnregister, SyncDelete, SyncUnmap
<1> QED
  BY <1>2, <1>3, <1>4, <1>5, <1>6, <1>7, <1>8, <1>9 DEF Next

\* The loader's invariant from its parts.
LEMMA LoadingFrom ==
    ASSUME phase' = "load",
           \A t \in proc'["load"].todo : mem'[t[1]] # "none",
           proc'["load"].pc # "each" => /\ proc'["load"].code \in Codes
                                        /\ mem'[proc'["load"].code] # "none"
                                        /\ proc'["load"].kind = mem'[proc'["load"].code],
           proc'["load"].pc # "await" => Silent',
           proc'["load"].pc = "await" => Waits(proc["load"].code, proc["load"].call)',
           proc'["load"].pc = "clear" => Answers(proc["load"].reply, proc["load"].code)'
    PROVE  Loading'
  BY DEF Loading

LEMMA ClaimLoading ==
    ASSUME Basics, Loading, phase = "load", Claim("load") PROVE Loading'
<1>0. TypeOK /\ "load" \in Procs
  BY Special DEF Basics
<1>1. /\ slot' \in Calls
      /\ proc'["load"] = [proc["load"] EXCEPT !.pc = "await", !.call = slot']
  BY <1>0, ClaimStep
<1>2. /\ proc["load"].pc = "register" /\ slot' = calls + 1
      /\ UNCHANGED <<phase, mem, buf, lis, down>>
      /\ up' = Append(up, Message("register_share", proc["load"].code, slot'))
  BY DEF Claim, store, Send
<1>3. Silent
  BY <1>2 DEF Loading
<1>4. /\ proc'["load"].pc = "await" /\ proc'["load"].call = slot'
      /\ proc'["load"].code = proc["load"].code /\ proc'["load"].kind = proc["load"].kind
      /\ proc'["load"].todo = proc["load"].todo
  BY <1>0, <1>1, ProcTypes DEF Proc
<1>5. up' = <<Message("register_share", proc["load"].code, slot')>>
  <2>1. \A x : Append(<<>>, x) = <<x>>
    OBVIOUS
  <2> QED
    BY <1>2, <1>3, <2>1 DEF Silent
<1>6. Waits(proc["load"].code, proc["load"].call)'
  BY <1>2, <1>3, <1>4, <1>5 DEF Waits, Silent, NothingInBuffers, Message
<1> QED
  BY <1>2, <1>4, <1>6, LoadingFrom DEF Loading

\* The loader goes on with its next entry.
LEMMA AgainLoading ==
    ASSUME Basics, Loading, phase = "load", Again("load"), proc["load"].pc # "await",
           UNCHANGED <<phase, mem, wire, lis, buf>>
    PROVE  Loading'
<1>1. proc'["load"].pc = "each" /\ proc'["load"].todo = proc["load"].todo
  BY DEF Again, Idle
<1>2. Silent'
  BY DEF Loading, Silent, NothingInBuffers, wire
<1> QED
  BY <1>1, <1>2, LoadingFrom DEF Loading

LEMMA ReceiveReplyLoading ==
    ASSUME Basics, Loading, phase = "load", ReceiveReply("load") PROVE Loading'
<1>0. TypeOK /\ "load" \in Procs /\ LocalsAt("load")
  BY Special DEF Basics, Locals
<1> DEFINE i == proc["load"].call
<1>1. /\ proc["load"].pc = "await" /\ buf[i] # <<>>
      /\ UNCHANGED <<phase, mem, lis, up, down>>
  BY DEF ReceiveReply, store, wire
<1>2. i \in Calls
  BY <1>0, <1>1 DEF LocalsAt, Called
<1>3. proc'["load"] = [proc["load"] EXCEPT !.pc = "clear", !.reply = Head(buf[i])]
  BY <1>0, <1>2, ReceiveReplyStep
<1>4. /\ proc'["load"].pc = "clear" /\ proc'["load"].reply = Head(buf[i])
      /\ proc'["load"].code = proc["load"].code /\ proc'["load"].kind = proc["load"].kind
      /\ proc'["load"].todo = proc["load"].todo
  BY <1>0, <1>3, ProcTypes DEF Proc
<1>5. /\ up = <<>> /\ down = <<>> /\ lis.ch = NoCall
      /\ \A j \in Calls \ {i} : buf[j] = <<>>
      /\ Answers(Head(buf[i]), proc["load"].code)
  <2>1. Waits(proc["load"].code, i)
    BY <1>1 DEF Loading
  <2> QED
    BY <1>1, <1>2, <2>1 DEF Waits, NothingInBuffers
<1>6. buf' = [buf EXCEPT ![i] = <<>>]
  BY <1>0, ReceiveReplyBasics
<1>7. \A j \in Calls : buf'[j] = <<>>
  BY <1>0, <1>5, <1>6 DEF TypeOK
<1>8. Silent'
  BY <1>1, <1>5, <1>7 DEF Silent, NothingInBuffers
<1> QED
  BY <1>1, <1>4, <1>5, <1>8, LoadingFrom DEF Loading, Answers

LEMMA ClearSlotLoading ==
    ASSUME Basics, Loading, phase = "load", ClearSlot("load") PROVE Loading'
<1>0. TypeOK /\ "load" \in Procs
  BY Special DEF Basics
<1>1. proc["load"].pc = "clear" /\ UNCHANGED <<phase, mem, wire, lis, buf>>
  BY DEF ClearSlot, store
<1>2. CASE ~proc["load"].reply.ok
  BY <1>0, <1>1, <1>2, ClearSlotStep, FailStep, AgainLoading
<1>3. CASE proc["load"].reply.ok
  <2>1. proc'["load"] = [proc["load"] EXCEPT !.code = proc["load"].reply.code, !.reply = Refusal(NoCall),
                                             !.pc = "insert"]
    BY <1>0, <1>3, ClearSlotStep
  <2>2. /\ proc'["load"].pc = "insert" /\ proc'["load"].code = proc["load"].reply.code
        /\ proc'["load"].kind = proc["load"].kind /\ proc'["load"].todo = proc["load"].todo
    BY <1>0, <2>1, ProcTypes DEF Proc
  <2>3. proc["load"].reply.code = proc["load"].code
    BY <1>1, <1>3 DEF Loading, Answers
  <2>4. Silent'
    BY <1>1 DEF Loading, Silent, NothingInBuffers, wire
  <2> QED
    BY <1>1, <2>2, <2>3, <2>4, LoadingFrom DEF Loading
<1> QED
  BY <1>2, <1>3

LEMMA InsertLoading ==
    ASSUME Basics, Loading, phase = "load", Insert("load") PROVE Loading'
<1>0. TypeOK /\ "load" \in Procs
  BY Special DEF Basics
<1>1. proc["load"].pc = "insert" /\ UNCHANGED <<phase, mem, wire, lis, buf>> /\ Continue("load")
  BY Special DEF Insert, store, client
<1> QED
  BY <1>0, <1>1, ContinueStep, AgainLoading

LEMMA ListenReadLoading ==
    ASSUME Basics, Loading, phase = "load", ListenRead PROVE Loading'
<1>0. TypeOK /\ "load" \in Procs /\ LocalsAt("load")
  BY Special DEF Basics, Locals
<1>1. /\ down # <<>> /\ UNCHANGED <<phase, mem, proc, buf, up, slot>>
      /\ lis' = IF slot = NoCall THEN lis ELSE [ch |-> slot, msg |-> Head(down)]
  BY DEF ListenRead, agent, store
<1>2. proc["load"].pc = "await" /\ Waits(proc["load"].code, proc["load"].call)
  BY <1>1 DEF Loading, Silent
<1>3. /\ up = <<>> /\ NothingInBuffers
      /\ Len(down) = 1 /\ Answers(down[1], proc["load"].code)
  BY <1>1, <1>2 DEF Waits
<1>4. slot = proc["load"].call /\ slot # NoCall
  BY <1>0, <1>2, NoCallApart DEF Basics, SlotInv, Registering, LocalsAt, Called
<1>5. lis'.ch = proc["load"].call /\ lis'.msg = down[1]
  BY <1>0, <1>1, <1>4, ListenReadStep
<1>6. down' = <<>>
  <2>1. down' \in Seq(Reply) /\ Len(down') = 0
    BY <1>0, <1>3, ListenReadStep
  <2> QED
    BY <2>1, EmptySeq
<1>7. Waits(proc["load"].code, proc["load"].call)'
  BY <1>1, <1>3, <1>5, <1>6 DEF Waits, NothingInBuffers, Answers
<1> QED
  BY <1>1, <1>2, <1>7, LoadingFrom DEF Loading

LEMMA ListenDeliverLoading ==
    ASSUME Basics, Loading, phase = "load", ListenDeliver PROVE Loading'
<1>0. TypeOK
  BY DEF Basics
<1>1. lis.ch # NoCall /\ UNCHANGED <<phase, mem, proc, up, down>>
  BY DEF ListenDeliver, agent, store, wire
<1>2. proc["load"].pc = "await" /\ Waits(proc["load"].code, proc["load"].call)
  BY <1>1 DEF Loading, Silent
<1>3. /\ up = <<>> /\ down = <<>> /\ NothingInBuffers
      /\ lis.ch = proc["load"].call /\ Answers(lis.msg, proc["load"].code)
  BY <1>1, <1>2 DEF Waits
<1>4. /\ lis.ch \in Calls /\ lis'.ch = NoCall
      /\ buf' = [buf EXCEPT ![lis.ch] = <<lis.msg>>]
      /\ Head(buf'[lis.ch]) = lis.msg
  BY <1>0, ListenDeliverStep
<1>5. \A j \in Calls \ {lis.ch} : buf'[j] = <<>>
  BY <1>0, <1>3, <1>4 DEF TypeOK, NothingInBuffers
<1>6. Waits(proc["load"].code, proc["load"].call)'
  BY <1>1, <1>3, <1>4, <1>5 DEF Waits, Answers
<1> QED
  BY <1>1, <1>2, <1>6, LoadingFrom DEF Loading

LEMMA ServerRegistersLoading ==
    ASSUME Basics, Loading, phase = "load", ServerRegisters PROVE Loading'
<1>0. TypeOK
  BY DEF Basics
<1> DEFINE l == proc["load"]
<1>1. up # <<>> /\ up' = Tail(up) /\ UNCHANGED <<phase, mem, proc, buf, lis>>
  BY DEF ServerRegisters, agent, store, client
<1>2. /\ l.pc = "await" /\ Tail(up) = <<>>
      /\ Head(up) = Message("register_share", l.code, l.call)
  BY <1>1, LoadWire
<1>3. down = <<>> /\ lis.ch = NoCall /\ NothingInBuffers
  BY <1>1, <1>2 DEF Loading, Waits
<1>4. l.code \in Codes /\ l.code # NoCode
  BY <1>2, SharesAssumption DEF Loading, Codes, NoCode
<1>5. PICK r \in Reply : Answer(r) /\ Answers(r, l.code)
  <2>1. CASE Answer(Refusal(Head(up).call)) /\ Refusal(Head(up).call) \in Reply
    <3>1. ~Refusal(Head(up).call).ok
      BY DEF Refusal
    <3> QED
      BY <2>1, <3>1 DEF Answers
  <2>2. ASSUME NEW c \in Codes,
               IF Head(up).code = NoCode THEN c \in Fresh \ issued ELSE c = Head(up).code,
               ReplyTo(c, Head(up).call) \in Reply, Answer(ReplyTo(c, Head(up).call))
        PROVE  \E r \in Reply : Answer(r) /\ Answers(r, l.code)
    <3>1. c = l.code
      BY <1>2, <1>4, <2>2 DEF Message
    <3>2. Answers(ReplyTo(c, Head(up).call), l.code)
      BY <3>1 DEF Answers, ReplyTo
    <3> QED
      BY <2>2, <3>2
  <2> QED
    BY <1>0, <2>1, <2>2, ServerRegistersStep
<1>6. Len(down') = 1 /\ down'[1] = r
  <2>1. Len(down) = 0
    BY <1>3
  <2> QED
    BY <1>0, <1>5, <2>1, AnswerStep
<1>7. Waits(proc["load"].code, proc["load"].call)'
  BY <1>1, <1>2, <1>3, <1>5, <1>6 DEF Waits, NothingInBuffers, Answers
<1> QED
  BY <1>1, <1>2, <1>7, LoadingFrom DEF Loading

LEMMA LoadEachLoading ==
    ASSUME Basics, Loading, phase = "load", LoadEach PROVE Loading'
<1>0. TypeOK /\ "load" \in Procs
  BY Special DEF Basics
<1>1. proc["load"].pc = "each" /\ UNCHANGED <<phase, mem, wire, lis, buf>>
  BY DEF LoadEach, store, client
<1>2. PICK t \in proc["load"].todo, pc \in {"register", "each"} :
          /\ t[1] \in Codes
          /\ proc'["load"] = [proc["load"] EXCEPT !.pc = pc, !.code = t[1], !.kind = mem[t[1]],
                                                  !.todo = proc["load"].todo \ {t}]
  BY <1>0, LoadEachStep DEF Loading
<1>3. /\ proc'["load"].pc = pc /\ proc'["load"].code = t[1] /\ proc'["load"].kind = mem[t[1]]
      /\ proc'["load"].todo \subseteq proc["load"].todo
  BY <1>0, <1>2, ProcTypes DEF Proc
<1>4. Silent'
  BY <1>1 DEF Loading, Silent, NothingInBuffers, wire
<1> QED
  BY <1>1, <1>2, <1>3, <1>4, LoadingFrom DEF Loading

LEMMA StartLoading ==
    ASSUME Basics, Loading, Start PROVE Loading'
<1>0. TypeOK
  BY DEF Basics
<1>1. phase = "down" /\ phase' = "load" /\ UNCHANGED <<mem, wire, lis, buf>>
  BY DEF Start, store, client
<1>2. PICK cs \in SUBSET {c \in Codes : mem[c] # "none"} :
          proc'["load"] = [Idle EXCEPT !.pc = "each", !.todo = cs \X {NoCall}]
  BY <1>0, StartStep
<1>3. proc'["load"].pc = "each" /\ proc'["load"].todo = cs \X {NoCall}
  BY <1>2 DEF Idle
<1>4. \A t \in proc'["load"].todo : mem'[t[1]] # "none"
  BY <1>1, <1>3
<1>5. Silent'
  BY <1>1 DEF Loading, Silent, NothingInBuffers, wire
<1> QED
  BY <1>1, <1>3, <1>4, <1>5, LoadingFrom

LEMMA NextLoading == ASSUME Basics, Loading, [Next]_vars PROVE Loading'
<1>1. ASSUME Crash PROVE Loading'
  <2>1. Silent' /\ phase' = "down"
    BY <1>1 DEF Crash, Silent, NothingInBuffers
  <2> QED
    BY <2>1 DEF Loading
<1>2. ASSUME UNCHANGED Steady PROVE Loading'
  <2>1. UNCHANGED <<phase, proc, mem, up, down, lis, buf>>
    BY <1>2 DEF Steady, agent, store, client, wire
  <2> QED
    BY <2>1 DEF Loading, Silent, Waits, NothingInBuffers
<1>3. CASE phase = "up"
  <2>1. CASE phase' = "up"
    BY <2>1 DEF Loading
  <2> QED
    BY <1>1, <1>3, <2>1, UpMoves
<1>4. CASE phase = "down"
  BY <1>2, <1>4, DownMoves, StartLoading
<1>5. CASE phase = "load"
  <2>1. ASSUME LoadDone PROVE Loading'
    BY <2>1 DEF LoadDone, Loading
  <2>2. ASSUME RegisterFails("load") PROVE Loading'
    <3>1. Again("load") /\ proc["load"].pc # "await" /\ UNCHANGED <<phase, mem, wire, lis, buf>>
      BY <2>2, Special, FailStep DEF RegisterFails, Basics, store, client
    <3> QED
      BY <1>5, <3>1, AgainLoading
  <2> QED
    BY <1>1, <1>2, <1>5, <2>1, <2>2, LoadMoves, ClaimLoading, ReceiveReplyLoading, ClearSlotLoading,
       InsertLoading, ListenReadLoading, ListenDeliverLoading, ServerRegistersLoading, LoadEachLoading
<1> QED
  BY <1>3, <1>4, <1>5 DEF Basics, TypeOK

-----------------------------------------------------------------------------
(* The codes: who carries one *)

\* Nobody carries the code who did not before.
TokensShrink(c) ==
    /\ Single(c)'
    /\ Carried(c)' => Carried(c)
    /\ Coming(c)' => Coming(c)
    /\ \A p \in Procs : Late(p, c)' => Late(p, c) /\ proc'[p].call = proc[p].call

\* One goroutine moves, and does not get hold of the code.
LEMMA ProcTokens ==
    ASSUME NEW c, Single(c), NEW p \in Procs, Only(p), UNCHANGED <<down, lis, buf>>,
           Early(p, c)' => Early(p, c),
           Late(p, c)' => Late(p, c) /\ proc'[p].call = proc[p].call
    PROVE  TokensShrink(c)
<1>1. \A q \in Procs : Early(q, c)' => Early(q, c)
  BY DEF Only, Early
<1>2. \A q \in Procs : Late(q, c)' => Late(q, c) /\ proc'[q].call = proc[q].call
  BY DEF Only, Late
<1>3. \A q \in Procs : Has(q, c)' => Has(q, c)
  BY <1>1, <1>2 DEF Has
<1>4. /\ InDown(c)' <=> InDown(c)
      /\ InLis(c)' <=> InLis(c)
      /\ \A i \in Calls : InBuf(i, c)' <=> InBuf(i, c)
  BY DEF InDown, InLis, InBuf
<1>5. \A i, j \in DOMAIN down' : Says(down'[i], c) /\ Says(down'[j], c) => i = j
  BY DEF Single
<1>6. Single(c)'
  BY <1>3, <1>4, <1>5 DEF Single
<1>7. Coming(c)' => Coming(c)
  BY <1>1, <1>4 DEF Coming
<1>8. Carried(c)' => Carried(c)
  BY <1>2, <1>7 DEF Carried
<1> QED
  BY <1>2, <1>6, <1>7, <1>8 DEF TokensShrink

\* The one goroutine that carries the code lets go of it.
LEMMA LetsGo ==
    ASSUME NEW c, Single(c), NEW p \in Procs, Only(p), UNCHANGED <<down, lis, buf>>,
           Has(p, c), ~Has(p, c)'
    PROVE  ~Carried(c)' /\ TokensShrink(c)
<1>1. ~Early(p, c)' /\ ~Late(p, c)'
  BY DEF Has
<1>2. TokensShrink(c)
  BY <1>1, ProcTokens
<1>3. \A q \in Procs : ~Has(q, c)'
  <2> SUFFICES ASSUME NEW q \in Procs, q # p PROVE ~Has(q, c)'
    OBVIOUS
  <2>1. ~Has(q, c)
    BY DEF Single
  <2> QED
    BY <2>1 DEF Has, Early, Late, Only
<1>4. ~InDown(c)' /\ ~InLis(c)' /\ \A i \in Calls : ~InBuf(i, c)'
  BY DEF Single, InDown, InLis, InBuf
<1> QED
  BY <1>2, <1>3, <1>4 DEF Carried, Coming, Has

\* An answer that does not say the code.
LEMMA AnswerTokens ==
    ASSUME TypeOK, NEW c, Single(c), NEW r \in Reply, Answer(r), ~Says(r, c), UNCHANGED <<lis, buf, proc>>
    PROVE  TokensShrink(c)
<1>1. /\ Len(down) \in Nat /\ DOMAIN down = 1 .. Len(down)
      /\ DOMAIN down' = 1 .. Len(down) + 1 /\ down'[Len(down) + 1] = r
      /\ \A k \in 1 .. Len(down) : down'[k] = down[k]
  BY AnswerStep, LenProperties DEF TypeOK
<1>2. \A k \in DOMAIN down' : Says(down'[k], c) => k \in DOMAIN down /\ Says(down[k], c)
  BY <1>1
<1>3. InDown(c)' => InDown(c)
  BY <1>2 DEF InDown
<1>4. /\ InLis(c)' <=> InLis(c)
      /\ \A i \in Calls : InBuf(i, c)' <=> InBuf(i, c)
      /\ \A q \in Procs : (Early(q, c)' <=> Early(q, c)) /\ (Late(q, c)' <=> Late(q, c))
  BY DEF InLis, InBuf, Early, Late
<1>5. \A i, j \in DOMAIN down' : Says(down'[i], c) /\ Says(down'[j], c) => i = j
  BY <1>2 DEF Single
<1>6. Single(c)'
  BY <1>3, <1>4, <1>5 DEF Single, Has
<1> QED
  BY <1>3, <1>4, <1>6 DEF TokensShrink, Carried, Coming

\* Listen takes a reply off the socket.
LEMMA ListenReadTokens ==
    ASSUME TypeOK, NEW c, Single(c), ListenRead
    PROVE  TokensShrink(c)
<1>1. lis.ch = NoCall /\ UNCHANGED <<buf, proc>>
  BY DEF ListenRead, agent
<1>2. /\ Head(down) = down[1] /\ Len(down) \in Nat \ {0}
      /\ DOMAIN down = 1 .. Len(down) /\ DOMAIN down' = 1 .. Len(down) - 1
      /\ \A k \in 1 .. Len(down) - 1 : down'[k] = down[k + 1]
      /\ lis' \in {lis, [ch |-> slot, msg |-> Head(down)]}
  BY ListenReadStep, LenProperties DEF TypeOK
<1>3. \A k \in DOMAIN down' : k + 1 \in DOMAIN down /\ down'[k] = down[k + 1] /\ k + 1 # 1 /\ k \in Nat
  BY <1>2
<1>4. InDown(c)' => InDown(c)
  BY <1>3 DEF InDown
<1>5. InLis(c)' => Says(down[1], c)
  BY <1>1, <1>2 DEF InLis
<1>6. InLis(c)' => InDown(c) /\ ~InDown(c)'
  <2> SUFFICES ASSUME InLis(c)' PROVE InDown(c) /\ ~InDown(c)'
    OBVIOUS
  <2>1. 1 \in DOMAIN down /\ Says(down[1], c)
    BY <1>2, <1>5
  <2>2. ASSUME NEW k \in DOMAIN down', Says(down'[k], c) PROVE FALSE
    BY <1>3, <2>1, <2>2 DEF Single
  <2> QED
    BY <2>1, <2>2 DEF InDown
<1>7. /\ \A i \in Calls : InBuf(i, c)' <=> InBuf(i, c)
      /\ \A q \in Procs : (Early(q, c)' <=> Early(q, c)) /\ (Late(q, c)' <=> Late(q, c))
  BY <1>1 DEF InBuf, Early, Late
<1>8. \A i, j \in DOMAIN down' : Says(down'[i], c) /\ Says(down'[j], c) => i = j
  <2> SUFFICES ASSUME NEW i \in DOMAIN down', NEW j \in DOMAIN down', Says(down'[i], c), Says(down'[j], c)
               PROVE  i = j
    OBVIOUS
  <2>1. i + 1 = j + 1
    BY <1>3 DEF Single
  <2> QED
    BY <1>3, <2>1
<1>9. Single(c)'
  BY <1>4, <1>6, <1>7, <1>8 DEF Single, Has
<1> QED
  BY <1>1, <1>4, <1>6, <1>7, <1>9 DEF TokensShrink, Carried, Coming

\* Listen hands it over.
LEMMA ListenDeliverTokens ==
    ASSUME TypeOK, NEW c, Single(c), ListenDeliver
    PROVE  TokensShrink(c)
<1>1. UNCHANGED <<down, proc>> /\ lis.ch # NoCall
  BY DEF ListenDeliver, agent, wire
<1>2. /\ lis.ch \in Calls /\ lis'.ch = NoCall
      /\ buf' = [buf EXCEPT ![lis.ch] = <<lis.msg>>]
      /\ Head(buf'[lis.ch]) = lis.msg
  BY ListenDeliverStep
<1>0. PICK k \in Calls : k = lis.ch
  BY <1>2
<1>3. ~InLis(c)'
  BY <1>2 DEF InLis
<1>4. InBuf(k, c)' => InLis(c)
  BY <1>1, <1>2, <1>0 DEF InBuf, InLis
<1>5. \A i \in Calls \ {k} : InBuf(i, c)' <=> InBuf(i, c)
  BY <1>2, <1>0 DEF InBuf, TypeOK
<1>6. /\ InDown(c)' <=> InDown(c)
      /\ \A q \in Procs : (Early(q, c)' <=> Early(q, c)) /\ (Late(q, c)' <=> Late(q, c))
  BY <1>1 DEF InDown, Early, Late
<1>7. \A i, j \in DOMAIN down' : Says(down'[i], c) /\ Says(down'[j], c) => i = j
  BY <1>1 DEF Single
<1>8. \A i \in Calls : InBuf(i, c)' => (InLis(c) /\ i = k) \/ InBuf(i, c)
  BY <1>4, <1>5
<1>9. \A i, j \in Calls : InBuf(i, c)' /\ InBuf(j, c)' => i = j
  BY <1>8 DEF Single
<1>10. Single(c)'
  BY <1>3, <1>6, <1>7, <1>8, <1>9 DEF Single, Has
<1> QED
  BY <1>1, <1>3, <1>6, <1>8, <1>10 DEF TokensShrink, Carried, Coming

\* A call takes the reply out of its channel.
LEMMA ReceiveReplyTokens ==
    ASSUME Basics, NEW c, Single(c), NEW p \in Procs, ReceiveReply(p)
    PROVE  TokensShrink(c)
<1>0. PICK i : i = proc[p].call
  OBVIOUS
<1>1. proc[p].pc = "await" /\ buf[i] # <<>> /\ UNCHANGED <<down, lis>>
  BY <1>0 DEF ReceiveReply, wire
<1>2. i \in Calls
  BY <1>1, <1>0 DEF Basics, Locals, LocalsAt, Called
<1>3. Only(p) /\ proc'[p] = [proc[p] EXCEPT !.pc = "clear", !.reply = Head(buf[i])]
  BY <1>2, <1>0, ReceiveReplyStep DEF Basics
<1>4. proc'[p].pc = "clear" /\ proc'[p].reply = Head(buf[i])
  BY <1>3, ProcTypes DEF Basics, Proc
<1>5. buf' = [buf EXCEPT ![i] = <<>>] /\ buf \in [Calls -> Seq(Reply)]
  BY <1>0, ReceiveReplyBasics DEF Basics, TypeOK
<1>6. Has(p, c)' => InBuf(i, c)
  BY <1>1, <1>4 DEF Has, Early, Late, InBuf
<1>7. ~Late(p, c)'
  BY <1>4 DEF Late
<1>8. ~InBuf(i, c)' /\ \A j \in Calls \ {i} : InBuf(j, c)' <=> InBuf(j, c)
  BY <1>2, <1>5 DEF InBuf
<1>9. \A q \in Procs \ {p} : (Early(q, c)' <=> Early(q, c)) /\ (Late(q, c)' <=> Late(q, c))
  BY <1>3 DEF Only, Early, Late
<1>10. (InDown(c)' <=> InDown(c)) /\ (InLis(c)' <=> InLis(c))
  BY <1>1 DEF InDown, InLis
<1>11. \A k, j \in DOMAIN down' : Says(down'[k], c) /\ Says(down'[j], c) => k = j
  BY <1>1 DEF Single
<1>12. \A j \in Calls : InBuf(j, c)' => InBuf(j, c) /\ j # i
  BY <1>8
<1>13. \A q \in Procs : Has(q, c)' => (q = p /\ InBuf(i, c)) \/ Has(q, c)
  BY <1>6, <1>9 DEF Has
<1>14. Single(c)'
  BY <1>2, <1>10, <1>11, <1>12, <1>13 DEF Single
<1>15. Coming(c)' => Coming(c)
  BY <1>2, <1>6, <1>9, <1>10, <1>12 DEF Coming, Has
<1>16. \A q \in Procs : Late(q, c)' => Late(q, c) /\ proc'[q].call = proc[q].call
  BY <1>3, <1>7, <1>9 DEF Only
<1> QED
  BY <1>14, <1>15, <1>16 DEF TokensShrink, Carried

\* Nobody removes, sweeps or gives back the code who did not before.
NotRemoved(c) ==
    /\ Leaving(c)' => Leaving(c)
    /\ Swept(c)' => Swept(c)
    /\ GivenBack(c)' => GivenBack(c)

\* The store keeps what it has of the code, or the file gets what the memory
\* has; or the code is nobody's but its carrier's.
StoreKeeps(c) ==
    \/ mem'[c] = mem[c] /\ file'[c] \in {file[c], mem[c]}
    \/ c \in issued /\ c \notin kept /\ c \notin Away

\* A step that is about other codes, or passes this one on.
LEMMA CodeFrame ==
    ASSUME NEW c \in Fresh, CodeInv(c), phase = "up", TokensShrink(c), NotRemoved(c), StoreKeeps(c),
           sessions'[c] \in {sessions[c], NoSession},
           c \in issued => c \in issued',
           c \in rows => c \in rows',
           c \in kept' => c \in kept,
           c \in Away' => c \in Away
    PROVE  CodeInv(c)'
<1>1. Generated(c)'
  BY DEF CodeInv, Generated, NotRemoved, StoreKeeps
<1>2. (Leaving(c) => sessions[c] = NoSession)'
  BY DEF CodeInv, NotRemoved
<1>3. (c \in kept => KeptAt(c))'
  <2> SUFFICES ASSUME c \in kept' PROVE KeptAt(c)'
    OBVIOUS
  <2>1. KeptAt(c) /\ c \in kept
    BY DEF CodeInv
  <2>2. mem'[c] = "cloud" /\ file'[c] = "cloud"
    BY <2>1 DEF KeptAt, StoreKeeps
  <2>3. sessions'[c].kind # "immich"
    BY <2>1 DEF KeptAt, NoSession
  <2> QED
    BY <2>1, <2>2, <2>3 DEF KeptAt, NotRemoved
<1>4. (c \in Away => GoneAt(c))'
  BY DEF CodeInv, GoneAt, StoreKeeps
<1>5. CarriedInv(c)'
  <2>1. CarriedInv(c)
    BY DEF CodeInv
  <2>2. Single(c)'
    BY DEF TokensShrink
  <2>3. (Carried(c) => /\ c \in issued /\ c \in rows /\ c \notin kept
                       /\ ~GivenBack(c) /\ ~Swept(c))'
    BY <2>1 DEF CarriedInv, TokensShrink, NotRemoved
  <2>4. (Coming(c) => c \notin Away /\ sessions[c] = NoSession /\ ~Leaving(c))'
    BY <2>1 DEF CarriedInv, TokensShrink, NotRemoved
  <2>5. ASSUME NEW p \in Procs, Late(p, c)'
        PROVE  \/ sessions'[c] = NoSession
               \/ sessions'[c] = [obj |-> proc'[p].call, kind |-> "cloud"] /\ ~Leaving(c)'
    <3>1. Late(p, c) /\ proc'[p].call = proc[p].call
      BY <2>5 DEF TokensShrink
    <3>2. \/ sessions[c] = NoSession
          \/ sessions[c] = [obj |-> proc[p].call, kind |-> "cloud"] /\ ~Leaving(c)
      BY <2>1, <3>1 DEF CarriedInv
    <3> QED
      BY <3>1, <3>2 DEF NotRemoved
  <2> QED
    BY <2>2, <2>3, <2>4, <2>5 DEF CarriedInv
<1> QED
  BY <1>1, <1>2, <1>3, <1>4, <1>5 DEF CodeInv

\* What a step of one goroutine does to the removals of a code.
LEMMA ProcRemovals ==
    ASSUME NEW c, NEW p \in Procs, Only(p),
           proc'[p].pc \in {"drop", "tell"} =>
              proc[p].pc \in {"drop", "tell"} /\ proc'[p].todo \subseteq proc[p].todo,
           proc'[p].pc \notin {"remove", "delete", "unmap"} \/ p # "poll"
    PROVE  (Leaving(c)' => Leaving(c)) /\ (Swept(c)' => Swept(c))
<1>1. Leaving(c)' => Leaving(c)
  BY DEF Leaving, Only
<1>2. "poll" \in Procs
  BY Special
<1>3. Swept(c)' => Swept(c)
  BY <1>2 DEF Swept, Only
<1> QED
  BY <1>1, <1>3

\* What goes up.
LEMMA UpSame == ASSUME UNCHANGED up PROVE (PrefersLinks /\ phase' = phase => PrefersLinks') /\ \A c : GivenBack(c)' <=> GivenBack(c)
  BY DEF PrefersLinks, GivenBack

LEMMA UpAppend ==
    ASSUME TypeOK, NEW type \in {"register_share", "unregister_share", "deregister"},
           NEW d \in Codes \cup {NoCode}, NEW i \in Calls \cup {NoCall}, Send(type, d, i)
    PROVE  /\ \A c : GivenBack(c)' => GivenBack(c) \/ (type = "unregister_share" /\ c = d)
           /\ PrefersLinks /\ phase = "up" /\ (type = "register_share" => d \in Links \cup {NoCode})
              => PrefersLinks'
<1>1. \A k \in DOMAIN up' : \/ k \in DOMAIN up /\ up'[k] = up[k]
                            \/ up'[k] = Message(type, d, i)
  BY SendStep
<1>2. Message(type, d, i).type = type /\ Message(type, d, i).code = d
  BY DEF Message
<1> HIDE DEF Message
<1>3. \A c : GivenBack(c)' => GivenBack(c) \/ (type = "unregister_share" /\ c = d)
  BY <1>1, <1>2 DEF GivenBack
<1>4. PrefersLinks /\ phase = "up" /\ (type = "register_share" => d \in Links \cup {NoCode}) => PrefersLinks'
  BY <1>1, <1>2 DEF PrefersLinks
<1> QED
  BY <1>3, <1>4

LEMMA UpTail ==
    ASSUME TypeOK, up # <<>>, up' = Tail(up)
    PROVE  (PrefersLinks /\ phase' = phase => PrefersLinks') /\ \A c : GivenBack(c)' => GivenBack(c)
<1>1. \A k \in DOMAIN up' : k + 1 \in DOMAIN up /\ up'[k] = up[k + 1]
  BY ReadUp
<1> QED
  BY <1>1 DEF PrefersLinks, GivenBack

\* A step of one goroutine that changes neither the table, nor the store, nor
\* what the server has, and gets hold of no code.
LEMMA ProcCodes ==
    ASSUME CodesInv, phase = "up", NEW p \in Procs, Only(p), PrefersLinks',
           UNCHANGED <<sessions, store, server, kept, Away, down, lis, buf>>,
           \A c : GivenBack(c)' => GivenBack(c),
           \A c \in Fresh : Early(p, c)' => Early(p, c),
           \A c \in Fresh : Late(p, c)' => Late(p, c) /\ proc'[p].call = proc[p].call,
           proc'[p].pc \in {"drop", "tell"} =>
              proc[p].pc \in {"drop", "tell"} /\ proc'[p].todo \subseteq proc[p].todo,
           proc'[p].pc \notin {"remove", "delete", "unmap"} \/ p # "poll"
    PROVE  CodesInv'
<1>1. ASSUME NEW c \in Fresh PROVE CodeInv(c)'
  <2>1. CodeInv(c) /\ Single(c)
    BY DEF CodesInv, CodeInv, CarriedInv
  <2>2. TokensShrink(c)
    BY <2>1, ProcTokens
  <2>3. NotRemoved(c)
    BY ProcRemovals DEF NotRemoved
  <2>4. StoreKeeps(c)
    BY DEF StoreKeeps, store
  <2> QED
    BY <2>1, <2>2, <2>3, <2>4, CodeFrame DEF server
<1> QED
  BY <1>1 DEF CodesInv

\* A goroutine that rests, or goes on with its list, carries and removes nothing.
LEMMA RestCarries ==
    ASSUME NEW p \in Procs, proc'[p].pc \in {"idle", "done", "each", "register", "list", "await"}, NEW c
    PROVE  ~Early(p, c)' /\ ~Late(p, c)' /\ ~Has(p, c)'
  BY DEF Early, Late, Has

LEMMA RestCodes ==
    ASSUME CodesInv, phase = "up", NEW p \in Procs, Only(p), PrefersLinks',
           UNCHANGED <<sessions, store, server, kept, Away, down, lis, buf>>,
           \A c : GivenBack(c)' => GivenBack(c),
           proc'[p].pc \in {"idle", "done", "each", "register", "list", "await"}
    PROVE  CodesInv'
  BY ProcCodes, RestCarries

\* Registering, as far as the reply.
LEMMA RegisterCodes ==
    ASSUME Basics, CodesInv, phase = "up", NEW p \in Procs, Claim(p) \/ RegisterFails(p) \/ Cancel(p)
    PROVE  CodesInv'
<1>0. TypeOK /\ LocalsAt(p) /\ PrefersLinks
  BY DEF Basics, Locals, CodesInv
<1>1. p # "load"
  <2>1. proc[p].pc \notin {"idle", "done"}
    BY DEF Claim, RegisterFails, Cancel
  <2> QED
    BY <2>1, Who DEF Basics
<1>2. CASE Claim(p)
  <2>1. /\ proc[p].pc = "register" /\ phase' = phase
        /\ UNCHANGED <<sessions, store, server, kept, Away, down, lis, buf>>
    BY <1>2 DEF Claim, history, Away
  <2>2. Only(p) /\ proc'[p] = [proc[p] EXCEPT !.pc = "await", !.call = slot'] /\ slot' \in Calls
    BY <1>0, <1>2, ClaimStep
  <2>3. proc'[p].pc = "await"
    BY <1>0, <2>2, ProcTypes DEF Proc
  <2>4. proc[p].code \in Links \cup {NoCode}
    BY <1>0, <1>1, <2>1 DEF LocalsAt
  <2>5. Send("register_share", proc[p].code, slot')
    BY <1>2 DEF Claim
  <2>6. PrefersLinks' /\ \A c : GivenBack(c)' => GivenBack(c)
    <3>1. PICK d, i : d = proc[p].code /\ i = slot'
      OBVIOUS
    <3>2. d \in Codes \cup {NoCode} /\ i \in Calls \cup {NoCall} /\ Send("register_share", d, i)
      BY <1>0, <2>2, <2>5, <3>1, ProcTypes
    <3> QED
      BY <1>0, <2>4, <3>1, <3>2, UpAppend
  <2> QED
    BY <2>1, <2>2, <2>3, <2>6, RestCodes
<1>3. CASE RegisterFails(p)
  <2>1. /\ Fail(p) /\ UNCHANGED <<phase, up, sessions, store, server, kept, Away, down, lis, buf>>
    BY <1>3 DEF RegisterFails, client, wire, history, Away
  <2>2. Only(p) /\ proc'[p].pc \in {"idle", "done"}
    BY <1>0, <1>1, <2>1, FailStep, IdleTypes
  <2>3. PrefersLinks' /\ \A c : GivenBack(c)' => GivenBack(c)
    BY <1>0, <2>1, UpSame
  <2> QED
    BY <2>1, <2>2, <2>3, RestCodes
<1>4. CASE Cancel(p)
  <2>1. UNCHANGED <<phase, up, sessions, store, server, kept, Away, down, lis, buf>>
    BY <1>4 DEF Cancel, client, wire, history, Away
  <2>2. Only(p) /\ proc'[p] = [proc[p] EXCEPT !.pc = "clear", !.reply = Refusal(proc[p].call)]
    BY <1>0, <1>4, CancelStep
  <2>3. proc'[p].pc = "clear" /\ ~proc'[p].reply.ok
    BY <1>0, <2>2, ProcTypes, Refusals DEF Proc
  <2>4. \A c : ~Early(p, c)' /\ ~Late(p, c)'
    BY <2>3 DEF Early, Late, Says
  <2>5. PrefersLinks' /\ \A c : GivenBack(c)' => GivenBack(c)
    BY <1>0, <2>1, UpSame
  <2> QED
    BY <2>1, <2>2, <2>3, <2>4, <2>5, ProcCodes
<1> QED
  BY <1>2, <1>3, <1>4

\* The code of the reply is handed to the caller.
LEMMA ClearSlotCodes ==
    ASSUME Basics, CodesInv, phase = "up", NEW p \in Procs, ClearSlot(p)
    PROVE  CodesInv'
<1>0. TypeOK /\ PrefersLinks
  BY DEF Basics, CodesInv
<1>1. /\ proc[p].pc = "clear"
      /\ UNCHANGED <<phase, up, sessions, store, server, kept, Away, down, lis, buf>>
  BY DEF ClearSlot, wire, history, Away
<1>2. p # "load"
  BY <1>1, Who DEF Basics
<1>3. PrefersLinks' /\ \A c : GivenBack(c)' => GivenBack(c)
  BY <1>0, <1>1, UpSame
<1>4. CASE ~proc[p].reply.ok
  <2>1. Only(p) /\ proc'[p].pc \in {"idle", "done"}
    BY <1>0, <1>2, <1>4, ClearSlotStep, FailStep, IdleTypes
  <2> QED
    BY <1>1, <1>3, <2>1, RestCodes
<1>5. CASE proc[p].reply.ok
  <2>1. /\ Only(p)
        /\ proc'[p] = [proc[p] EXCEPT !.code = proc[p].reply.code, !.reply = Refusal(NoCall),
                              !.pc = IF p = "load" \/ proc[p].kind = "cloud" THEN "insert" ELSE "client"]
    BY <1>0, <1>5, ClearSlotStep
  <2>2. proc'[p].pc \in {"insert", "client"} /\ proc'[p].code = proc[p].reply.code
    BY <1>0, <2>1, ProcTypes DEF Proc
  <2>3. \A c : (Early(p, c)' => Early(p, c)) /\ ~Late(p, c)'
    BY <1>1, <1>5, <2>2 DEF Early, Late, Says
  <2> QED
    BY <1>1, <1>3, <2>1, <2>2, <2>3, ProcCodes
<1> QED
  BY <1>4, <1>5

\* Requests that begin, the poller's list, and the message after a removal.
LEMMA BeginCodes ==
    ASSUME Basics, CodesInv, phase = "up",
           \/ \E p \in Procs : PollShares(p) \/ TellServer(p)
           \/ \E p \in Callers : CreateSession(p) \/ \E k \in Links : CreateManual(p, k)
           \/ StartSync \/ SyncEach
    PROVE  CodesInv'
<1>0. TypeOK /\ PrefersLinks /\ "poll" \in Procs /\ Callers \subseteq Procs
  BY Special DEF Basics, CodesInv, Procs
<1>1. ASSUME NEW p \in Procs, Only(p),
             UNCHANGED <<phase, up, sessions, store, server, kept, Away, down, lis, buf>>,
             proc'[p].pc \in {"idle", "done", "each", "register", "list", "await"}
      PROVE  CodesInv'
  <2>1. PrefersLinks' /\ \A c : GivenBack(c)' => GivenBack(c)
    BY <1>0, <1>1, UpSame
  <2> QED
    BY <1>1, <2>1, RestCodes
<1>2. ASSUME NEW p \in Procs, PollShares(p) PROVE CodesInv'
  <2>1. UNCHANGED <<phase, up, sessions, store, server, kept, Away, down, lis, buf>>
    BY <1>2 DEF PollShares, client, wire, history, Away
  <2>2. Only(p) /\ proc'[p].pc \in {"register", "idle", "done"}
    BY <1>0, <1>2, PollSharesStep, ProcTypes, IdleTypes DEF Proc
  <2> QED
    BY <1>1, <2>1, <2>2
<1>3. ASSUME NEW p \in Procs, TellServer(p) PROVE CodesInv'
  <2>1. proc[p].pc = "tell" /\ UNCHANGED <<phase, sessions, store, server, kept, Away, down, lis, buf>>
    BY <1>3 DEF TellServer, client, history, Away
  <2>2. /\ Only(p) /\ Send("deregister", proc[p].code, NoCall)
        /\ proc'[p] \in {Idle, Done} \/ proc'[p] = [proc[p] EXCEPT !.pc = "drop"]
    BY <1>0, <1>3, TellServerStep
  <2>3. PrefersLinks' /\ \A c : GivenBack(c)' => GivenBack(c)
    BY <1>0, <2>2, ProcTypes, UpAppend
  <2>4. CASE proc'[p] \in {Idle, Done}
    BY <2>1, <2>2, <2>3, <2>4, IdleTypes, RestCodes
  <2>5. CASE proc'[p] = [proc[p] EXCEPT !.pc = "drop"]
    <3>1. proc'[p].pc = "drop" /\ proc'[p].todo = proc[p].todo
      BY <1>0, <2>5, ProcTypes DEF Proc
    <3>2. \A c : ~Early(p, c)' /\ ~Late(p, c)'
      BY <3>1 DEF Early, Late
    <3> QED
      BY <2>1, <2>2, <2>3, <3>1, <3>2, ProcCodes
  <2> QED
    BY <2>2, <2>4, <2>5
<1>4. ASSUME NEW p \in Callers, CreateSession(p) PROVE CodesInv'
  <2>1. UNCHANGED <<phase, up, sessions, store, server, kept, Away, down, lis, buf>>
    BY <1>4 DEF CreateSession, client, wire, history, Away
  <2>2. Only(p) /\ proc'[p] = [Idle EXCEPT !.pc = "register"]
    BY <1>0, <1>4, CreateStep
  <2>3. proc'[p].pc = "register"
    BY <2>2 DEF Idle
  <2> QED
    BY <1>0, <1>1, <2>1, <2>2, <2>3
<1>5. ASSUME NEW p \in Callers, NEW k \in Links, CreateManual(p, k) PROVE CodesInv'
  <2>1. UNCHANGED <<phase, up, sessions, store, server, kept, Away, down, lis, buf>>
    BY <1>5 DEF CreateManual, client, wire, history, Away
  <2>2. Only(p) /\ proc'[p] = [Idle EXCEPT !.pc = "list", !.kind = "immich", !.code = k]
    BY <1>0, <1>5, CreateManualStep
  <2>3. proc'[p].pc = "list"
    BY <2>2 DEF Idle
  <2> QED
    BY <1>0, <1>1, <2>1, <2>2, <2>3
<1>6. CASE StartSync
  <2>1. UNCHANGED <<phase, up, sessions, store, server, kept, Away, down, lis, buf>>
    BY <1>6 DEF StartSync, client, wire, history, Away
  <2>2. /\ Only("poll")
        /\ proc'["poll"] = [Idle EXCEPT !.pc = "each", !.todo = links \X {NoCall}, !.seen = links]
    BY <1>0, <1>6, StartSyncStep
  <2>3. proc'["poll"].pc = "each"
    BY <2>2 DEF Idle
  <2> QED
    BY <1>0, <1>1, <2>1, <2>2, <2>3
<1>7. CASE SyncEach
  <2>1. UNCHANGED <<phase, up, sessions, store, server, kept, Away, down, lis, buf>>
    BY <1>7 DEF SyncEach, client, wire, history, Away
  <2>2. Only("poll") /\ proc'["poll"].pc \in {"register", "each"}
    BY <1>0, <1>7, SyncEachStep, ProcTypes DEF Proc
  <2> QED
    BY <1>0, <1>1, <2>1, <2>2
<1> QED
  BY <1>2, <1>3, <1>4, <1>5, <1>6, <1>7

\* A code that has been generated and that nobody carries.
LEMMA Uncarried ==
    ASSUME NEW c, Single(c)', ~Carried(c)', c \in issued',
           Leaving(c)' => sessions'[c] = NoSession,
           c \in kept' => KeptAt(c)',
           c \in Away' => GoneAt(c)'
    PROVE  CodeInv(c)'
<1>1. ~Coming(c)' /\ \A p \in Procs : ~Late(p, c)'
  BY DEF Carried
<1>2. CarriedInv(c)'
  BY <1>1 DEF CarriedInv
<1> QED
  BY <1>2 DEF CodeInv, Generated

\* A code that nobody carries, before or after the step of p.
LEMMA StillUncarried ==
    ASSUME NEW c, Single(c), ~Carried(c), NEW p \in Procs, Only(p), UNCHANGED <<down, lis, buf>>,
           ~Has(p, c)'
    PROVE  Single(c)' /\ ~Carried(c)'
<1>1. ~Early(p, c)' /\ ~Late(p, c)'
  BY DEF Has
<1>2. TokensShrink(c)
  BY <1>1, ProcTokens
<1> QED
  BY <1>2 DEF TokensShrink

\* A registration that fails after the reply gives its code back.
LEMMA GiveBackCodes ==
    ASSUME Basics, CodesInv, phase = "up", NEW p \in Procs, NEW d \in Codes, Early(p, d),
           Only(p), proc'[p] \in {Idle, Done}, Send("unregister_share", d, NoCall),
           UNCHANGED <<phase, sessions, file, server, kept, Away, down, lis, buf>>,
           \A c \in Codes \ {d} : mem'[c] = mem[c]
    PROVE  CodesInv'
<1>0. TypeOK /\ PrefersLinks
  BY DEF Basics, CodesInv
<1>1. PrefersLinks' /\ \A c : GivenBack(c)' => GivenBack(c) \/ c = d
  BY <1>0, UpAppend
<1>2. proc'[p].pc \in {"idle", "done"}
  BY IdleTypes
<1>3. \A c : ~Early(p, c)' /\ ~Late(p, c)' /\ ~Has(p, c)'
  BY <1>2, RestCarries
<1>4. \A c : (Leaving(c)' => Leaving(c)) /\ (Swept(c)' => Swept(c))
  BY <1>2, ProcRemovals
<1>5. ASSUME NEW c \in Fresh, c # d PROVE CodeInv(c)'
  <2>1. CodeInv(c) /\ Single(c)
    BY DEF CodesInv, CodeInv, CarriedInv
  <2>2. TokensShrink(c)
    BY <1>3, <2>1, ProcTokens
  <2>3. NotRemoved(c)
    BY <1>1, <1>4, <1>5 DEF NotRemoved
  <2>4. StoreKeeps(c)
    BY <1>5 DEF StoreKeeps, Codes
  <2> QED
    BY <2>1, <2>2, <2>3, <2>4, CodeFrame DEF server
<1>6. ASSUME d \in Fresh PROVE CodeInv(d)'
  <2>1. CodeInv(d) /\ CarriedInv(d) /\ Single(d)
    BY <1>6 DEF CodesInv, CodeInv, CarriedInv
  <2>2. Coming(d) /\ Carried(d) /\ Has(p, d)
    BY DEF Coming, Carried, Has
  <2>3. Single(d)' /\ ~Carried(d)'
    BY <1>3, <2>1, <2>2, LetsGo DEF TokensShrink
  <2>4. d \in issued /\ d \notin kept /\ d \notin Away /\ sessions[d] = NoSession
    BY <2>1, <2>2 DEF CarriedInv
  <2> QED
    BY <2>3, <2>4, Uncarried DEF server
<1> QED
  BY <1>1, <1>5, <1>6 DEF CodesInv

\* An Immich share between its reply and the table.
LEMMA ImmichCodes ==
    ASSUME Basics, CodesInv, phase = "up", NEW p \in Procs, NewImmichClient(p) \/ SaveImmich(p)
    PROVE  CodesInv'
<1>0. TypeOK /\ PrefersLinks /\ LocalsAt(p)
  BY DEF Basics, CodesInv, Locals
<1>1. PICK d : d = proc[p].code
  OBVIOUS
<1>2. /\ proc[p].pc \in {"client", "save"} /\ proc[p].kind = "immich"
  BY <1>0 DEF NewImmichClient, SaveImmich, LocalsAt
<1>3. p # "load"
  BY <1>2, Who DEF Basics
<1>4. d \in Codes /\ Early(p, d)
  BY <1>0, <1>1, <1>2 DEF LocalsAt, Coded, Early
<1>5. Fail(p) => Only(p) /\ proc'[p] \in {Idle, Done}
  BY <1>0, <1>3, FailStep
<1>6. CASE NewImmichClient(p)
  <2>1. UNCHANGED <<phase, sessions, store, server, kept, Away, down, lis, buf>>
    BY <1>6 DEF NewImmichClient, client, history, Away
  <2>2. CASE Fail(p) /\ Send("unregister_share", proc[p].code, NoCall)
    BY <1>1, <1>4, <1>5, <2>1, <2>2, GiveBackCodes DEF store
  <2>3. CASE proc'[p] = [proc[p] EXCEPT !.pc = "save"] /\ UNCHANGED up
    <3>1. Only(p)
      BY <1>0, <1>6, NewImmichClientStep
    <3>2. /\ proc'[p].pc = "save" /\ proc'[p].kind = "immich" /\ proc'[p].code = proc[p].code
      BY <1>0, <1>2, <2>3, ProcTypes DEF Proc
    <3>3. proc[p].pc = "client"
      BY <1>6 DEF NewImmichClient
    <3>4. \A c : (Early(p, c)' => Early(p, c)) /\ ~Late(p, c)'
      BY <3>2, <3>3 DEF Early, Late
    <3>5. PrefersLinks' /\ \A c : GivenBack(c)' => GivenBack(c)
      BY <1>0, <2>1, <2>3, UpSame
    <3> QED
      BY <2>1, <3>1, <3>2, <3>4, <3>5, ProcCodes
  <2> QED
    BY <1>0, <1>6, <2>2, <2>3, NewImmichClientStep
<1>7. CASE SaveImmich(p)
  <2>1. proc[p].pc = "save" /\ UNCHANGED <<phase, sessions, server, kept, Away, down, lis, buf>>
    BY <1>7 DEF SaveImmich, client, history, Away
  <2>2. /\ Only(p) /\ mem' = [mem EXCEPT ![d] = "immich"]
        /\ \/ file' = mem' /\ UNCHANGED up /\ proc'[p] = [proc[p] EXCEPT !.pc = "insert"]
           \/ UNCHANGED file /\ Fail(p) /\ Send("unregister_share", d, NoCall)
    BY <1>0, <1>1, <1>4, <1>7, SaveImmichStep
  <2>3. \A c \in Codes \ {d} : mem'[c] = mem[c]
    BY <1>0, <2>2 DEF TypeOK
  <2>4. CASE UNCHANGED file /\ Fail(p) /\ Send("unregister_share", d, NoCall)
    BY <1>4, <1>5, <2>1, <2>3, <2>4, GiveBackCodes
  <2>5. CASE file' = mem' /\ UNCHANGED up /\ proc'[p] = [proc[p] EXCEPT !.pc = "insert"]
    <3>1. proc'[p].pc = "insert" /\ proc'[p].code = proc[p].code
      BY <1>0, <2>5, ProcTypes DEF Proc
    <3>2. \A c : (Early(p, c)' => Early(p, c)) /\ ~Late(p, c)'
      BY <1>2, <2>1, <3>1 DEF Early, Late
    <3>3. PrefersLinks' /\ \A c : GivenBack(c)' => GivenBack(c)
      BY <1>0, <2>1, <2>5, UpSame
    <3>4. \A c : (Leaving(c)' => Leaving(c)) /\ (Swept(c)' => Swept(c))
      BY <2>2, <3>1, ProcRemovals
    <3>5. ASSUME NEW c \in Fresh PROVE CodeInv(c)'
      <4>1. CodeInv(c) /\ Single(c) /\ CarriedInv(c)
        BY <3>5 DEF CodesInv, CodeInv, CarriedInv
      <4>2. TokensShrink(c)
        BY <2>1, <2>2, <3>2, <4>1, ProcTokens
      <4>3. NotRemoved(c)
        BY <3>3, <3>4 DEF NotRemoved
      <4>4. c = d => Coming(c) /\ Carried(c)
        BY <1>4 DEF Carried, Coming
      <4>5. StoreKeeps(c)
        BY <2>3, <2>5, <4>1, <4>4 DEF StoreKeeps, Codes, CarriedInv
      <4> QED
        BY <2>1, <4>1, <4>2, <4>3, <4>5, CodeFrame DEF server
    <3> QED
      BY <2>1, <3>3, <3>5 DEF CodesInv
  <2> QED
    BY <2>2, <2>4, <2>5
<1> QED
  BY <1>6, <1>7

\* The share is put into the table; a cloud share's code is still carried.
LEMMA InsertCodes ==
    ASSUME Basics, CodesInv, phase = "up", NEW p \in Procs, Insert(p)
    PROVE  CodesInv'
<1>0. TypeOK /\ PrefersLinks /\ LocalsAt(p)
  BY DEF Basics, CodesInv, Locals
<1>1. PICK d : d = proc[p].code
  OBVIOUS
<1>2. proc[p].pc = "insert" /\ UNCHANGED <<phase, up, store, server, kept, Away, down, lis, buf>>
  BY DEF Insert, client, wire, history, Away
<1>3. d \in Codes /\ Early(p, d)
  BY <1>0, <1>1, <1>2 DEF LocalsAt, Coded, Early
<1>4. /\ Only(p)
      /\ sessions' = [sessions EXCEPT ![d] = [obj |-> proc[p].call, kind |-> proc[p].kind]]
      /\ \/ proc[p].kind = "cloud" /\ proc'[p] = [proc[p] EXCEPT !.pc = "save"]
         \/ Again(p)
         \/ proc'[p] \in {Idle, Done}
  BY <1>0, <1>1, <1>3, InsertStep
<1>5. \/ /\ proc'[p].pc = "save" /\ proc'[p].kind = "cloud" /\ proc'[p].code = d
         /\ proc'[p].call = proc[p].call /\ proc[p].kind = "cloud"
      \/ proc'[p].pc \in {"idle", "done", "each"}
  BY <1>0, <1>1, <1>4, ProcTypes, IdleTypes DEF Proc, Again, Idle
<1>6. PrefersLinks' /\ \A c : GivenBack(c)' => GivenBack(c)
  BY <1>0, <1>2, UpSame
<1>7. \A c : (Leaving(c)' => Leaving(c)) /\ (Swept(c)' => Swept(c))
  BY <1>4, <1>5, ProcRemovals
<1>8. ASSUME NEW c \in Fresh, c # d PROVE CodeInv(c)'
  <2>1. CodeInv(c) /\ Single(c)
    BY DEF CodesInv, CodeInv, CarriedInv
  <2>2. ~Early(p, c)' /\ ~Late(p, c)'
    BY <1>5, <1>8 DEF Early, Late
  <2>3. TokensShrink(c)
    BY <1>2, <1>4, <2>1, <2>2, ProcTokens
  <2>4. NotRemoved(c)
    BY <1>6, <1>7 DEF NotRemoved
  <2>5. StoreKeeps(c)
    BY <1>2 DEF StoreKeeps, store
  <2>6. sessions'[c] = sessions[c]
    BY <1>0, <1>4, <1>8 DEF TypeOK, Codes
  <2> QED
    BY <1>2, <2>1, <2>3, <2>4, <2>5, <2>6, CodeFrame DEF server
<1>9. ASSUME d \in Fresh PROVE CodeInv(d)'
  <2>1. CodeInv(d) /\ CarriedInv(d) /\ Single(d)
    BY <1>9 DEF CodesInv, CodeInv, CarriedInv
  <2>2. Coming(d) /\ Carried(d) /\ Has(p, d)
    BY <1>3 DEF Coming, Carried, Has
  <2>3. /\ d \in issued /\ d \in rows /\ d \notin kept /\ d \notin Away
        /\ ~GivenBack(d) /\ ~Swept(d) /\ ~Leaving(d)
    BY <2>1, <2>2 DEF CarriedInv
  <2>4. CASE proc'[p].pc \in {"idle", "done", "each"}
    <3>1. ~Has(p, d)'
      BY <2>4, RestCarries
    <3>2. Single(d)' /\ ~Carried(d)'
      BY <1>2, <1>4, <2>1, <2>2, <3>1, LetsGo DEF TokensShrink
    <3> QED
      BY <1>2, <1>7, <2>3, <3>2, Uncarried DEF server
  <2>5. CASE /\ proc'[p].pc = "save" /\ proc'[p].kind = "cloud" /\ proc'[p].code = d
             /\ proc'[p].call = proc[p].call /\ proc[p].kind = "cloud"
    <3>1. ~Early(p, d)' /\ Late(p, d)'
      BY <2>5 DEF Early, Late
    <3>2. \A q \in Procs \ {p} : ~Has(q, d)'
      <4> SUFFICES ASSUME NEW q \in Procs \ {p} PROVE ~Has(q, d)'
        OBVIOUS
      <4>1. ~Has(q, d)
        BY <2>1, <2>2 DEF Single
      <4> QED
        BY <1>4, <4>1 DEF Has, Early, Late, Only
    <3>3. ~InDown(d)' /\ ~InLis(d)' /\ \A i \in Calls : ~InBuf(i, d)'
      BY <1>2, <2>1, <2>2 DEF Single, InDown, InLis, InBuf
    <3>4. \A i, j \in DOMAIN down' : Says(down'[i], d) /\ Says(down'[j], d) => i = j
      BY <1>2, <2>1 DEF Single
    <3>5. Single(d)'
      BY <3>2, <3>3, <3>4 DEF Single
    <3>6. ~Coming(d)'
      BY <3>1, <3>2, <3>3 DEF Coming, Has
    <3>7. \A q \in Procs : Late(q, d)' => q = p
      BY <3>2 DEF Has
    <3>8. sessions'[d] = [obj |-> proc'[p].call, kind |-> "cloud"]
      BY <1>0, <1>3, <1>4, <2>5 DEF TypeOK
    <3>9. ~Leaving(d)' /\ ~GivenBack(d)' /\ ~Swept(d)'
      BY <1>6, <1>7, <2>3
    <3>10. d \in issued' /\ d \in rows' /\ d \notin kept' /\ d \notin Away'
      BY <1>2, <2>3 DEF server
    <3>11. CarriedInv(d)'
      BY <3>5, <3>6, <3>7, <3>8, <3>9, <3>10 DEF CarriedInv
    <3> QED
      BY <3>9, <3>10, <3>11 DEF CodeInv, Generated
  <2> QED
    BY <1>5, <2>4, <2>5
<1> QED
  BY <1>2, <1>6, <1>8, <1>9 DEF CodesInv

\* The entry of a cloud share is written, be the share revoked or not.
LEMMA SaveCloudCodes ==
    ASSUME Basics, CodesInv, phase = "up", NEW p \in Procs, SaveCloud(p)
    PROVE  CodesInv'
<1>0. TypeOK /\ PrefersLinks /\ LocalsAt(p)
  BY DEF Basics, CodesInv, Locals
<1>1. PICK d : d = proc[p].code
  OBVIOUS
<1>2. /\ proc[p].pc = "save" /\ proc[p].kind = "cloud"
      /\ UNCHANGED <<phase, up, sessions, server, down, lis, buf>>
  BY DEF SaveCloud, client, wire
<1>3. d \in Codes /\ Late(p, d) /\ proc[p].call \in Calls
  BY <1>0, <1>1, <1>2 DEF LocalsAt, Coded, Called, Late
<1>4. /\ Only(p) /\ proc'[p] \in {Idle, Done} /\ mem' = [mem EXCEPT ![d] = "cloud"]
      /\ \E ok \in BOOLEAN :
           /\ file' = IF ok THEN mem' ELSE file
           /\ kept' = IF ok /\ d \in Fresh THEN kept \cup {d} ELSE kept
      /\ Away' = Away \ {d}
  BY <1>0, <1>1, <1>3, SaveCloudStep
<1>5. proc'[p].pc \in {"idle", "done"}
  BY <1>4, IdleTypes
<1>6. \A c : ~Early(p, c)' /\ ~Late(p, c)' /\ ~Has(p, c)'
  BY <1>5, RestCarries
<1>7. PrefersLinks' /\ \A c : GivenBack(c)' => GivenBack(c)
  BY <1>0, <1>2, UpSame
<1>8. \A c : (Leaving(c)' => Leaving(c)) /\ (Swept(c)' => Swept(c))
  BY <1>4, <1>5, ProcRemovals
<1>9. ASSUME NEW c \in Fresh, c # d PROVE CodeInv(c)'
  <2>1. CodeInv(c) /\ Single(c)
    BY DEF CodesInv, CodeInv, CarriedInv
  <2>2. TokensShrink(c)
    BY <1>2, <1>4, <1>6, <2>1, ProcTokens
  <2>3. NotRemoved(c)
    BY <1>7, <1>8 DEF NotRemoved
  <2>4. mem'[c] = mem[c]
    BY <1>0, <1>4, <1>9 DEF TypeOK, Codes
  <2>5. StoreKeeps(c) /\ (c \in kept' => c \in kept) /\ (c \in Away' => c \in Away)
    BY <1>4, <1>9, <2>4 DEF StoreKeeps
  <2> QED
    BY <1>2, <2>1, <2>2, <2>3, <2>5, CodeFrame DEF server
<1>10. ASSUME d \in Fresh PROVE CodeInv(d)'
  <2>1. CodeInv(d) /\ CarriedInv(d) /\ Single(d)
    BY <1>10 DEF CodesInv, CodeInv, CarriedInv
  <2>2. Carried(d) /\ Has(p, d)
    BY <1>3 DEF Carried, Has
  <2>3. /\ d \in issued /\ d \in rows /\ d \notin kept
        /\ ~GivenBack(d) /\ ~Swept(d)
    BY <2>1, <2>2 DEF CarriedInv
  <2>4. Single(d)' /\ ~Carried(d)'
    BY <1>2, <1>4, <1>6, <2>1, <2>2, LetsGo DEF TokensShrink
  <2>5. Leaving(d)' => sessions'[d] = NoSession
    BY <1>2, <1>8, <2>1 DEF CodeInv
  <2>6. ASSUME d \in kept' PROVE KeptAt(d)'
    <3>1. file' = mem'
      BY <1>4, <2>3, <2>6
    <3>2. mem'[d] = "cloud" /\ file'[d] = "cloud"
      BY <1>0, <1>3, <1>4, <3>1 DEF TypeOK
    <3>3. sessions[d] \in {NoSession, [obj |-> proc[p].call, kind |-> "cloud"]}
      BY <1>3, <2>1 DEF CarriedInv
    <3>4. sessions'[d].kind # "immich"
      BY <1>2, <3>3 DEF NoSession
    <3> QED
      BY <1>2, <1>7, <1>8, <2>3, <3>2, <3>4 DEF KeptAt, server
  <2> QED
    BY <1>2, <1>4, <2>3, <2>4, <2>5, <2>6, Uncarried DEF server
<1>11. kept' \subseteq Fresh /\ Away' \subseteq Fresh
  BY <1>2, <1>4 DEF CodesInv
<1> QED
  BY <1>7, <1>9, <1>10, <1>11 DEF CodesInv

-----------------------------------------------------------------------------
(* The codes: removal *)

\* Shares leave the table.
LEMMA DetachCodes ==
    ASSUME Basics, CodesInv, phase = "up", NEW p \in Procs, NEW cs \in SUBSET Codes, Detach(p, cs),
           \A c \in cs : sessions[c] # NoSession
    PROVE  CodesInv'
<1>0. TypeOK /\ PrefersLinks
  BY DEF Basics, CodesInv
<1>1. UNCHANGED <<phase, up, store, server, kept, Away, down, lis, buf>>
  BY DEF Detach, client, wire, history, Away
<1>2. /\ Only(p) /\ sessions' = [c \in Codes |-> IF c \in cs THEN NoSession ELSE sessions[c]]
      /\ proc'[p] = [Idle EXCEPT !.pc = "drop", !.todo = cs \X {NoCall}]
  BY <1>0, DetachStep
<1>3. proc'[p].pc = "drop" /\ proc'[p].todo = cs \X {NoCall}
  BY <1>2 DEF Idle
<1>4. PrefersLinks' /\ \A c : GivenBack(c)' => GivenBack(c)
  BY <1>0, <1>1, UpSame
<1>5. \A c : ~Early(p, c)' /\ ~Late(p, c)'
  BY <1>3 DEF Early, Late
<1>6. \A c : Swept(c)' => Swept(c)
  BY <1>2, <1>3, Special DEF Swept, Only
<1>7. ASSUME NEW c, Leaving(c)' PROVE Leaving(c) \/ c \in cs
  <2>1. PICK q \in Procs : /\ proc'[q].pc \in {"drop", "tell"}
                           /\ \E t \in proc'[q].todo : t[1] = c
    BY <1>7 DEF Leaving
  <2>2. CASE q = p
    BY <1>3, <2>1, <2>2
  <2>3. CASE q # p
    BY <1>2, <2>1, <2>3 DEF Leaving, Only
  <2> QED
    BY <2>2, <2>3
<1>8. ASSUME NEW c \in Fresh PROVE CodeInv(c)'
  <2>1. CodeInv(c) /\ Single(c) /\ CarriedInv(c)
    BY DEF CodesInv, CodeInv, CarriedInv
  <2>2. TokensShrink(c)
    BY <1>1, <1>2, <1>5, <2>1, ProcTokens
  <2>3. c \in Codes
    BY DEF Codes
  <2>4. CASE c \notin cs
    <3>1. NotRemoved(c)
      BY <1>4, <1>6, <1>7, <2>4 DEF NotRemoved
    <3>2. StoreKeeps(c)
      BY <1>1 DEF StoreKeeps, store
    <3>3. sessions'[c] = sessions[c]
      BY <1>2, <2>3, <2>4
    <3> QED
      BY <1>1, <2>1, <2>2, <3>1, <3>2, <3>3, CodeFrame DEF server
  <2>5. CASE c \in cs
    <3>1. sessions[c] # NoSession /\ sessions'[c] = NoSession
      BY <1>2, <2>3, <2>5
    <3>2. c \in issued /\ ~Coming(c) /\ c \notin Away
      BY <2>1, <3>1 DEF CodeInv, Generated, CarriedInv, GoneAt
    <3>3. (c \in kept => KeptAt(c))'
      <4>1. sessions'[c].kind # "immich"
        BY <3>1 DEF NoSession
      <4> QED
        BY <1>1, <1>4, <1>6, <2>1, <4>1 DEF CodeInv, KeptAt, store, server
    <3>4. CarriedInv(c)'
      BY <1>1, <1>4, <1>6, <2>1, <2>2, <3>1, <3>2 DEF CarriedInv, TokensShrink, server
    <3> QED
      BY <1>1, <3>1, <3>2, <3>3, <3>4 DEF CodeInv, Generated, server
  <2> QED
    BY <2>4, <2>5
<1> QED
  BY <1>1, <1>4, <1>8 DEF CodesInv

\* They leave the store.
LEMMA DropCodes ==
    ASSUME Basics, CodesInv, phase = "up", NEW p \in Procs, Drop(p)
    PROVE  CodesInv'
<1>0. TypeOK /\ PrefersLinks
  BY DEF Basics, CodesInv
<1>1. proc[p].pc = "drop" /\ UNCHANGED <<phase, up, sessions, server, down, lis, buf>>
  BY DEF Drop, client, wire
<1>2. Only(p)
  BY <1>0, DropStep
<1>3. PICK t \in proc[p].todo, ok \in BOOLEAN :
          /\ t[1] \in Codes
          /\ DeleteSession(t[1], ok)
          /\ kept' = kept \ {t[1]} /\ Away' = Away \cup ({t[1]} \cap Fresh)
          /\ proc'[p] = [proc[p] EXCEPT !.pc = "tell", !.code = t[1], !.todo = proc[p].todo \ {t}]
  BY <1>0, DropStep
<1>4. PICK d \in Codes : d = t[1]
  BY <1>3
<1>5. proc'[p].pc = "tell" /\ proc'[p].todo \subseteq proc[p].todo
  BY <1>0, <1>3, ProcTypes DEF Proc
<1>6. /\ mem' = [mem EXCEPT ![d] = "none"]
      /\ mem[d] = "none" => file' = file
      /\ mem[d] # "none" => file' = (IF ok THEN mem' ELSE file)
  BY <1>0, <1>3, <1>4, DeleteSessionStep
<1>7. kept' = kept \ {d} /\ Away' = Away \cup ({d} \cap Fresh)
  BY <1>3, <1>4
<1>8. PrefersLinks' /\ \A c : GivenBack(c)' => GivenBack(c)
  BY <1>0, <1>1, UpSame
<1>9. \A c : ~Early(p, c)' /\ ~Late(p, c)'
  BY <1>5 DEF Early, Late
<1>10. \A c : (Leaving(c)' => Leaving(c)) /\ (Swept(c)' => Swept(c))
  BY <1>1, <1>2, <1>5, ProcRemovals
<1>11. ASSUME NEW c \in Fresh, c # d PROVE CodeInv(c)'
  <2>1. CodeInv(c) /\ Single(c)
    BY DEF CodesInv, CodeInv, CarriedInv
  <2>2. TokensShrink(c)
    BY <1>1, <1>2, <1>9, <2>1, ProcTokens
  <2>3. NotRemoved(c)
    BY <1>8, <1>10 DEF NotRemoved
  <2>4. mem'[c] = mem[c]
    BY <1>0, <1>6, <1>11 DEF TypeOK, Codes
  <2>5. StoreKeeps(c)
    BY <1>6, <2>4 DEF StoreKeeps
  <2>6. (c \in kept' => c \in kept) /\ (c \in Away' => c \in Away)
    BY <1>7, <1>11
  <2> QED
    BY <1>1, <2>1, <2>2, <2>3, <2>5, <2>6, CodeFrame DEF server
<1>12. ASSUME d \in Fresh PROVE CodeInv(d)'
  <2>1. CodeInv(d) /\ CarriedInv(d) /\ Single(d)
    BY <1>12 DEF CodesInv, CodeInv, CarriedInv
  <2>2. Leaving(d)
    BY <1>1, <1>4 DEF Leaving
  <2>3. sessions[d] = NoSession /\ d \in issued /\ ~Coming(d)
    BY <2>1, <2>2 DEF CodeInv, Generated, CarriedInv
  <2>4. TokensShrink(d)
    BY <1>1, <1>2, <1>9, <2>1, ProcTokens
  <2>5. mem'[d] = "none"
    BY <1>0, <1>6 DEF TypeOK
  <2>6. GoneAt(d)'
    BY <1>1, <2>3, <2>5 DEF GoneAt, server
  <2>7. d \notin kept'
    BY <1>7
  <2>8. CarriedInv(d)'
    BY <1>1, <1>8, <1>10, <2>1, <2>3, <2>4, <2>7 DEF CarriedInv, TokensShrink, server
  <2> QED
    BY <1>1, <2>3, <2>6, <2>7, <2>8 DEF CodeInv, Generated, server
<1>13. kept' \subseteq Fresh /\ Away' \subseteq Fresh
  BY <1>7 DEF CodesInv
<1> QED
  BY <1>8, <1>11, <1>12, <1>13 DEF CodesInv

\* What the poller sweeps is nobody's new share: nobody carries or keeps its code.
LEMMA SweptCodes ==
    ASSUME NEW d \in Fresh, CodesInv, phase = "up", Swept(d)
    PROVE  CodeInv(d) /\ Single(d) /\ ~Carried(d) /\ d \in issued /\ d \notin kept
  BY DEF CodesInv, CodeInv, CarriedInv, Generated, KeptAt

LEMMA SweepCodes ==
    ASSUME Basics, CodesInv, phase = "up", SyncSweep
    PROVE  CodesInv'
<1>0. TypeOK /\ PrefersLinks /\ "poll" \in Procs
  BY Special DEF Basics, CodesInv
<1>1. UNCHANGED <<phase, up, sessions, store, server, kept, Away, down, lis, buf>>
  BY DEF SyncSweep, client, wire, history, Away
<1>2. /\ Only("poll")
      /\ \/ proc'["poll"] \in {Idle, Done}
         \/ \E cs \in SUBSET {c \in Codes : sessions[c].kind = "immich"} :
               proc'["poll"] = [proc["poll"] EXCEPT !.pc = "remove",
                                    !.todo = {<<c, sessions[c].obj>> : c \in cs}]
  BY <1>0, SyncSweepStep
<1>3. PrefersLinks' /\ \A c : GivenBack(c)' => GivenBack(c)
  BY <1>0, <1>1, UpSame
<1>4. CASE proc'["poll"] \in {Idle, Done}
  BY <1>0, <1>1, <1>2, <1>3, <1>4, IdleTypes, RestCodes
<1>5. ASSUME NEW cs \in SUBSET {c \in Codes : sessions[c].kind = "immich"},
             proc'["poll"] = [proc["poll"] EXCEPT !.pc = "remove",
                                    !.todo = {<<c, sessions[c].obj>> : c \in cs}]
      PROVE  CodesInv'
  <2>1. proc'["poll"].pc = "remove" /\ proc'["poll"].todo = {<<c, sessions[c].obj>> : c \in cs}
    BY <1>0, <1>5, ProcTypes DEF Proc
  <2>2. \A c : ~Early("poll", c)' /\ ~Late("poll", c)' /\ ~Has("poll", c)'
    BY <2>1 DEF Early, Late, Has
  <2>3. \A c : Leaving(c)' => Leaving(c)
    BY <1>2, <2>1 DEF Leaving, Only
  <2>4. \A c : Swept(c)' => c \in cs
    BY <2>1 DEF Swept
  <2>5. ASSUME NEW c \in Fresh PROVE CodeInv(c)'
    <3>1. CodeInv(c) /\ Single(c) /\ CarriedInv(c)
      BY DEF CodesInv, CodeInv, CarriedInv
    <3>2. CASE c \notin cs
      <4>1. TokensShrink(c)
        BY <1>0, <1>1, <1>2, <2>2, <3>1, ProcTokens
      <4>2. NotRemoved(c)
        BY <1>3, <2>3, <2>4, <3>2 DEF NotRemoved
      <4>3. StoreKeeps(c)
        BY <1>1 DEF StoreKeeps, store
      <4> QED
        BY <1>1, <3>1, <4>1, <4>2, <4>3, CodeFrame DEF server
    <3>3. CASE c \in cs
      <4>1. sessions[c].kind = "immich"
        BY <3>3
      <4>2. sessions[c] # NoSession
        BY <4>1 DEF NoSession
      <4>3. \A q \in Procs : sessions[c] # [obj |-> proc[q].call, kind |-> "cloud"]
        BY <4>1
      <4>4. ~Carried(c)
        BY <3>1, <4>2, <4>3 DEF CarriedInv, Carried
      <4>5. c \in issued /\ c \notin kept /\ c \notin Away /\ ~Leaving(c)
        BY <3>1, <4>1, <4>2 DEF CodeInv, Generated, KeptAt, GoneAt
      <4>6. Single(c)' /\ ~Carried(c)'
        BY <1>0, <1>1, <1>2, <2>2, <3>1, <4>4, StillUncarried
      <4> QED
        BY <1>1, <2>3, <4>5, <4>6, Uncarried DEF server
    <3> QED
      BY <3>2, <3>3
  <2> QED
    BY <1>1, <1>3, <2>5 DEF CodesInv
<1> QED
  BY <1>2, <1>4, <1>5

LEMMA UnregisterCodes ==
    ASSUME Basics, CodesInv, phase = "up", SyncUnregister
    PROVE  CodesInv'
<1>0. TypeOK /\ PrefersLinks /\ "poll" \in Procs
  BY Special DEF Basics, CodesInv
<1>1. /\ proc["poll"].pc = "remove"
      /\ UNCHANGED <<phase, sessions, store, server, kept, Away, down, lis, buf>>
  BY DEF SyncUnregister, client, history, Away
<1>2. /\ Only("poll")
      /\ \/ \E t \in proc["poll"].todo :
              /\ t[1] \in Codes
              /\ Send("unregister_share", t[1], NoCall)
              /\ proc'["poll"] = [proc["poll"] EXCEPT !.pc = "delete", !.code = t[1], !.call = t[2],
                                                      !.todo = proc["poll"].todo \ {t}]
         \/ UNCHANGED up /\ proc'["poll"] \in {Idle, Done}
  BY <1>0, SyncUnregisterStep
<1>3. CASE UNCHANGED up /\ proc'["poll"] \in {Idle, Done}
  <2>1. PrefersLinks' /\ \A c : GivenBack(c)' => GivenBack(c)
    BY <1>0, <1>1, <1>3, UpSame
  <2> QED
    BY <1>0, <1>1, <1>2, <1>3, <2>1, IdleTypes, RestCodes
<1>4. ASSUME NEW t \in proc["poll"].todo, t[1] \in Codes, Send("unregister_share", t[1], NoCall),
             proc'["poll"] = [proc["poll"] EXCEPT !.pc = "delete", !.code = t[1], !.call = t[2],
                                                  !.todo = proc["poll"].todo \ {t}]
      PROVE  CodesInv'
  <2>1. PICK d \in Codes : d = t[1]
    BY <1>4
  <2>2. /\ proc'["poll"].pc = "delete" /\ proc'["poll"].code = d
        /\ proc'["poll"].todo \subseteq proc["poll"].todo
    BY <1>0, <1>4, <2>1, ProcTypes DEF Proc
  <2>3. PrefersLinks' /\ \A c : GivenBack(c)' => GivenBack(c) \/ c = d
    BY <1>0, <1>4, <2>1, UpAppend
  <2>4. \A c : ~Early("poll", c)' /\ ~Late("poll", c)' /\ ~Has("poll", c)'
    BY <2>2 DEF Early, Late, Has
  <2>5. \A c : Leaving(c)' => Leaving(c)
    BY <1>2, <2>2 DEF Leaving, Only
  <2>6. \A c : Swept(c)' => Swept(c)
    BY <1>1, <2>1, <2>2 DEF Swept
  <2>7. Swept(d)
    BY <1>1, <2>1 DEF Swept
  <2>8. ASSUME NEW c \in Fresh, c # d PROVE CodeInv(c)'
    <3>1. CodeInv(c) /\ Single(c)
      BY DEF CodesInv, CodeInv, CarriedInv
    <3>2. TokensShrink(c)
      BY <1>0, <1>1, <1>2, <2>4, <3>1, ProcTokens
    <3>3. NotRemoved(c)
      BY <2>3, <2>5, <2>6, <2>8 DEF NotRemoved
    <3>4. StoreKeeps(c)
      BY <1>1 DEF StoreKeeps, store
    <3> QED
      BY <1>1, <3>1, <3>2, <3>3, <3>4, CodeFrame DEF server
  <2>9. ASSUME d \in Fresh PROVE CodeInv(d)'
    <3>1. CodeInv(d) /\ Single(d) /\ ~Carried(d) /\ d \in issued /\ d \notin kept
      BY <2>7, <2>9, SweptCodes
    <3>2. Single(d)' /\ ~Carried(d)'
      BY <1>0, <1>1, <1>2, <2>4, <3>1, StillUncarried
    <3>3. Leaving(d)' => sessions'[d] = NoSession
      BY <1>1, <2>5, <3>1 DEF CodeInv
    <3>4. d \in Away' => GoneAt(d)'
      BY <1>1, <3>1 DEF CodeInv, GoneAt, store, server
    <3> QED
      BY <1>1, <3>1, <3>2, <3>3, <3>4, Uncarried DEF server
  <2> QED
    BY <1>1, <2>3, <2>8, <2>9 DEF CodesInv
<1> QED
  BY <1>2, <1>3, <1>4

LEMMA DeleteCodes ==
    ASSUME Basics, CodesInv, phase = "up", SyncDelete
    PROVE  CodesInv'
<1>0. TypeOK /\ PrefersLinks /\ "poll" \in Procs /\ LocalsAt("poll")
  BY Special DEF Basics, CodesInv, Locals
<1>1. proc["poll"].pc = "delete" /\ UNCHANGED <<phase, up, sessions, server, down, lis, buf>>
  BY DEF SyncDelete, client, wire
<1>2. PICK d \in Codes : d = proc["poll"].code
  BY <1>0, <1>1 DEF LocalsAt, Coded
<1>3. /\ Only("poll")
      /\ proc'["poll"] = [proc["poll"] EXCEPT !.pc = "unmap"] \/ proc'["poll"] \in {Idle, Done}
  BY <1>0, <1>2, SyncDeleteStep
<1>4. PICK ok \in BOOLEAN : DeleteSession(d, ok)
  BY <1>0, <1>2, SyncDeleteStep
<1>5. \/ /\ proc'["poll"].pc = "unmap" /\ proc'["poll"].code = d
         /\ proc'["poll"].todo = proc["poll"].todo
      \/ proc'["poll"].pc \in {"idle", "done"}
  BY <1>0, <1>2, <1>3, ProcTypes, IdleTypes DEF Proc
<1>6. /\ mem' = [mem EXCEPT ![d] = "none"]
      /\ mem[d] = "none" => file' = file
      /\ mem[d] # "none" => file' = (IF ok THEN mem' ELSE file)
  BY <1>0, <1>4, DeleteSessionStep
<1>7. kept' = kept \ {d} /\ Away' = Away
  BY <1>0, <1>2, SyncDeleteStep
<1>8. PrefersLinks' /\ \A c : GivenBack(c)' => GivenBack(c)
  BY <1>0, <1>1, UpSame
<1>9. \A c : ~Early("poll", c)' /\ ~Late("poll", c)' /\ ~Has("poll", c)'
  BY <1>5 DEF Early, Late, Has
<1>10. \A c : Leaving(c)' => Leaving(c)
  BY <1>3, <1>5 DEF Leaving, Only
<1>11. \A c : Swept(c)' => Swept(c)
  BY <1>1, <1>2, <1>5 DEF Swept
<1>12. Swept(d)
  BY <1>1, <1>2 DEF Swept
<1>13. ASSUME NEW c \in Fresh, c # d PROVE CodeInv(c)'
  <2>1. CodeInv(c) /\ Single(c)
    BY DEF CodesInv, CodeInv, CarriedInv
  <2>2. TokensShrink(c)
    BY <1>0, <1>1, <1>3, <1>9, <2>1, ProcTokens
  <2>3. NotRemoved(c)
    BY <1>8, <1>10, <1>11 DEF NotRemoved
  <2>4. mem'[c] = mem[c]
    BY <1>0, <1>6, <1>13 DEF TypeOK, Codes
  <2>5. StoreKeeps(c)
    BY <1>6, <2>4 DEF StoreKeeps
  <2>6. (c \in kept' => c \in kept) /\ (c \in Away' => c \in Away)
    BY <1>7, <1>13
  <2> QED
    BY <1>1, <2>1, <2>2, <2>3, <2>5, <2>6, CodeFrame DEF server
<1>14. ASSUME d \in Fresh PROVE CodeInv(d)'
  <2>1. CodeInv(d) /\ Single(d) /\ ~Carried(d) /\ d \in issued /\ d \notin kept
    BY <1>12, <1>14, SweptCodes
  <2>2. Single(d)' /\ ~Carried(d)'
    BY <1>0, <1>1, <1>3, <1>9, <2>1, StillUncarried
  <2>3. Leaving(d)' => sessions'[d] = NoSession
    BY <1>1, <1>10, <2>1 DEF CodeInv
  <2>4. ASSUME d \in Away' PROVE GoneAt(d)'
    <3>1. GoneAt(d)
      BY <1>7, <2>1, <2>4 DEF CodeInv
    <3>2. mem'[d] = "none"
      BY <1>0, <1>6 DEF TypeOK
    <3> QED
      BY <1>1, <1>6, <3>1, <3>2 DEF GoneAt, server
  <2> QED
    BY <1>1, <1>7, <2>1, <2>2, <2>3, <2>4, Uncarried DEF server
<1>15. kept' \subseteq Fresh /\ Away' \subseteq Fresh
  BY <1>7 DEF CodesInv
<1> QED
  BY <1>8, <1>13, <1>14, <1>15 DEF CodesInv

LEMMA UnmapCodes ==
    ASSUME Basics, CodesInv, phase = "up", SyncUnmap
    PROVE  CodesInv'
<1>0. TypeOK /\ PrefersLinks /\ "poll" \in Procs /\ LocalsAt("poll")
  BY Special DEF Basics, CodesInv, Locals
<1>1. /\ proc["poll"].pc = "unmap"
      /\ UNCHANGED <<phase, up, store, server, kept, Away, down, lis, buf>>
  BY DEF SyncUnmap, client, wire, history, Away
<1>2. proc["poll"].code \in Codes
  BY <1>0, <1>1 DEF LocalsAt, Coded
<1>3. /\ Only("poll")
      /\ \A c \in Codes : sessions'[c] \in {sessions[c], NoSession}
      /\ proc'["poll"] = [proc["poll"] EXCEPT !.pc = "remove"] \/ proc'["poll"] \in {Idle, Done}
  BY <1>0, <1>2, SyncUnmapStep
<1>4. \/ proc'["poll"].pc = "remove" /\ proc'["poll"].todo = proc["poll"].todo
      \/ proc'["poll"].pc \in {"idle", "done"}
  BY <1>0, <1>3, ProcTypes, IdleTypes DEF Proc
<1>5. PrefersLinks' /\ \A c : GivenBack(c)' => GivenBack(c)
  BY <1>0, <1>1, UpSame
<1>6. \A c : ~Early("poll", c)' /\ ~Late("poll", c)'
  BY <1>4 DEF Early, Late
<1>7. \A c : Leaving(c)' => Leaving(c)
  BY <1>3, <1>4 DEF Leaving, Only
<1>8. \A c : Swept(c)' => Swept(c)
  BY <1>1, <1>4 DEF Swept
<1>9. ASSUME NEW c \in Fresh PROVE CodeInv(c)'
  <2>1. CodeInv(c) /\ Single(c)
    BY DEF CodesInv, CodeInv, CarriedInv
  <2>2. TokensShrink(c)
    BY <1>0, <1>1, <1>3, <1>6, <2>1, ProcTokens
  <2>3. NotRemoved(c)
    BY <1>5, <1>7, <1>8 DEF NotRemoved
  <2>4. StoreKeeps(c)
    BY <1>1 DEF StoreKeeps, store
  <2>5. sessions'[c] \in {sessions[c], NoSession}
    BY <1>3 DEF Codes
  <2> QED
    BY <1>1, <2>1, <2>2, <2>3, <2>4, <2>5, CodeFrame DEF server
<1> QED
  BY <1>1, <1>5, <1>9 DEF CodesInv

-----------------------------------------------------------------------------
(* The codes: Listen and the server *)

\* What the goroutines do with the codes stays as it is.
LEMMA SameProcs ==
    ASSUME UNCHANGED proc, NEW c
    PROVE  (Leaving(c)' <=> Leaving(c)) /\ (Swept(c)' <=> Swept(c))
  BY DEF Leaving, Swept

LEMMA SameTokens ==
    ASSUME NEW c, Single(c), UNCHANGED <<down, lis, buf, proc>>
    PROVE  TokensShrink(c)
<1>1. /\ InDown(c)' <=> InDown(c)
      /\ InLis(c)' <=> InLis(c)
      /\ \A i \in Calls : InBuf(i, c)' <=> InBuf(i, c)
      /\ \A q \in Procs : (Early(q, c)' <=> Early(q, c)) /\ (Late(q, c)' <=> Late(q, c))
  BY DEF InDown, InLis, InBuf, Early, Late
<1>2. \A i, j \in DOMAIN down' : Says(down'[i], c) /\ Says(down'[j], c) => i = j
  BY DEF Single
<1>3. Single(c)'
  BY <1>1, <1>2 DEF Single, Has
<1> QED
  BY <1>1, <1>3 DEF TokensShrink, Carried, Coming

\* A reply is passed on.
LEMMA ReplyCodes ==
    ASSUME Basics, CodesInv, phase = "up",
           ListenRead \/ ListenDeliver \/ \E p \in Procs : ReceiveReply(p)
    PROVE  CodesInv'
<1>0. TypeOK /\ PrefersLinks
  BY DEF Basics, CodesInv
<1>1. UNCHANGED <<phase, up, sessions, store, server, kept, Away>>
  BY DEF ListenRead, ListenDeliver, ReceiveReply, agent, wire, history, Away
<1>2. PrefersLinks' /\ \A c : GivenBack(c)' => GivenBack(c)
  BY <1>0, <1>1, UpSame
<1>3. ASSUME NEW c PROVE (Leaving(c)' => Leaving(c)) /\ (Swept(c)' => Swept(c))
  <2>1. CASE ListenRead \/ ListenDeliver
    <3>1. UNCHANGED proc
      BY <2>1 DEF ListenRead, ListenDeliver, agent
    <3> QED
      BY <3>1, SameProcs
  <2>2. ASSUME NEW p \in Procs, ReceiveReply(p)
        PROVE  (Leaving(c)' => Leaving(c)) /\ (Swept(c)' => Swept(c))
    <3>1. proc[p].call \in Calls
      BY <2>2 DEF Basics, Locals, LocalsAt, Called, ReceiveReply
    <3>2. Only(p) /\ proc'[p] = [proc[p] EXCEPT !.pc = "clear", !.reply = Head(buf[proc[p].call])]
      BY <1>0, <2>2, <3>1, ReceiveReplyStep
    <3>3. proc'[p].pc = "clear"
      BY <1>0, <3>2, ProcTypes DEF Proc
    <3> QED
      BY <3>2, <3>3, ProcRemovals
  <2> QED
    BY <2>1, <2>2
<1>4. ASSUME NEW c \in Fresh PROVE CodeInv(c)'
  <2>1. CodeInv(c) /\ Single(c)
    BY DEF CodesInv, CodeInv, CarriedInv
  <2>2. TokensShrink(c)
    BY <1>0, <2>1, ListenReadTokens, ListenDeliverTokens, ReceiveReplyTokens
  <2>3. NotRemoved(c)
    BY <1>2, <1>3 DEF NotRemoved
  <2>4. StoreKeeps(c)
    BY <1>1 DEF StoreKeeps, store
  <2> QED
    BY <1>1, <2>1, <2>2, <2>3, <2>4, CodeFrame DEF server
<1> QED
  BY <1>1, <1>2, <1>4 DEF CodesInv

\* A code that has not been generated is nowhere.
LEMMA UnusedCode ==
    ASSUME NEW c \in Fresh, CodesInv, phase = "up", c \notin issued
    PROVE  /\ Single(c) /\ ~Carried(c) /\ c \notin kept /\ c \notin Away
           /\ sessions[c] = NoSession /\ mem[c] = "none" /\ file[c] = "none"
           /\ ~Leaving(c) /\ ~Swept(c) /\ ~GivenBack(c)
  BY DEF CodesInv, CodeInv, CarriedInv, Generated, KeptAt, GoneAt

\* The answer with a new code is the only thing that says it.
LEMMA NewCode ==
    ASSUME TypeOK, NEW c \in Fresh, CodesInv, phase = "up", c \notin issued,
           NEW r \in Reply, Answer(r), Says(r, c), UNCHANGED <<sessions, kept, Away, lis, buf, proc>>,
           \A d : GivenBack(d)' => GivenBack(d), c \in issued', c \in rows'
    PROVE  CodeInv(c)'
<1>1. /\ Single(c) /\ ~Carried(c) /\ c \notin kept /\ c \notin Away
      /\ sessions[c] = NoSession /\ ~Leaving(c) /\ ~Swept(c) /\ ~GivenBack(c)
  BY UnusedCode
<1>2. /\ Len(down) \in Nat /\ DOMAIN down = 1 .. Len(down)
      /\ DOMAIN down' = 1 .. Len(down) + 1
      /\ \A k \in 1 .. Len(down) : down'[k] = down[k]
  BY AnswerStep, LenProperties DEF TypeOK
<1>3. \A k \in DOMAIN down : ~Says(down[k], c)
  BY <1>1 DEF Carried, Coming, InDown
<1>4. \A k \in DOMAIN down' : Says(down'[k], c) => k = Len(down) + 1
  BY <1>2, <1>3
<1>5. ~InLis(c)' /\ \A i \in Calls : ~InBuf(i, c)'
  BY <1>1 DEF Carried, Coming, InLis, InBuf
<1>6. \A q \in Procs : ~Early(q, c)' /\ ~Late(q, c)' /\ ~Has(q, c)'
  BY <1>1 DEF Carried, Coming, Has, Early, Late
<1>7. Single(c)'
  BY <1>4, <1>5, <1>6 DEF Single
<1>8. ~Leaving(c)' /\ ~Swept(c)' /\ ~GivenBack(c)'
  BY <1>1, SameProcs
<1>9. CarriedInv(c)'
  BY <1>1, <1>6, <1>7, <1>8 DEF CarriedInv
<1> QED
  BY <1>1, <1>8, <1>9 DEF CodeInv, Generated

LEMMA ServerRegistersCodes ==
    ASSUME Basics, CodesInv, phase = "up", ServerRegisters
    PROVE  CodesInv'
<1>0. TypeOK /\ PrefersLinks
  BY DEF Basics, CodesInv
<1>1. UNCHANGED <<phase, sessions, store, kept, Away, lis, buf, proc>>
  BY DEF ServerRegisters, agent, client, history, Away
<1>2. /\ up # <<>> /\ up' = Tail(up) /\ Head(up).type = "register_share"
      /\ Head(up) = up[1] /\ 1 \in DOMAIN up
  BY <1>0, ServerRegistersStep, ReadUp
<1>3. Head(up).code \in Links \cup {NoCode}
  BY <1>0, <1>2 DEF PrefersLinks
<1>4. PrefersLinks' /\ \A c : GivenBack(c)' => GivenBack(c)
  BY <1>0, <1>1, <1>2, UpTail
<1>5. ASSUME NEW r \in Reply, Answer(r), NEW c \in Fresh, ~Says(r, c), c \in issued => c \in issued',
             c \in rows => c \in rows'
      PROVE  CodeInv(c)'
  <2>1. CodeInv(c) /\ Single(c)
    BY <1>5 DEF CodesInv, CodeInv, CarriedInv
  <2>2. TokensShrink(c)
    BY <1>0, <1>1, <1>5, <2>1, AnswerTokens
  <2>3. NotRemoved(c)
    BY <1>1, <1>4, SameProcs DEF NotRemoved
  <2>4. StoreKeeps(c)
    BY <1>1 DEF StoreKeeps, store
  <2> QED
    BY <1>1, <1>5, <2>1, <2>2, <2>3, <2>4, CodeFrame
<1>6. ASSUME Refusal(Head(up).call) \in Reply, Answer(Refusal(Head(up).call)), UNCHANGED server
      PROVE  \A c \in Fresh : CodeInv(c)'
  <2>1. PICK r \in Reply : r = Refusal(Head(up).call)
    BY <1>6
  <2>2. Answer(r) /\ \A c : ~Says(r, c)
    BY <1>6, <2>1 DEF Refusal, Says
  <2> QED
    BY <1>5, <1>6, <2>2 DEF server
<1>7. ASSUME NEW e \in Codes,
             IF Head(up).code = NoCode THEN e \in Fresh \ issued ELSE e = Head(up).code,
             rows' = rows \cup {e}, issued' = issued \cup ({e} \cap Fresh),
             ReplyTo(e, Head(up).call) \in Reply, Answer(ReplyTo(e, Head(up).call))
      PROVE  \A c \in Fresh : CodeInv(c)'
  <2>1. PICK r \in Reply : r = ReplyTo(e, Head(up).call)
    BY <1>7
  <2>2. Answer(r) /\ \A c : Says(r, c) <=> c = e
    BY <1>7, <2>1 DEF ReplyTo, Says
  <2>3. e \in Fresh => e \notin issued
    BY <1>3, <1>7, SharesAssumption
  <2>4. ASSUME NEW c \in Fresh PROVE CodeInv(c)'
    <3>1. CASE c = e
      BY <1>0, <1>1, <1>4, <1>7, <2>2, <2>3, <3>1, NewCode
    <3>2. CASE c # e
      BY <1>5, <1>7, <2>2, <3>2
    <3> QED
      BY <3>1, <3>2
  <2> QED
    BY <2>4
<1>8. \A c \in Fresh : CodeInv(c)'
  BY <1>0, <1>6, <1>7, ServerRegistersStep
<1> QED
  BY <1>1, <1>4, <1>8 DEF CodesInv

LEMMA ServerUnregistersCodes ==
    ASSUME Basics, CodesInv, phase = "up", ServerUnregisters
    PROVE  CodesInv'
<1>0. TypeOK /\ PrefersLinks
  BY DEF Basics, CodesInv
<1>1. /\ Head(up).type = "unregister_share"
      /\ UNCHANGED <<phase, sessions, store, issued, kept, Away, lis, buf, proc>>
  BY DEF ServerUnregisters, agent, client, history, Away
<1>2. /\ up # <<>> /\ up' = Tail(up) /\ rows \ {Head(up).code} \subseteq rows'
      /\ UNCHANGED down \/ Answer(Refusal(NoCall))
  BY <1>0, ServerUnregistersStep
<1>3. PICK d : d = Head(up).code
  OBVIOUS
<1>4. GivenBack(d)
  BY <1>0, <1>1, <1>2, <1>3, ReadUp DEF GivenBack
<1>5. PrefersLinks' /\ \A c : GivenBack(c)' => GivenBack(c)
  BY <1>0, <1>1, <1>2, UpTail
<1>6. ASSUME NEW c, Single(c) PROVE TokensShrink(c)
  <2>1. CASE UNCHANGED down
    BY <1>1, <1>6, <2>1, SameTokens
  <2>2. CASE Answer(Refusal(NoCall))
    <3>1. PICK r \in Reply : r = Refusal(NoCall)
      BY Refusals
    <3>2. Answer(r) /\ ~Says(r, c)
      BY <2>2, <3>1 DEF Refusal, Says
    <3> QED
      BY <1>0, <1>1, <1>6, <3>2, AnswerTokens
  <2> QED
    BY <1>2, <2>1, <2>2
<1>7. ASSUME NEW c \in Fresh, c # d PROVE CodeInv(c)'
  <2>1. CodeInv(c) /\ Single(c)
    BY DEF CodesInv, CodeInv, CarriedInv
  <2>2. TokensShrink(c)
    BY <1>6, <2>1
  <2>3. NotRemoved(c)
    BY <1>1, <1>5, SameProcs DEF NotRemoved
  <2>4. StoreKeeps(c)
    BY <1>1 DEF StoreKeeps, store
  <2> QED
    BY <1>1, <1>2, <1>3, <1>7, <2>1, <2>2, <2>3, <2>4, CodeFrame
<1>8. ASSUME d \in Fresh PROVE CodeInv(d)'
  <2>1. CodeInv(d) /\ Single(d) /\ ~Carried(d) /\ d \in issued /\ d \notin kept
    BY <1>4, <1>8 DEF CodesInv, CodeInv, CarriedInv, Generated, KeptAt
  <2>2. Single(d)' /\ ~Carried(d)'
    BY <1>6, <2>1 DEF TokensShrink
  <2>3. Leaving(d)' => sessions'[d] = NoSession
    BY <1>1, <2>1, SameProcs DEF CodeInv
  <2>4. d \in Away' => GoneAt(d)'
    BY <1>1, <2>1 DEF CodeInv, GoneAt, store
  <2> QED
    BY <1>1, <2>1, <2>2, <2>3, <2>4, Uncarried
<1> QED
  BY <1>1, <1>5, <1>7, <1>8 DEF CodesInv

LEMMA ServerIgnoresCodes ==
    ASSUME Basics, CodesInv, phase = "up", ServerIgnores
    PROVE  CodesInv'
<1>0. TypeOK /\ PrefersLinks
  BY DEF Basics, CodesInv
<1>1. /\ UNCHANGED <<phase, sessions, store, server, kept, Away, down, lis, buf, proc>>
      /\ up # <<>> /\ up' = Tail(up)
  BY DEF ServerIgnores, agent, client, Away
<1>2. PrefersLinks' /\ \A c : GivenBack(c)' => GivenBack(c)
  BY <1>0, <1>1, UpTail
<1>3. ASSUME NEW c \in Fresh PROVE CodeInv(c)'
  <2>1. CodeInv(c) /\ Single(c)
    BY DEF CodesInv, CodeInv, CarriedInv
  <2>2. TokensShrink(c)
    BY <1>1, <2>1, SameTokens
  <2>3. NotRemoved(c)
    BY <1>1, <1>2, SameProcs DEF NotRemoved
  <2>4. StoreKeeps(c)
    BY <1>1 DEF StoreKeeps, store
  <2> QED
    BY <1>1, <2>1, <2>2, <2>3, <2>4, CodeFrame DEF server
<1> QED
  BY <1>1, <1>2, <1>3 DEF CodesInv

LEMMA SteadyCodes ==
    ASSUME CodesInv, UNCHANGED Steady
    PROVE  CodesInv'
<1>1. UNCHANGED <<phase, sessions, proc, mem, file, slot, buf, lis, up, down, rows, issued, kept, Away>>
  BY DEF Steady, agent, store, client, wire, server, history, Away
<1>2. PrefersLinks'
  BY <1>1, UpSame DEF CodesInv
<1>3. ASSUME NEW c \in Fresh PROVE CodeInv(c)'
  <2>1. CodeInv(c)
    BY DEF CodesInv
  <2>2. (GivenBack(c)' <=> GivenBack(c)) /\ (Leaving(c)' <=> Leaving(c)) /\ (Swept(c)' <=> Swept(c))
    BY <1>1, UpSame, SameProcs
  <2>3. /\ Generated(c)'
        /\ (Leaving(c) => sessions[c] = NoSession)'
        /\ (c \in kept => KeptAt(c))'
        /\ (c \in Away => GoneAt(c))'
    BY <1>1, <2>1, <2>2 DEF CodeInv, Generated, KeptAt, GoneAt
  <2>4. CASE phase = "up"
    <3>1. TokensShrink(c) /\ NotRemoved(c) /\ StoreKeeps(c)
      BY <1>1, <2>1, <2>2, <2>4, SameTokens DEF CodeInv, CarriedInv, NotRemoved, StoreKeeps
    <3> QED
      BY <1>1, <2>1, <2>4, <3>1, CodeFrame
  <2>5. CASE phase # "up"
    BY <1>1, <2>3, <2>5 DEF CodeInv
  <2> QED
    BY <2>4, <2>5
<1> QED
  BY <1>1, <1>2, <1>3 DEF CodesInv

-----------------------------------------------------------------------------
(* The codes: before the agent is up, and when it goes down *)

\* Nothing is removed or given back by an agent that is not up.
LEMMA NobodyRemoves ==
    ASSUME Basics', Loading', phase' # "up", NEW c
    PROVE  ~Leaving(c)' /\ ~Swept(c)' /\ ~GivenBack(c)'
<1>1. \A p \in Procs : proc'[p].pc \notin {"drop", "tell", "remove", "delete", "unmap"}
  BY DEF Basics, Phases, LoaderPcs, TypeOK
<1>2. ~Leaving(c)'
  BY <1>1 DEF Leaving
<1>3. ~Swept(c)'
  BY <1>1, Special DEF Swept
<1>4. ~GivenBack(c)'
  <2>1. CASE up' = <<>>
    BY <2>1 DEF GivenBack
  <2>2. CASE up' # <<>>
    <3>1. PICK m : m.type = "register_share" /\ up' = <<m>>
      <4>1. up' = <<Message("register_share", proc'["load"].code, proc'["load"].call)>>
        BY <2>2 DEF Basics, TypeOK, Loading, Silent, Waits
      <4> QED
        BY <4>1 DEF Message
    <3>2. \A i \in DOMAIN up' : up'[i] = m
      BY <3>1
    <3> QED
      BY <3>1, <3>2 DEF GivenBack
  <2> QED
    BY <2>1, <2>2
<1> QED
  BY <1>2, <1>3, <1>4

\* The loader puts shares into the table that the store has; the end of the
\* process takes the memory back to what the file has.
LEMMA DownCodes ==
    ASSUME CodesInv, Basics', Loading', phase' # "up", UNCHANGED <<file, kept>>, Away' \subseteq Away,
           mem' = mem \/ (mem' = file /\ \A c \in Away' : file[c] = "none"), issued \subseteq issued', rows \subseteq rows',
           \A c \in Fresh : \/ sessions'[c] \in {sessions[c], NoSession}
                            \/ mem[c] # "none" /\ sessions'[c].kind = mem[c]
    PROVE  CodesInv'
<1>1. ASSUME NEW c \in Fresh PROVE CodeInv(c)'
  <2>1. CodeInv(c)
    BY DEF CodesInv
  <2>2. ~Leaving(c)' /\ ~Swept(c)' /\ ~GivenBack(c)'
    BY NobodyRemoves
  <2>3. mem'[c] \in {mem[c], file[c]} /\ file'[c] = file[c]
    OBVIOUS
  <2>4. Generated(c)'
    BY <2>1, <2>2, <2>3 DEF CodeInv, Generated
  <2>5. ASSUME c \in kept PROVE KeptAt(c)'
    <3>1. KeptAt(c)
      BY <2>1, <2>5 DEF CodeInv
    <3>2. sessions'[c].kind # "immich"
      <4>1. NoSession.kind = "none"
        BY DEF NoSession
      <4> QED
        BY <3>1, <4>1 DEF KeptAt
    <3> QED
      BY <2>2, <2>3, <3>1, <3>2 DEF KeptAt
  <2>6. ASSUME c \in Away' PROVE GoneAt(c)'
    BY <2>1, <2>3, <2>6 DEF CodeInv, GoneAt
  <2> QED
    BY <2>2, <2>4, <2>5, <2>6 DEF CodeInv
<1>2. PrefersLinks'
  BY DEF PrefersLinks
<1> QED
  BY <1>1, <1>2 DEF CodesInv

LEMMA CrashCodes ==
    ASSUME CodesInv, Behind, Basics', Loading', Crash
    PROVE  CodesInv'
<1>1. /\ phase' # "up" /\ UNCHANGED <<file, kept>> /\ mem' = file
      /\ issued' = issued /\ rows' = rows
      /\ \A c \in Fresh : sessions'[c] = NoSession
  BY DEF Crash, server, Codes
<1>2. Away' = Away \ unwritten
  BY DEF Crash, Away
<1>3. \A c \in Away' : file[c] = "none"
  <2> SUFFICES ASSUME NEW c \in Away' PROVE file[c] = "none"
    OBVIOUS
  <2>1. c \in Fresh /\ c \in Codes /\ c \in Away /\ c \notin unwritten
    BY <1>2 DEF CodesInv, Codes
  <2>2. mem[c] = "none"
    BY <2>1 DEF CodesInv, CodeInv, GoneAt
  <2> QED
    BY <2>1, <2>2 DEF Behind
<1> QED
  BY <1>1, <1>2, <1>3, DownCodes

LEMMA StartCodes ==
    ASSUME CodesInv, Basics', Loading', Start
    PROVE  CodesInv'
<1>1. /\ phase' # "up" /\ UNCHANGED <<file, kept, Away, mem, issued, rows, sessions>>
  BY DEF Start, server, history, Away, store
<1> QED
  BY <1>1, DownCodes

\* The agent is up: nobody has a code yet.
LEMMA LoadDoneCodes ==
    ASSUME Basics, Loading, CodesInv, phase = "load", LoadDone, Basics'
    PROVE  CodesInv'
<1>0. TypeOK
  BY DEF Basics
<1>1. /\ proc["load"].pc = "each" /\ phase' = "up"
      /\ UNCHANGED <<sessions, mem, file, up, down, lis, buf, issued, rows, kept, Away>>
  BY DEF LoadDone, store, client, wire, server, history, Away
<1>2. Silent
  BY <1>1 DEF Loading
<1>3. \A p \in Procs : proc'[p].pc \in {"idle", "done"}
  <2>1. Only("load") /\ proc'["load"].pc = "idle"
    BY <1>0, LoadDoneStep, IdleTypes
  <2> QED
    BY <2>1 DEF Basics, Phases, Only
<1>4. DOMAIN up' = {} /\ DOMAIN down' = {}
  BY <1>1, <1>2 DEF Silent
<1>5. ASSUME NEW c
      PROVE  /\ ~InDown(c)' /\ ~InLis(c)' /\ \A i \in Calls : ~InBuf(i, c)'
             /\ \A p \in Procs : ~Early(p, c)' /\ ~Late(p, c)' /\ ~Has(p, c)'
             /\ ~Leaving(c)' /\ ~Swept(c)' /\ ~GivenBack(c)'
  <2>1. ~InDown(c)' /\ ~GivenBack(c)'
    BY <1>4 DEF InDown, GivenBack
  <2>2. ~InLis(c)' /\ \A i \in Calls : ~InBuf(i, c)'
    BY <1>1, <1>2 DEF Silent, NothingInBuffers, InLis, InBuf
  <2>3. \A p \in Procs : ~Early(p, c)' /\ ~Late(p, c)' /\ ~Has(p, c)'
    BY <1>3, RestCarries
  <2>4. ~Leaving(c)' /\ ~Swept(c)'
    BY <1>3, Special DEF Leaving, Swept
  <2> QED
    BY <2>1, <2>2, <2>3, <2>4
<1>6. ASSUME NEW c \in Fresh PROVE CodeInv(c)'
  <2>1. CodeInv(c)
    BY DEF CodesInv
  <2>2. ~Coming(c)' /\ ~Carried(c)'
    BY <1>5 DEF Coming, Carried
  <2>3. Single(c)'
    BY <1>4, <1>5 DEF Single
  <2>4. CarriedInv(c)'
    BY <1>5, <2>2, <2>3 DEF CarriedInv
  <2>5. Generated(c)' /\ (c \in kept' => KeptAt(c)') /\ (c \in Away' => GoneAt(c)')
    BY <1>1, <1>5, <2>1 DEF CodeInv, Generated, KeptAt, GoneAt
  <2> QED
    BY <1>5, <2>4, <2>5 DEF CodeInv
<1>7. PrefersLinks'
  BY <1>4 DEF PrefersLinks
<1> QED
  BY <1>1, <1>6, <1>7 DEF CodesInv

LEMMA LoadCodes ==
    ASSUME Basics, Loading, Behind, CodesInv, phase = "load", [Next]_vars, Basics', Loading'
    PROVE  CodesInv'
<1>0. TypeOK /\ "load" \in Procs
  BY Special DEF Basics
<1>1. ASSUME UNCHANGED <<phase, sessions, mem, file, kept, Away, issued, rows>> PROVE CodesInv'
  BY <1>1, DownCodes
<1>2. ASSUME Claim("load") \/ RegisterFails("load") \/ ReceiveReply("load") \/ ClearSlot("load") PROVE CodesInv'
  BY <1>1, <1>2 DEF Claim, RegisterFails, ReceiveReply, ClearSlot, store, server, history, Away
<1>3. ASSUME ListenRead \/ ListenDeliver \/ LoadEach PROVE CodesInv'
  BY <1>1, <1>3 DEF ListenRead, ListenDeliver, LoadEach, agent, store, server, history, Away
<1>4. ASSUME ServerRegisters PROVE CodesInv'
  <2>1. UNCHANGED <<phase, sessions, mem, file, kept, Away>>
    BY <1>4 DEF ServerRegisters, agent, store, history, Away
  <2>2. issued \subseteq issued' /\ rows \subseteq rows'
    BY <1>0, <1>4, ServerRegistersStep DEF server
  <2> QED
    BY <2>1, <2>2, DownCodes
<1>5. ASSUME Insert("load") PROVE CodesInv'
  <2>1. proc["load"].pc = "insert" /\ UNCHANGED <<phase, mem, file, kept, Away, issued, rows>>
    BY <1>5 DEF Insert, store, server, history, Away
  <2>2. PICK d \in Codes : d = proc["load"].code /\ mem[d] # "none" /\ proc["load"].kind = mem[d]
    BY <2>1 DEF Loading
  <2>3. sessions' = [sessions EXCEPT ![d] = [obj |-> proc["load"].call, kind |-> mem[d]]]
    BY <1>0, <1>5, <2>2, InsertStep
  <2>4. \A c \in Codes \ {d} : sessions'[c] = sessions[c]
    BY <1>0, <2>3 DEF TypeOK
  <2>5. sessions'[d].kind = mem[d]
    BY <1>0, <2>3 DEF TypeOK
  <2>6. Fresh \subseteq Codes
    BY DEF Codes
  <2> QED
    BY <2>1, <2>2, <2>4, <2>5, <2>6, DownCodes
<1> QED
  BY <1>2, <1>3, <1>4, <1>5, LoadMoves, CrashCodes, LoadDoneCodes, SteadyCodes

\* Every step keeps the codes' invariant.
LEMMA NextCodes ==
    ASSUME Basics, Loading, Behind, CodesInv, [Next]_vars, Basics', Loading'
    PROVE  CodesInv'
<1>1. CASE phase = "down"
  BY <1>1, DownMoves, StartCodes, SteadyCodes
<1>2. CASE phase = "load"
  BY <1>2, LoadCodes
<1>3. CASE phase = "up"
  <2>1. ASSUME NEW p \in Procs, Register(p) PROVE CodesInv'
    BY <1>3, <2>1, RegisterCodes, ReplyCodes, ClearSlotCodes DEF Register
  <2>2. ASSUME NEW p \in Procs, Insert(p) \/ Immich(p) \/ SaveCloud(p) PROVE CodesInv'
    BY <1>3, <2>2, InsertCodes, ImmichCodes, SaveCloudCodes, BeginCodes DEF Immich
  <2>3. ASSUME NEW p \in Procs, Remove(p) PROVE CodesInv'
    BY <1>3, <2>3, DropCodes, BeginCodes DEF Remove
  <2>4. ASSUME NEW p \in Callers, CreateSession(p) \/ \E k \in Links : CreateManual(p, k) PROVE CodesInv'
    BY <1>3, <2>4, BeginCodes
  <2>5. ASSUME NEW p \in Callers, NEW c \in Codes, RevokeSession(p, c) PROVE CodesInv'
    <3>1. p \in Procs /\ {c} \in SUBSET Codes /\ Detach(p, {c}) /\ sessions[c] # NoSession
      BY <2>5 DEF RevokeSession, Procs
    <3> QED
      BY <1>3, <3>1, DetachCodes
  <2>6. ASSUME PruneExpired PROVE CodesInv'
    <3>1. PICK cs \in SUBSET {c \in Codes : sessions[c].kind = "cloud"} : Detach("prune", cs)
      BY <2>6 DEF PruneExpired
    <3>2. cs \in SUBSET Codes /\ \A c \in cs : sessions[c] # NoSession
      BY <3>1 DEF NoSession
    <3> QED
      BY <1>3, <3>1, <3>2, Special, DetachCodes
  <2>7. ASSUME StartSync \/ SyncEach PROVE CodesInv'
    BY <1>3, <2>7, BeginCodes
  <2>8. ASSUME SyncSweep \/ SyncUnregister \/ SyncDelete \/ SyncUnmap PROVE CodesInv'
    BY <1>3, <2>8, SweepCodes, UnregisterCodes, DeleteCodes, UnmapCodes
  <2>9. ASSUME ListenRead \/ ListenDeliver PROVE CodesInv'
    BY <1>3, <2>9, ReplyCodes
  <2>10. ASSUME ServerRegisters \/ ServerUnregisters \/ ServerIgnores PROVE CodesInv'
    BY <1>3, <2>10, ServerRegistersCodes, ServerUnregistersCodes, ServerIgnoresCodes
  <2>11. ASSUME LinksChange \/ UNCHANGED vars PROVE CodesInv'
    <3>1. UNCHANGED Steady
      BY <2>11 DEF LinksChange, vars, Steady
    <3> QED
      BY <3>1, SteadyCodes
  <2> QED
    BY <1>3, <2>1, <2>2, <2>3, <2>4, <2>5, <2>6, <2>7, <2>8, <2>9, <2>10, <2>11, UpMoves, CrashCodes DEF Next
<1> QED
  BY <1>1, <1>2, <1>3 DEF Basics, TypeOK

-----------------------------------------------------------------------------
(* The file is behind the memory only by removals that could not be written *)

LEMMA SaveBehind ==
    ASSUME TypeOK, Behind, NEW c \in Codes, NEW kind \in Kinds, NEW ok \in BOOLEAN, SaveSession(c, kind, ok)
    PROVE  Behind'
<1>1. mem' = [mem EXCEPT ![c] = kind] /\ kind # "none" /\ mem \in [Codes -> Entry]
  BY DEF SaveSession, Write, TypeOK, Kinds
<1>2. CASE ok
  BY <1>2 DEF SaveSession, Write, Behind
<1>3. CASE ~ok
  <2>1. file' = file /\ unwritten' = unwritten
    BY <1>3 DEF SaveSession, Write
  <2>2. \A d \in Codes : mem'[d] = "none" => mem[d] = "none"
    BY <1>1
  <2> QED
    BY <2>1, <2>2 DEF Behind
<1> QED
  BY <1>2, <1>3

LEMMA DeleteBehind ==
    ASSUME TypeOK, Behind, NEW c \in Codes, NEW ok \in BOOLEAN, DeleteSession(c, ok)
    PROVE  Behind'
<1>1. CASE mem[c] = "none"
  BY <1>1 DEF DeleteSession, store, Behind
<1>2. CASE mem[c] # "none" /\ ok
  BY <1>2 DEF DeleteSession, Write, Behind
<1>3. CASE mem[c] # "none" /\ ~ok
  <2>1. /\ mem' = [mem EXCEPT ![c] = "none"] /\ file' = file
        /\ unwritten' = unwritten \cup {c} /\ mem \in [Codes -> Entry]
    BY <1>3 DEF DeleteSession, Write, TypeOK
  <2>2. \A d \in Codes : mem'[d] = "none" => mem[d] = "none" \/ d = c
    BY <2>1
  <2> QED
    BY <2>1, <2>2 DEF Behind
<1> QED
  BY <1>1, <1>2, <1>3

LEMMA NextBehind ==
    ASSUME Basics, Behind, [Next]_vars
    PROVE  Behind'
<1>0. TypeOK /\ Locals /\ "poll" \in Procs
  BY Special DEF Basics
<1>1. ASSUME UNCHANGED store PROVE Behind'
  BY <1>1 DEF Behind, store
<1>2. ASSUME NEW p \in Procs, Register(p) \/ Insert(p) \/ PollShares(p) \/ NewImmichClient(p) \/ TellServer(p)
      PROVE  Behind'
  BY <1>1, <1>2 DEF Register, Claim, RegisterFails, ReceiveReply, Cancel, ClearSlot, Insert, PollShares,
     NewImmichClient, TellServer
<1>3. ASSUME NEW p \in Procs, SaveCloud(p) \/ SaveImmich(p) PROVE Behind'
  <2>1. proc[p].code \in Codes
    BY <1>0, <1>3 DEF Locals, LocalsAt, Coded, SaveCloud, SaveImmich
  <2>2. \E kind \in Kinds, ok \in BOOLEAN : SaveSession(proc[p].code, kind, ok)
    BY <1>3 DEF SaveCloud, SaveImmich, Kinds
  <2> QED
    BY <1>0, <2>1, <2>2, SaveBehind
<1>4. ASSUME NEW p \in Procs, Drop(p) PROVE Behind'
  <2>1. PICK t \in proc[p].todo, ok \in BOOLEAN : DeleteSession(t[1], ok)
    BY <1>4 DEF Drop
  <2>2. t[1] \in Codes
    BY <1>0, ProcTypes
  <2> QED
    BY <1>0, <2>1, <2>2, DeleteBehind
<1>5. ASSUME SyncDelete PROVE Behind'
  <2>1. proc["poll"].code \in Codes
    BY <1>0, <1>5 DEF Locals, LocalsAt, Coded, SyncDelete
  <2> QED
    BY <1>0, <1>5, <2>1, DeleteBehind DEF SyncDelete
<1>6. ASSUME NEW p \in Callers,
             CreateSession(p) \/ (\E c \in Codes : RevokeSession(p, c)) \/ \E k \in Links : CreateManual(p, k)
      PROVE  Behind'
  BY <1>1, <1>6 DEF CreateSession, RevokeSession, Detach, CreateManual
<1>7. ASSUME ListenRead \/ ListenDeliver \/ ServerRegisters \/ ServerUnregisters \/ ServerIgnores
      PROVE  Behind'
  BY <1>1, <1>7 DEF ListenRead, ListenDeliver, ServerRegisters, ServerUnregisters, ServerIgnores
<1>8. ASSUME PruneExpired \/ StartSync \/ SyncEach \/ SyncSweep \/ SyncUnregister \/ SyncUnmap
      PROVE  Behind'
  BY <1>1, <1>8 DEF PruneExpired, Detach, StartSync, SyncEach, SyncSweep, SyncUnregister, SyncUnmap
<1>9. ASSUME Start \/ LoadEach \/ LoadDone \/ LinksChange \/ UNCHANGED vars PROVE Behind'
  BY <1>1, <1>9 DEF Start, LoadEach, LoadDone, LinksChange, vars
<1>10. ASSUME Crash PROVE Behind'
  BY <1>10 DEF Crash, Behind
<1> QED
  BY <1>2, <1>3, <1>4, <1>5, <1>6, <1>7, <1>8, <1>9, <1>10 DEF Next, Immich, Remove

-----------------------------------------------------------------------------
(* The theorems *)

LEMMA InitIInv == ASSUME Init PROVE IInv
<1>1. /\ Idle \in Proc /\ Idle.pc = "idle" /\ Refusal(NoCall) \in Reply
      /\ \A p \in Procs : proc[p] = Idle
  BY IdleTypes, Refusals DEF Init
<1>2. TypeOK
  <2>1. /\ sessions \in [Codes -> Session] /\ mem \in [Codes -> Entry] /\ file \in [Codes -> Entry]
        /\ buf \in [Calls -> Seq(Reply)]
    BY DEF Init, Session, NoSession, Entry
  <2>2. proc \in [Procs -> Proc] /\ lis \in [ch : Calls \cup {NoCall}, msg : Reply]
    BY <1>1 DEF Init
  <2> QED
    BY <2>1, <2>2, SharesAssumption DEF Init, TypeOK
<1>3. SlotInv /\ Locals /\ Phases /\ Buffers
  <2>1. SlotInv
    BY <1>1 DEF SlotInv, Init, Registering
  <2>2. Locals
    BY <1>1 DEF Locals, LocalsAt, Called, Coded, PollerAdds
  <2>3. Phases /\ Buffers
    BY <1>1, Special DEF Phases, Buffers, Init
  <2> QED
    BY <2>1, <2>2, <2>3
<1>4. Loading
  BY DEF Loading, Silent, NothingInBuffers, Init
<1>5. CodesInv
  <2>1. ASSUME NEW c \in Fresh PROVE CodeInv(c)
    <3>1. sessions[c] = NoSession /\ mem[c] = "none" /\ file[c] = "none"
      BY DEF Init, Codes
    <3>2. ~Leaving(c) /\ ~Swept(c) /\ ~GivenBack(c)
      BY <1>1, Special DEF Leaving, Swept, GivenBack, Init
    <3> QED
      BY <3>1, <3>2 DEF CodeInv, Generated, Away, Init
  <2> QED
    BY <2>1 DEF CodesInv, PrefersLinks, Away, Init
<1>6. Behind
  BY DEF Behind, Init
<1> QED
  BY <1>2, <1>3, <1>4, <1>5, <1>6 DEF IInv, Basics

LEMMA NextIInv == ASSUME IInv, [Next]_vars PROVE IInv'
  BY NextBasics, NextLoading, NextBehind, NextCodes DEF IInv

LEMMA Invariance == Spec => []IInv
<1>1. IInv /\ [Next]_vars => IInv'
  BY NextIInv
<1> QED
  BY InitIInv, <1>1, PTL DEF Spec

\* The state of the daemon, the store, the client and the server stays within
\* its types, whatever replies, crashes and failures come.
THEOREM TypeCorrect == Spec => []TypeOK
<1>1. IInv => TypeOK
  BY DEF IInv, Basics
<1> QED
  BY <1>1, Invariance, PTL

\* The registration slot always has an owner that will release it: after every
\* reply, refusal, cancellation and failure the deferred release of
\* RegisterShareWithOptions still comes, so that the agent cannot be left
\* answering "registration already in progress" for ever.
THEOREM SlotIsOwned == Spec => []SlotHasOwner
<1>1. IInv => SlotHasOwner
  BY DEF IInv, Basics, SlotInv, SlotHasOwner, Registering
<1> QED
  BY <1>1, Invariance, PTL

\* sessions.json is the truth about shares that were given a generated code:
\* what CreateSession saved is in the file until it is removed, through crashes
\* and failed writes; and a share that was revoked or has expired is in the table
\* or the store again only after a save by its creator that came too late, or a
\* restart while its removal had not reached the file (Store.SaveSession,
\* Store.DeleteSession, loadSessionsFromStore).
THEOREM StoreIsFaithful == Spec => []StoreFaithful
<1>1. ASSUME IInv PROVE StoreFaithful
  <2>1. \A c \in kept : KeptAt(c)
    BY <1>1 DEF IInv, CodesInv, CodeInv
  <2>2. \A c \in Away : GoneAt(c) /\ c \in Codes
    BY <1>1 DEF IInv, CodesInv, CodeInv, Codes
  <2>3. \A c \in Away : file[c] # "none" => c \in unwritten
    BY <1>1, <2>2 DEF IInv, Behind, GoneAt
  <2> QED
    BY <2>1, <2>2, <2>3 DEF StoreFaithful, Durable, ReturnsExplained, KeptAt, GoneAt, Away
<1> QED
  BY <1>1, Invariance, PTL

\* The code of a saved share is registered with the server for as long as the
\* share exists: a reply that reaches a later registration, a registration that
\* is given back and the poller's sweep never unregister somebody else's code
\* (registerImmichShare, syncImmichShares, handleUnregisterShare).
THEOREM KeptStaysRegistered == Spec => []KeptResolves
<1>1. ASSUME IInv PROVE KeptResolves
  <2>1. \A c \in kept : KeptAt(c)
    BY <1>1 DEF IInv, CodesInv, CodeInv
  <2> QED
    BY <2>1 DEF KeptResolves, KeptAt
<1> QED
  BY <1>1, Invariance, PTL

=============================================================================
