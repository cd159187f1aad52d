------------------------ MODULE SessionChannelsProofs ------------------------
(***************************************************************************)
(* Proofs about SessionChannels for any number of messages, closers,       *)
(* session objects, connection ids and nonces.                             *)
(***************************************************************************)
EXTENDS SessionChannels, TLAPS

Made(t) == task[t].pc \notin {"idle", "create", "register"}

\* The channel is in no table and will never be in one again.
Detached(t) ==
    /\ task[t].obj \in Objects /\ task[t].key \in Keys
    /\ Made(t) /\ Entry(t) # t

\* The tables hold channels under their own session and key.
Linked ==
    \A o \in Objects, key \in Keys, t \in Tasks :
        obj[o].table[key] = t => task[t].obj = o /\ task[t].key = key /\ Made(t)

\* What somebody holds in order to close it was taken out of its table.
Held ==
    /\ \A k \in Closers :
        /\ closer[k].pc = "detach" => closer[k].obj \in Objects
        /\ closer[k].todo # {} => closer[k].pc = "close"
    /\ \A k \in Closers, t \in Tasks : t \in closer[k].todo => Detached(t)
    /\ \A u, t \in Tasks : task[u].pc = "replace" /\ task[u].old = t => Detached(t) /\ u # t

\* How far a task has come and what its channel is like.
Whole(t) ==
    /\ task[t].pc \notin {"idle", "create", "done"} => chan[t].kind # "none"
    /\ chan[t].kind # "none" => task[t].obj \in Objects /\ task[t].key \in Keys
    /\ chan[t].kind = "none" =>
           task[t].obj = NoObject /\ chan[t].conn = "none" /\ ~chan[t].closed
    /\ task[t].pc \in {"idle", "create"} => chan[t].kind = "none"
    /\ task[t].pc = "create" => task[t].key \in Keys
    /\ task[t].pc = "register" => ~chan[t].closed
    /\ task[t].pc = "dial" => chan[t].kind = "relay"
    /\ task[t].pc = "offer" => chan[t].kind = "direct"
    /\ chan[t].kind = "relay" /\ task[t].pc \in {"register", "replace", "dial"}
           => chan[t].conn = "none"
    /\ chan[t].kind = "relay" /\ task[t].pc = "drop" => chan[t].conn # "up"
    /\ chan[t].due # {} => chan[t].closed
    /\ chan[t].answered \/ chan[t].armed => chan[t].kind # "none" /\ Made(t)

\* A channel that was closed while its transport stayed up, because Close could
\* not see it or because it is still to be dialled, has been taken out of its table.
Starting(t) == chan[t].kind = "relay" /\ task[t].pc \in {"replace", "dial"}
Cut(t) ==
    chan[t].closed /\ ~chan[t].failed /\ (chan[t].conn = "up" \/ Starting(t)) => Detached(t)

Saved(t) ==
    \/ Entry(t) = t
    \/ \E k \in Closers : t \in closer[k].todo
    \/ \E u \in Tasks : task[u].pc = "replace" /\ task[u].old = t
Kept(t) == chan[t].conn = "up" /\ task[t].pc = "done" /\ ~chan[t].failed => Saved(t)

Sound == \A t \in Tasks : Whole(t) /\ Cut(t) /\ Kept(t)
Struct == Linked /\ Held /\ Sound

\* A nonce is with one connection or with one join.
Numbers ==
    /\ \A c \in Conns, t \in Tasks : nonces[c] = task[t].nonce => nonces[c] = 0
    /\ \A c, d \in Conns : c # d /\ nonces[c] = nonces[d] => nonces[c] = 0
    /\ NonceOnce

\* A transfer session has a session object, and one that has not taken its count
\* has allowed nothing.
Inert(x) == x.pc \notin {"counted", "on"}
Blank(x) == (Inert(x) => ~x.shared) /\ (x.pc # "on" => x.asked = 0)
Served ==
    \A t \in Tasks : (xfer[t].pc # "off" => task[t].obj \in Objects) /\ Blank(xfer[t])

IInv == TypeOK /\ Struct /\ Numbers /\ Served

-----------------------------------------------------------------------------
(* The parts of the state *)

LEMMA Fields ==
    ASSUME TypeOK, NEW t \in Tasks
    PROVE  /\ task[t] \in Task /\ chan[t] \in Channel /\ xfer[t] \in Transfer
           /\ task[t].obj \in Objects \cup {NoObject} /\ task[t].key \in Keys \cup {NoKey}
           /\ task[t].old \in Tasks \cup {NoTask} /\ task[t].nonce \in Nat
           /\ chan[t].closed \in BOOLEAN /\ chan[t].failed \in BOOLEAN
           /\ chan[t].opening \in BOOLEAN /\ chan[t].due \in SUBSET Listeners
           /\ chan[t].listeners \in SUBSET Listeners
           /\ xfer[t].downloads \in Nat /\ xfer[t].asked \in Nat
<1>1. task[t] \in Task /\ chan[t] \in Channel /\ xfer[t] \in Transfer
  BY DEF TypeOK
<1>2. task[t].nonce \in Nat
  BY <1>1, ChannelsAssumption DEF Task, Nonces
<1> QED
  BY <1>1, <1>2 DEF Task, Channel, Transfer

LEMMA PutTask ==
    ASSUME TypeOK, NEW t \in Tasks, NEW r \in Task, task' = [task EXCEPT ![t] = r]
    PROVE  /\ task' \in [Tasks -> Task] /\ task'[t] = r
           /\ \A u \in Tasks \ {t} : task'[u] = task[u]
BY DEF TypeOK

LEMMA PutChan ==
    ASSUME TypeOK, NEW t \in Tasks, NEW d \in Channel, chan' = [chan EXCEPT ![t] = d]
    PROVE  /\ chan' \in [Tasks -> Channel] /\ chan'[t] = d
           /\ \A u \in Tasks \ {t} : chan'[u] = chan[u]
BY DEF TypeOK

LEMMA PutXfer ==
    ASSUME TypeOK, NEW t \in Tasks, NEW x \in Transfer, xfer' = [xfer EXCEPT ![t] = x]
    PROVE  /\ xfer' \in [Tasks -> Transfer] /\ xfer'[t] = x
           /\ \A u \in Tasks \ {t} : xfer'[u] = xfer[u]
BY DEF TypeOK

Labels == {"idle", "create", "register", "replace", "offer", "dial",
           "handshake", "drop", "check", "close", "done"}

LEMMA GotoType ==
    ASSUME TypeOK, NEW t \in Tasks, NEW l \in Labels, Goto(t, l)
    PROVE  /\ task' \in [Tasks -> Task]
           /\ task'[t].pc = l /\ task'[t].obj = task[t].obj /\ task'[t].key = task[t].key
           /\ task'[t].old = task[t].old /\ task'[t].nonce = task[t].nonce
           /\ \A u \in Tasks \ {t} : task'[u] = task[u]
<1> DEFINE r == [task[t] EXCEPT !.pc = l]
<1>1. /\ r \in Task /\ r.pc = l /\ r.obj = task[t].obj /\ r.key = task[t].key
      /\ r.old = task[t].old /\ r.nonce = task[t].nonce
  BY Fields DEF Task, Labels
<1>2. task' = [task EXCEPT ![t] = r]
  BY DEF Goto, TypeOK
<1> HIDE DEF r
<1> QED
  BY <1>1, <1>2, PutTask

\* Closing a channel, with or without its transport.
LEMMA NotifyType ==
    ASSUME NEW c \in Channel
    PROVE  /\ Notify(c) \in Channel /\ Notify(c).closed
           /\ Notify(c).kind = c.kind /\ Notify(c).conn = c.conn /\ Notify(c).failed = c.failed
           /\ Notify(c).answered = c.answered /\ Notify(c).armed = c.armed
BY DEF Notify, Channel

\* What is left of a channel whose transport goes down.
Ended(c) == [c EXCEPT !.conn = "down", !.answered = FALSE, !.armed = FALSE, !.failed = FALSE]

LEMMA EndedType ==
    ASSUME NEW c \in Channel
    PROVE  /\ Ended(c) \in Channel /\ Ended(c).conn = "down"
           /\ Ended(c).kind = c.kind /\ Ended(c).closed = c.closed
           /\ Ended(c).opening = c.opening /\ Ended(c).listeners = c.listeners
           /\ Ended(c).due = c.due /\ Ended(c).ran = c.ran
           /\ ~Ended(c).failed /\ ~Ended(c).answered /\ ~Ended(c).armed
BY DEF Ended, Channel

LEMMA ShutType ==
    ASSUME NEW c \in Channel, NEW sees \in BOOLEAN
    PROVE  /\ Shut(c, sees) \in Channel /\ Shut(c, sees).closed
           /\ Shut(c, sees).kind = c.kind
           /\ Shut(c, sees).conn # "down" => Shut(c, sees).failed = c.failed
           /\ Shut(c, sees).answered => c.answered
           /\ Shut(c, sees).armed => c.armed
           /\ Shut(c, sees).conn = IF c.conn = "up" /\ sees THEN "down" ELSE c.conn
<1>1. CASE c.conn = "up" /\ sees
  <2>1. Shut(c, sees) = Ended(Notify(c))
    BY <1>1 DEF Shut, Ended
  <2>2. Notify(c) \in Channel /\ Notify(c).closed /\ Notify(c).kind = c.kind
    BY NotifyType
  <2> QED
    BY <1>1, <2>1, <2>2, EndedType
<1>2. CASE ~(c.conn = "up" /\ sees)
  <2>1. Shut(c, sees) = Notify(c)
    BY <1>2 DEF Shut
  <2> QED
    BY <1>2, <2>1, NotifyType
<1> QED
  BY <1>1, <1>2

LEMMA CalledType ==
    ASSUME NEW c \in Channel, NEW l \in Listeners
    PROVE  /\ Called(c, l) \in Channel /\ Called(c, l).closed = c.closed
           /\ Called(c, l).kind = c.kind /\ Called(c, l).conn = c.conn
           /\ Called(c, l).failed = c.failed
           /\ Called(c, l).answered = c.answered /\ Called(c, l).armed = c.armed
<1> DEFINE e == [c EXCEPT !.due = c.due \ {l}]
           ranTo == [c.ran EXCEPT ![l] = c.ran[l] + 1]
<1>1. e \in Channel /\ e.ran = c.ran /\ ranTo \in [Listeners -> Nat]
  BY DEF Channel
<1>2. Called(c, l) = [e EXCEPT !.ran = ranTo]
  BY <1>1 DEF Called, Channel
<1>3. /\ e.closed = c.closed /\ e.kind = c.kind /\ e.conn = c.conn /\ e.failed = c.failed
      /\ e.answered = c.answered /\ e.armed = c.armed
  BY DEF Channel
<1> HIDE DEF e, ranTo
<1> QED
  BY <1>1, <1>2, <1>3 DEF Channel

-----------------------------------------------------------------------------
(* A step of one task or channel *)

\* The tables lose at most the entry of t.
Loses(t) ==
    \A o \in Objects, key \in Keys :
        \/ obj'[o].table[key] = obj[o].table[key]
        \/ obj[o].table[key] = t /\ obj'[o].table[key] = NoTask

\* The task and its channel change, nobody takes a channel and none is added to a
\* table: the others are as sound as before.
LEMMA Local ==
    ASSUME IInv, NEW t \in Tasks,
           \A u \in Tasks \ {t} : task'[u] = task[u] /\ chan'[u] = chan[u],
           \A k \in Closers : /\ closer'[k].todo = closer[k].todo
                              /\ closer'[k].todo # {} => closer'[k].pc = "close"
                              /\ closer'[k].pc = "detach" => closer'[k].obj \in Objects,
           Loses(t),
           \/ task'[t] = task[t]
           \/ task[t].pc # "replace" /\ task'[t].pc # "replace",
           \/ ~Made(t)
           \/ task'[t].obj = task[t].obj /\ task'[t].key = task[t].key /\ Made(t)',
           Whole(t)', Cut(t)', Kept(t)'
    PROVE  Struct'
<1>0. Linked /\ Held /\ Sound /\ NoTask \notin Tasks
  BY ChannelsAssumption DEF IInv, Struct, NoTask
<1>1. Linked'
  <2> SUFFICES ASSUME NEW o \in Objects, NEW key \in Keys, NEW u \in Tasks,
                      obj'[o].table[key] = u
               PROVE  task'[u].obj = o /\ task'[u].key = key /\ Made(u)'
    BY DEF Linked
  <2>1. obj[o].table[key] = u
    BY <1>0 DEF Loses
  <2>2. task[u].obj = o /\ task[u].key = key /\ Made(u)
    BY <1>0, <2>1 DEF Linked
  <2>3. CASE u = t
    BY <2>2, <2>3
  <2>4. CASE u # t
    BY <2>2, <2>4 DEF Made
  <2> QED
    BY <2>3, <2>4
<1>2. ASSUME NEW u \in Tasks, Detached(u)
      PROVE  Detached(u)'
  <2>1. task'[u].obj = task[u].obj /\ task'[u].key = task[u].key /\ Made(u)'
    <3>1. CASE u = t
      BY <1>2, <3>1 DEF Detached
    <3>2. CASE u # t
      BY <1>2, <3>2 DEF Detached, Made
    <3> QED
      BY <3>1, <3>2
  <2>2. Entry(u)' # u
    BY <1>0, <1>2, <2>1 DEF Detached, Entry, Loses
  <2> QED
    BY <1>2, <2>1, <2>2 DEF Detached
<1>3. Held'
  <2>1. ASSUME NEW v \in Tasks, NEW u \in Tasks, task'[v].pc = "replace", task'[v].old = u
        PROVE  Detached(u)' /\ v # u
    <3>1. task[v].pc = "replace" /\ task[v].old = u
      BY <2>1
    <3> QED
      BY <1>0, <1>2, <3>1 DEF Held
  <2>2. \A k \in Closers, u \in Tasks : u \in closer'[k].todo => Detached(u)'
    BY <1>0, <1>2 DEF Held
  <2> QED
    BY <2>1, <2>2 DEF Held
<1>4. ASSUME NEW u \in Tasks
      PROVE  Whole(u)' /\ Cut(u)' /\ Kept(u)'
  <2>1. CASE u = t
    BY <2>1
  <2>2. CASE u # t
    <3>1. task'[u] = task[u] /\ chan'[u] = chan[u] /\ Whole(u) /\ Cut(u) /\ Kept(u)
      BY <1>0, <2>2 DEF Sound
    <3>2. Whole(u)'
      BY <3>1 DEF Whole, Made
    <3>3. Cut(u)'
      BY <1>2, <3>1 DEF Cut, Starting
    <3>4. ASSUME chan[u].conn = "up", Saved(u)
          PROVE  Saved(u)'
      <4>1. task[u].obj \in Objects /\ task[u].key \in Keys
        BY <3>1, <3>4 DEF Whole
      <4>2. CASE Entry(u) = u
        BY <2>2, <3>1, <4>1, <4>2 DEF Entry, Loses, Saved
      <4>3. CASE \E k \in Closers : u \in closer[k].todo
        BY <4>3 DEF Saved
      <4>4. CASE \E v \in Tasks : task[v].pc = "replace" /\ task[v].old = u
        <5>1. PICK v \in Tasks : task[v].pc = "replace" /\ task[v].old = u
          BY <4>4
        <5>2. task'[v] = task[v]
          BY <5>1
        <5> QED
          BY <5>1, <5>2 DEF Saved
      <4> QED
        BY <3>4, <4>2, <4>3, <4>4 DEF Saved
    <3> QED
      BY <3>1, <3>2, <3>3, <3>4 DEF Kept
  <2> QED
    BY <2>1, <2>2
<1> QED
  BY <1>1, <1>3, <1>4 DEF Struct, Sound

\* An event of a channel that leaves its task alone.  If it closes the channel, it
\* takes the transport down or gives it up; its entry goes only if it was closed.
LEMMA ChanEvent ==
    ASSUME IInv, NEW t \in Tasks, NEW d \in Channel,
           chan' = [chan EXCEPT ![t] = d], task' = task, closer' = closer,
           d.kind = chan[t].kind,
           \/ chan[t].kind # "none"
           \/ <<d.closed, d.answered, d.armed>> = <<chan[t].closed, chan[t].answered, chan[t].armed>>,
           d.conn = chan[t].conn \/ (chan[t].conn = "up" /\ d.conn = "down"),
           chan[t].failed => d.failed \/ d.conn = "down",
           d.due # {} => d.closed,
           d.answered \/ d.armed => Made(t),
           d.closed /\ ~chan[t].closed => Made(t) /\ (d.failed \/ d.conn = "down"),
           Loses(t), obj' = obj \/ chan[t].closed
    PROVE  Struct' /\ chan' \in [Tasks -> Channel]
<1>0. TypeOK /\ Held /\ Whole(t) /\ Cut(t) /\ Kept(t)
  BY DEF IInv, Struct, Sound
<1>1. /\ chan' \in [Tasks -> Channel] /\ chan'[t] = d
      /\ \A u \in Tasks \ {t} : chan'[u] = chan[u]
  BY <1>0, PutChan
<1>2. Whole(t)'
  BY <1>0, <1>1 DEF Whole, Made
<1>3. Detached(t) => Detached(t)'
  BY ChannelsAssumption DEF Detached, Made, Entry, Loses, NoTask
<1>4. Cut(t)'
  <2> SUFFICES ASSUME d.closed, ~d.failed, d.conn = "up" \/ Starting(t)
               PROVE  Detached(t)
    BY <1>1, <1>3 DEF Cut, Starting
  <2>0. d.conn # "down" /\ ~chan[t].failed
    BY <1>0 DEF Whole, Starting
  <2>1. CASE chan[t].closed
    BY <1>0, <2>0, <2>1 DEF Cut
  <2>2. CASE ~chan[t].closed
    BY <1>0, <2>2 DEF Whole, Starting
  <2> QED
    BY <2>1, <2>2, <1>0, Fields
<1>5. Kept(t)'
  <2> SUFFICES ASSUME d.conn = "up", task[t].pc = "done", ~d.failed
               PROVE  Saved(t)'
    BY <1>1 DEF Kept
  <2>1. Saved(t) /\ chan[t].conn = "up" /\ ~chan[t].failed
    BY <1>0 DEF Kept
  <2>2. CASE Entry(t) = t
    <3>1. ~chan[t].closed
      BY <1>0, <2>1, <2>2 DEF Cut, Detached
    <3> QED
      BY <2>2, <3>1 DEF Saved, Entry
  <2>3. CASE Entry(t) # t
    BY <2>1, <2>3 DEF Saved
  <2> QED
    BY <2>2, <2>3
<1>6. task'[t] = task[t] /\ Made(t)' = Made(t)
  BY DEF Made
<1>7. \A k \in Closers : /\ closer'[k].todo = closer[k].todo
                         /\ closer'[k].todo # {} => closer'[k].pc = "close"
                         /\ closer'[k].pc = "detach" => closer'[k].obj \in Objects
  BY <1>0 DEF Held
<1>8. \A u \in Tasks \ {t} : task'[u] = task[u] /\ chan'[u] = chan[u]
  BY <1>1
<1> QED
  BY <1>1, <1>2, <1>4, <1>5, <1>6, <1>7, <1>8, Local

-----------------------------------------------------------------------------
LEMMA SameNumbers ==
    ASSUME IInv, nonces' = nonces,
           \A u \in Tasks : task'[u].nonce = task[u].nonce
    PROVE  Numbers'
BY DEF IInv, Numbers, NonceOnce

LEMMA SameServed ==
    ASSUME IInv, xfer' = xfer,
           \A u \in Tasks : task[u].obj \in Objects => task'[u].obj \in Objects
    PROVE  Served'
BY DEF IInv, Served

\* A task moves on, its channel may change and its entry may go.
LEMMA GotoStep ==
    ASSUME IInv, NEW t \in Tasks, NEW l \in Labels, Goto(t, l),
           l \notin {"idle", "create", "register", "replace"}, task[t].pc # "replace",
           NEW d \in Channel, chan' = [chan EXCEPT ![t] = d],
           obj' \in [Objects -> SessionObject], Loses(t),
           UNCHANGED <<cur, nonces, xfer, closer>>,
           Whole(t)', Cut(t)', Kept(t)'
    PROVE  IInv'
<1>0. TypeOK /\ Held
  BY DEF IInv, Struct
<1>1. /\ task' \in [Tasks -> Task]
      /\ task'[t].pc = l /\ task'[t].obj = task[t].obj /\ task'[t].key = task[t].key
      /\ task'[t].nonce = task[t].nonce
      /\ \A u \in Tasks \ {t} : task'[u] = task[u]
  BY <1>0, GotoType
<1>2. chan' \in [Tasks -> Channel] /\ \A u \in Tasks \ {t} : chan'[u] = chan[u]
  BY <1>0, PutChan
<1>3. TypeOK'
  BY <1>0, <1>1, <1>2 DEF TypeOK
<1>4. Made(t)' /\ task'[t].pc # "replace"
  BY <1>1 DEF Made
<1>5. \A k \in Closers : /\ closer'[k].todo = closer[k].todo
                         /\ closer'[k].todo # {} => closer'[k].pc = "close"
                         /\ closer'[k].pc = "detach" => closer'[k].obj \in Objects
  BY <1>0 DEF Held
<1>6. Struct'
  BY <1>1, <1>2, <1>4, <1>5, Local
<1>7. \A u \in Tasks : task'[u].nonce = task[u].nonce /\ task'[u].obj = task[u].obj
  BY <1>1
<1>8. Numbers' /\ Served'
  BY <1>7, SameNumbers, SameServed
<1> QED
  BY <1>3, <1>6, <1>8 DEF IInv

\* The parts of the invariant that concern one task.
LEMMA AtTask ==
    ASSUME IInv, NEW t \in Tasks
    PROVE  /\ TypeOK /\ Whole(t) /\ Cut(t) /\ Kept(t)
           /\ chan[t] \in Channel /\ chan[t].closed \in BOOLEAN /\ chan[t].failed \in BOOLEAN
           /\ obj \in [Objects -> SessionObject]
           /\ chan = [chan EXCEPT ![t] = chan[t]]
<1>1. TypeOK
  BY DEF IInv
<1> QED
  BY <1>1, Fields DEF IInv, Struct, Sound, TypeOK

LEMMA SameTables == ASSUME obj' = obj, NEW t PROVE Loses(t)
BY DEF Loses

\* The callback, or the failed start, of t removes no entry but its own.
LEMMA RemoveOwn ==
    ASSUME TypeOK, NEW t \in Tasks, task[t].obj \in Objects, task[t].key \in Keys,
           RemoveIfCurrent(t)
    PROVE  obj' \in [Objects -> SessionObject] /\ Loses(t)
<1>1. CASE Entry(t) = t
  <2> DEFINE o == task[t].obj
             tb == [obj[o].table EXCEPT ![task[t].key] = NoTask]
             so == [obj[o] EXCEPT !.table = tb]
  <2>1. obj[o] \in SessionObject /\ tb \in [Keys -> Tasks \cup {NoTask}]
    BY DEF TypeOK, SessionObject
  <2>2. so \in SessionObject /\ so.table = tb
    BY <2>1 DEF SessionObject
  <2>3. obj' = [obj EXCEPT ![o] = so]
    BY <1>1 DEF RemoveIfCurrent, TypeOK
  <2>4. obj' \in [Objects -> SessionObject]
    BY <2>2, <2>3 DEF TypeOK
  <2>5. obj'[o].table = tb /\ \A q \in Objects \ {o} : obj'[q] = obj[q]
    BY <2>2, <2>3 DEF TypeOK
  <2>6. ASSUME NEW q \in Objects, NEW key \in Keys
        PROVE  \/ obj'[q].table[key] = obj[q].table[key]
               \/ obj[q].table[key] = t /\ obj'[q].table[key] = NoTask
    <3>1. CASE q # o
      BY <2>5, <3>1
    <3>2. CASE q = o
      BY <1>1, <2>1, <2>5, <3>2 DEF Entry, TypeOK, SessionObject
    <3> QED
      BY <3>1, <3>2
  <2> QED
    BY <2>4, <2>6 DEF Loses
<1>2. CASE Entry(t) # t
  BY <1>2, SameTables DEF RemoveIfCurrent, TypeOK
<1> QED
  BY <1>1, <1>2

\* What a step of a task starts from.
LEMMA GotoFacts ==
    ASSUME IInv, NEW t \in Tasks, NEW l \in Labels, Goto(t, l), Loses(t),
           l \notin {"idle", "create", "register"}
    PROVE  /\ task'[t].pc = l /\ task'[t].obj = task[t].obj /\ task'[t].key = task[t].key
           /\ Detached(t) => Detached(t)'
<1>1. /\ task'[t].pc = l /\ task'[t].obj = task[t].obj /\ task'[t].key = task[t].key
      /\ NoTask # t
  BY GotoType, ChannelsAssumption DEF IInv, NoTask
<1> QED
  BY <1>1 DEF Detached, Made, Entry, Loses

LEMMA CreateOfferOK == ASSUME IInv, NEW t \in Tasks, CreateOffer(t) PROVE IInv'
<1>1. PICK l \in {"check", "drop"} : Goto(t, l)
  BY DEF CreateOffer
<1>2. task[t].pc = "offer" /\ UNCHANGED <<cur, obj, nonces, chan, xfer, closer>>
  BY DEF CreateOffer
<1>3. Loses(t) /\ l \in Labels /\ l \notin {"idle", "create", "register", "replace"}
  BY <1>2, SameTables DEF Labels
<1>4. task'[t].pc = l /\ task'[t].obj = task[t].obj /\ task'[t].key = task[t].key
  BY <1>1, <1>3, GotoFacts
<1>5. Whole(t)'
  BY <1>2, <1>4, AtTask DEF Whole, Made
<1>6. Cut(t)' /\ Kept(t)'
  BY <1>1, <1>2, <1>3, <1>4, GotoFacts, AtTask DEF Cut, Kept, Starting
<1>7. chan' = [chan EXCEPT ![t] = chan[t]] /\ obj' \in [Objects -> SessionObject]
  BY <1>2, AtTask
<1> QED
  BY <1>1, <1>2, <1>3, <1>5, <1>6, <1>7, AtTask, GotoStep

LEMMA DialOK == ASSUME IInv, NEW t \in Tasks, Dial(t) PROVE IInv'
<1>1. task[t].pc = "dial" /\ UNCHANGED <<cur, obj, nonces, xfer, closer>>
  BY DEF Dial
<1>2. Loses(t) /\ obj' \in [Objects -> SessionObject]
  BY <1>1, SameTables, AtTask
<1>3. chan[t] \in Channel /\ chan[t].kind = "relay" /\ chan[t].conn = "none"
  BY <1>1, AtTask DEF Whole
<1>4. CASE Goto(t, "handshake") /\ chan' = [chan EXCEPT ![t].conn = "up"]
  <2> DEFINE d == [chan[t] EXCEPT !.conn = "up"]
  <2>1. /\ d \in Channel /\ d.conn = "up" /\ d.kind = chan[t].kind /\ d.closed = chan[t].closed
        /\ d.failed = chan[t].failed /\ d.due = chan[t].due
        /\ d.answered = chan[t].answered /\ d.armed = chan[t].armed
    BY <1>3 DEF Channel
  <2>2. chan' = [chan EXCEPT ![t] = d]
    BY <1>4, AtTask
  <2> HIDE DEF d
  <2>3. chan'[t] = d
    BY <2>1, <2>2, AtTask, PutChan
  <2>4. /\ task'[t].pc = "handshake" /\ task'[t].obj = task[t].obj /\ task'[t].key = task[t].key
        /\ Detached(t) => Detached(t)'
    BY <1>2, <1>4, GotoFacts DEF Labels
  <2>5. Whole(t)'
    BY <1>1, <2>1, <2>3, <2>4, AtTask DEF Whole, Made
  <2>6. Cut(t)' /\ Kept(t)'
    BY <1>1, <1>3, <2>1, <2>3, <2>4, AtTask DEF Cut, Kept, Starting
  <2> QED
    BY <1>1, <1>2, <1>4, <2>1, <2>2, <2>5, <2>6, GotoStep DEF Labels
<1>5. CASE Goto(t, "drop") /\ chan' = [chan EXCEPT ![t] = Notify(@)]
  <2> DEFINE d == Notify(chan[t])
  <2>1. /\ d \in Channel /\ d.conn = "none" /\ d.kind = chan[t].kind /\ d.closed
        /\ d.answered = chan[t].answered /\ d.armed = chan[t].armed
    BY <1>3, NotifyType
  <2>2. chan' = [chan EXCEPT ![t] = d]
    BY <1>5, AtTask
  <2> HIDE DEF d
  <2>3. chan'[t] = d
    BY <2>1, <2>2, AtTask, PutChan
  <2>4. task'[t].pc = "drop" /\ task'[t].obj = task[t].obj /\ task'[t].key = task[t].key
    BY <1>2, <1>5, GotoFacts DEF Labels
  <2>5. Whole(t)' /\ Cut(t)' /\ Kept(t)'
    BY <1>1, <2>1, <2>3, <2>4, AtTask DEF Whole, Made, Cut, Kept, Starting
  <2> QED
    BY <1>1, <1>2, <1>5, <2>1, <2>2, <2>5, GotoStep DEF Labels
<1> QED
  BY <1>4, <1>5 DEF Dial

LEMMA RunHandshakeOK == ASSUME IInv, NEW t \in Tasks, RunHandshake(t) PROVE IInv'
<1>1. task[t].pc = "handshake" /\ UNCHANGED <<cur, obj, nonces, xfer, closer>>
  BY DEF RunHandshake
<1>2. Loses(t) /\ obj' \in [Objects -> SessionObject] /\ chan[t] \in Channel
  BY <1>1, SameTables, AtTask
<1>3. CASE Goto(t, "check") /\ chan' = [chan EXCEPT ![t].armed = TRUE]
  <2> DEFINE d == [chan[t] EXCEPT !.armed = TRUE]
  <2>1. /\ d \in Channel /\ d.conn = chan[t].conn /\ d.kind = chan[t].kind
        /\ d.closed = chan[t].closed /\ d.failed = chan[t].failed /\ d.due = chan[t].due
    BY <1>2 DEF Channel
  <2>2. chan' = [chan EXCEPT ![t] = d]
    BY <1>3, AtTask
  <2> HIDE DEF d
  <2>3. chan'[t] = d
    BY <2>1, <2>2, AtTask, PutChan
  <2>4. /\ task'[t].pc = "check" /\ task'[t].obj = task[t].obj /\ task'[t].key = task[t].key
        /\ Detached(t) => Detached(t)'
    BY <1>2, <1>3, GotoFacts DEF Labels
  <2>5. Whole(t)'
    BY <1>1, <2>1, <2>3, <2>4, AtTask DEF Whole, Made
  <2>6. Cut(t)' /\ Kept(t)'
    BY <1>1, <2>1, <2>3, <2>4, AtTask DEF Cut, Kept, Starting
  <2> QED
    BY <1>1, <1>2, <1>3, <2>1, <2>2, <2>5, <2>6, GotoStep DEF Labels
<1>4. CASE Goto(t, "drop") /\ chan' = [chan EXCEPT ![t] = Shut(@, TRUE)]
  <2> DEFINE d == Shut(chan[t], TRUE)
  <2>1. /\ d \in Channel /\ d.conn # "up" /\ d.kind = chan[t].kind /\ d.closed
        /\ (d.answered => chan[t].answered) /\ (d.armed => chan[t].armed)
    BY <1>2, ShutType
  <2>2. chan' = [chan EXCEPT ![t] = d]
    BY <1>4, AtTask
  <2> HIDE DEF d
  <2>3. chan'[t] = d
    BY <2>1, <2>2, AtTask, PutChan
  <2>4. task'[t].pc = "drop" /\ task'[t].obj = task[t].obj /\ task'[t].key = task[t].key
    BY <1>2, <1>4, GotoFacts DEF Labels
  <2>5. Whole(t)' /\ Cut(t)' /\ Kept(t)'
    BY <1>1, <2>1, <2>3, <2>4, AtTask DEF Whole, Made, Cut, Kept, Starting
  <2> QED
    BY <1>1, <1>2, <1>4, <2>1, <2>2, <2>5, GotoStep DEF Labels
<1> QED
  BY <1>3, <1>4 DEF RunHandshake

LEMMA DropOK == ASSUME IInv, NEW t \in Tasks, Drop(t) PROVE IInv'
<1> DEFINE l == IF chan[t].kind = "direct" THEN "close" ELSE "done"
<1>1. /\ task[t].pc = "drop" /\ Goto(t, l) /\ RemoveIfCurrent(t)
      /\ UNCHANGED <<cur, nonces, chan, xfer, closer>>
  BY DEF Drop
<1>2. /\ chan[t].kind # "none" /\ task[t].obj \in Objects /\ task[t].key \in Keys
      /\ chan[t].kind \in {"none", "direct", "relay"}
  BY <1>1, AtTask DEF Whole, Channel
<1>3. obj' \in [Objects -> SessionObject] /\ Loses(t)
  BY <1>1, <1>2, AtTask, RemoveOwn
<1>4. /\ task'[t].pc = l /\ task'[t].obj = task[t].obj /\ task'[t].key = task[t].key
      /\ Detached(t) => Detached(t)'
  BY <1>1, <1>3, GotoFacts DEF Labels
<1>5. Whole(t)'
  BY <1>1, <1>4, AtTask DEF Whole, Made
<1>6. Cut(t)' /\ Kept(t)'
  BY <1>1, <1>2, <1>4, AtTask DEF Cut, Kept, Starting, Whole
<1>7. chan' = [chan EXCEPT ![t] = chan[t]] /\ chan[t] \in Channel
  BY <1>1, AtTask
<1> QED
  BY <1>1, <1>3, <1>5, <1>6, <1>7, GotoStep DEF Labels

LEMMA CheckOK == ASSUME IInv, NEW t \in Tasks, Check(t) PROVE IInv'
<1> DEFINE l == IF Current(t) THEN "done" ELSE "close"
<1>1. /\ task[t].pc = "check" /\ Goto(t, l)
      /\ UNCHANGED <<cur, obj, nonces, chan, xfer, closer>>
  BY DEF Check
<1>2. Loses(t) /\ obj' \in [Objects -> SessionObject] /\ l \in {"done", "close"}
  BY <1>1, SameTables, AtTask
<1>3. /\ task'[t].pc = l /\ task'[t].obj = task[t].obj /\ task'[t].key = task[t].key
      /\ Detached(t) => Detached(t)'
  BY <1>1, <1>2, GotoFacts DEF Labels
<1>4. Whole(t)'
  BY <1>1, <1>2, <1>3, AtTask DEF Whole, Made
<1>5. Cut(t)'
  BY <1>1, <1>2, <1>3, AtTask DEF Cut, Starting
<1>6. Kept(t)'
  BY <1>1, <1>3 DEF Kept, Saved, Current, Entry
<1>7. chan' = [chan EXCEPT ![t] = chan[t]] /\ chan[t] \in Channel
  BY <1>1, AtTask
<1> QED
  BY <1>1, <1>2, <1>4, <1>5, <1>6, <1>7, GotoStep DEF Labels

LEMMA CloseOwnOK == ASSUME IInv, NEW t \in Tasks, CloseOwn(t) PROVE IInv'
<1>1. /\ task[t].pc = "close" /\ Goto(t, "done") /\ chan' = [chan EXCEPT ![t] = Shut(@, TRUE)]
      /\ UNCHANGED <<cur, obj, nonces, xfer, closer>>
  BY DEF CloseOwn
<1>2. Loses(t) /\ obj' \in [Objects -> SessionObject]
  BY <1>1, SameTables, AtTask
<1> DEFINE d == Shut(chan[t], TRUE)
<1>3. /\ d \in Channel /\ d.conn # "up" /\ d.kind = chan[t].kind /\ d.closed
      /\ (d.answered => chan[t].answered) /\ (d.armed => chan[t].armed)
  <2>1. chan[t] \in Channel
    BY AtTask
  <2> QED
    BY <2>1, ShutType
<1>4. chan' = [chan EXCEPT ![t] = d]
  BY <1>1, AtTask
<1> HIDE DEF d
<1>5. chan'[t] = d
  BY <1>3, <1>4, AtTask, PutChan
<1>6. task'[t].pc = "done" /\ task'[t].obj = task[t].obj /\ task'[t].key = task[t].key
  BY <1>1, <1>2, GotoFacts DEF Labels
<1>7. Whole(t)' /\ Cut(t)' /\ Kept(t)'
  BY <1>1, <1>3, <1>5, <1>6, AtTask DEF Whole, Made, Cut, Kept, Starting
<1> QED
  BY <1>1, <1>2, <1>3, <1>4, <1>7, GotoStep DEF Labels

-----------------------------------------------------------------------------
(* Admission and the making of a channel *)

LEMMA SameClosers ==
    ASSUME IInv, closer' = closer
    PROVE  \A k \in Closers : /\ closer'[k].todo = closer[k].todo
                              /\ closer'[k].todo # {} => closer'[k].pc = "close"
                              /\ closer'[k].pc = "detach" => closer'[k].obj \in Objects
BY DEF IInv, Struct, Held

\* A task that has made no channel takes a step of its own.
LEMMA FirstStep ==
    ASSUME IInv, NEW t \in Tasks, task[t].pc \in {"idle", "create"},
           NEW r \in Task, task' = [task EXCEPT ![t] = r], r.pc # "replace",
           r.obj \in Objects \/ r.obj = task[t].obj, r.nonce = task[t].nonce,
           NEW d \in Channel, chan' = [chan EXCEPT ![t] = d],
           UNCHANGED <<cur, obj, nonces, xfer, closer>>,
           Whole(t)', Cut(t)', Kept(t)'
    PROVE  IInv'
<1>0. TypeOK
  BY DEF IInv
<1>1. /\ task' \in [Tasks -> Task] /\ task'[t] = r
      /\ \A u \in Tasks \ {t} : task'[u] = task[u]
  BY <1>0, PutTask
<1>2. chan' \in [Tasks -> Channel] /\ \A u \in Tasks \ {t} : chan'[u] = chan[u]
  BY <1>0, PutChan
<1>3. TypeOK'
  BY <1>0, <1>1, <1>2 DEF TypeOK
<1>4. ~Made(t) /\ task[t].pc # "replace" /\ task'[t].pc # "replace" /\ Loses(t)
  BY <1>1, SameTables DEF Made
<1>5. Struct'
  BY <1>1, <1>2, <1>4, SameClosers, Local
<1>6. \A u \in Tasks : /\ task'[u].nonce = task[u].nonce
                       /\ task[u].obj \in Objects => task'[u].obj \in Objects
  BY <1>1
<1>7. Numbers' /\ Served'
  BY <1>6, SameNumbers, SameServed
<1> QED
  BY <1>3, <1>5, <1>7 DEF IInv

\* A task that gives up before it has a channel.
LEMMA GiveUp ==
    ASSUME IInv, NEW t \in Tasks, task[t].pc \in {"idle", "create"}, Goto(t, "done"),
           UNCHANGED <<cur, obj, nonces, chan, xfer, closer>>
    PROVE  IInv'
<1> DEFINE r == [task[t] EXCEPT !.pc = "done"]
<1>1. /\ r \in Task /\ r.pc = "done" /\ r.obj = task[t].obj /\ r.key = task[t].key
      /\ r.nonce = task[t].nonce
  BY AtTask, Fields DEF Task
<1>2. task' = [task EXCEPT ![t] = r]
  BY AtTask DEF Goto, TypeOK
<1> HIDE DEF r
<1>3. task'[t] = r
  BY <1>1, <1>2, AtTask, PutTask
<1>4. Whole(t)' /\ Cut(t)' /\ Kept(t)'
  BY <1>1, <1>3, AtTask DEF Whole, Made, Cut, Kept, Starting
<1> QED
  BY <1>1, <1>2, <1>4, AtTask, FirstStep

LEMMA MakeOK ==
    ASSUME IInv, NEW t \in Tasks, task[t].pc \in {"idle", "create"},
           NEW key \in Keys, NEW kind \in {"direct", "relay"},
           NEW c \in {"up", "none"}, kind = "relay" => c = "none",
           Make(t, key, kind, c), UNCHANGED <<cur, obj, nonces, xfer, closer>>
    PROVE  IInv'
<1>1. CASE cur = NoObject
  BY <1>1, GiveUp DEF Make
<1>2. CASE cur # NoObject
  <2> DEFINE r == [[[task[t] EXCEPT !.pc = "register"] EXCEPT !.key = key] EXCEPT !.obj = cur]
             d == [[[NoChannel EXCEPT !.kind = kind] EXCEPT !.conn = c] EXCEPT !.listeners = {"owner"}]
  <2>1. cur \in Objects
    BY <1>2, AtTask DEF TypeOK
  <2>2. /\ r \in Task /\ r.pc = "register" /\ r.obj = cur /\ r.key = key
        /\ r.nonce = task[t].nonce
    BY <2>1, AtTask, Fields DEF Task
  <2>3. NoChannel \in Channel
    BY DEF NoChannel, Channel, Listeners
  <2>4. /\ d \in Channel /\ d.kind = kind /\ d.conn = c /\ ~d.closed /\ d.due = {}
        /\ ~d.answered /\ ~d.armed
    BY <2>3 DEF NoChannel, Channel, Listeners
  <2>5. task' = [task EXCEPT ![t] = r] /\ chan' = [chan EXCEPT ![t] = d]
    BY <1>2, AtTask DEF Make, TypeOK
  <2> HIDE DEF r, d
  <2>6. task'[t] = r /\ chan'[t] = d
    BY <2>2, <2>4, <2>5, AtTask, PutTask, PutChan
  <2>7. Whole(t)' /\ Cut(t)' /\ Kept(t)'
    BY <2>1, <2>2, <2>4, <2>6 DEF Whole, Made, Cut, Kept, Starting
  <2> QED
    BY <2>1, <2>2, <2>4, <2>5, <2>7, FirstStep
<1> QED
  BY <1>1, <1>2

LEMMA MakersOK ==
    ASSUME IInv, NEW t \in Tasks, CreatePeer(t) \/ \E s \in Sids : HandleRelayPrepare(t, s)
    PROVE  IInv'
<1>1. CASE CreatePeer(t)
  <2>1. task[t].pc = "create" /\ UNCHANGED <<cur, obj, nonces, xfer, closer>>
    BY <1>1 DEF CreatePeer
  <2>2. task[t].key \in Keys
    BY <2>1, AtTask DEF Whole
  <2> QED
    BY <1>1, <2>1, <2>2, MakeOK, GiveUp DEF CreatePeer
<1>2. ASSUME NEW s \in Sids, HandleRelayPrepare(t, s)
      PROVE  IInv'
  <2>1. s \in Keys
    BY DEF Keys
  <2> QED
    BY <1>2, <2>1, MakeOK, GiveUp DEF HandleRelayPrepare
<1> QED
  BY <1>1, <1>2

\* A join takes the nonce of its connection, whatever comes of it.
LEMMA HandleJoinOK ==
    ASSUME IInv, NEW t \in Tasks, NEW c \in Conns, NEW good \in BOOLEAN, HandleJoin(t, c, good)
    PROVE  IInv'
<1>0. TypeOK /\ Numbers /\ Whole(t) /\ chan[t] \in Channel
  BY AtTask DEF IInv
<1>1. /\ task[t].pc = "idle" /\ nonces' = [nonces EXCEPT ![c] = 0]
      /\ UNCHANGED <<cur, obj, chan, xfer, closer>>
  BY DEF HandleJoin, Admit
<1>2. PICK r \in Task :
        /\ task' = [task EXCEPT ![t] = r]
        /\ \/ r.pc = "create" /\ r.key = c /\ r.nonce = nonces[c]
           \/ r.pc = "done" /\ r.key = task[t].key /\ r.nonce = task[t].nonce
        /\ r.obj = task[t].obj
  <2>1. CASE nonces[c] # 0 /\ good
    <3> DEFINE r == [[[task[t] EXCEPT !.pc = "create"] EXCEPT !.key = c] EXCEPT !.nonce = nonces[c]]
    <3>1. task[t] \in Task /\ c \in Keys /\ nonces[c] \in {0} \cup Nonces
      BY <1>0, Fields DEF Keys, TypeOK
    <3>2. /\ r \in Task /\ r.pc = "create" /\ r.key = c /\ r.nonce = nonces[c]
          /\ r.obj = task[t].obj
      BY <3>1 DEF Task
    <3>3. task' = [task EXCEPT ![t] = r]
      BY <1>0, <2>1 DEF HandleJoin, Admit, TypeOK
    <3> QED
      BY <3>2, <3>3
  <2>2. CASE ~(nonces[c] # 0 /\ good)
    <3> DEFINE r == [task[t] EXCEPT !.pc = "done"]
    <3>1. /\ r \in Task /\ r.pc = "done" /\ r.key = task[t].key /\ r.nonce = task[t].nonce
          /\ r.obj = task[t].obj
      BY <1>0, Fields DEF Task
    <3>2. task' = [task EXCEPT ![t] = r]
      BY <1>0, <2>2 DEF HandleJoin, Admit, Goto, TypeOK
    <3> QED
      BY <3>1, <3>2
  <2> QED
    BY <2>1, <2>2
<1>3. /\ task' \in [Tasks -> Task] /\ task'[t] = r
      /\ \A u \in Tasks \ {t} : task'[u] = task[u]
  BY <1>0, <1>2, PutTask
<1>4. nonces' \in [Conns -> {0} \cup Nonces] /\ nonces'[c] = 0
      /\ \A e \in Conns \ {c} : nonces'[e] = nonces[e]
  BY <1>0, <1>1 DEF TypeOK
<1>5. TypeOK'
  BY <1>0, <1>1, <1>3, <1>4 DEF TypeOK
<1>6. Whole(t)' /\ Cut(t)' /\ Kept(t)'
  BY <1>0, <1>1, <1>2, <1>3, AtTask DEF Whole, Made, Cut, Kept, Starting, Keys
<1>7. Struct'
  <2>1. ~Made(t) /\ task[t].pc # "replace" /\ task'[t].pc # "replace" /\ Loses(t)
    BY <1>1, <1>2, <1>3, SameTables DEF Made
  <2> QED
    BY <1>1, <1>3, <1>6, <2>1, SameClosers, Local
<1>8. Served'
  BY <1>1, <1>2, <1>3, SameServed
<1>9. Numbers'
  <2>1. \A e \in Conns : nonces[e] \in Nat /\ nonces'[e] \in Nat /\ nonces'[e] \in {0, nonces[e]}
    BY <1>0, <1>4, ChannelsAssumption DEF TypeOK, Nonces
  <2>3. CASE r.nonce = task[t].nonce
    BY <1>0, <1>3, <1>4, <2>1, <2>3 DEF Numbers, NonceOnce
  <2>4. CASE r.nonce = nonces[c]
    <3>2. \A e \in Conns, u \in Tasks : nonces'[e] = task'[u].nonce => nonces'[e] = 0
      BY <1>0, <1>3, <1>4, <2>1, <2>4 DEF Numbers
    <3>3. NonceOnce'
      BY <1>0, <1>3, <2>4 DEF Numbers, NonceOnce
    <3> QED
      BY <1>0, <1>4, <2>1, <3>2, <3>3 DEF Numbers
  <2> QED
    BY <1>2, <2>3, <2>4
<1> QED
  BY <1>5, <1>7, <1>8, <1>9 DEF IInv

-----------------------------------------------------------------------------
(* Events of a channel *)

\* An event that leaves tasks, transfers, closers and nonces alone.
LEMMA EventStep ==
    ASSUME IInv, NEW t \in Tasks, NEW d \in Channel,
           chan' = [chan EXCEPT ![t] = d],
           UNCHANGED <<cur, nonces, task, xfer, closer>>,
           d.kind = chan[t].kind,
           \/ chan[t].kind # "none"
           \/ <<d.closed, d.answered, d.armed>> = <<chan[t].closed, chan[t].answered, chan[t].armed>>,
           d.conn = chan[t].conn \/ (chan[t].conn = "up" /\ d.conn = "down"),
           chan[t].failed => d.failed \/ d.conn = "down",
           d.due # {} => d.closed,
           d.answered \/ d.armed => Made(t),
           d.closed /\ ~chan[t].closed => Made(t) /\ (d.failed \/ d.conn = "down"),
           obj' \in [Objects -> SessionObject], Loses(t), obj' = obj \/ chan[t].closed
    PROVE  IInv'
<1>1. Struct' /\ chan' \in [Tasks -> Channel]
  BY ChanEvent
<1>2. TypeOK'
  BY <1>1 DEF IInv, TypeOK
<1>3. Numbers' /\ Served'
  BY SameNumbers, SameServed
<1> QED
  BY <1>1, <1>2, <1>3 DEF IInv

LEMMA RunListenerOK ==
    ASSUME IInv, NEW t \in Tasks, NEW l \in Listeners, RunListener(t, l)
    PROVE  IInv'
<1>1. /\ l \in chan[t].due
      /\ chan' = [chan EXCEPT ![t] = Called(@, l)]
      /\ UNCHANGED <<cur, nonces, task, xfer, closer>>
      /\ IF l = "owner" THEN RemoveIfCurrent(t) ELSE UNCHANGED obj
  BY DEF RunListener
<1>2. /\ chan[t] \in Channel /\ chan[t].closed /\ chan[t].kind # "none"
      /\ task[t].obj \in Objects /\ task[t].key \in Keys
  <2>1. chan[t].closed
    BY <1>1, AtTask DEF Whole
  <2>2. chan[t].kind # "none"
    BY <2>1, AtTask DEF Whole
  <2> QED
    BY <2>1, <2>2, AtTask DEF Whole
<1> DEFINE d == Called(chan[t], l)
<1>4. /\ d \in Channel /\ d.kind = chan[t].kind /\ d.conn = chan[t].conn
      /\ d.closed = chan[t].closed /\ d.failed = chan[t].failed
      /\ d.answered = chan[t].answered /\ d.armed = chan[t].armed
  BY <1>2, CalledType
<1>5. chan' = [chan EXCEPT ![t] = d]
  BY <1>1, AtTask
<1>6. obj' \in [Objects -> SessionObject] /\ Loses(t)
  BY <1>1, <1>2, AtTask, RemoveOwn, SameTables
<1> HIDE DEF d
<1> QED
  BY <1>1, <1>2, <1>4, <1>5, <1>6, AtTask, EventStep DEF Whole

LEMMA TransportEndsOK == ASSUME IInv, NEW t \in Tasks, TransportEnds(t) PROVE IInv'
<1>1. /\ chan[t].conn = "up" /\ (chan[t].answered \/ chan[t].armed)
      /\ chan' = [chan EXCEPT ![t] = Shut(chan[t], TRUE)]
      /\ UNCHANGED <<cur, obj, nonces, task, xfer, closer>>
  BY AtTask DEF TransportEnds
<1> DEFINE d == Shut(chan[t], TRUE)
<1>2. /\ d \in Channel /\ d.kind = chan[t].kind /\ d.conn = "down" /\ d.closed
      /\ (d.answered => chan[t].answered) /\ (d.armed => chan[t].armed)
  <2>1. chan[t] \in Channel
    BY AtTask
  <2> QED
    BY <1>1, <2>1, ShutType
<1>3. chan' = [chan EXCEPT ![t] = d]
  BY <1>1
<1> HIDE DEF d
<1>4. chan[t].kind # "none" /\ Made(t) /\ obj' \in [Objects -> SessionObject] /\ Loses(t)
  BY <1>1, AtTask, SameTables DEF Whole
<1> QED
  BY <1>1, <1>2, <1>3, <1>4, EventStep

LEMMA ConnectionFailsOK == ASSUME IInv, NEW t \in Tasks, ConnectionFails(t) PROVE IInv'
<1>1. /\ chan[t].answered
      /\ chan' = [chan EXCEPT ![t] = [Notify(chan[t]) EXCEPT !.failed = TRUE]]
      /\ UNCHANGED <<cur, obj, nonces, task, xfer, closer>>
  BY AtTask DEF ConnectionFails
<1> DEFINE n == Notify(chan[t])
           d == [n EXCEPT !.failed = TRUE]
<1>2. /\ n \in Channel /\ n.closed /\ n.kind = chan[t].kind /\ n.conn = chan[t].conn
      /\ n.answered = chan[t].answered /\ n.armed = chan[t].armed
  BY AtTask, NotifyType
<1>3. chan' = [chan EXCEPT ![t] = d]
  BY <1>1
<1> HIDE DEF n
<1>4. /\ d \in Channel /\ d.kind = chan[t].kind /\ d.conn = chan[t].conn /\ d.closed /\ d.failed
  BY <1>2 DEF Channel
<1>5. chan[t].kind # "none" /\ Made(t) /\ obj' \in [Objects -> SessionObject] /\ Loses(t)
  BY <1>1, AtTask, SameTables DEF Whole
<1> HIDE DEF d
<1> QED
  BY <1>1, <1>3, <1>4, <1>5, EventStep

LEMMA OpeningOK ==
    ASSUME IInv, NEW t \in Tasks, HandleAnswer(t) \/ LanesOpen(t)
    PROVE  IInv'
<1>1. PICK d \in {[chan[t] EXCEPT !.answered = TRUE], [chan[t] EXCEPT !.armed = TRUE]} :
        chan' = [chan EXCEPT ![t] = d]
  BY AtTask DEF HandleAnswer, LanesOpen
<1>2. /\ d \in Channel /\ d.kind = chan[t].kind /\ d.conn = chan[t].conn
      /\ d.closed = chan[t].closed /\ d.failed = chan[t].failed /\ d.due = chan[t].due
  <2>1. chan[t] \in Channel
    BY AtTask
  <2> QED
    BY <1>1, <2>1 DEF Channel
<1>3. /\ chan[t].kind # "none" /\ Made(t)
      /\ UNCHANGED <<cur, obj, nonces, task, xfer, closer>>
  BY AtTask DEF HandleAnswer, LanesOpen, Whole, Made
<1>4. obj' \in [Objects -> SessionObject] /\ Loses(t) /\ (d.due # {} => d.closed)
  BY <1>2, <1>3, AtTask, SameTables DEF Whole
<1> QED
  BY <1>1, <1>2, <1>3, <1>4, EventStep

-----------------------------------------------------------------------------
(* The transfer session of a channel *)

\* A step of a transfer session that leaves tasks, closers and nonces alone.
LEMMA TransferStep ==
    ASSUME IInv, NEW t \in Tasks, NEW x \in Transfer, xfer' = [xfer EXCEPT ![t] = x],
           task[t].obj \in Objects,
           Blank(x),
           UNCHANGED <<cur, nonces, task, closer>>,
           chan' \in [Tasks -> Channel], obj' \in [Objects -> SessionObject],
           Struct'
    PROVE  IInv'
<1>0. TypeOK /\ Served
  BY DEF IInv
<1>1. /\ xfer' \in [Tasks -> Transfer] /\ xfer'[t] = x
      /\ \A u \in Tasks \ {t} : xfer'[u] = xfer[u]
  BY <1>0, PutXfer
<1>2. TypeOK' /\ Numbers'
  BY <1>0, <1>1, SameNumbers DEF TypeOK
<1>3. Served'
  BY <1>0, <1>1 DEF Served
<1> QED
  BY <1>2, <1>3 DEF IInv

\* Neither a task nor a channel nor a table changes.
LEMMA SameStruct ==
    ASSUME IInv, task' = task, chan' = chan,
           \A k \in Closers : /\ closer'[k].todo = closer[k].todo
                              /\ closer'[k].todo # {} => closer'[k].pc = "close"
                              /\ closer'[k].pc = "detach" => closer'[k].obj \in Objects,
           \A o \in Objects : obj'[o].table = obj[o].table
    PROVE  Struct'
<1>0. Linked /\ Held /\ Sound
  BY DEF IInv, Struct
<1>1. \A u \in Tasks : Made(u)' = Made(u)
  BY DEF Made
<1>2. Linked'
  BY <1>0, <1>1 DEF Linked
<1>3. \A u \in Tasks : Detached(u) => Detached(u)'
  BY <1>1 DEF Detached, Entry
<1>4. Held'
  BY <1>0, <1>3 DEF Held
<1>5. \A u \in Tasks : Whole(u)'
  BY <1>0 DEF Sound, Whole, Made
<1>6. \A u \in Tasks : Cut(u)'
  BY <1>0, <1>3 DEF Sound, Cut, Starting
<1>7. \A u \in Tasks : task[u].obj \in Objects /\ Saved(u) => Saved(u)'
  BY DEF Saved, Entry
<1>8. \A u \in Tasks : Kept(u)'
  BY <1>0, <1>7 DEF Sound, Kept, Whole
<1> QED
  BY <1>2, <1>4, <1>5, <1>6, <1>8 DEF Struct, Sound

\* A transfer session that was begun has a channel.
LEMMA Begun ==
    ASSUME IInv, NEW t \in Tasks, xfer[t].pc # "off"
    PROVE  task[t].obj \in Objects /\ xfer[t] \in Transfer
BY Fields DEF IInv, Served

\* A transfer session moves on and counts nothing.
LEMMA MovesOn ==
    ASSUME IInv, NEW t \in Tasks, NEW l \in {"ready", "current", "install", "skip"},
           Inert(xfer[t]), xfer' = [xfer EXCEPT ![t].pc = l], task[t].obj \in Objects,
           UNCHANGED <<cur, nonces, task, closer>>,
           chan' \in [Tasks -> Channel], obj' = obj, Struct'
    PROVE  IInv'
<1> DEFINE x == [xfer[t] EXCEPT !.pc = l]
<1>1. xfer' = [xfer EXCEPT ![t] = x] /\ xfer[t] \in Transfer /\ Blank(xfer[t])
  BY AtTask DEF TypeOK, IInv, Served
<1>2. x \in Transfer /\ x.shared = xfer[t].shared /\ x.asked = xfer[t].asked /\ x.pc = l
  BY <1>1 DEF Transfer
<1> HIDE DEF x
<1>3. Blank(x)
  BY <1>1, <1>2 DEF Blank, Inert
<1> QED
  BY <1>1, <1>2, <1>3, TransferStep, AtTask

LEMMA WireChecksOK == ASSUME IInv, NEW t \in Tasks, WireChecks(t) PROVE IInv'
<1> DEFINE l == IF Current(t) THEN "current" ELSE "skip"
<1>1. /\ xfer[t].pc = "ready" /\ xfer' = [xfer EXCEPT ![t].pc = l]
      /\ UNCHANGED <<cur, obj, nonces, task, chan, closer>>
  BY DEF WireChecks
<1>2. Struct' /\ task[t].obj \in Objects /\ chan' \in [Tasks -> Channel]
  BY <1>1, SameClosers, SameStruct, Begun, AtTask DEF TypeOK
<1> QED
  BY <1>1, <1>2, MovesOn DEF Inert

\* Neither a channel nor a table changes: what is left is the transfer session.
LEMMA CountStep ==
    ASSUME IInv, NEW t \in Tasks, NEW x \in Transfer, xfer' = [xfer EXCEPT ![t] = x],
           xfer[t].pc # "off", Blank(x),
           UNCHANGED <<cur, nonces, task, chan, closer>>,
           obj' \in [Objects -> SessionObject],
           \A o \in Objects : obj'[o].table = obj[o].table
    PROVE  IInv'
<1>1. Struct' /\ task[t].obj \in Objects /\ chan' \in [Tasks -> Channel]
  BY SameClosers, SameStruct, Begun, AtTask DEF TypeOK
<1> QED
  BY <1>1, TransferStep

LEMMA TakeCountTo ==
    ASSUME IInv, NEW t \in Tasks, TakeCount(t)
    PROVE  /\ xfer[t].pc = "install" /\ task[t].obj \in Objects
           /\ UNCHANGED <<cur, obj, nonces, task, chan, closer>>
           /\ \E x \in Transfer :
                /\ xfer' = [xfer EXCEPT ![t] = x] /\ x.pc = "counted" /\ x.asked = 0
                /\ x.downloads = obj[task[t].obj].downloads /\ x.shared = Rival(t)
<1> DEFINE n == obj[task[t].obj].downloads
           b == Rival(t)
           x == [[[xfer[t] EXCEPT !.pc = "counted"] EXCEPT !.downloads = n] EXCEPT !.shared = b]
<1>1. /\ xfer[t].pc = "install" /\ xfer' = [xfer EXCEPT ![t] = x]
      /\ UNCHANGED <<cur, obj, nonces, task, chan, closer>>
  BY AtTask DEF TakeCount, TypeOK
<1>2. task[t].obj \in Objects /\ xfer[t] \in Transfer /\ xfer[t].asked = 0
  BY <1>1, Begun DEF IInv, Served, Blank
<1>3. n \in Nat /\ b \in BOOLEAN
  BY <1>2, AtTask DEF TypeOK, SessionObject, Rival
<1> HIDE DEF n, b
<1>4. x \in Transfer /\ x.pc = "counted" /\ x.asked = 0 /\ x.downloads = n /\ x.shared = b
  BY <1>2, <1>3 DEF Transfer
<1> HIDE DEF x
<1> QED
  BY <1>1, <1>2, <1>4 DEF n, b

LEMMA TakeCountOK == ASSUME IInv, NEW t \in Tasks, TakeCount(t) PROVE IInv'
<1>1. /\ xfer[t].pc = "install"
      /\ UNCHANGED <<cur, obj, nonces, task, chan, closer>>
  BY TakeCountTo
<1>2. PICK x \in Transfer : xfer' = [xfer EXCEPT ![t] = x] /\ x.pc = "counted" /\ x.asked = 0
  BY TakeCountTo
<1>3. Blank(x) /\ obj' \in [Objects -> SessionObject]
  BY <1>1, <1>2, AtTask DEF Blank, Inert, TypeOK
<1> QED
  BY <1>1, <1>2, <1>3, CountStep

LEMMA ActivateOK == ASSUME IInv, NEW t \in Tasks, Activate(t) PROVE IInv'
<1> DEFINE x == [xfer[t] EXCEPT !.pc = "on"]
<1>1. /\ xfer[t].pc = "counted" /\ xfer' = [xfer EXCEPT ![t] = x] /\ xfer[t] \in Transfer
      /\ UNCHANGED <<cur, obj, nonces, task, chan, closer>>
  BY AtTask DEF Activate, TypeOK
<1>2. x \in Transfer /\ x.pc = "on"
  BY <1>1 DEF Transfer
<1> HIDE DEF x
<1>3. Blank(x) /\ obj' \in [Objects -> SessionObject]
  BY <1>1, <1>2, AtTask DEF Blank, Inert, TypeOK
<1> QED
  BY <1>1, <1>2, <1>3, CountStep

\* The channel's record keeps its transport, its kind and its end.
LEMMA InstallChannelsOK == ASSUME IInv, NEW t \in Tasks, InstallChannels(t) PROVE IInv'
<1> DEFINE c == chan[t]
           d == AddOnClose(c, "manager")
<1>1. /\ xfer[t].pc = "current" /\ xfer' = [xfer EXCEPT ![t].pc = "install"]
      /\ chan' = [chan EXCEPT ![t] = d]
      /\ UNCHANGED <<cur, obj, nonces, task, closer>>
  BY AtTask DEF InstallChannels
<1>2. task[t].obj \in Objects /\ chan[t] \in Channel
  BY <1>1, Begun, AtTask
<1>3. /\ d \in Channel /\ d.kind = c.kind /\ d.conn = c.conn /\ d.closed = c.closed
      /\ d.failed = c.failed /\ d.answered = c.answered /\ d.armed = c.armed
      /\ d.due # {} => c.due # {} \/ c.closed
  <2> DEFINE ls == c.listeners \cup {"manager"}
             du == IF Notified(c) THEN c.due \cup {"manager"} ELSE c.due
  <2>1. ls \in SUBSET Listeners /\ du \in SUBSET Listeners /\ (du # {} => c.due # {} \/ c.closed)
    BY <1>2 DEF Channel, Listeners, Notified
  <2>2. d = [[c EXCEPT !.listeners = ls] EXCEPT !.due = du]
    BY <1>2 DEF AddOnClose, Channel
  <2> HIDE DEF ls, du
  <2> QED
    BY <1>2, <2>1, <2>2 DEF Channel
<1> HIDE DEF d
<1>4. obj' = obj /\ Loses(t) /\ (d.due # {} => d.closed) /\ (d.answered \/ d.armed => Made(t))
  BY <1>1, <1>3, SameTables, AtTask DEF Whole
<1>5. Struct' /\ chan' \in [Tasks -> Channel]
  BY <1>1, <1>3, <1>4, ChanEvent
<1> QED
  BY <1>1, <1>2, <1>5, MovesOn DEF Inert

LEMMA OpenReturnsOK == ASSUME IInv, NEW t \in Tasks, OpenReturns(t) PROVE IInv'
<1> DEFINE to == IF chan[t].closed THEN chan[t].listeners ELSE chan[t].due
           d == [[chan[t] EXCEPT !.opening = FALSE] EXCEPT !.due = to]
<1>1. /\ chan' = [chan EXCEPT ![t] = d]
      /\ UNCHANGED <<cur, obj, nonces, task, xfer, closer>>
  BY AtTask DEF OpenReturns, TypeOK, Channel
<1>2. chan[t] \in Channel /\ to \in SUBSET Listeners /\ (to # {} => chan[t].closed)
  BY AtTask, Fields DEF Whole
<1> HIDE DEF to
<1>3. /\ d \in Channel /\ d.kind = chan[t].kind /\ d.conn = chan[t].conn /\ d.due = to
      /\ d.closed = chan[t].closed /\ d.failed = chan[t].failed
      /\ d.answered = chan[t].answered /\ d.armed = chan[t].armed
  BY <1>2 DEF Channel
<1>4. obj' \in [Objects -> SessionObject] /\ Loses(t) /\ (d.answered \/ d.armed => Made(t))
  BY <1>1, <1>3, SameTables, AtTask DEF Whole
<1> HIDE DEF d
<1> QED
  BY <1>1, <1>2, <1>3, <1>4, EventStep

LEMMA HelloOK ==
    ASSUME IInv, NEW t \in Tasks, NEW good \in BOOLEAN, Hello(t, good)
    PROVE  IInv'
<1>1. /\ chan[t].armed /\ chan[t].conn = "up" /\ xfer[t].pc = "off"
      /\ UNCHANGED <<cur, obj, nonces, task, closer>>
  BY DEF Hello
<1>2. /\ chan[t] \in Channel /\ chan[t].kind # "none" /\ task[t].obj \in Objects /\ Made(t)
      /\ obj' = obj /\ Loses(t)
  BY <1>1, AtTask, SameTables DEF Whole
<1>3. PICK d \in Channel, l \in {"ready", "skip"} :
        /\ chan' = [chan EXCEPT ![t] = d] /\ xfer' = [xfer EXCEPT ![t].pc = l]
        /\ d.kind = chan[t].kind
        /\ \/ /\ d.conn = chan[t].conn /\ d.closed = chan[t].closed /\ d.due = chan[t].due
              /\ d.failed = chan[t].failed
           \/ d.conn = "down" /\ d.closed
  <2>1. CASE good /\ ~chan[t].closed
    <3> DEFINE d == [chan[t] EXCEPT !.opening = (@ \/ chan[t].kind = "direct")]
    <3>1. chan' = [chan EXCEPT ![t] = d] /\ xfer' = [xfer EXCEPT ![t].pc = "ready"]
      BY <2>1, AtTask DEF Hello
    <3>2. /\ d \in Channel /\ d.kind = chan[t].kind /\ d.failed = chan[t].failed
          /\ d.conn = chan[t].conn /\ d.closed = chan[t].closed /\ d.due = chan[t].due
      BY <1>2 DEF Channel
    <3> QED
      BY <3>1, <3>2
  <2>2. CASE ~(good /\ ~chan[t].closed)
    <3> DEFINE d == IF chan[t].failed /\ good THEN chan[t] ELSE Shut(chan[t], TRUE)
    <3>1. chan' = [chan EXCEPT ![t] = d] /\ xfer' = [xfer EXCEPT ![t].pc = "skip"]
      BY <2>2, AtTask DEF Hello
    <3>2. /\ d \in Channel /\ d.kind = chan[t].kind
          /\ \/ /\ d.conn = chan[t].conn /\ d.closed = chan[t].closed /\ d.due = chan[t].due
                /\ d.failed = chan[t].failed
             \/ d.conn = "down" /\ d.closed
      BY <1>1, <1>2, ShutType
    <3> QED
      BY <3>1, <3>2
  <2> QED
    BY <2>1, <2>2
<1>4. d.due # {} => d.closed
  BY <1>3, AtTask DEF Whole
<1>5. Struct' /\ chan' \in [Tasks -> Channel]
  BY <1>1, <1>2, <1>3, <1>4, ChanEvent
<1> QED
  BY <1>1, <1>2, <1>3, <1>5, MovesOn DEF Inert

\* The three steps of a download.
LEMMA AllowDownloadTo ==
    ASSUME IInv, NEW t \in Tasks, AllowDownload(t)
    PROVE  /\ xfer[t].pc = "on" /\ chan[t].conn = "up" /\ xfer[t].downloads < MaxDownloads
           /\ UNCHANGED <<cur, obj, nonces, task, chan, closer>>
           /\ \E x \in Transfer :
                /\ xfer' = [xfer EXCEPT ![t] = x] /\ x.pc = "on"
                /\ x.downloads = xfer[t].downloads /\ x.asked = xfer[t].asked + 1
                /\ x.shared = (xfer[t].shared \/ xfer[t].asked > 0)
<1> DEFINE n == xfer[t].asked + 1
           b == xfer[t].shared \/ xfer[t].asked > 0
           x == [[xfer[t] EXCEPT !.asked = n] EXCEPT !.shared = b]
<1>1. xfer[t] \in Transfer /\ xfer[t].asked \in Nat /\ n \in Nat /\ b \in BOOLEAN
  BY AtTask, Fields DEF Transfer
<1>2. /\ xfer[t].pc = "on" /\ chan[t].conn = "up" /\ xfer[t].downloads < MaxDownloads
      /\ xfer' = [xfer EXCEPT ![t] = x]
      /\ UNCHANGED <<cur, obj, nonces, task, chan, closer>>
  BY <1>1, AtTask DEF AllowDownload, TypeOK, Transfer
<1> HIDE DEF n, b
<1>3. /\ x \in Transfer /\ x.pc = xfer[t].pc /\ x.asked = n /\ x.downloads = xfer[t].downloads
      /\ x.shared = b
  BY <1>1 DEF Transfer
<1> HIDE DEF x
<1> QED
  BY <1>2, <1>3 DEF n, b

LEMMA AllowDownloadOK == ASSUME IInv, NEW t \in Tasks, AllowDownload(t) PROVE IInv'
<1>1. /\ xfer[t].pc = "on"
      /\ UNCHANGED <<cur, obj, nonces, task, chan, closer>>
  BY AllowDownloadTo
<1>2. PICK x \in Transfer : xfer' = [xfer EXCEPT ![t] = x] /\ x.pc = "on"
  BY AllowDownloadTo
<1>3. Blank(x) /\ obj' \in [Objects -> SessionObject]
  BY <1>1, <1>2, AtTask DEF Blank, Inert, TypeOK
<1> QED
  BY <1>1, <1>2, <1>3, CountStep

LEMMA DownloadCompleteTo ==
    ASSUME IInv, NEW t \in Tasks, DownloadComplete(t)
    PROVE  /\ xfer[t].pc = "on" /\ xfer[t].asked > 0 /\ task[t].obj \in Objects
           /\ UNCHANGED <<cur, nonces, task, chan, closer>>
           /\ \E x \in Transfer :
                /\ xfer' = [xfer EXCEPT ![t] = x] /\ x.pc = "on"
                /\ x.downloads = xfer[t].downloads + 1 /\ x.asked = xfer[t].asked - 1
                /\ x.shared = xfer[t].shared
           /\ obj' \in [Objects -> SessionObject]
           /\ obj'[task[t].obj].downloads = obj[task[t].obj].downloads + 1
           /\ \A o \in Objects : obj'[o].table = obj[o].table
           /\ \A o \in Objects \ {task[t].obj} : obj'[o] = obj[o]
<1> DEFINE o == task[t].obj
           n == xfer[t].asked - 1
           m == xfer[t].downloads + 1
           x == [[xfer[t] EXCEPT !.asked = n] EXCEPT !.downloads = m]
           so == [obj[o] EXCEPT !.downloads = obj[o].downloads + 1]
<1>1. xfer[t] \in Transfer /\ xfer[t].asked \in Nat /\ xfer[t].downloads \in Nat
  BY AtTask, Fields
<1>2. /\ xfer[t].asked > 0 /\ xfer' = [xfer EXCEPT ![t] = x] /\ obj' = [obj EXCEPT ![o] = so]
      /\ UNCHANGED <<cur, nonces, task, chan, closer>>
  BY <1>1, AtTask DEF DownloadComplete, TypeOK, Transfer
<1>3. xfer[t].pc = "on"
  BY <1>1, <1>2 DEF IInv, Served, Blank
<1>4. /\ o \in Objects /\ obj[o] \in SessionObject /\ obj \in [Objects -> SessionObject]
      /\ n \in Nat /\ m \in Nat
  BY <1>1, <1>2, <1>3, Begun, AtTask DEF TypeOK
<1>5. so \in SessionObject /\ so.table = obj[o].table /\ so.downloads = obj[o].downloads + 1
  BY <1>4 DEF SessionObject
<1> HIDE DEF n, m, so
<1>6. /\ x \in Transfer /\ x.pc = xfer[t].pc /\ x.asked = n /\ x.downloads = m
      /\ x.shared = xfer[t].shared
  BY <1>1, <1>4 DEF Transfer
<1> HIDE DEF x
<1>7. /\ obj' \in [Objects -> SessionObject] /\ obj'[o] = so
      /\ \A p \in Objects \ {o} : obj'[p] = obj[p]
  BY <1>2, <1>4, <1>5
<1>8. \A p \in Objects : obj'[p].table = obj[p].table
  BY <1>5, <1>7
<1>9. \E y \in Transfer :
        /\ xfer' = [xfer EXCEPT ![t] = y] /\ y.pc = "on"
        /\ y.downloads = xfer[t].downloads + 1 /\ y.asked = xfer[t].asked - 1
        /\ y.shared = xfer[t].shared
  BY <1>2, <1>3, <1>6 DEF n, m
<1> QED
  BY <1>2, <1>3, <1>4, <1>5, <1>7, <1>8, <1>9

LEMMA DownloadCompleteOK == ASSUME IInv, NEW t \in Tasks, DownloadComplete(t) PROVE IInv'
<1>1. /\ xfer[t].pc = "on" /\ UNCHANGED <<cur, nonces, task, chan, closer>>
      /\ obj' \in [Objects -> SessionObject]
      /\ \A o \in Objects : obj'[o].table = obj[o].table
  BY DownloadCompleteTo
<1>2. PICK x \in Transfer : xfer' = [xfer EXCEPT ![t] = x] /\ x.pc = "on"
  BY DownloadCompleteTo
<1>3. Blank(x)
  BY <1>2 DEF Blank, Inert
<1> QED
  BY <1>1, <1>2, <1>3, CountStep

LEMMA DownloadEndsTo ==
    ASSUME IInv, NEW t \in Tasks, DownloadEnds(t)
    PROVE  /\ xfer[t].pc = "on" /\ xfer[t].asked > 0
           /\ UNCHANGED <<cur, obj, nonces, task, chan, closer>>
           /\ \E x \in Transfer :
                /\ xfer' = [xfer EXCEPT ![t] = x] /\ x.pc = "on"
                /\ x.downloads = xfer[t].downloads /\ x.asked = xfer[t].asked - 1
                /\ x.shared = xfer[t].shared
<1> DEFINE n == xfer[t].asked - 1
           x == [xfer[t] EXCEPT !.asked = n]
<1>1. xfer[t] \in Transfer /\ xfer[t].asked \in Nat
  BY AtTask, Fields
<1>2. /\ xfer[t].asked > 0 /\ xfer' = [xfer EXCEPT ![t] = x]
      /\ UNCHANGED <<cur, obj, nonces, task, chan, closer>>
  BY <1>1, AtTask DEF DownloadEnds, TypeOK, Transfer
<1>3. xfer[t].pc = "on" /\ n \in Nat
  BY <1>1, <1>2 DEF IInv, Served, Blank
<1> HIDE DEF n
<1>4. /\ x \in Transfer /\ x.pc = xfer[t].pc /\ x.asked = n /\ x.downloads = xfer[t].downloads
      /\ x.shared = xfer[t].shared
  BY <1>1, <1>3 DEF Transfer
<1> HIDE DEF x
<1> QED
  BY <1>2, <1>3, <1>4 DEF n

LEMMA DownloadEndsOK == ASSUME IInv, NEW t \in Tasks, DownloadEnds(t) PROVE IInv'
<1>1. /\ xfer[t].pc = "on"
      /\ UNCHANGED <<cur, obj, nonces, task, chan, closer>>
  BY DownloadEndsTo
<1>2. PICK x \in Transfer : xfer' = [xfer EXCEPT ![t] = x] /\ x.pc = "on"
  BY DownloadEndsTo
<1>3. Blank(x) /\ obj' \in [Objects -> SessionObject]
  BY <1>1, <1>2, AtTask DEF Blank, Inert, TypeOK
<1> QED
  BY <1>1, <1>2, <1>3, CountStep

-----------------------------------------------------------------------------
(* Sessions come and go *)

LEMMA HandleKnockOK == ASSUME IInv, NEW c \in Conns, HandleKnock(c) PROVE IInv'
<1>0. TypeOK /\ Numbers
  BY DEF IInv
<1>1. PICK n \in Nonces : n \notin Taken(c) /\ nonces' = [nonces EXCEPT ![c] = n]
  BY DEF HandleKnock
<1>2. UNCHANGED <<cur, obj, task, chan, xfer, closer>>
  BY DEF HandleKnock
<1>3. /\ nonces' \in [Conns -> {0} \cup Nonces] /\ nonces'[c] = n
      /\ \A e \in Conns \ {c} : nonces'[e] = nonces[e]
  BY <1>0, <1>1 DEF TypeOK
<1>4. TypeOK'
  BY <1>0, <1>2, <1>3 DEF TypeOK
<1>5. Struct' /\ Served'
  BY <1>2, SameClosers, SameStruct, SameServed
<1>6. (\A t \in Tasks : task[t].nonce # n) /\ (\A e \in Conns \ {c} : nonces[e] # n)
  BY <1>1 DEF Taken
<1>7. Numbers'
  BY <1>0, <1>2, <1>3, <1>6 DEF Numbers, NonceOnce
<1> QED
  BY <1>4, <1>5, <1>7 DEF IInv

LEMMA InsertSessionOK == ASSUME IInv, NEW o \in Objects, InsertSession(o) PROVE IInv'
<1> DEFINE so == [obj[o] EXCEPT !.made = TRUE]
<1>0. TypeOK
  BY DEF IInv
<1>1. /\ obj' = [obj EXCEPT ![o] = so] /\ cur' = o
      /\ UNCHANGED <<nonces, task, chan, xfer, closer>>
  BY <1>0 DEF InsertSession, TypeOK
<1>2. obj[o] \in SessionObject
  BY <1>0 DEF TypeOK
<1>3. so \in SessionObject /\ so.table = obj[o].table
  BY <1>2 DEF SessionObject
<1> HIDE DEF so
<1>4. obj' \in [Objects -> SessionObject] /\ \A q \in Objects : obj'[q].table = obj[q].table
  BY <1>0, <1>1, <1>3 DEF TypeOK
<1>5. TypeOK'
  BY <1>0, <1>1, <1>4 DEF TypeOK
<1>6. Struct' /\ Served' /\ Numbers'
  BY <1>1, <1>4, SameClosers, SameStruct, SameServed, SameNumbers
<1> QED
  BY <1>5, <1>6 DEF IInv

\* A closer's record is replaced and keeps what it holds.
LEMMA CloserMoves ==
    ASSUME IInv, NEW k \in Closers, NEW q \in Closer, closer' = [closer EXCEPT ![k] = q],
           q.todo = closer[k].todo, q.todo # {} => q.pc = "close",
           q.pc = "detach" => q.obj \in Objects,
           cur' \in Objects \cup {NoObject},
           UNCHANGED <<obj, nonces, task, chan, xfer>>
    PROVE  IInv'
<1>0. TypeOK /\ Held
  BY DEF IInv, Struct
<1>1. /\ closer' \in [Closers -> Closer] /\ closer'[k] = q
      /\ \A j \in Closers \ {k} : closer'[j] = closer[j]
  BY <1>0 DEF TypeOK
<1>2. TypeOK'
  BY <1>0, <1>1 DEF TypeOK
<1>3. \A j \in Closers : /\ closer'[j].todo = closer[j].todo
                         /\ closer'[j].todo # {} => closer'[j].pc = "close"
                         /\ closer'[j].pc = "detach" => closer'[j].obj \in Objects
  BY <1>0, <1>1 DEF Held
<1>4. Struct' /\ Served' /\ Numbers'
  BY <1>3, SameStruct, SameServed, SameNumbers
<1> QED
  BY <1>2, <1>4 DEF IInv

LEMMA EndingOK ==
    ASSUME IInv, NEW k \in Closers, Revoke(k) \/ RemoveLink(k) \/ CloserEnds(k)
    PROVE  IInv'
<1>0. TypeOK /\ Held /\ closer[k] \in Closer
  BY DEF IInv, Struct, TypeOK
<1>1. CASE Revoke(k) \/ RemoveLink(k)
  <2> DEFINE q == [[closer[k] EXCEPT !.pc = "detach"] EXCEPT !.obj = cur]
  <2>1. /\ closer[k].pc = "idle" /\ cur # NoObject
        /\ closer' = [closer EXCEPT ![k] = q] /\ cur' \in {cur, NoObject}
        /\ UNCHANGED <<obj, nonces, task, chan, xfer>>
    BY <1>0, <1>1 DEF Revoke, RemoveLink, TypeOK
  <2>2. cur \in Objects /\ closer[k].todo = {}
    BY <1>0, <2>1 DEF TypeOK, Held
  <2>3. q \in Closer /\ q.pc = "detach" /\ q.obj = cur /\ q.todo = closer[k].todo
    BY <1>0, <2>2 DEF Closer
  <2> HIDE DEF q
  <2> QED
    BY <2>1, <2>2, <2>3, CloserMoves
<1>2. CASE CloserEnds(k)
  <2> DEFINE q == [closer[k] EXCEPT !.pc = "done"]
  <2>1. /\ closer[k].todo = {} /\ closer' = [closer EXCEPT ![k] = q]
        /\ cur' \in {cur, NoObject} /\ UNCHANGED <<obj, nonces, task, chan, xfer>>
    BY <1>0, <1>2 DEF CloserEnds, TypeOK
  <2>2. q \in Closer /\ q.pc = "done" /\ q.todo = closer[k].todo
    BY <1>0 DEF Closer
  <2> HIDE DEF q
  <2>3. cur' \in Objects \cup {NoObject}
    BY <1>0, <2>1 DEF TypeOK
  <2> QED
    BY <2>1, <2>2, <2>3, CloserMoves
<1> QED
  BY <1>1, <1>2

-----------------------------------------------------------------------------
(* Channels change hands *)

\* The channel enters the table; what it replaces is in its hands.
LEMMA RegisterOK == ASSUME IInv, NEW t \in Tasks, Register(t) PROVE IInv'
<1>0. /\ TypeOK /\ Linked /\ Held /\ Sound /\ Whole(t) /\ NoTask \notin Tasks
      /\ chan[t] \in Channel /\ obj \in [Objects -> SessionObject]
  BY AtTask, ChannelsAssumption DEF IInv, Struct, NoTask
<1>1. /\ task[t].pc = "register" /\ chan[t].kind # "none" /\ ~chan[t].closed
      /\ task[t].obj \in Objects /\ task[t].key \in Keys
      /\ UNCHANGED <<cur, nonces, chan, xfer, closer>>
  BY <1>0 DEF Register, Whole
<1>2. CASE cur # task[t].obj \/ obj[task[t].obj].closing
  <2>1. Goto(t, "close") /\ obj' = obj /\ Loses(t)
    BY <1>2, SameTables DEF Register
  <2>2. task'[t].pc = "close" /\ task'[t].obj = task[t].obj /\ task'[t].key = task[t].key
    BY <2>1, GotoFacts DEF Labels
  <2>3. Whole(t)' /\ Cut(t)' /\ Kept(t)'
    BY <1>0, <1>1, <2>2 DEF Whole, Made, Cut, Kept, Starting
  <2>4. chan' = [chan EXCEPT ![t] = chan[t]]
    BY <1>1, AtTask
  <2> QED
    BY <1>0, <1>1, <2>1, <2>3, <2>4, GotoStep DEF Labels
<1>3. CASE ~(cur # task[t].obj \/ obj[task[t].obj].closing)
  <2> DEFINE o == task[t].obj
             key == task[t].key
             v == Entry(t)
             tb == [obj[o].table EXCEPT ![key] = t]
             so == [obj[o] EXCEPT !.table = tb]
             r == [[task[t] EXCEPT !.pc = "replace"] EXCEPT !.old = v]
  <2>1. obj' = [obj EXCEPT ![o] = so] /\ task' = [task EXCEPT ![t] = r]
    BY <1>0, <1>1, <1>3 DEF Register, TypeOK
  <2>2. obj[o] \in SessionObject /\ obj[o].table \in [Keys -> Tasks \cup {NoTask}]
    BY <1>0, <1>1 DEF SessionObject
  <2>3. /\ tb \in [Keys -> Tasks \cup {NoTask}] /\ tb[key] = t
        /\ \A j \in Keys \ {key} : tb[j] = obj[o].table[j]
        /\ v = obj[o].table[key] /\ v \in Tasks \cup {NoTask}
    BY <1>1, <2>2 DEF Entry
  <2> HIDE DEF tb
  <2>4. so \in SessionObject /\ so.table = tb
    BY <2>2, <2>3 DEF SessionObject
  <2> HIDE DEF so, v
  <2>5. /\ r \in Task /\ r.pc = "replace" /\ r.old = v /\ r.obj = o /\ r.key = key
        /\ r.nonce = task[t].nonce
    BY <1>0, <2>3, Fields DEF Task
  <2> HIDE DEF r
  <2>6. /\ obj' \in [Objects -> SessionObject] /\ obj'[o].table = tb
        /\ \A q \in Objects \ {o} : obj'[q] = obj[q]
    BY <1>0, <1>1, <2>1, <2>4
  <2>7. /\ task' \in [Tasks -> Task] /\ task'[t] = r
        /\ \A u \in Tasks \ {t} : task'[u] = task[u]
    BY <1>0, <2>1, <2>5, PutTask
  <2>8. TypeOK'
    BY <1>0, <1>1, <2>6, <2>7 DEF TypeOK
  <2>9. ASSUME NEW q \in Objects, NEW j \in Keys
        PROVE  \/ q = o /\ j = key /\ obj'[q].table[j] = t /\ obj[q].table[j] = v
               \/ (q # o \/ j # key) /\ obj'[q].table[j] = obj[q].table[j]
    BY <2>3, <2>6
  <2>10. ~Made(t) /\ Made(t)' /\ v # t
    <3>1. ~Made(t) /\ Made(t)'
      BY <1>1, <2>5, <2>7 DEF Made
    <3> QED
      BY <1>0, <1>1, <2>3, <3>1 DEF Linked
  <2>11. Linked'
    <3> SUFFICES ASSUME NEW q \in Objects, NEW j \in Keys, NEW u \in Tasks,
                        obj'[q].table[j] = u
                 PROVE  task'[u].obj = q /\ task'[u].key = j /\ Made(u)'
      BY DEF Linked
    <3>1. CASE u = t
      <4>1. q = o /\ j = key
        BY <1>0, <2>9, <2>10, <3>1 DEF Linked
      <4> QED
        BY <2>5, <2>7, <2>10, <3>1, <4>1
    <3>2. CASE u # t
      <4>1. obj[q].table[j] = u
        BY <2>9, <3>2
      <4> QED
        BY <1>0, <2>7, <3>2, <4>1 DEF Linked, Made
    <3> QED
      BY <3>1, <3>2
  <2>12. ASSUME NEW u \in Tasks, Detached(u) \/ u = v
         PROVE  Detached(u)' /\ u # t
    <3>1. u # t
      BY <2>10, <2>12 DEF Detached
    <3>2. task'[u] = task[u] /\ Made(u)' /\ task[u].obj \in Objects /\ task[u].key \in Keys
      <4>1. CASE Detached(u)
        BY <2>7, <3>1, <4>1 DEF Detached, Made
      <4>2. CASE u = v
        <5>1. task[v].obj = o /\ task[v].key = key /\ Made(v) /\ v \in Tasks
          BY <1>0, <1>1, <2>3, <2>12, <4>2 DEF Linked
        <5> QED
          BY <1>1, <2>3, <2>7, <3>1, <4>2, <5>1 DEF Made
      <4> QED
        BY <2>12, <4>1, <4>2
    <3>3. Entry(u)' # u
      <4>1. CASE Detached(u)
        BY <2>9, <3>1, <3>2, <4>1 DEF Detached, Entry
      <4>2. CASE u = v
        <5>1. task[u].obj = o /\ task[u].key = key
          BY <1>0, <1>1, <2>3, <4>2 DEF Linked
        <5> QED
          BY <2>9, <3>1, <3>2, <5>1 DEF Entry
      <4> QED
        BY <2>12, <4>1, <4>2
    <3> QED
      BY <3>1, <3>2, <3>3 DEF Detached
  <2>13. Held'
    <3>1. ASSUME NEW w \in Tasks, NEW u \in Tasks, task'[w].pc = "replace", task'[w].old = u
          PROVE  Detached(u)' /\ w # u
      <4>1. CASE w = t
        BY <2>5, <2>7, <2>12, <3>1, <4>1
      <4>2. CASE w # t
        BY <1>0, <2>7, <2>12, <3>1, <4>2 DEF Held
      <4> QED
        BY <4>1, <4>2
    <3>2. \A k \in Closers, u \in Tasks : u \in closer'[k].todo => Detached(u)'
      BY <1>0, <1>1, <2>12 DEF Held
    <3> QED
      BY <1>0, <1>1, <3>1, <3>2 DEF Held
  <2>14. ASSUME NEW u \in Tasks
         PROVE  Whole(u)' /\ Cut(u)' /\ Kept(u)'
    <3>1. CASE u = t
      BY <1>0, <1>1, <2>5, <2>7, <3>1 DEF Whole, Made, Cut, Kept
    <3>2. CASE u # t
      <4>1. task'[u] = task[u] /\ chan'[u] = chan[u] /\ Whole(u) /\ Cut(u) /\ Kept(u)
        BY <1>0, <1>1, <2>7, <3>2 DEF Sound
      <4>2. Whole(u)'
        BY <4>1 DEF Whole, Made
      <4>3. Cut(u)'
        BY <2>12, <4>1 DEF Cut, Starting
      <4>4. ASSUME chan[u].conn = "up", Saved(u)
            PROVE  Saved(u)'
        <5>1. CASE u = v
          BY <2>5, <2>7, <5>1 DEF Saved
        <5>2. CASE u # v /\ Entry(u) = u
          <6>1. task[u].obj \in Objects /\ task[u].key \in Keys
            BY <4>1, <4>4 DEF Whole
          <6> QED
            BY <2>9, <4>1, <5>2, <6>1 DEF Entry, Saved
        <5>3. CASE \E k \in Closers : u \in closer[k].todo
          BY <1>1, <5>3 DEF Saved
        <5>4. CASE \E w \in Tasks : task[w].pc = "replace" /\ task[w].old = u
          <6>1. PICK w \in Tasks : task[w].pc = "replace" /\ task[w].old = u
            BY <5>4
          <6>2. task'[w] = task[w]
            BY <1>1, <2>7, <6>1
          <6> QED
            BY <6>1, <6>2 DEF Saved
        <5> QED
          BY <4>4, <5>1, <5>2, <5>3, <5>4 DEF Saved
      <4> QED
        BY <4>1, <4>2, <4>3, <4>4 DEF Kept
    <3> QED
      BY <3>1, <3>2
  <2>15. Struct'
    BY <2>11, <2>13, <2>14 DEF Struct, Sound
  <2>16. \A u \in Tasks : task'[u].nonce = task[u].nonce /\ task'[u].obj = task[u].obj
    BY <2>5, <2>7
  <2>17. Numbers' /\ Served'
    BY <1>1, <2>16, SameNumbers, SameServed
  <2> QED
    BY <2>8, <2>15, <2>17 DEF IInv
<1> QED
  BY <1>2, <1>3

\* Closing what is in no table any more: the transport goes down, unless its own
\* task is still between its start and the last check, which then closes it.
LEMMA CloseDetached ==
    ASSUME IInv, NEW v \in Tasks, Detached(v), Close(v)
    PROVE  /\ chan' \in [Tasks -> Channel]
           /\ \A u \in Tasks \ {v} : chan'[u] = chan[u]
           /\ chan'[v].kind = chan[v].kind
           /\ chan'[v].conn # "down" => chan'[v].failed = chan[v].failed
           /\ (chan'[v].answered => chan[v].answered) /\ (chan'[v].armed => chan[v].armed)
           /\ chan'[v].closed
           /\ chan'[v].conn = chan[v].conn \/ (chan[v].conn = "up" /\ chan'[v].conn = "down")
           /\ task[v].pc = "done" => chan'[v].conn # "up"
<1>1. PICK sees \in Visible(v) : chan' = [chan EXCEPT ![v] = Shut(chan[v], sees)]
  BY AtTask DEF Close
<1>2. sees \in BOOLEAN /\ (task[v].pc = "done" => sees)
  BY <1>1 DEF Visible
<1> DEFINE d == Shut(chan[v], sees)
<1>3. /\ d \in Channel /\ d.closed /\ d.kind = chan[v].kind
      /\ d.conn # "down" => d.failed = chan[v].failed
      /\ (d.answered => chan[v].answered) /\ (d.armed => chan[v].armed)
      /\ d.conn = IF chan[v].conn = "up" /\ sees THEN "down" ELSE chan[v].conn
  <2>1. chan[v] \in Channel
    BY AtTask
  <2> QED
    BY <1>2, <2>1, ShutType
<1>4. chan' = [chan EXCEPT ![v] = d]
  BY <1>1
<1> HIDE DEF d
<1> QED
  BY <1>2, <1>3, <1>4, AtTask, PutChan

\* The closed channel is as sound as it must be.
LEMMA ClosedSound ==
    ASSUME IInv, NEW v \in Tasks, Detached(v), Close(v), task'[v] = task[v], Detached(v)'
    PROVE  Whole(v)' /\ Cut(v)' /\ Kept(v)'
<1>1. chan[v].kind # "none" /\ Made(v) /\ Whole(v)
  BY AtTask, ChannelsAssumption DEF Whole, Detached, NoObject
<1>2. Whole(v)'
  BY <1>1, CloseDetached DEF Whole, Made
<1> QED
  BY <1>2, CloseDetached DEF Cut, Kept

\* The replaced channel is closed and the task starts its own.
LEMMA CloseReplacedOK == ASSUME IInv, NEW t \in Tasks, CloseReplaced(t) PROVE IInv'
<1> DEFINE l == IF chan[t].kind = "direct" THEN "offer" ELSE "dial"
           r == [[task[t] EXCEPT !.pc = l] EXCEPT !.old = NoTask]
           v == task[t].old
<1>0. /\ TypeOK /\ Linked /\ Held /\ Sound /\ NoTask \notin Tasks
      /\ chan \in [Tasks -> Channel] /\ v \in Tasks \cup {NoTask}
  BY AtTask, Fields, ChannelsAssumption DEF IInv, Struct, NoTask, TypeOK
<1>1. /\ task[t].pc = "replace" /\ task' = [task EXCEPT ![t] = r]
      /\ IF v \notin {NoTask, t} THEN Close(v) ELSE UNCHANGED chan
      /\ UNCHANGED <<cur, obj, nonces, xfer, closer>>
  BY <1>0 DEF CloseReplaced, TypeOK
<1>2. /\ r \in Task /\ r.pc = l /\ r.old = NoTask /\ r.obj = task[t].obj /\ r.key = task[t].key
      /\ r.nonce = task[t].nonce
  BY <1>0, Fields DEF Task
<1> HIDE DEF r
<1>3. /\ task' \in [Tasks -> Task] /\ task'[t] = r
      /\ \A u \in Tasks \ {t} : task'[u] = task[u]
  BY <1>0, <1>1, <1>2, PutTask
<1>4. \A u \in Tasks : Made(u)' = Made(u) /\ (Detached(u) => Detached(u)')
  <2>1. \A u \in Tasks : Made(u)' = Made(u)
    BY <1>1, <1>2, <1>3 DEF Made
  <2> QED
    BY <1>1, <1>2, <1>3, <2>1 DEF Detached, Entry
<1>5. v \in Tasks => Detached(v) /\ v # t
  BY <1>0, <1>1 DEF Held
<1>6. chan' \in [Tasks -> Channel] /\ \A u \in Tasks : u # v => chan'[u] = chan[u]
  <2>1. CASE v \in Tasks
    BY <1>0, <1>1, <1>5, <2>1, CloseDetached
  <2>2. CASE v \notin Tasks
    BY <1>0, <1>1, <2>2
  <2> QED
    BY <2>1, <2>2
<1>7. TypeOK'
  BY <1>0, <1>1, <1>3, <1>6 DEF TypeOK
<1>8. Linked'
  BY <1>0, <1>1, <1>2, <1>3, <1>4 DEF Linked
<1>9. \A w, u \in Tasks : task'[w].pc = "replace" /\ task'[w].old = u => Detached(u)' /\ w # u
  BY <1>0, <1>2, <1>3, <1>4 DEF Held
<1>10. Held'
  BY <1>0, <1>1, <1>4, <1>9 DEF Held
<1>11. ASSUME NEW u \in Tasks
       PROVE  Whole(u)' /\ Cut(u)' /\ Kept(u)'
  <2>0. Whole(u) /\ Cut(u) /\ Kept(u)
    BY <1>0 DEF Sound
  <2>1. CASE u = v
    BY <1>0, <1>1, <1>3, <1>4, <1>5, <2>1, ClosedSound
  <2>2. CASE u = t
    <3>1. chan'[t] = chan[t] /\ chan[t].kind \in {"direct", "relay"}
      BY <1>0, <1>1, <1>5, <1>6, <2>0, <2>2 DEF Whole, Channel
    <3>2. Whole(t)'
      BY <1>1, <1>2, <1>3, <2>0, <2>2, <3>1 DEF Whole, Made
    <3>3. Cut(t)' /\ Kept(t)'
      BY <1>1, <1>2, <1>3, <1>4, <2>0, <2>2, <3>1 DEF Cut, Kept, Starting
    <3> QED
      BY <2>2, <3>2, <3>3
  <2>3. CASE u # v /\ u # t
    <3>1. task'[u] = task[u] /\ chan'[u] = chan[u]
      BY <1>3, <1>6, <2>3
    <3>2. Whole(u)' /\ Cut(u)'
      BY <1>4, <2>0, <3>1 DEF Whole, Made, Cut, Starting
    <3>3. Saved(u) => Saved(u)'
      <4>1. CASE Entry(u) = u
        BY <1>1, <3>1, <4>1 DEF Entry, Saved
      <4>2. CASE \E k \in Closers : u \in closer[k].todo
        BY <1>1, <4>2 DEF Saved
      <4>3. CASE \E w \in Tasks : task[w].pc = "replace" /\ task[w].old = u
        <5>1. PICK w \in Tasks : task[w].pc = "replace" /\ task[w].old = u
          BY <4>3
        <5>2. task'[w] = task[w]
          BY <1>3, <2>3, <5>1
        <5> QED
          BY <5>1, <5>2 DEF Saved
      <4> QED
        BY <4>1, <4>2, <4>3 DEF Saved
    <3> QED
      BY <2>0, <3>1, <3>2, <3>3 DEF Kept
  <2> QED
    BY <2>1, <2>2, <2>3
<1>12. \A u \in Tasks : task'[u].nonce = task[u].nonce /\ task'[u].obj = task[u].obj
  BY <1>2, <1>3
<1>13. Struct' /\ Numbers' /\ Served'
  BY <1>1, <1>8, <1>10, <1>11, <1>12, SameNumbers, SameServed DEF Struct, Sound
<1> QED
  BY <1>7, <1>13 DEF IInv

\* A closer closes one of the channels it holds.
LEMMA CloseNextOK == ASSUME IInv, NEW k \in Closers, CloseNext(k) PROVE IInv'
<1>0. TypeOK /\ Linked /\ Held /\ Sound /\ closer[k] \in Closer
  BY DEF IInv, Struct, TypeOK
<1>1. PICK v \in closer[k].todo : closer' = [closer EXCEPT ![k].todo = @ \ {v}] /\ Close(v)
  BY DEF CloseNext
<1>2. closer[k].pc = "close" /\ UNCHANGED <<cur, obj, nonces, task, xfer>>
  BY DEF CloseNext
<1> DEFINE q == [closer[k] EXCEPT !.todo = closer[k].todo \ {v}]
<1>3. /\ v \in Tasks /\ q \in Closer /\ q.todo = closer[k].todo \ {v}
      /\ q.pc = closer[k].pc /\ q.obj = closer[k].obj
  BY <1>0, <1>1 DEF Closer
<1>4. closer' = [closer EXCEPT ![k] = q]
  BY <1>0, <1>1 DEF TypeOK
<1> HIDE DEF q
<1>5. /\ closer' \in [Closers -> Closer] /\ closer'[k] = q
      /\ \A j \in Closers \ {k} : closer'[j] = closer[j]
  BY <1>0, <1>3, <1>4 DEF TypeOK
<1>6. Detached(v)
  BY <1>0, <1>1, <1>3 DEF Held
<1>7. chan' \in [Tasks -> Channel] /\ \A u \in Tasks \ {v} : chan'[u] = chan[u]
  BY <1>1, <1>3, <1>6, CloseDetached
<1>8. TypeOK'
  BY <1>0, <1>2, <1>5, <1>7 DEF TypeOK
<1>9. \A u \in Tasks : Made(u)' = Made(u) /\ (Detached(u) => Detached(u)')
  BY <1>2 DEF Made, Detached, Entry
<1>10. Linked'
  BY <1>0, <1>2, <1>9 DEF Linked
<1>11. \A j \in Closers : /\ closer'[j].todo \subseteq closer[j].todo
                          /\ closer'[j].pc = closer[j].pc /\ closer'[j].obj = closer[j].obj
                          /\ \A u \in Tasks \ {v} : u \in closer[j].todo => u \in closer'[j].todo
  BY <1>3, <1>5
<1>12. Held'
  BY <1>0, <1>2, <1>9, <1>11 DEF Held
<1>13. ASSUME NEW u \in Tasks
       PROVE  Whole(u)' /\ Cut(u)' /\ Kept(u)'
  <2>0. Whole(u) /\ Cut(u) /\ Kept(u) /\ task'[u] = task[u]
    BY <1>0, <1>2 DEF Sound
  <2>1. CASE u = v
    BY <1>1, <1>3, <1>6, <1>9, <2>0, <2>1, ClosedSound
  <2>2. CASE u # v
    <3>1. chan'[u] = chan[u]
      BY <1>7, <2>2
    <3>2. Whole(u)' /\ Cut(u)'
      BY <1>9, <2>0, <3>1 DEF Whole, Made, Cut, Starting
    <3>3. Saved(u) => Saved(u)'
      BY <1>2, <1>11, <2>2 DEF Saved, Entry
    <3> QED
      BY <2>0, <3>1, <3>2, <3>3 DEF Kept
  <2> QED
    BY <2>1, <2>2
<1>14. Struct' /\ Numbers' /\ Served'
  BY <1>2, <1>10, <1>12, <1>13, SameNumbers, SameServed DEF Struct, Sound
<1> QED
  BY <1>8, <1>14 DEF IInv

\* closeSessionResources takes everything out of the tables.
LEMMA DetachOK == ASSUME IInv, NEW k \in Closers, Detach(k) PROVE IInv'
<1> DEFINE o == closer[k].obj
           so == [[obj[o] EXCEPT !.table = [key \in Keys |-> NoTask]] EXCEPT !.closing = TRUE]
           q == [[closer[k] EXCEPT !.pc = "close"] EXCEPT !.todo = Attached(o)]
<1>0. /\ TypeOK /\ Linked /\ Held /\ Sound /\ closer[k] \in Closer /\ NoTask \notin Tasks
  BY ChannelsAssumption DEF IInv, Struct, TypeOK, NoTask
<1>1. /\ closer[k].pc = "detach" /\ closer' = [closer EXCEPT ![k] = q]
      /\ obj' = [obj EXCEPT ![o] = so]
      /\ UNCHANGED <<cur, nonces, task, chan, xfer>>
  BY <1>0 DEF Detach, TypeOK
<1>2. o \in Objects /\ closer[k].todo = {} /\ obj[o] \in SessionObject
  BY <1>0, <1>1 DEF Held, TypeOK
<1>3. so \in SessionObject /\ \A key \in Keys : so.table[key] = NoTask
  BY <1>2 DEF SessionObject
<1>4. q \in Closer /\ q.pc = "close" /\ q.todo = Attached(o) /\ Attached(o) \subseteq Tasks
  BY <1>0 DEF Closer, Attached
<1> HIDE DEF so, q
<1>5. /\ obj' \in [Objects -> SessionObject] /\ obj'[o] = so
      /\ \A p \in Objects \ {o} : obj'[p] = obj[p]
  BY <1>0, <1>1, <1>2, <1>3 DEF TypeOK
<1>6. /\ closer' \in [Closers -> Closer] /\ closer'[k] = q
      /\ \A j \in Closers \ {k} : closer'[j] = closer[j]
  BY <1>0, <1>1, <1>4 DEF TypeOK
<1>7. TypeOK'
  BY <1>0, <1>1, <1>5, <1>6 DEF TypeOK
<1>8. \A p \in Objects, key \in Keys :
        obj'[p].table[key] = IF p = o THEN NoTask ELSE obj[p].table[key]
  BY <1>3, <1>5
<1>9. Linked'
  BY <1>0, <1>1, <1>8 DEF Linked, Made
<1>10. \A u \in Tasks : Detached(u) => Detached(u)'
  BY <1>0, <1>1, <1>8 DEF Detached, Made, Entry
<1>11. ASSUME NEW u \in Attached(o)
       PROVE  u \in Tasks /\ Detached(u)'
  <2>1. PICK key \in Keys : u \in Tasks /\ obj[o].table[key] = u
    BY <1>11 DEF Attached
  <2>2. task[u].obj = o /\ task[u].key = key /\ Made(u)
    BY <1>0, <1>2, <2>1 DEF Linked
  <2> QED
    BY <1>0, <1>1, <1>2, <1>8, <2>1, <2>2 DEF Detached, Made, Entry
<1>12. Held'
  <2>1. \A j \in Closers, u \in Tasks : u \in closer'[j].todo => Detached(u)'
    BY <1>0, <1>4, <1>6, <1>10, <1>11 DEF Held
  <2>2. \A j \in Closers : /\ closer'[j].pc = "detach" => closer'[j].obj \in Objects
                           /\ closer'[j].todo # {} => closer'[j].pc = "close"
    BY <1>0, <1>4, <1>6 DEF Held
  <2> QED
    BY <1>0, <1>1, <1>10, <2>1, <2>2 DEF Held
<1>13. ASSUME NEW u \in Tasks
       PROVE  Whole(u)' /\ Cut(u)' /\ Kept(u)'
  <2>0. Whole(u) /\ Cut(u) /\ Kept(u) /\ task'[u] = task[u] /\ chan'[u] = chan[u]
    BY <1>0, <1>1 DEF Sound
  <2>1. Whole(u)' /\ Cut(u)'
    BY <1>10, <2>0 DEF Whole, Made, Cut, Starting
  <2>2. ASSUME chan[u].conn = "up", Saved(u)
        PROVE  Saved(u)'
    <3>1. task[u].obj \in Objects /\ task[u].key \in Keys
      BY <2>0, <2>2 DEF Whole
    <3>2. CASE Entry(u) = u
      <4>1. CASE task[u].obj = o
        <5>1. u \in Attached(o)
          BY <3>1, <3>2, <4>1 DEF Attached, Entry
        <5> QED
          BY <1>4, <1>6, <5>1 DEF Saved
      <4>2. CASE task[u].obj # o
        BY <1>8, <2>0, <3>1, <3>2, <4>2 DEF Saved, Entry
      <4> QED
        BY <4>1, <4>2
    <3>3. CASE \E j \in Closers : u \in closer[j].todo
      <4>1. PICK j \in Closers : u \in closer[j].todo
        BY <3>3
      <4>2. closer'[j] = closer[j]
        BY <1>2, <1>6, <4>1
      <4> QED
        BY <4>1, <4>2 DEF Saved
    <3>4. CASE \E w \in Tasks : task[w].pc = "replace" /\ task[w].old = u
      BY <1>1, <3>4 DEF Saved
    <3> QED
      BY <2>2, <3>2, <3>3, <3>4 DEF Saved
  <2> QED
    BY <2>0, <2>1, <2>2 DEF Kept
<1>14. Struct' /\ Numbers' /\ Served'
  BY <1>1, <1>9, <1>12, <1>13, SameNumbers, SameServed DEF Struct, Sound
<1> QED
  BY <1>7, <1>14 DEF IInv

-----------------------------------------------------------------------------
LEMMA InitOK == Init => IInv
<1> SUFFICES ASSUME Init PROVE IInv
  OBVIOUS
<1> DEFINE so == [made |-> FALSE, closing |-> FALSE, downloads |-> 0,
                  table |-> [key \in Keys |-> NoTask]]
           r == [pc |-> "idle", key |-> NoKey, obj |-> NoObject, old |-> NoTask, nonce |-> 0]
           x == [pc |-> "off", downloads |-> 0, asked |-> 0, shared |-> FALSE]
           q == [pc |-> "idle", obj |-> NoObject, todo |-> {}]
<1>1. /\ obj = [o \in Objects |-> so] /\ task = [t \in Tasks |-> r]
      /\ chan = [t \in Tasks |-> NoChannel] /\ xfer = [t \in Tasks |-> x]
      /\ closer = [k \in Closers |-> q]
  BY DEF Init
<1>2. so \in SessionObject /\ \A key \in Keys : so.table[key] = NoTask
  BY DEF SessionObject
<1>3. /\ r \in Task /\ r.pc = "idle" /\ r.obj = NoObject /\ r.nonce = 0
      /\ x \in Transfer /\ x.pc = "off" /\ Blank(x)
      /\ q \in Closer /\ q.pc = "idle" /\ q.todo = {}
  BY DEF Task, Transfer, Closer, Blank
<1>4. /\ NoChannel \in Channel /\ NoChannel.kind = "none" /\ NoChannel.conn = "none"
      /\ ~NoChannel.closed /\ NoChannel.due = {} /\ ~NoChannel.answered /\ ~NoChannel.armed
  BY DEF NoChannel, Channel, Listeners
<1>5. NoTask \notin Tasks
  BY ChannelsAssumption DEF NoTask
<1> HIDE DEF so, r, x, q
<1>6. TypeOK
  <2>1. cur \in Objects \cup {NoObject} /\ nonces \in [Conns -> {0} \cup Nonces]
    BY DEF Init
  <2> QED
    BY <1>1, <1>2, <1>3, <1>4, <2>1 DEF TypeOK
<1>7. Linked /\ Held
  BY <1>1, <1>2, <1>3, <1>5 DEF Linked, Held
<1>8. Sound
  BY <1>1, <1>3, <1>4 DEF Sound, Whole, Cut, Kept
<1>9. Numbers
  BY <1>1, <1>3 DEF Init, Numbers, NonceOnce
<1>10. Served
  BY <1>1, <1>3 DEF Served
<1> QED
  BY <1>6, <1>7, <1>8, <1>9, <1>10 DEF IInv, Struct

LEMMA StutterOK == ASSUME IInv, UNCHANGED vars PROVE IInv'
<1>1. UNCHANGED <<cur, obj, nonces, task, chan, xfer, closer>>
  BY DEF vars
<1>2. TypeOK'
  BY <1>1 DEF IInv, TypeOK
<1>3. Struct' /\ Numbers' /\ Served'
  BY <1>1, SameClosers, SameStruct, SameNumbers, SameServed
<1> QED
  BY <1>2, <1>3 DEF IInv

LEMMA NextOK == IInv /\ [Next]_vars => IInv'
<1> SUFFICES ASSUME IInv, [Next]_vars PROVE IInv'
  OBVIOUS
<1>1. CASE UNCHANGED vars
  BY <1>1, StutterOK
<1>2. ASSUME NEW t \in Tasks, TaskStep(t) PROVE IInv'
  BY <1>2, MakersOK, RegisterOK, CloseReplacedOK, CreateOfferOK, DialOK, RunHandshakeOK,
     DropOK, CheckOK, CloseOwnOK DEF TaskStep
<1>3. ASSUME NEW t \in Tasks, ChannelStep(t) PROVE IInv'
  BY <1>3, RunListenerOK, WireChecksOK, InstallChannelsOK, TakeCountOK, ActivateOK,
     OpenReturnsOK
  DEF ChannelStep
<1>4. ASSUME NEW k \in Closers, CloserStep(k) PROVE IInv'
  BY <1>4, DetachOK, CloseNextOK, EndingOK DEF CloserStep
<1>5. CASE Environment
  BY <1>5, HandleJoinOK, MakersOK, HelloOK, OpeningOK, AllowDownloadOK, DownloadCompleteOK,
     DownloadEndsOK, TransportEndsOK, ConnectionFailsOK, HandleKnockOK, InsertSessionOK, EndingOK DEF Environment
<1> QED
  BY <1>1, <1>2, <1>3, <1>4, <1>5 DEF Next

LEMMA Invariance == Spec => []IInv
BY InitOK, NextOK, PTL DEF Spec

\* The variables of the channels have their types.
THEOREM TypeCorrect == Spec => []TypeOK
<1>1. IInv => TypeOK
  BY DEF IInv
<1> QED
  BY <1>1, Invariance, PTL

\* One knock admits one join, however many joins arrive together
\* (daemon.go:680-685).
THEOREM OneJoinEach == Spec => []NonceOnce
<1>1. IInv => NonceOnce
  BY DEF IInv, Numbers
<1> QED
  BY <1>1, Invariance, PTL

\* No transport is left behind, whatever the number of tasks that replace each
\* other's channels and of closers that end the session meanwhile.
THEOREM NothingLeftBehind == Spec => []NoOrphan
<1>1. IInv => NoOrphan
  BY DEF IInv, Struct, Sound, Kept, Saved, NoOrphan
<1> QED
  BY <1>1, Invariance, PTL

-----------------------------------------------------------------------------
LEMMA KeptIfSame ==
    ASSUME \A o \in Objects : obj'[o].table = obj[o].table
    PROVE  EntryKept
BY DEF EntryKept

\* Only a callback, a failed start and the end of the session remove entries.
LEMMA NextKeeps == IInv /\ [Next]_vars => [EntryKept]_vars
<1> SUFFICES ASSUME IInv, Next PROVE EntryKept
  OBVIOUS
<1>0. TypeOK
  BY DEF IInv
<1>1. ASSUME NEW t \in Tasks, TaskStep(t) PROVE EntryKept
  <2>1. CASE Drop(t)
    <3>1. chan[t].kind # "none" /\ task[t].obj \in Objects /\ task[t].key \in Keys
      BY <2>1, AtTask DEF Drop, Whole
    <3>2. Loses(t) /\ task[t].pc = "drop"
      BY <1>0, <2>1, <3>1, RemoveOwn DEF Drop
    <3> QED
      BY <3>2 DEF EntryKept, Loses
  <2>2. CASE Register(t)
    <3>1. CASE obj' = obj
      BY <3>1, KeptIfSame
    <3>2. CASE obj' # obj
      <4> DEFINE o == cur
                 so == [obj[o] EXCEPT !.table = [obj[o].table EXCEPT ![task[t].key] = t]]
      <4>1. obj' = [obj EXCEPT ![o] = so] /\ o = task[t].obj
        BY <1>0, <2>2, <3>2 DEF Register, TypeOK
      <4>2. /\ o \in Objects /\ task[t].key \in Keys /\ t # NoTask /\ obj[o] \in SessionObject
            /\ obj[o].table \in [Keys -> Tasks \cup {NoTask}]
        <5>1. task[t].obj \in Objects /\ task[t].key \in Keys
          BY <2>2, AtTask DEF Register, Whole
        <5> QED
          BY <1>0, <4>1, <5>1, ChannelsAssumption DEF TypeOK, SessionObject, NoTask
      <4>3. so.table = [obj[o].table EXCEPT ![task[t].key] = t]
        BY <4>2 DEF SessionObject
      <4>4. obj'[o] = so /\ \A p \in Objects \ {o} : obj'[p] = obj[p]
        BY <1>0, <4>1, <4>2 DEF TypeOK
      <4> HIDE DEF so
      <4> QED
        BY <4>2, <4>3, <4>4 DEF EntryKept
    <3> QED
      BY <3>1, <3>2
  <2>3. CASE obj' = obj
    BY <2>3, KeptIfSame
  <2> QED
    BY <1>1, <2>1, <2>2, <2>3
    DEF TaskStep, CreatePeer, CloseReplaced, CreateOffer, Dial, RunHandshake, Check, CloseOwn
<1>2. ASSUME NEW t \in Tasks, ChannelStep(t) PROVE EntryKept
  <2>1. ASSUME NEW l \in Listeners, RunListener(t, l) PROVE EntryKept
    <3>1. /\ l \in chan[t].due /\ chan' = [chan EXCEPT ![t] = Called(chan[t], l)]
          /\ RemoveIfCurrent(t) \/ obj' = obj
      BY <2>1, AtTask DEF RunListener
    <3>2. chan[t].closed /\ task[t].obj \in Objects /\ task[t].key \in Keys
      <4>1. chan[t].closed
        BY <3>1, AtTask DEF Whole
      <4> QED
        BY <4>1, AtTask DEF Whole
    <3>3. Called(chan[t], l) \in Channel /\ Called(chan[t], l).closed
      BY <3>2, AtTask, CalledType
    <3>4. chan'[t].closed
      BY <1>0, <3>1, <3>3 DEF TypeOK
    <3>5. Loses(t)
      BY <1>0, <3>1, <3>2, RemoveOwn, SameTables
    <3> QED
      BY <3>4, <3>5 DEF EntryKept, Loses
  <2>2. CASE obj' = obj
    BY <2>2, KeptIfSame
  <2> QED
    BY <1>2, <2>1, <2>2 DEF ChannelStep, WireChecks, InstallChannels, TakeCount, Activate,
                                OpenReturns
<1>3. ASSUME NEW k \in Closers, CloserStep(k) PROVE EntryKept
  <2>1. CASE Detach(k)
    <3> DEFINE o == closer[k].obj
               so == [[obj[o] EXCEPT !.table = [key \in Keys |-> NoTask]] EXCEPT !.closing = TRUE]
    <3>1. obj' = [obj EXCEPT ![o] = so] /\ o \in Objects /\ obj[o] \in SessionObject
      BY <1>0, <2>1 DEF Detach, TypeOK, IInv, Struct, Held
    <3>2. so.closing
      BY <3>1 DEF SessionObject
    <3>3. obj'[o] = so /\ \A p \in Objects \ {o} : obj'[p] = obj[p]
      BY <1>0, <3>1 DEF TypeOK
    <3> HIDE DEF so
    <3> QED
      BY <3>2, <3>3 DEF EntryKept
  <2>2. CASE obj' = obj
    BY <2>2, KeptIfSame
  <2> QED
    BY <1>3, <2>1, <2>2 DEF CloserStep, CloseNext, CloserEnds
<1>4. CASE Environment
  <2>1. ASSUME NEW t \in Tasks, DownloadComplete(t) PROVE EntryKept
    BY <2>1, DownloadCompleteTo, KeptIfSame
  <2>2. ASSUME NEW o \in Objects, InsertSession(o) PROVE EntryKept
    <3> DEFINE so == [obj[o] EXCEPT !.made = TRUE]
    <3>1. obj' = [obj EXCEPT ![o] = so] /\ obj[o] \in SessionObject
      BY <1>0, <2>2 DEF InsertSession, TypeOK
    <3>2. so.table = obj[o].table
      BY <3>1 DEF SessionObject
    <3> HIDE DEF so
    <3>3. \A p \in Objects : obj'[p].table = obj[p].table
      BY <1>0, <3>1, <3>2 DEF TypeOK
    <3> QED
      BY <3>3, KeptIfSame
  <2>3. CASE obj' = obj
    BY <2>3, KeptIfSame
  <2> QED
    BY <1>4, <2>1, <2>2, <2>3
    DEF Environment, HandleJoin, HandleRelayPrepare, Hello, HandleAnswer, LanesOpen,
        AllowDownload, DownloadEnds, TransportEnds, ConnectionFails, HandleKnock, Revoke,
        RemoveLink
<1> QED
  BY <1>1, <1>2, <1>3, <1>4 DEF Next

\* A late close callback, or a failed offer or start, never removes a replacement
\* (daemon.go:896-919, 949-959).
THEOREM EntriesStay == Spec => EntryStays
BY NextKeeps, Invariance, PTL DEF Spec, EntryStays

-----------------------------------------------------------------------------
(* The close contract *)

\* Of a channel's record: nobody listens before it is made, and a listener is
\* owed or has had its call only after the end, outside the open callback.
Quiet(c) == /\ ~c.closed /\ ~c.opening /\ c.listeners = {} /\ c.due = {}
            /\ c.ran = [l \in Listeners |-> 0]
Regular(c) ==
    /\ c.kind = "none" => Quiet(c)
    /\ \A l \in Listeners :
           l \in c.due => c.closed /\ ~c.opening /\ c.ran[l] = 0 /\ l \in c.listeners
    /\ \A l \in Listeners : c.ran[l] # 0 => c.closed /\ ~c.opening /\ l \in c.listeners

\* The open callback belongs to a transfer session, and the manager listens once
\* that session has been installed.
Heard ==
    \A t \in Tasks :
        /\ Regular(chan[t])
        /\ chan[t].opening => xfer[t].pc # "off"
        /\ "manager" \in chan[t].listeners => xfer[t].pc \in {"install", "counted", "on"}

\* The steps of the contract, of a channel's record.
SameContract(c, d) ==
    /\ d.closed = c.closed /\ d.opening = c.opening /\ d.listeners = c.listeners
    /\ d.due = c.due /\ d.ran = c.ran
Closes(c, d) ==
    /\ ~c.closed /\ d.closed /\ d.opening = c.opening /\ d.listeners = c.listeners
    /\ d.due = (IF c.opening THEN c.due ELSE c.listeners) /\ d.ran = c.ran

LEMMA FieldsOf ==
    ASSUME NEW c \in Channel
    PROVE  /\ c.closed \in BOOLEAN /\ c.opening \in BOOLEAN
           /\ c.listeners \in SUBSET Listeners /\ c.due \in SUBSET Listeners
           /\ c.ran \in [Listeners -> Nat]
BY DEF Channel

LEMMA NotifyCloses ==
    ASSUME NEW c \in Channel
    PROVE  SameContract(c, Notify(c)) \/ Closes(c, Notify(c))
BY DEF Notify, Channel, SameContract, Closes

LEMMA ShutCloses ==
    ASSUME NEW c \in Channel, NEW sees \in BOOLEAN
    PROVE  SameContract(c, Shut(c, sees)) \/ Closes(c, Shut(c, sees))
<1>1. /\ Notify(c) \in Channel
      /\ SameContract(c, Notify(c)) \/ Closes(c, Notify(c))
  BY NotifyType, NotifyCloses
<1>2. CASE c.conn = "up" /\ sees
  <2>1. Shut(c, sees) = Ended(Notify(c))
    BY <1>2 DEF Shut, Ended
  <2> QED
    BY <1>1, <2>1, EndedType DEF SameContract, Closes
<1>3. CASE ~(c.conn = "up" /\ sees)
  BY <1>1, <1>3 DEF Shut
<1> QED
  BY <1>2, <1>3

\* A channel that stays as it is, or is closed, takes a step of the contract and
\* stays regular.
LEMMA QuietStep ==
    ASSUME NEW t \in Tasks, chan[t] \in Channel, chan'[t] \in Channel, Regular(chan[t]),
           chan'[t].kind = chan[t].kind, chan[t].kind # "none" \/ chan'[t] = chan[t],
           SameContract(chan[t], chan'[t]) \/ Closes(chan[t], chan'[t])
    PROVE  /\ Regular(chan'[t])
           /\ Contract(t)!Next \/ UNCHANGED Contract(t)!contract
<1> DEFINE c == chan[t]
           d == chan'[t]
<1>1. CASE SameContract(c, d)
  <2>1. UNCHANGED Contract(t)!contract
    BY <1>1 DEF SameContract, Contract!contract
  <2>2. Regular(d)
    BY <1>1 DEF SameContract, Regular, Quiet
  <2> QED
    BY <2>1, <2>2
<1>2. CASE Closes(c, d)
  <2>1. Contract(t)!Close
    BY <1>2 DEF Closes, Contract!Close
  <2>2. Regular(d)
    BY <1>2, FieldsOf DEF Closes, Regular, Quiet
  <2> QED
    BY <2>1, <2>2 DEF Contract!Next
<1> QED
  BY <1>1, <1>2

\* Channels that do not change.
LEMMA ContractSame ==
    ASSUME Heard, chan' = chan,
           \A u \in Tasks : /\ xfer[u].pc # "off" => xfer'[u].pc # "off"
                            /\ xfer[u].pc \in {"install", "counted", "on"} => xfer'[u].pc \in {"install", "counted", "on"}
    PROVE  Heard' /\ ContractStep
<1>1. \A u \in Tasks : UNCHANGED Contract(u)!contract
  BY DEF Contract!contract
<1> QED
  BY <1>1 DEF Heard, Regular, Quiet, ContractStep

\* One channel changes.
LEMMA ContractOne ==
    ASSUME Heard, NEW t \in Tasks,
           \A u \in Tasks \ {t} : chan'[u] = chan[u] /\ xfer'[u] = xfer[u],
           Regular(chan'[t]), Contract(t)!Next \/ UNCHANGED Contract(t)!contract,
           chan'[t].opening => xfer'[t].pc # "off",
           "manager" \in chan'[t].listeners => xfer'[t].pc \in {"install", "counted", "on"}
    PROVE  Heard' /\ ContractStep
<1>1. \A u \in Tasks \ {t} : UNCHANGED Contract(u)!contract
  BY DEF Contract!contract
<1>2. ContractStep
  BY <1>1 DEF ContractStep
<1>3. Heard'
  BY DEF Heard, Regular, Quiet
<1> QED
  BY <1>2, <1>3

\* A channel is closed, or changes in what the contract does not see.
LEMMA ContractClose ==
    ASSUME IInv, Heard, NEW t \in Tasks, NEW d \in Channel, chan' = [chan EXCEPT ![t] = d],
           d.kind = chan[t].kind, chan[t].kind # "none",
           SameContract(chan[t], d) \/ Closes(chan[t], d), xfer' = xfer
    PROVE  Heard' /\ ContractStep
<1>1. /\ chan[t] \in Channel /\ chan'[t] = d /\ \A u \in Tasks \ {t} : chan'[u] = chan[u]
  BY AtTask, PutChan
<1>2. Regular(chan'[t]) /\ (Contract(t)!Next \/ UNCHANGED Contract(t)!contract)
  BY <1>1, QuietStep DEF Heard
<1>3. d.opening = chan[t].opening /\ d.listeners = chan[t].listeners
  BY DEF SameContract, Closes
<1> QED
  BY <1>1, <1>2, <1>3, ContractOne DEF Heard

LEMMA ContractShut ==
    ASSUME IInv, Heard, NEW t \in Tasks, NEW sees \in BOOLEAN, chan[t].kind # "none",
           chan' = [chan EXCEPT ![t] = Shut(chan[t], sees)], xfer' = xfer
    PROVE  Heard' /\ ContractStep
<1> DEFINE d == Shut(chan[t], sees)
<1>1. /\ d \in Channel /\ d.kind = chan[t].kind
      /\ SameContract(chan[t], d) \/ Closes(chan[t], d)
  BY AtTask, ShutType, ShutCloses
<1>2. chan' = [chan EXCEPT ![t] = d]
  OBVIOUS
<1> HIDE DEF d
<1> QED
  BY <1>1, <1>2, ContractClose

LEMMA ContractMake ==
    ASSUME IInv, Heard, NEW t \in Tasks, task[t].pc \in {"idle", "create"},
           NEW key, NEW kind \in {"direct", "relay"}, NEW c \in {"up", "none"},
           Make(t, key, kind, c), xfer' = xfer
    PROVE  Heard' /\ ContractStep
<1>1. CASE chan' = chan
  BY <1>1, ContractSame
<1>2. CASE chan' # chan
  <2> DEFINE d == [[[NoChannel EXCEPT !.kind = kind] EXCEPT !.conn = c] EXCEPT !.listeners = {"owner"}]
  <2>1. chan' = [chan EXCEPT ![t] = d]
    BY <1>2 DEF Make
  <2>2. NoChannel \in Channel
    BY DEF NoChannel, Channel, Listeners
  <2>3. /\ d \in Channel /\ d.kind = kind /\ ~d.closed /\ ~d.opening /\ d.listeners = {"owner"}
        /\ d.due = {} /\ d.ran = [l \in Listeners |-> 0]
    BY <2>2 DEF NoChannel, Channel, Listeners
  <2> HIDE DEF d
  <2>4. /\ chan'[t] = d /\ \A u \in Tasks \ {t} : chan'[u] = chan[u]
    BY <2>1, <2>3, AtTask, PutChan
  <2>5. Quiet(chan[t])
    BY AtTask DEF Whole, Heard, Regular
  <2>6. "owner" \in Listeners /\ Contract(t)!Add("owner")
    <3>1. /\ chan'[t].closed = chan[t].closed /\ chan'[t].opening = chan[t].opening
          /\ ~chan[t].closed
      BY <2>3, <2>4, <2>5, AtTask, FieldsOf DEF Quiet
    <3>2. /\ chan[t].listeners = {} /\ chan[t].due = {} /\ chan'[t].due = {}
          /\ chan'[t].listeners = {"owner"} /\ chan'[t].ran = chan[t].ran
      BY <2>3, <2>4, <2>5 DEF Quiet
    <3> QED
      BY <3>1, <3>2 DEF Contract!Add, Listeners
  <2>7. Regular(chan'[t])
    BY <2>3, <2>4 DEF Regular
  <2> QED
    BY <2>3, <2>4, <2>6, <2>7, ContractOne DEF Contract!Next
<1> QED
  BY <1>1, <1>2

\* A listener is called.
LEMMA ContractCall ==
    ASSUME IInv, Heard, NEW t \in Tasks, NEW l \in Listeners, RunListener(t, l)
    PROVE  Heard' /\ ContractStep
<1> DEFINE c == chan[t]
           d == Called(c, l)
<1>1. l \in c.due /\ chan' = [chan EXCEPT ![t] = d] /\ xfer' = xfer
  BY AtTask DEF RunListener
<1>2. /\ c \in Channel /\ d \in Channel /\ d.kind = c.kind /\ d.closed = c.closed
  BY AtTask, CalledType
<1>3. /\ d.opening = c.opening /\ d.listeners = c.listeners /\ d.due = c.due \ {l}
      /\ d.ran = [c.ran EXCEPT ![l] = c.ran[l] + 1]
  BY <1>2 DEF Called, Channel
<1>4. Regular(c) /\ c.closed /\ ~c.opening /\ c.ran[l] = 0 /\ c.kind # "none"
  BY <1>1 DEF Heard, Regular, Quiet
<1> HIDE DEF d
<1>5. chan'[t] = d /\ \A u \in Tasks \ {t} : chan'[u] = chan[u]
  BY <1>1, <1>2, AtTask, PutChan
<1>6. Contract(t)!Call(l)
  <2>1. /\ chan'[t].due = chan[t].due \ {l} /\ chan'[t].ran = [chan[t].ran EXCEPT ![l] = 1]
        /\ chan'[t].closed = chan[t].closed /\ chan'[t].opening = chan[t].opening
        /\ chan'[t].listeners = chan[t].listeners
    <3>1. c.ran[l] + 1 = 1
      BY <1>4
    <3>2. chan'[t].ran = [chan[t].ran EXCEPT ![l] = 1]
      BY <1>3, <1>5, <3>1
    <3>3. /\ chan'[t].due = chan[t].due \ {l} /\ chan'[t].listeners = chan[t].listeners
          /\ chan'[t].closed = chan[t].closed /\ chan'[t].opening = chan[t].opening
      BY <1>2, <1>3, <1>5, Zenon
    <3> QED
      BY <3>2, <3>3
  <2> QED
    BY <1>1, <1>4, <2>1 DEF Contract!Call
<1>7. Regular(d)
  <2>1. l \in c.listeners /\ c.ran \in [Listeners -> Nat]
    BY <1>1, <1>2, <1>4, FieldsOf DEF Regular
  <2>2. \A m \in Listeners : m # l => d.ran[m] = c.ran[m]
    BY <1>3, <2>1
  <2>3. ASSUME NEW m \in Listeners, m \in d.due
        PROVE  d.closed /\ ~d.opening /\ d.ran[m] = 0 /\ m \in d.listeners
    <3>1. m \in c.due /\ m # l
      BY <1>3, <2>3
    <3> QED
      BY <1>2, <1>3, <1>4, <2>2, <3>1 DEF Regular
  <2>4. ASSUME NEW m \in Listeners, d.ran[m] # 0
        PROVE  d.closed /\ ~d.opening /\ m \in d.listeners
    <3>1. m # l => m \in c.listeners
      BY <1>4, <2>2, <2>4 DEF Regular
    <3> QED
      BY <1>2, <1>3, <1>4, <2>1, <3>1
  <2> QED
    BY <1>2, <1>4, <2>3, <2>4 DEF Regular
<1> QED
  BY <1>1, <1>3, <1>5, <1>6, <1>7, ContractOne DEF Heard, Contract!Next

\* A transfer session moves on.
LEMMA PutStep ==
    ASSUME xfer \in [Tasks -> Transfer], NEW t \in Tasks, NEW l,
           xfer' = [xfer EXCEPT ![t].pc = l]
    PROVE  xfer'[t].pc = l /\ \A u \in Tasks \ {t} : xfer'[u] = xfer[u]
<1>1. xfer'[t] = [xfer[t] EXCEPT !.pc = l] /\ \A u \in Tasks \ {t} : xfer'[u] = xfer[u]
  OBVIOUS
<1>2. xfer[t] \in Transfer
  OBVIOUS
<1>3. [xfer[t] EXCEPT !.pc = l].pc = l
  BY <1>2 DEF Transfer
<1> QED
  BY <1>1, <1>3

\* The transfer session starts, or the channel is closed.
LEMMA ContractHello ==
    ASSUME IInv, Heard, NEW t \in Tasks, NEW good \in BOOLEAN, Hello(t, good)
    PROVE  Heard' /\ ContractStep
<1>1. /\ chan[t].armed /\ xfer[t].pc = "off" /\ chan[t] \in Channel /\ chan[t].kind # "none"
      /\ Regular(chan[t]) /\ xfer \in [Tasks -> Transfer]
      /\ ~chan[t].opening /\ "manager" \notin chan[t].listeners
  BY AtTask DEF Hello, Whole, Heard, TypeOK
<1>2. CASE good /\ ~chan[t].closed
  <2> DEFINE d == [chan[t] EXCEPT !.opening = (@ \/ chan[t].kind = "direct")]
  <2>1. chan' = [chan EXCEPT ![t] = d] /\ xfer' = [xfer EXCEPT ![t].pc = "ready"]
    BY <1>2, AtTask DEF Hello
  <2>2. /\ d \in Channel /\ d.kind = chan[t].kind /\ d.closed = chan[t].closed
        /\ d.listeners = chan[t].listeners /\ d.due = chan[t].due /\ d.ran = chan[t].ran
        /\ d.opening = (chan[t].kind = "direct")
    BY <1>1 DEF Channel
  <2> HIDE DEF d
  <2>3. /\ chan'[t] = d /\ \A u \in Tasks \ {t} : chan'[u] = chan[u] /\ xfer'[u] = xfer[u]
        /\ xfer'[t].pc = "ready"
    <3>1. chan'[t] = d /\ \A u \in Tasks \ {t} : chan'[u] = chan[u]
      BY <2>1, <2>2, AtTask, PutChan
    <3>2. xfer'[t].pc = "ready" /\ \A u \in Tasks \ {t} : xfer'[u] = xfer[u]
      BY <1>1, <2>1, PutStep
    <3> QED
      BY <3>1, <3>2
  <2>4. Regular(d)
    BY <1>1, <1>2, <2>2 DEF Regular
  <2>5. CASE chan[t].kind = "direct"
    <3>1. Contract(t)!Open
      <4>1. chan'[t].opening = TRUE
        BY <2>2, <2>3, <2>5
      <4> QED
        BY <1>1, <1>2, <2>2, <2>3, <4>1 DEF Contract!Open
    <3> QED
      BY <1>1, <2>2, <2>3, <2>4, <3>1, ContractOne DEF Contract!Next
  <2>6. CASE chan[t].kind # "direct"
    <3>1. chan'[t].opening = chan[t].opening
      BY <1>1, <2>2, <2>3, <2>6, FieldsOf
    <3>2. UNCHANGED Contract(t)!contract
      BY <2>2, <2>3, <3>1 DEF Contract!contract
    <3> QED
      BY <1>1, <2>2, <2>3, <2>4, <3>2, ContractOne
  <2> QED
    BY <2>5, <2>6
<1>3. CASE ~(good /\ ~chan[t].closed)
  <2> DEFINE d == IF chan[t].failed /\ good THEN chan[t] ELSE Shut(chan[t], TRUE)
  <2>1. chan' = [chan EXCEPT ![t] = d] /\ xfer' = [xfer EXCEPT ![t].pc = "skip"]
    BY <1>3, AtTask DEF Hello
  <2>2. /\ d \in Channel /\ d.kind = chan[t].kind
        /\ SameContract(chan[t], d) \/ Closes(chan[t], d)
    BY <1>1, ShutType, ShutCloses DEF SameContract
  <2> HIDE DEF d
  <2>3. /\ chan'[t] = d /\ \A u \in Tasks \ {t} : chan'[u] = chan[u] /\ xfer'[u] = xfer[u]
        /\ xfer'[t].pc = "skip"
    <3>1. chan'[t] = d /\ \A u \in Tasks \ {t} : chan'[u] = chan[u]
      BY <2>1, <2>2, AtTask, PutChan
    <3>2. xfer'[t].pc = "skip" /\ \A u \in Tasks \ {t} : xfer'[u] = xfer[u]
      BY <1>1, <2>1, PutStep
    <3> QED
      BY <3>1, <3>2
  <2>4. Regular(chan'[t]) /\ (Contract(t)!Next \/ UNCHANGED Contract(t)!contract)
    BY <1>1, <2>2, <2>3, QuietStep
  <2>5. d.listeners = chan[t].listeners
    BY <2>2 DEF SameContract, Closes
  <2> QED
    BY <1>1, <2>3, <2>4, <2>5, ContractOne
<1> QED
  BY <1>2, <1>3

\* The manager starts to listen, perhaps after the end.
LEMMA ContractAdd ==
    ASSUME IInv, Heard, NEW t \in Tasks, InstallChannels(t)
    PROVE  Heard' /\ ContractStep
<1> DEFINE c == chan[t]
           d == AddOnClose(c, "manager")
           ls == c.listeners \cup {"manager"}
           du == IF Notified(c) THEN c.due \cup {"manager"} ELSE c.due
<1>1. /\ xfer[t].pc = "current" /\ xfer' = [xfer EXCEPT ![t].pc = "install"]
      /\ chan' = [chan EXCEPT ![t] = d] /\ xfer \in [Tasks -> Transfer]
  BY AtTask DEF InstallChannels, TypeOK
<1>2. c \in Channel /\ Regular(c) /\ "manager" \notin c.listeners /\ "manager" \in Listeners
  BY <1>1, AtTask DEF Heard, Listeners
<1>3. ls \in SUBSET Listeners /\ du \in SUBSET Listeners
  BY <1>2 DEF Channel, Listeners
<1>4. d = [[c EXCEPT !.listeners = ls] EXCEPT !.due = du]
  BY <1>2 DEF AddOnClose, Channel
<1>5. /\ d \in Channel /\ d.kind = c.kind /\ d.closed = c.closed /\ d.opening = c.opening
      /\ d.listeners = ls /\ d.due = du /\ d.ran = c.ran
  BY <1>2, <1>3, <1>4 DEF Channel
<1> HIDE DEF d
<1>6. /\ chan'[t] = d /\ \A u \in Tasks \ {t} : chan'[u] = chan[u] /\ xfer'[u] = xfer[u]
      /\ xfer'[t].pc = "install"
  <2>1. chan'[t] = d /\ \A u \in Tasks \ {t} : chan'[u] = chan[u]
    BY <1>1, <1>5, AtTask, PutChan
  <2>2. xfer'[t].pc = "install" /\ \A u \in Tasks \ {t} : xfer'[u] = xfer[u]
    BY <1>1, PutStep
  <2> QED
    BY <2>1, <2>2
<1>7. Contract(t)!Add("manager")
  BY <1>2, <1>5, <1>6 DEF Contract!Add, Notified
<1>8. c.ran["manager"] = 0
  BY <1>2 DEF Regular
<1>9. c.kind # "none"
  BY <1>1, Begun, AtTask, ChannelsAssumption DEF Whole, NoObject
<1>10. Regular(d)
  <2>1. ASSUME NEW m \in Listeners, m \in d.due
        PROVE  d.closed /\ ~d.opening /\ d.ran[m] = 0 /\ m \in d.listeners
    <3>1. m \in c.due \/ (m = "manager" /\ Notified(c))
      BY <1>5, <2>1
    <3> QED
      BY <1>2, <1>5, <1>8, <3>1 DEF Regular, Notified
  <2>2. ASSUME NEW m \in Listeners, d.ran[m] # 0
        PROVE  d.closed /\ ~d.opening /\ m \in d.listeners
    BY <1>2, <1>5, <2>2 DEF Regular
  <2> QED
    BY <1>5, <1>9, <2>1, <2>2 DEF Regular
<1>11. Contract(t)!Next
  BY <1>2, <1>7 DEF Contract!Next
<1> QED
  BY <1>6, <1>10, <1>11, ContractOne

\* The open callback returns, and a close that waited for it is announced.
LEMMA ContractOpened ==
    ASSUME IInv, Heard, NEW t \in Tasks, OpenReturns(t)
    PROVE  Heard' /\ ContractStep
<1> DEFINE c == chan[t]
           to == IF c.closed THEN c.listeners ELSE c.due
           d == [[c EXCEPT !.opening = FALSE] EXCEPT !.due = to]
<1>1. c.opening /\ xfer[t].pc # "off" /\ chan' = [chan EXCEPT ![t] = d] /\ xfer' = xfer
  BY AtTask DEF OpenReturns, TypeOK, Channel
<1>2. c \in Channel /\ Regular(c) /\ to \in SUBSET Listeners
  BY AtTask, Fields DEF Heard
<1>3. /\ d \in Channel /\ d.kind = c.kind /\ d.closed = c.closed /\ d.opening = FALSE
      /\ d.listeners = c.listeners /\ d.due = to /\ d.ran = c.ran
  BY <1>2 DEF Channel
<1> HIDE DEF d
<1>4. chan'[t] = d /\ \A u \in Tasks \ {t} : chan'[u] = chan[u] /\ xfer'[u] = xfer[u]
  BY <1>1, <1>3, AtTask, PutChan
<1>5. Contract(t)!Opened
  BY <1>1, <1>3, <1>4 DEF Contract!Opened
<1>6. Regular(d)
  <2>1. c.due = {} /\ \A m \in Listeners : c.ran[m] = 0
    BY <1>1, <1>2, FieldsOf DEF Regular
  <2>2. c.kind # "none"
    BY <1>1, <1>2 DEF Regular, Quiet
  <2> QED
    BY <1>3, <2>1, <2>2 DEF Regular
<1>7. Contract(t)!Next
  BY <1>5 DEF Contract!Next
<1> QED
  BY <1>1, <1>3, <1>4, <1>6, <1>7, ContractOne DEF Heard

\* What somebody holds to close it is closed.
LEMMA ContractHeld ==
    ASSUME IInv, Heard, NEW v \in Tasks, Detached(v), Close(v), xfer' = xfer
    PROVE  Heard' /\ ContractStep
<1>1. PICK sees \in BOOLEAN : chan' = [chan EXCEPT ![v] = Shut(chan[v], sees)]
  BY AtTask DEF Close, Visible
<1>2. chan[v].kind # "none"
  BY AtTask, ChannelsAssumption DEF Whole, Detached, NoObject
<1> QED
  BY <1>1, <1>2, ContractShut

\* The channel changes in what the contract does not see.
LEMMA ContractUnseen ==
    ASSUME IInv, Heard, NEW t \in Tasks, chan[t].kind # "none", xfer' = xfer,
           \/ chan' = [chan EXCEPT ![t].conn = "up"]
           \/ chan' = [chan EXCEPT ![t].armed = TRUE]
           \/ chan' = [chan EXCEPT ![t].answered = TRUE]
    PROVE  Heard' /\ ContractStep
<1>1. PICK d \in {[chan[t] EXCEPT !.conn = "up"], [chan[t] EXCEPT !.armed = TRUE],
                  [chan[t] EXCEPT !.answered = TRUE]} : chan' = [chan EXCEPT ![t] = d]
  BY AtTask
<1>2. chan[t] \in Channel
  BY AtTask
<1>3. d \in Channel /\ d.kind = chan[t].kind /\ SameContract(chan[t], d)
  BY <1>1, <1>2 DEF Channel, SameContract
<1> QED
  BY <1>1, <1>3, ContractClose

\* A dial or an ICE connection fails.
LEMMA ContractFails ==
    ASSUME IInv, Heard, NEW t \in Tasks, chan[t].kind # "none", xfer' = xfer,
           \/ chan' = [chan EXCEPT ![t] = Notify(@)]
           \/ chan' = [chan EXCEPT ![t] = [Notify(@) EXCEPT !.failed = TRUE]]
    PROVE  Heard' /\ ContractStep
<1> DEFINE n == Notify(chan[t])
<1>1. /\ n \in Channel /\ n.kind = chan[t].kind
      /\ SameContract(chan[t], n) \/ Closes(chan[t], n)
  BY AtTask, NotifyType, NotifyCloses
<1>2. PICK d \in {n, [n EXCEPT !.failed = TRUE]} : chan' = [chan EXCEPT ![t] = d]
  BY AtTask
<1> HIDE DEF n
<1>3. /\ d \in Channel /\ d.kind = n.kind /\ d.closed = n.closed /\ d.opening = n.opening
      /\ d.listeners = n.listeners /\ d.due = n.due /\ d.ran = n.ran
  BY <1>1, <1>2 DEF Channel
<1>4. SameContract(chan[t], d) \/ Closes(chan[t], d)
  BY <1>1, <1>3 DEF SameContract, Closes
<1> QED
  BY <1>1, <1>2, <1>3, <1>4, ContractClose

\* A step of a task.
LEMMA ContractTask ==
    ASSUME IInv, Heard, NEW t \in Tasks, TaskStep(t)
    PROVE  Heard' /\ ContractStep
<1>1. CASE CreatePeer(t)
  <2>1. task[t].pc = "create" /\ xfer' = xfer
    BY <1>1 DEF CreatePeer
  <2>2. CASE Make(t, task[t].key, "direct", "up")
    BY <2>1, <2>2, ContractMake
  <2>3. CASE chan' = chan
    BY <2>1, <2>3, ContractSame
  <2> QED
    BY <1>1, <2>2, <2>3 DEF CreatePeer
<1>2. CASE CloseReplaced(t)
  <2> DEFINE v == task[t].old
  <2>1. /\ task[t].pc = "replace" /\ xfer' = xfer
        /\ IF v \notin {NoTask, t} THEN Close(v) ELSE UNCHANGED chan
    BY <1>2 DEF CloseReplaced
  <2>2. CASE v \notin {NoTask, t}
    <3>1. v \in Tasks
      BY <2>2, AtTask, Fields
    <3>2. Detached(v)
      BY <2>1, <3>1 DEF IInv, Struct, Held
    <3> QED
      BY <2>1, <2>2, <3>1, <3>2, ContractHeld
  <2>3. CASE v \in {NoTask, t}
    BY <2>1, <2>3, ContractSame
  <2> QED
    BY <2>2, <2>3
<1>3. CASE Dial(t)
  <2>1. chan[t].kind # "none" /\ xfer' = xfer
    BY <1>3, AtTask DEF Dial, Whole
  <2> QED
    BY <1>3, <2>1, ContractUnseen, ContractFails DEF Dial
<1>4. CASE RunHandshake(t)
  <2>1. chan[t].kind # "none" /\ xfer' = xfer
    BY <1>4, AtTask DEF RunHandshake, Whole
  <2>2. \/ chan' = [chan EXCEPT ![t].armed = TRUE]
        \/ chan' = [chan EXCEPT ![t] = Shut(chan[t], TRUE)]
    BY <1>4, AtTask DEF RunHandshake
  <2> QED
    BY <2>1, <2>2, ContractUnseen, ContractShut
<1>5. CASE CloseOwn(t)
  <2>1. /\ chan[t].kind # "none" /\ xfer' = xfer
        /\ chan' = [chan EXCEPT ![t] = Shut(chan[t], TRUE)]
    BY <1>5, AtTask DEF CloseOwn, Whole
  <2> QED
    BY <2>1, ContractShut
<1>6. CASE chan' = chan /\ xfer' = xfer
  BY <1>6, ContractSame
<1> QED
  BY <1>1, <1>2, <1>3, <1>4, <1>5, <1>6 DEF TaskStep, Register, CreateOffer, Drop, Check

\* A transfer session goes on and its channel stays as it is.
Moving(t) ==
    \/ WireChecks(t) \/ TakeCount(t) \/ Activate(t)
    \/ AllowDownload(t) \/ DownloadComplete(t) \/ DownloadEnds(t)

LEMMA ContractMoves ==
    ASSUME IInv, Heard, NEW t \in Tasks, Moving(t)
    PROVE  Heard' /\ ContractStep
<1>1. chan' = chan /\ xfer \in [Tasks -> Transfer] /\ xfer[t] \in Transfer
  BY AtTask DEF Moving, WireChecks, TakeCount, Activate, AllowDownload, DownloadComplete,
                DownloadEnds, TypeOK
<1>2. \A u \in Tasks \ {t} : xfer'[u] = xfer[u]
  BY <1>1 DEF Moving, WireChecks, TakeCount, Activate, AllowDownload, DownloadComplete,
              DownloadEnds
<1>3. /\ xfer'[t].pc # "off"
      /\ xfer[t].pc \in {"install", "counted", "on"} => xfer'[t].pc \in {"install", "counted", "on"}
  <2>1. CASE WireChecks(t)
    BY <1>1, <2>1 DEF WireChecks, Transfer
  <2>2. CASE TakeCount(t) \/ Activate(t)
    BY <1>1, <2>2 DEF TakeCount, Activate, Transfer
  <2>3. CASE AllowDownload(t)
    BY <1>1, <2>3, AllowDownloadTo
  <2>4. CASE DownloadComplete(t)
    BY <1>1, <2>4, DownloadCompleteTo
  <2>5. CASE DownloadEnds(t)
    BY <1>1, <2>5, DownloadEndsTo
  <2> QED
    BY <2>1, <2>2, <2>3, <2>4, <2>5 DEF Moving
<1> QED
  BY <1>1, <1>2, <1>3, ContractSame

LEMMA ContractNetwork ==
    ASSUME IInv, Heard, NEW t \in Tasks,
           HandleAnswer(t) \/ LanesOpen(t) \/ TransportEnds(t) \/ ConnectionFails(t)
    PROVE  Heard' /\ ContractStep
<1>1. chan[t].kind # "none" /\ xfer' = xfer
  BY AtTask DEF HandleAnswer, LanesOpen, TransportEnds, ConnectionFails, Whole
<1>2. CASE HandleAnswer(t) \/ LanesOpen(t)
  BY <1>1, <1>2, ContractUnseen DEF HandleAnswer, LanesOpen
<1>3. CASE TransportEnds(t)
  <2>1. chan' = [chan EXCEPT ![t] = Shut(chan[t], TRUE)]
    BY <1>3, AtTask DEF TransportEnds
  <2> QED
    BY <1>1, <2>1, ContractShut
<1>4. CASE ConnectionFails(t)
  BY <1>1, <1>4, ContractFails DEF ConnectionFails
<1> QED
  BY <1>2, <1>3, <1>4

LEMMA NextHeard == IInv /\ Heard /\ [Next]_vars => Heard' /\ [ContractStep]_vars
<1> SUFFICES ASSUME IInv, Heard, [Next]_vars PROVE Heard' /\ [ContractStep]_vars
  OBVIOUS
<1>1. CASE UNCHANGED vars
  BY <1>1, ContractSame DEF vars
<1>2. ASSUME NEW t \in Tasks, ChannelStep(t) PROVE Heard' /\ ContractStep
  BY <1>2, ContractCall, ContractMoves, ContractAdd, ContractOpened DEF ChannelStep, Moving
<1>3. ASSUME NEW k \in Closers, CloserStep(k) PROVE Heard' /\ ContractStep
  <2>1. CASE CloseNext(k)
    <3>1. PICK v \in closer[k].todo : Close(v) /\ xfer' = xfer
      BY <2>1 DEF CloseNext
    <3>2. v \in Tasks
      BY <3>1 DEF IInv, TypeOK, Closer
    <3>3. Detached(v)
      BY <3>1, <3>2 DEF IInv, Struct, Held
    <3> QED
      BY <3>1, <3>2, <3>3, ContractHeld
  <2>2. CASE chan' = chan /\ xfer' = xfer
    BY <2>2, ContractSame
  <2> QED
    BY <1>3, <2>1, <2>2 DEF CloserStep, Detach, CloserEnds
<1>4. CASE Environment
  <2>1. ASSUME NEW t \in Tasks, NEW s \in Sids, HandleRelayPrepare(t, s)
        PROVE  Heard' /\ ContractStep
    <3>1. task[t].pc = "idle" /\ xfer' = xfer
      BY <2>1 DEF HandleRelayPrepare
    <3>2. CASE Make(t, s, "relay", "none")
      BY <3>1, <3>2, ContractMake
    <3>3. CASE chan' = chan
      BY <3>1, <3>3, ContractSame
    <3> QED
      BY <2>1, <3>2, <3>3 DEF HandleRelayPrepare
  <2>2. CASE chan' = chan /\ xfer' = xfer
    BY <2>2, ContractSame
  <2> QED
    BY <1>4, <2>1, <2>2, ContractHello, ContractNetwork, ContractMoves
    DEF Environment, HandleJoin, HandleKnock, InsertSession, Revoke, RemoveLink, Moving
<1> QED
  BY <1>1, <1>2, <1>3, <1>4, ContractTask DEF Next

LEMMA InitHeard == Init => Heard /\ \A t \in Tasks : Contract(t)!Init
<1> SUFFICES ASSUME Init, NEW t \in Tasks
             PROVE  /\ Regular(chan[t]) /\ ~chan[t].opening /\ chan[t].listeners = {}
                    /\ Contract(t)!Init
  BY DEF Heard
<1>1. chan[t] = NoChannel
  BY DEF Init
<1>2. Quiet(chan[t])
  BY <1>1 DEF NoChannel, Quiet
<1>3. chan[t].closed = FALSE /\ chan[t].opening = FALSE
  BY <1>1 DEF NoChannel
<1> QED
  BY <1>2, <1>3 DEF Regular, Quiet, Contract!Init

\* Whoever closes a channel, and however the closes interleave with the open
\* callback and with the start of a transfer session, every channel keeps the
\* contract of its close listeners (peer.go notifyClosed, channel.go notifyClose).
THEOREM ChannelsKeepContract == Spec => ImplementsContract
<1>1. Spec => []Heard /\ [][ContractStep]_vars
  BY Invariance, InitHeard, NextHeard, PTL DEF Spec
<1>2. Spec => \A t \in Tasks : Contract(t)!Init
  BY InitHeard DEF Spec
<1> QED
  BY <1>1, <1>2, PTL DEF ImplementsContract

-----------------------------------------------------------------------------
(* The limit of the share, one channel after the other *)

\* No channel of the session took its count, or allowed a request, beside another.
Alone(o) == \A t \in Tasks : task[t].obj = o => ~xfer[t].shared

\* Then one channel at most can serve, it knows the session's count, and it has
\* allowed no more than the next download.
Turn(o) ==
    Alone(o) =>
        /\ obj[o].downloads <= MaxDownloads
        /\ \A t \in Tasks : task[t].obj = o /\ CanServe(t) => xfer[t].downloads = obj[o].downloads
        /\ \A t, u \in Tasks :
              t # u /\ task[t].obj = o /\ task[u].obj = o => ~(CanServe(t) /\ CanServe(u))
        /\ \A t \in Tasks :
              task[t].obj = o =>
                  xfer[t].asked <= 1 /\ (xfer[t].asked = 1 => xfer[t].downloads < MaxDownloads)
InTurn == \A o \in Objects : Turn(o)

\* The channel counts nothing before and after, or it goes on as it was or loses
\* its transport.
Tally(x) == <<x.downloads, x.asked, x.shared>>
Steady(t) ==
    \/ Inert(xfer[t]) /\ Inert(xfer[t])'
    \/ /\ task'[t].obj = task[t].obj
       /\ ~Inert(xfer[t]) /\ Tally(xfer'[t]) = Tally(xfer[t])
       /\ chan[t].conn = "down" => chan'[t].conn = "down"

SameCounts == \A o \in Objects : obj'[o].downloads = obj[o].downloads

LEMMA SteadyTurn ==
    ASSUME IInv, IInv', InTurn, SameCounts, \A t \in Tasks : Steady(t)
    PROVE  InTurn'
<1> SUFFICES ASSUME NEW o \in Objects, Alone(o)'
             PROVE  Turn(o)'
  BY DEF InTurn, Turn
<1>0. \A t \in Tasks : Blank(xfer[t]) /\ Blank(xfer[t])'
  BY DEF IInv, Served
<1>1. Alone(o)
  <2> SUFFICES ASSUME NEW t \in Tasks, task[t].obj = o PROVE ~xfer[t].shared
    BY DEF Alone
  <2>1. CASE Inert(xfer[t])
    BY <1>0, <2>1 DEF Blank
  <2>2. CASE ~Inert(xfer[t])
    BY <2>2 DEF Steady, Tally, Alone
  <2> QED
    BY <2>1, <2>2
<1>2. Turn(o) /\ obj'[o].downloads = obj[o].downloads
  BY DEF InTurn, SameCounts
<1>3. ASSUME NEW t \in Tasks, task'[t].obj = o, CanServe(t)'
      PROVE  task[t].obj = o /\ CanServe(t) /\ xfer'[t].downloads = xfer[t].downloads
  <2>1. ~Inert(xfer[t])'
    BY <1>3 DEF CanServe, Inert
  <2>2. /\ task'[t].obj = task[t].obj /\ ~Inert(xfer[t]) /\ Tally(xfer'[t]) = Tally(xfer[t])
        /\ chan[t].conn = "down" => chan'[t].conn = "down"
    BY <2>1 DEF Steady
  <2> QED
    BY <1>3, <2>2 DEF CanServe, Inert, Tally
<1>4. ASSUME NEW t \in Tasks, task'[t].obj = o
      PROVE  /\ xfer'[t].asked <= 1
             /\ xfer'[t].asked = 1 => xfer'[t].downloads < MaxDownloads
  <2>1. CASE Inert(xfer[t]) /\ Inert(xfer[t])'
    BY <1>0, <2>1 DEF Blank, Inert
  <2>2. CASE task'[t].obj = task[t].obj /\ Tally(xfer'[t]) = Tally(xfer[t])
    BY <1>1, <1>2, <1>4, <2>2 DEF Turn, Tally
  <2> QED
    BY <2>1, <2>2 DEF Steady
<1>5. obj'[o].downloads <= MaxDownloads
  BY <1>1, <1>2 DEF Turn
<1>6. \A t \in Tasks : task'[t].obj = o /\ CanServe(t)' => xfer'[t].downloads = obj'[o].downloads
  BY <1>1, <1>2, <1>3 DEF Turn
<1>7. \A t, u \in Tasks :
        t # u /\ task'[t].obj = o /\ task'[u].obj = o => ~(CanServe(t)' /\ CanServe(u)')
  BY <1>1, <1>2, <1>3 DEF Turn
<1> QED
  BY <1>4, <1>5, <1>6, <1>7 DEF Turn

\* A transport that is down stays down, and a task keeps its session object.
Falls == \A t \in Tasks : chan[t].conn = "down" => chan'[t].conn = "down"

LEMMA FallsTurn ==
    ASSUME IInv, IInv', InTurn, SameCounts, Falls, xfer' = xfer,
           \A t \in Tasks : task'[t].obj = task[t].obj \/ xfer[t].pc = "off"
    PROVE  InTurn'
<1>1. \A t \in Tasks : Steady(t)
  BY DEF Steady, Falls, Inert
<1> QED
  BY <1>1, SteadyTurn

LEMMA FallsOne ==
    ASSUME IInv, NEW t \in Tasks, NEW d \in Channel, chan' = [chan EXCEPT ![t] = d],
           chan[t].conn = "down" => d.conn = "down"
    PROVE  Falls
BY AtTask, PutChan DEF Falls

LEMMA ShutFalls ==
    ASSUME IInv, NEW t \in Tasks, NEW sees \in BOOLEAN,
           chan' = [chan EXCEPT ![t] = Shut(chan[t], sees)]
    PROVE  Falls
<1> DEFINE d == Shut(chan[t], sees)
<1>1. d \in Channel /\ (chan[t].conn = "down" => d.conn = "down")
  BY AtTask, ShutType
<1>2. chan' = [chan EXCEPT ![t] = d]
  OBVIOUS
<1> HIDE DEF d
<1> QED
  BY <1>1, <1>2, FallsOne

LEMMA CloseFalls == ASSUME IInv, NEW t \in Tasks, Close(t) PROVE Falls
<1>1. PICK sees \in Visible(t) : chan' = [chan EXCEPT ![t] = Shut(chan[t], sees)]
  BY AtTask DEF Close
<1>2. sees \in BOOLEAN
  BY DEF Visible
<1> QED
  BY <1>1, <1>2, ShutFalls

SameObjs == \A t \in Tasks : task'[t].obj = task[t].obj

LEMMA GotoObjs == ASSUME IInv, NEW t \in Tasks, NEW l \in Labels, Goto(t, l) PROVE SameObjs
BY GotoType DEF SameObjs, IInv

LEMMA RemoveCounts ==
    ASSUME IInv, NEW t \in Tasks, RemoveIfCurrent(t), task[t].obj \in Objects
    PROVE  SameCounts
<1> DEFINE o == task[t].obj
           so == [obj[o] EXCEPT !.table = [obj[o].table EXCEPT ![task[t].key] = NoTask]]
<1>1. obj \in [Objects -> SessionObject] /\ obj[o] \in SessionObject
  BY DEF IInv, TypeOK
<1>2. obj' = obj \/ obj' = [obj EXCEPT ![o] = so]
  BY DEF RemoveIfCurrent
<1>3. so.downloads = obj[o].downloads
  BY <1>1 DEF SessionObject
<1> HIDE DEF so
<1> QED
  BY <1>1, <1>2, <1>3 DEF SameCounts

\* A step of a task.
LEMMA TaskTurn ==
    ASSUME IInv, IInv', InTurn, NEW t \in Tasks, TaskStep(t)
    PROVE  InTurn'
<1>0. /\ task \in [Tasks -> Task] /\ chan \in [Tasks -> Channel] /\ chan[t] \in Channel
      /\ obj \in [Objects -> SessionObject]
  BY AtTask DEF TypeOK
<1>1. xfer' = xfer
  BY DEF TaskStep, CreatePeer, Register, CloseReplaced, CreateOffer, Dial, RunHandshake,
         Drop, Check, CloseOwn
<1>2. CASE CreatePeer(t)
  <2>1. task[t].pc = "create" /\ obj' = obj /\ \A u \in Tasks \ {t} : chan'[u] = chan[u]
    BY <1>0, <1>2 DEF CreatePeer, Make
  <2>2. xfer[t].pc = "off" /\ chan[t].conn = "none"
    BY <2>1, AtTask, ChannelsAssumption DEF Whole, IInv, Served, NoObject
  <2>3. \A u \in Tasks : task'[u].obj = task[u].obj \/ xfer[u].pc = "off"
    BY <1>0, <1>2, <2>2 DEF CreatePeer, Make, Goto
  <2> QED
    BY <1>1, <2>1, <2>2, <2>3, FallsTurn DEF Falls, SameCounts
<1>3. CASE Register(t)
  <2>1. SameObjs /\ chan' = chan
    BY <1>0, <1>3 DEF Register, Goto, SameObjs, Task
  <2>2. SameCounts
    <3> DEFINE o == cur
               so == [obj[o] EXCEPT !.table = [obj[o].table EXCEPT ![task[t].key] = t]]
    <3>1. CASE obj' = obj
      BY <3>1 DEF SameCounts
    <3>2. CASE obj' # obj
      <4>1. obj' = [obj EXCEPT ![o] = so] /\ o = task[t].obj
        BY <1>3, <3>2 DEF Register
      <4>2. o \in Objects
        BY <1>3, <4>1, AtTask DEF Register, Whole
      <4>3. so.downloads = obj[o].downloads
        BY <1>0, <4>2 DEF SessionObject
      <4> HIDE DEF so
      <4> QED
        BY <1>0, <4>1, <4>2, <4>3 DEF SameCounts
    <3> QED
      BY <3>1, <3>2
  <2> QED
    BY <1>1, <2>1, <2>2, FallsTurn DEF Falls, SameObjs
<1>4. CASE CloseReplaced(t)
  <2>1. SameObjs /\ obj' = obj
    BY <1>0, <1>4 DEF CloseReplaced, SameObjs, Task
  <2>2. Falls
    <3>1. CASE chan' = chan
      BY <3>1 DEF Falls
    <3>2. CASE chan' # chan
      <4>1. task[t].old \in Tasks /\ Close(task[t].old)
        BY <1>4, <3>2, Fields DEF CloseReplaced, IInv
      <4> QED
        BY <4>1, CloseFalls
    <3> QED
      BY <3>1, <3>2
  <2> QED
    BY <1>1, <2>1, <2>2, FallsTurn DEF SameObjs, SameCounts
<1>5. CASE CreateOffer(t) \/ Check(t)
  <2>1. SameObjs /\ obj' = obj /\ chan' = chan
    BY <1>5, GotoObjs DEF CreateOffer, Check, Labels
  <2> QED
    BY <1>1, <2>1, FallsTurn DEF SameObjs, SameCounts, Falls
<1>6. CASE Dial(t)
  <2>1. SameObjs /\ obj' = obj
    BY <1>6, GotoObjs DEF Dial, Labels
  <2>2. chan[t].conn = "none" /\ \A u \in Tasks \ {t} : chan'[u] = chan[u]
    BY <1>0, <1>6, AtTask DEF Dial, Whole
  <2> QED
    BY <1>1, <2>1, <2>2, FallsTurn DEF SameObjs, SameCounts, Falls
<1>7. CASE RunHandshake(t) \/ CloseOwn(t)
  <2>1. SameObjs /\ obj' = obj
    BY <1>7, GotoObjs DEF RunHandshake, CloseOwn, Labels
  <2>2. Falls
    <3>1. CASE chan' = [chan EXCEPT ![t].armed = TRUE]
      BY <1>0, <3>1 DEF Falls, Channel
    <3>2. CASE chan' = [chan EXCEPT ![t] = Shut(chan[t], TRUE)]
      BY <3>2, ShutFalls
    <3> QED
      BY <1>0, <1>7, <3>1, <3>2 DEF RunHandshake, CloseOwn
  <2> QED
    BY <1>1, <2>1, <2>2, FallsTurn DEF SameObjs, SameCounts
<1>8. CASE Drop(t)
  <2>1. SameObjs /\ chan' = chan /\ RemoveIfCurrent(t) /\ task[t].obj \in Objects
    BY <1>8, GotoObjs, AtTask DEF Drop, Labels, Whole
  <2> QED
    BY <1>1, <2>1, RemoveCounts, FallsTurn DEF SameObjs, Falls
<1> QED
  BY <1>2, <1>3, <1>4, <1>5, <1>6, <1>7, <1>8 DEF TaskStep

\* The transfer session of t moves on before it takes its count.
LEMMA InertTurn ==
    ASSUME IInv, IInv', InTurn, NEW t \in Tasks, task' = task, obj' = obj, Falls,
           Inert(xfer[t]), Inert(xfer[t])', \A u \in Tasks \ {t} : xfer'[u] = xfer[u]
    PROVE  InTurn'
<1>1. \A u \in Tasks : Steady(u)
  BY DEF Steady, Falls, Inert
<1> QED
  BY <1>1, SteadyTurn DEF SameCounts

LEMMA ActivateTurn ==
    ASSUME IInv, IInv', InTurn, NEW t \in Tasks, Activate(t)
    PROVE  InTurn'
<1> DEFINE x == [xfer[t] EXCEPT !.pc = "on"]
<1>1. /\ xfer[t].pc = "counted" /\ xfer' = [xfer EXCEPT ![t] = x]
      /\ UNCHANGED <<cur, obj, nonces, task, chan, closer>>
      /\ xfer \in [Tasks -> Transfer]
  BY AtTask DEF Activate, TypeOK
<1>2. x.downloads = xfer[t].downloads /\ x.asked = xfer[t].asked /\ x.shared = xfer[t].shared
  BY <1>1 DEF Transfer
<1> HIDE DEF x
<1>3. \A u \in Tasks : Steady(u)
  BY <1>1, <1>2 DEF Steady, Inert, Tally
<1> QED
  BY <1>1, <1>3, SteadyTurn DEF SameCounts

\* A channel takes its count: it is alone only if no other channel can serve.
LEMMA TakeCountTurn ==
    ASSUME IInv, IInv', InTurn, NEW t \in Tasks, TakeCount(t)
    PROVE  InTurn'
<1>1. /\ xfer[t].pc = "install" /\ task[t].obj \in Objects
      /\ UNCHANGED <<cur, obj, nonces, task, chan, closer>>
  BY TakeCountTo
<1>2. PICK x \in Transfer :
        /\ xfer' = [xfer EXCEPT ![t] = x] /\ x.pc = "counted" /\ x.asked = 0
        /\ x.downloads = obj[task[t].obj].downloads /\ x.shared = Rival(t)
  BY TakeCountTo
<1>3. xfer'[t] = x /\ \A u \in Tasks \ {t} : xfer'[u] = xfer[u]
  BY <1>2, AtTask, PutXfer
<1>4. \A u \in Tasks \ {t} : CanServe(u)' = CanServe(u)
  BY <1>1, <1>3 DEF CanServe
<1>5. ~xfer[t].shared
  BY <1>1 DEF IInv, Served, Blank, Inert
<1> SUFFICES ASSUME NEW o \in Objects, Alone(o)'
             PROVE  Turn(o)'
  BY DEF InTurn, Turn
<1>6. Alone(o)
  BY <1>1, <1>3, <1>5 DEF Alone
<1>7. Turn(o)
  BY DEF InTurn
<1>8. CASE task[t].obj # o
  BY <1>1, <1>3, <1>4, <1>6, <1>7, <1>8 DEF Turn
<1>9. CASE task[t].obj = o
  <2>1. ~Rival(t)
    BY <1>1, <1>2, <1>3, <1>9 DEF Alone
  <2>2. \A u \in Tasks \ {t} : task[u].obj = o => ~CanServe(u)'
    BY <1>4, <1>9, <2>1 DEF Rival
  <2> QED
    BY <1>1, <1>2, <1>3, <1>6, <1>7, <1>9, <2>2 DEF Turn
<1> QED
  BY <1>8, <1>9

\* A request is allowed: it is the only one, and the session's count is below the limit.
LEMMA AllowDownloadTurn ==
    ASSUME IInv, IInv', InTurn, NEW t \in Tasks, AllowDownload(t)
    PROVE  InTurn'
<1>1. /\ xfer[t].pc = "on" /\ chan[t].conn = "up" /\ xfer[t].downloads < MaxDownloads
      /\ UNCHANGED <<cur, obj, nonces, task, chan, closer>>
  BY AllowDownloadTo
<1>2. PICK x \in Transfer :
        /\ xfer' = [xfer EXCEPT ![t] = x] /\ x.pc = "on"
        /\ x.downloads = xfer[t].downloads /\ x.asked = xfer[t].asked + 1
        /\ x.shared = (xfer[t].shared \/ xfer[t].asked > 0)
  BY AllowDownloadTo
<1>3. xfer'[t] = x /\ \A u \in Tasks \ {t} : xfer'[u] = xfer[u]
  BY <1>2, AtTask, PutXfer
<1>4. \A u \in Tasks : CanServe(u)' => CanServe(u)
  BY <1>1, <1>3 DEF CanServe
<1>5. xfer[t].asked \in Nat
  BY AtTask, Fields
<1> SUFFICES ASSUME NEW o \in Objects, Alone(o)'
             PROVE  Turn(o)'
  BY DEF InTurn, Turn
<1>6. Alone(o)
  BY <1>1, <1>2, <1>3 DEF Alone
<1>7. Turn(o)
  BY DEF InTurn
<1>8. ASSUME task[t].obj = o PROVE xfer[t].asked = 0
  <2>1. ~x.shared
    BY <1>1, <1>3, <1>8 DEF Alone
  <2>2. ~(xfer[t].asked > 0)
    BY <1>2, <2>1
  <2> QED
    BY <1>5, <2>2
<1> QED
  BY <1>1, <1>2, <1>3, <1>4, <1>6, <1>7, <1>8 DEF Turn

\* A download is counted, by the only channel that can serve.
LEMMA DownloadCompleteTurn ==
    ASSUME IInv, IInv', InTurn, NEW t \in Tasks, DownloadComplete(t)
    PROVE  InTurn'
<1>1. /\ xfer[t].pc = "on" /\ xfer[t].asked > 0 /\ task[t].obj \in Objects
      /\ UNCHANGED <<cur, nonces, task, chan, closer>>
      /\ obj'[task[t].obj].downloads = obj[task[t].obj].downloads + 1
      /\ \A o \in Objects \ {task[t].obj} : obj'[o] = obj[o]
  BY DownloadCompleteTo
<1>2. PICK x \in Transfer :
        /\ xfer' = [xfer EXCEPT ![t] = x] /\ x.pc = "on"
        /\ x.downloads = xfer[t].downloads + 1 /\ x.asked = xfer[t].asked - 1
        /\ x.shared = xfer[t].shared
  BY DownloadCompleteTo
<1>3. xfer'[t] = x /\ \A u \in Tasks \ {t} : xfer'[u] = xfer[u]
  BY <1>2, AtTask, PutXfer
<1>4. CanServe(t) /\ \A u \in Tasks \ {t} : CanServe(u)' = CanServe(u)
  BY <1>1, <1>3 DEF CanServe
<1>5. /\ xfer[t].asked \in Nat /\ xfer[t].downloads \in Nat /\ MaxDownloads \in Nat
      /\ obj[task[t].obj].downloads \in Nat
  BY <1>1, AtTask, Fields, ChannelsAssumption DEF SessionObject
<1> SUFFICES ASSUME NEW o \in Objects, Alone(o)'
             PROVE  Turn(o)'
  BY DEF InTurn, Turn
<1>6. Alone(o)
  BY <1>1, <1>2, <1>3 DEF Alone
<1>7. Turn(o)
  BY DEF InTurn
<1>8. CASE task[t].obj # o
  BY <1>1, <1>3, <1>4, <1>6, <1>7, <1>8 DEF Turn
<1>9. CASE task[t].obj = o
  <2>1. /\ xfer[t].asked = 1 /\ xfer[t].downloads < MaxDownloads
        /\ xfer[t].downloads = obj[o].downloads
    BY <1>1, <1>4, <1>5, <1>6, <1>7, <1>9 DEF Turn
  <2>2. x.asked = 0 /\ x.downloads = obj'[o].downloads /\ obj'[o].downloads <= MaxDownloads
    BY <1>1, <1>2, <1>5, <1>9, <2>1
  <2>3. \A u \in Tasks \ {t} : task[u].obj = o => ~CanServe(u)'
    BY <1>4, <1>6, <1>7, <1>9 DEF Turn
  <2> QED
    BY <1>1, <1>3, <1>6, <1>7, <1>9, <2>2, <2>3 DEF Turn
<1> QED
  BY <1>8, <1>9

LEMMA DownloadEndsTurn ==
    ASSUME IInv, IInv', InTurn, NEW t \in Tasks, DownloadEnds(t)
    PROVE  InTurn'
<1>1. /\ xfer[t].pc = "on" /\ xfer[t].asked > 0
      /\ UNCHANGED <<cur, obj, nonces, task, chan, closer>>
  BY DownloadEndsTo
<1>2. PICK x \in Transfer :
        /\ xfer' = [xfer EXCEPT ![t] = x] /\ x.pc = "on"
        /\ x.downloads = xfer[t].downloads /\ x.asked = xfer[t].asked - 1
        /\ x.shared = xfer[t].shared
  BY DownloadEndsTo
<1>3. xfer'[t] = x /\ \A u \in Tasks \ {t} : xfer'[u] = xfer[u]
  BY <1>2, AtTask, PutXfer
<1>4. xfer[t].asked \in Nat
  BY AtTask, Fields
<1>5. \A u \in Tasks : CanServe(u)' => CanServe(u)
  BY <1>1, <1>3 DEF CanServe
<1> SUFFICES ASSUME NEW o \in Objects, Alone(o)'
             PROVE  Turn(o)'
  BY DEF InTurn, Turn
<1>6. Alone(o)
  BY <1>1, <1>2, <1>3 DEF Alone
<1>7. Turn(o)
  BY DEF InTurn
<1>8. task[t].obj = o => x.asked = 0
  BY <1>1, <1>2, <1>4, <1>6, <1>7 DEF Turn
<1> QED
  BY <1>1, <1>2, <1>3, <1>5, <1>6, <1>7, <1>8 DEF Turn

LEMMA ChannelTurn ==
    ASSUME IInv, IInv', InTurn, NEW t \in Tasks, ChannelStep(t)
    PROVE  InTurn'
<1>0. /\ chan \in [Tasks -> Channel] /\ chan[t] \in Channel /\ xfer \in [Tasks -> Transfer]
      /\ xfer' \in [Tasks -> Transfer]
  BY AtTask DEF TypeOK, IInv
<1>1. ASSUME NEW l \in Listeners, RunListener(t, l) PROVE InTurn'
  <2> DEFINE d == Called(chan[t], l)
  <2>1. /\ l \in chan[t].due /\ chan' = [chan EXCEPT ![t] = d] /\ task' = task /\ xfer' = xfer
        /\ RemoveIfCurrent(t) \/ obj' = obj
    BY <1>0, <1>1 DEF RunListener
  <2>2. d \in Channel /\ d.conn = chan[t].conn /\ task[t].obj \in Objects
    BY <1>0, <2>1, AtTask, CalledType DEF Whole
  <2> HIDE DEF d
  <2>3. Falls /\ SameCounts
    BY <2>1, <2>2, FallsOne, RemoveCounts DEF SameCounts
  <2> QED
    BY <2>1, <2>3, FallsTurn
<1>2. CASE WireChecks(t)
  BY <1>0, <1>2, InertTurn DEF WireChecks, Falls, Inert, Transfer
<1>3. CASE InstallChannels(t)
  <2> DEFINE d == AddOnClose(chan[t], "manager")
  <2>1. /\ chan' = [chan EXCEPT ![t] = d] /\ task' = task /\ obj' = obj
        /\ xfer[t].pc = "current" /\ xfer'[t].pc = "install"
        /\ \A u \in Tasks \ {t} : xfer'[u] = xfer[u]
    BY <1>0, <1>3 DEF InstallChannels, Transfer
  <2>2. d.conn = chan[t].conn
    BY <1>0 DEF AddOnClose, Channel
  <2> HIDE DEF d
  <2>3. Falls
    BY <1>0, <2>1, <2>2 DEF Falls
  <2> QED
    BY <2>1, <2>3, InertTurn DEF Inert
<1>4. CASE OpenReturns(t)
  <2> DEFINE to == IF chan[t].closed THEN chan[t].listeners ELSE chan[t].due
             d == [[chan[t] EXCEPT !.opening = FALSE] EXCEPT !.due = to]
  <2>1. /\ chan' = [chan EXCEPT ![t] = d]
        /\ UNCHANGED <<cur, obj, nonces, task, xfer, closer>>
    BY <1>0, <1>4 DEF OpenReturns, Channel
  <2>2. d.conn = chan[t].conn
    BY <1>0 DEF Channel
  <2> HIDE DEF d
  <2>3. Falls
    BY <1>0, <2>1, <2>2 DEF Falls
  <2> QED
    BY <2>1, <2>3, FallsTurn DEF SameCounts
<1> QED
  BY <1>1, <1>2, <1>3, <1>4, TakeCountTurn, ActivateTurn DEF ChannelStep

LEMMA CloserTurn ==
    ASSUME IInv, IInv', InTurn, NEW k \in Closers, CloserStep(k)
    PROVE  InTurn'
<1>1. CASE Detach(k)
  <2> DEFINE o == closer[k].obj
             so == [[obj[o] EXCEPT !.table = [key \in Keys |-> NoTask]] EXCEPT !.closing = TRUE]
  <2>1. /\ obj' = [obj EXCEPT ![o] = so] /\ o \in Objects /\ obj[o] \in SessionObject
        /\ obj \in [Objects -> SessionObject] /\ UNCHANGED <<task, chan, xfer>>
    BY <1>1 DEF Detach, TypeOK, IInv, Struct, Held
  <2>2. so.downloads = obj[o].downloads
    BY <2>1 DEF SessionObject
  <2> HIDE DEF so
  <2>3. SameCounts
    BY <2>1, <2>2 DEF SameCounts
  <2> QED
    BY <2>1, <2>3, FallsTurn DEF Falls
<1>2. CASE CloseNext(k)
  <2>1. PICK v \in closer[k].todo : Close(v) /\ UNCHANGED <<obj, task, xfer>>
    BY <1>2 DEF CloseNext
  <2>2. v \in Tasks
    BY <2>1 DEF IInv, TypeOK, Closer
  <2> QED
    BY <2>1, <2>2, CloseFalls, FallsTurn DEF SameCounts
<1>3. CASE CloserEnds(k)
  BY <1>3, FallsTurn DEF CloserEnds, SameCounts, Falls
<1> QED
  BY <1>1, <1>2, <1>3 DEF CloserStep

\* Browsers, the network and users.
LEMMA EnvironmentTurn ==
    ASSUME IInv, IInv', InTurn, Environment
    PROVE  InTurn'
<1>0. /\ task \in [Tasks -> Task] /\ chan \in [Tasks -> Channel]
      /\ obj \in [Objects -> SessionObject] /\ xfer \in [Tasks -> Transfer]
  BY DEF IInv, TypeOK
<1>1. ASSUME NEW t \in Tasks, NEW c \in Conns, NEW good \in BOOLEAN, HandleJoin(t, c, good)
      PROVE  InTurn'
  <2>1. \A u \in Tasks : task'[u].obj = task[u].obj
    BY <1>0, <1>1 DEF HandleJoin, Admit, Goto, Task
  <2> QED
    BY <1>1, <2>1, FallsTurn DEF HandleJoin, SameCounts, Falls
<1>2. ASSUME NEW t \in Tasks, NEW s \in Sids, HandleRelayPrepare(t, s) PROVE InTurn'
  <2>1. /\ task[t].pc = "idle" /\ obj' = obj /\ xfer' = xfer
        /\ \A u \in Tasks \ {t} : chan'[u] = chan[u]
    BY <1>0, <1>2 DEF HandleRelayPrepare, Make
  <2>2. xfer[t].pc = "off" /\ chan[t].conn = "none"
    BY <2>1, AtTask, ChannelsAssumption DEF Whole, IInv, Served, NoObject
  <2>3. \A u \in Tasks : task'[u].obj = task[u].obj \/ xfer[u].pc = "off"
    BY <1>0, <1>2, <2>2 DEF HandleRelayPrepare, Make, Goto
  <2> QED
    BY <2>1, <2>2, <2>3, FallsTurn DEF Falls, SameCounts
<1>3. ASSUME NEW t \in Tasks, NEW good \in BOOLEAN, Hello(t, good) PROVE InTurn'
  <2>1. xfer[t].pc = "off" /\ chan[t].conn = "up" /\ task' = task /\ obj' = obj
    BY <1>3 DEF Hello
  <2>2. \E pc \in {"ready", "skip"} : xfer' = [xfer EXCEPT ![t].pc = pc]
    BY <1>3 DEF Hello
  <2>3. /\ xfer'[t].pc \in {"ready", "skip"}
        /\ \A u \in Tasks \ {t} : xfer'[u] = xfer[u]
    BY <1>0, <2>2 DEF Transfer
  <2>4. \A u \in Tasks \ {t} : chan'[u] = chan[u]
    BY <1>0, <1>3 DEF Hello
  <2> QED
    BY <2>1, <2>3, <2>4, InertTurn DEF Inert, Falls
<1>4. ASSUME NEW t \in Tasks,
             HandleAnswer(t) \/ LanesOpen(t) \/ TransportEnds(t) \/ ConnectionFails(t)
      PROVE  InTurn'
  <2>1. /\ chan[t].conn = "up" /\ task' = task /\ obj' = obj /\ xfer' = xfer
        /\ \A u \in Tasks \ {t} : chan'[u] = chan[u]
    BY <1>0, <1>4 DEF HandleAnswer, LanesOpen, TransportEnds, ConnectionFails
  <2> QED
    BY <2>1, FallsTurn DEF Falls, SameCounts
<1>5. ASSUME NEW o \in Objects, InsertSession(o) PROVE InTurn'
  <2> DEFINE so == [obj[o] EXCEPT !.made = TRUE]
  <2>1. obj' = [obj EXCEPT ![o] = so] /\ UNCHANGED <<task, chan, xfer>>
    BY <1>5 DEF InsertSession
  <2>2. so.downloads = obj[o].downloads
    BY <1>0 DEF SessionObject
  <2> HIDE DEF so
  <2>3. SameCounts
    BY <1>0, <2>1, <2>2 DEF SameCounts
  <2> QED
    BY <2>1, <2>3, FallsTurn DEF Falls
<1>6. CASE UNCHANGED <<obj, task, chan, xfer>>
  BY <1>6, FallsTurn DEF Falls, SameCounts
<1> QED
  BY <1>1, <1>2, <1>3, <1>4, <1>5, <1>6, AllowDownloadTurn, DownloadCompleteTurn,
     DownloadEndsTurn
  DEF Environment, HandleKnock, Revoke, RemoveLink

LEMMA InitTurn == Init => InTurn
<1> SUFFICES ASSUME Init, NEW o \in Objects PROVE Turn(o)
  BY DEF InTurn
<1>1. /\ obj[o].downloads = 0 /\ MaxDownloads \in Nat
      /\ \A t \in Tasks : xfer[t].pc = "off" /\ xfer[t].asked = 0
  BY ChannelsAssumption DEF Init
<1> QED
  BY <1>1 DEF Turn, CanServe

LEMMA NextTurn == IInv /\ IInv' /\ InTurn /\ [Next]_vars => InTurn'
<1> SUFFICES ASSUME IInv, IInv', InTurn, [Next]_vars PROVE InTurn'
  OBVIOUS
<1>1. CASE UNCHANGED vars
  BY <1>1, FallsTurn DEF vars, Falls, SameCounts
<1> QED
  BY <1>1, TaskTurn, ChannelTurn, CloserTurn, EnvironmentTurn DEF Next

\* Channels that serve one after the other keep the limit of the share together,
\* however they replace each other and however late a download is counted: it is
\* exceeded only by channels, or by requests of one channel, that overlap
\* (daemon.go:831-859).
THEOREM LimitHoldsInTurn == Spec => []LimitHeldInTurn
<1>1. Spec => []InTurn
  BY Invariance, InitTurn, NextTurn, PTL DEF Spec
<1>2. IInv /\ InTurn => LimitHeldInTurn
  <2> SUFFICES ASSUME IInv, InTurn, NEW o \in Objects, obj[o].downloads > MaxDownloads,
                      ~\E t \in Tasks : task[t].obj = o /\ xfer[t].shared
               PROVE  FALSE
    BY DEF LimitHeldInTurn
  <2>1. Alone(o)
    BY DEF Alone
  <2>2. obj[o].downloads <= MaxDownloads
    BY <2>1 DEF InTurn, Turn
  <2>3. obj[o].downloads \in Nat /\ MaxDownloads \in Nat
    BY ChannelsAssumption DEF IInv, TypeOK, SessionObject
  <2> QED
    BY <2>2, <2>3
<1> QED
  BY <1>1, <1>2, Invariance, PTL

=============================================================================
