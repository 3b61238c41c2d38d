---------------------------- MODULE RuntimeProofs ----------------------------
(***************************************************************************)
(* Proofs about Runtime: its types, and that the whole system, adapters,   *)
(* crashes and shutdown included, moves the program's state only as the    *)
(* routing core prescribes, so that the theorems of ProgramProofs hold of  *)
(* it, for every arena and any number of requests, calls and crashes; what *)
(* a shutdown leaves; and, in an arena that separates its threads, that    *)
(* each of them is one token, which every queue and stack agrees on.       *)
(***************************************************************************)
EXTENDS Runtime, ProgramProofs, Induction

-----------------------------------------------------------------------------
(* The messages that move *)

LEMMA FirstOf ==
  ASSUME NEW S, NEW s \in Seq(S), s # <<>>
  PROVE  Head(s) \in S /\ Tail(s) \in Seq(S)
  OBVIOUS

LEMMA LastOf ==
  ASSUME NEW S, NEW s \in Seq(S), s # <<>>
  PROVE  Last(s) \in S /\ Front(s) \in Seq(S)
<1>1. Len(s) \in 1 .. Len(s) /\ Len(s) - 1 \in 0 .. Len(s)
  OBVIOUS
<1>. QED
  BY <1>1, Cut DEF Last, Front

LEMMA Made ==
  ASSUME NEW t \in Thread, NEW id \in Nat, NEW b \in Agent
  PROVE  /\ DataMessage(t) \in Message
         /\ Reply(t, id, {}) \in Message
         /\ Request(t, id, To(b), {}) \in Message
<1>1. To(b) \in Address /\ NoAddress \in Address
  BY DEF To, Address
<1>. QED
  BY <1>1 DEF DataMessage, Reply, Request, Message, NoId

LEMMA NotesType ==
  ASSUME NEW a, NEW t \in Thread
  PROVE  Notes(a, t) \in Seq(Message)
<1>1. DataMessage(t) \in Message
  BY Made, UserExists
<1>. QED
  BY <1>1 DEF Notes

\* What an adapter posts after a round.
LEMMA Sent ==
  ASSUME NEW q \in Seq(Message), NEW a, NEW t \in Thread, NEW m \in Message
  PROVE  q \o Notes(a, t) \o <<m>> \in Seq(Message)
<1>1. Notes(a, t) \in Seq(Message)
  BY NotesType
<1>2. q \o Notes(a, t) \in Seq(Message)
  BY <1>1
<1>. QED
  BY <1>2

LEMMA ServingType ==
  ASSUME RTypeOK, NEW a \in Agent, NEW d \in Delivery, d.reply => Expected(a, d)
  PROVE  Serving(a, d) \in Seq(Entry)
<1>1. service[a] \in Seq(Entry)
  BY DEF RTypeOK
<1>2. CASE d.reply
  BY <1>1, <1>2, LastOf DEF Serving, Expected
<1>3. CASE ~d.reply
  <2>1. [incoming |-> TRUE, thread |-> d.thread, id |-> d.id, peer |-> d.from] \in Entry
    BY DEF Entry, Delivery
  <2>. QED  BY <1>1, <1>3, <2>1, Pushed DEF Serving
<1>. QED
  BY <1>2, <1>3

LEMMA ReceivedType ==
  ASSUME RTypeOK, NEW a \in Agent
  PROVE  Received(a) \in Seq(Todo) /\ Remaining(a) \in Seq(Message)
<1>1. outbox[a] \in Seq(Message)
  BY DEF RTypeOK
<1>2. Remaining(a) \in Seq(Message)
  BY <1>1 DEF Remaining
<1>3. \A m \in Message : [agent |-> a, msg |-> m, died |-> FALSE] \in Todo
  BY DEF Todo
<1>4. [agent |-> a, msg |-> DataMessage(MainThread), died |-> TRUE] \in Todo
  BY Made, UserExists DEF Todo
<1>5. CASE a \in Loops
  <2>1. \A i \in 1 .. Len(outbox[a]) : outbox[a][i] \in Message
    BY <1>1
  <2>2. Received(a) = [i \in 1 .. Len(outbox[a]) |->
                         [agent |-> a, msg |-> outbox[a][i], died |-> FALSE]]
    BY <1>5 DEF Received
  <2>3. Len(outbox[a]) \in Nat
    BY <1>1
  <2>. QED  BY <1>2, <1>3, <2>1, <2>2, <2>3
<1>6. CASE a \notin Loops /\ outbox[a] # <<>>
  <2>1. Head(outbox[a]) \in Message
    BY <1>1, <1>6, FirstOf
  <2>. QED  BY <1>2, <1>3, <1>6, <2>1 DEF Received
<1>7. CASE a \notin Loops /\ outbox[a] = <<>>
  BY <1>2, <1>4, <1>7 DEF Received
<1>. QED
  BY <1>5, <1>6, <1>7

-----------------------------------------------------------------------------
(* Every message the loop processes is one the routing core allows            *)

\* A late, duplicated or misaddressed message is judged as the one that stands
\* for its kind in Posts.
LEMMA RejectedStands ==
  ASSUME IInv, NEW a \in agents, NEW m \in Message, NEW b, Reject(a, m, b)
  PROVE  \E n \in Posts(a, m.thread) : n.thread = m.thread /\ Reject(a, n, b)
<1>. DEFINE t == m.thread
            r == Reply(t, lastId + 1, {})
            q == Request(t, NoId, [agent |-> user, clone |-> FALSE], {})
<1>0. t \in Thread /\ lastId \in Nat
  BY MessageParts DEF IInv, TypeOK
<1>1. CASE a = Holder(t)
  <2>1. r \in Posts(a, t) /\ r.thread = t
    BY <1>1 DEF Posts, Reply
  <2>2. ~TopIs(t, lastId + 1)
    <3>1. SUFFICES ASSUME stack[t] # <<>>, Top(t).id = lastId + 1  PROVE FALSE
      BY DEF TopIs
    <3>2. Len(stack[t]) \in 1 .. Len(stack[t])
      BY <1>0, <3>1, TopType DEF IInv
    <3>3. Top(t).id \in 1 .. lastId
      BY <1>0, <3>2 DEF IInv, UniqueIds, Top
    <3>. QED  BY <1>0, <3>1, <3>3
  <2>3. IsError(a, r)
    BY <1>0, <2>2 DEF IsError, IsData, IsReturn, IsCall, Reply, NoId
  <2>4. Reject(a, r, b)
    BY <2>1, <2>3 DEF Reject
  <2>. QED  BY <2>1, <2>4
<1>2. CASE a # Holder(t)
  <2>1. q \in Posts(a, t) /\ q.thread = t
    BY <1>2 DEF Posts, Request
  <2>2. IsError(a, q)
    BY <1>2, <2>1 DEF IsError, IsData, IsReturn, IsCall
  <2>3. Reject(a, q, b)
    BY <2>1, <2>2 DEF Reject
  <2>. QED  BY <2>1, <2>3
<1>. QED
  BY <1>1, <1>2

\* An accepted answer is told by its identifier and its tags.
LEMMA ReturnStands ==
  ASSUME IInv, NEW a \in agents, NEW m \in Message, NEW b, Return(a, m, b)
  PROVE  \E n \in Posts(a, m.thread) : n.thread = m.thread /\ Return(a, n, b)
<1>. DEFINE t == m.thread
            r == Reply(t, m.inReplyTo, m.tags)
<1>0. t \in Thread /\ m.inReplyTo \in Nat /\ m.tags \in SUBSET Tag
  BY DEF Message
<1>1. IsReturn(a, m) /\ a = Holder(t) /\ m.inReplyTo # NoId /\ TopIs(t, m.inReplyTo)
  BY DEF Return, IsReturn
<1>2. m.inReplyTo \in TopIds(t)
  BY <1>1 DEF TopIs, TopIds
<1>3. r \in Posts(a, t)
  BY <1>0, <1>1, <1>2 DEF Posts
<1>4. r.thread = t /\ r.inReplyTo = m.inReplyTo /\ r.tags = m.tags /\ r.data = FALSE
  BY DEF Reply
<1>5. IsReturn(a, r) /\ Offered(a, r) = Offered(a, m)
  BY <1>1, <1>4 DEF IsReturn, Offered
<1>6. Return(a, r, b)
  BY <1>4, <1>5 DEF Return
<1>. QED
  BY <1>3, <1>4, <1>6

LEMMA CallPosted ==
  ASSUME IInv, NEW a \in agents, NEW m \in Message, IsCall(a, m)
  PROVE  m \in Posts(a, m.thread)
<1>. DEFINE t == m.thread
<1>0. /\ t \in Thread /\ m.to \in Address /\ m.tags \in SUBSET Tag
      /\ m.inResponseTo \in Nat
  BY DEF Message
<1>1. /\ m.data = FALSE /\ m.inReplyTo = NoId /\ a = Holder(t)
      /\ m.inResponseTo \in {NoId} \cup TopIds(t)
  BY DEF IsCall, TopIs, TopIds, Message
<1>2. m = Request(t, m.inResponseTo, m.to, m.tags)
  BY <1>1 DEF Request, Message
<1>. QED
  BY <1>0, <1>1, <1>2 DEF Posts

LEMMA RouteIsNext ==
  ASSUME IInv, NEW a \in Agent, NEW m \in Message, NEW b \in Agent, Route(a, m, b)
  PROVE  Next
<1>1. a \in agents /\ m.thread \in Thread /\ MayPost(a, m.thread)
  BY DEF Route, MayPost, Message
<1>2. HasRoom(1)
  <2>1. lastId \in Int /\ MaxMessages \in Int
    BY ArenaAssumption DEF IInv, TypeOK
  <2>. QED  BY <2>1 DEF Route, Return, Call, CallClone, Reject, HasRoom
<1>3. \E n \in Posts(a, m.thread) : Route(a, n, b)
  <2>1. CASE Return(a, m, b)
    <3>1. PICK n \in Posts(a, m.thread) : n.thread = m.thread /\ Return(a, n, b)
      BY <1>1, <2>1, ReturnStands
    <3>. QED  BY <1>1, <3>1 DEF Route
  <2>2. CASE Reject(a, m, b)
    <3>1. PICK n \in Posts(a, m.thread) : n.thread = m.thread /\ Reject(a, n, b)
      BY <1>1, <2>2, RejectedStands
    <3>. QED  BY <1>1, <3>1 DEF Route
  <2>3. CASE Call(a, m, b) \/ CallClone(a, m, b)
    <3>1. IsCall(a, m)
      BY <2>3 DEF Call, CallClone
    <3>2. m \in Posts(a, m.thread)
      BY <1>1, <3>1, CallPosted
    <3>. QED  BY <3>2
  <2>. QED  BY <2>1, <2>2, <2>3 DEF Route
<1>. QED
  BY <1>1, <1>2, <1>3 DEF Next

LEMMA CommandIsNext ==
  ASSUME IInv, NEW a \in Agent, NEW m \in Message, NEW new \in SUBSET (Agent \ agents),
         NEW f \in [new -> SUBSET Flag], Command(a, m, new, f)
  PROVE  Next
<1>1. a \in agents /\ m.thread \in Thread
  BY DEF Command, MayPost, Message
<1>2. IsCall(a, m) /\ IsFiniteSet(new) /\ HasRoom(1 + Cardinality(new))
  BY DEF Command, CallRuntime
<1>3. HasRoom(1)
  <2>1. lastId \in Int /\ MaxMessages \in Int /\ Cardinality(new) \in Nat
    BY <1>2, ArenaAssumption, FS_CardinalityType DEF IInv, TypeOK
  <2>. QED  BY <1>2, <2>1 DEF HasRoom
<1>4. m \in Posts(a, m.thread)
  BY <1>1, <1>2, CallPosted
<1>. QED
  BY <1>1, <1>3, <1>4 DEF Next

LEMMA NoteIsNext ==
  ASSUME IInv, NEW a \in Agent, NEW m \in Message, Note(a, m)
  PROVE  Next
<1>1. a \in agents /\ m.thread \in Thread /\ MayPost(a, m.thread) /\ Data(a, m)
  BY DEF Note, MayPost, Message
<1>2. a = Holder(m.thread) /\ HasRoom(1)
  BY <1>1 DEF Data, IsData
<1>3. DataMessage(m.thread).thread = m.thread /\ DataMessage(m.thread).data = TRUE
  BY DEF DataMessage
<1>4. Note(a, DataMessage(m.thread))
  BY <1>1, <1>2, <1>3 DEF Note, Data, IsData
<1>. QED
  BY <1>1, <1>2, <1>4 DEF Next

\* A rewind is told to an agent that exists.
LEMMA DiedIsNext ==
  ASSUME IInv, user \in agents, NEW a \in Agent, NEW b \in Agent, Died(a, b)
  PROVE  Next
<1>1. a \in agents /\ HasRoom(1)
  BY DEF Died
<1>2. HomeThread(a) \in Thread
  BY <1>1, UserExists DEF HomeThread, IInv, TypeOK, Home
<1>3. b \in agents
  <2>1. PICK d \in 0 .. Len(stack[HomeThread(a)]) : b = RewindTarget(HomeThread(a), a, d)
    BY DEF Died, ApplyRewind
  <2>2. CASE d = Len(stack[HomeThread(a)])
    BY <1>1, <2>1, <2>2 DEF RewindTarget
  <2>3. CASE d # Len(stack[HomeThread(a)])
    <3>1. stack[HomeThread(a)] \in Seq(Frame)
      BY <1>2 DEF IInv, TypeOK
    <3>2. d + 1 \in 1 .. Len(stack[HomeThread(a)]) /\ d \in Nat
      BY <2>3, <3>1
    <3>3. b = stack[HomeThread(a)][d + 1].from
      BY <2>1, <2>3 DEF RewindTarget
    <3>4. CASE d = 0
      BY <1>2, <3>2, <3>3, <3>4 DEF IInv, CallChain
    <3>5. CASE d # 0
      <4>1. d \in 1 .. Len(stack[HomeThread(a)])
        BY <3>1, <3>2, <3>5
      <4>2. b = stack[HomeThread(a)][d].to
        BY <1>2, <3>2, <3>3, <3>5 DEF IInv, CallChain
      <4>. QED  BY <1>2, <4>1, <4>2 DEF IInv, HolderInScope
    <3>. QED  BY <3>4, <3>5
  <2>. QED  BY <2>2, <2>3
<1>. QED
  BY <1>1, <1>3 DEF Next

-----------------------------------------------------------------------------
(* The steps of the runtime, as steps of the program *)

\* The inductive invariant: queues and todos hold messages that can be routed,
\* the program is in a state its own steps reach, and the user's agent, which
\* hears of the rewinds nobody catches, exists.
RInv == RTypeOK /\ IInv /\ user \in agents

LEMMA TodoType ==
  ASSUME RTypeOK, todos # <<>>
  PROVE  Next1.agent \in Agent /\ Next1.msg \in Message /\ Tail(todos) \in Seq(Todo)
<1>1. todos \in Seq(Todo)
  BY DEF RTypeOK
<1>2. Next1 \in Todo /\ Tail(todos) \in Seq(Todo)
  BY <1>1, FirstOf DEF Next1
<1>. QED
  BY <1>2 DEF Todo

LEMMA ProcessIsNext ==
  ASSUME RInv, Process
  PROVE  Next
<1>1. CASE ProcessNote
  BY <1>1, TodoType, NoteIsNext DEF ProcessNote, NextTodo, RInv
<1>2. ASSUME NEW b \in Agent, ProcessRouted(b)
      PROVE  Next
  BY <1>2, TodoType, RouteIsNext DEF ProcessRouted, NextTodo, RInv
<1>3. ASSUME NEW b \in Agent, ProcessDeath(b)
      PROVE  Next
  BY <1>3, TodoType, DiedIsNext DEF ProcessDeath, NextTodo, RInv
<1>4. ASSUME NEW new \in SUBSET (Agent \ agents), NEW f \in [new -> SUBSET Flag],
             ProcessCommand(new, f)
      PROVE  Next
  BY <1>4, TodoType, CommandIsNext DEF ProcessCommand, NextTodo, RInv
<1>. QED
  BY <1>1, <1>2, <1>3, <1>4 DEF Process

LEMMA ProgramStep ==
  ASSUME RInv, RNext
  PROVE  Next \/ UNCHANGED vars
<1>1. ASSUME NEW t \in Thread, NEW b \in Contacts[t], UserSend(t, b)
      PROVE  UNCHANGED vars
  BY <1>1 DEF UserSend, program
<1>2. ASSUME NEW a \in Adapters, Adapter(a) \/ Crash(a)
      PROVE  UNCHANGED vars
  BY <1>2 DEF Adapter, AdapterReply, AdapterCheck, AdapterCall, Crash, program
<1>3. CASE Poll \/ (\E e \in events : Receive(e)) \/ PollCheck
  BY <1>3 DEF Poll, Receive, PollCheck, program
<1>4. CASE BeginShutdown \/ DrainReceive \/ DrainCheck \/ DrainNext
  BY <1>4 DEF BeginShutdown, DrainReceive, DrainCheck, DrainNext, drainvars, program
<1>. QED
  BY <1>1, <1>2, <1>3, <1>4, ProcessIsNext DEF RNext, Loop

-----------------------------------------------------------------------------
(* Types *)

LEMMA ExitType ==
  ASSUME RTypeOK, NEW a \in Agent, Exit(a)
  PROVE  /\ proc' \in [Agent -> {"none", "up", "dead"}]
         /\ inbox' \in [Agent -> Seq(Delivery)]
         /\ heirs' \in [Agent -> SUBSET Agent] /\ stale' \in [Agent -> SUBSET Agent]
<1>1. <<>> \in Seq(Delivery)
  OBVIOUS
<1>2. inbox' \in [Agent -> Seq(Delivery)]
  BY <1>1 DEF Exit, RTypeOK
<1>3. proc' \in [Agent -> {"none", "up", "dead"}]
  BY DEF Exit, RTypeOK
<1>4. heirs' \in [Agent -> SUBSET Agent] /\ stale' \in [Agent -> SUBSET Agent]
  BY DEF Exit, RTypeOK
<1>. QED
  BY <1>2, <1>3, <1>4

\* The part of the state delivery can change.
Delivering ==
  /\ proc \in [Agent -> {"none", "up", "dead"}]
  /\ inbox \in [Agent -> Seq(Delivery)]
  /\ outbox \in [Agent -> Seq(Message)]
  /\ service \in [Agent -> Seq(Entry)]
  /\ heirs \in [Agent -> SUBSET Agent] /\ stale \in [Agent -> SUBSET Agent]
  /\ uiPending \in [Thread -> BOOLEAN]
  /\ stopping \in BOOLEAN
  /\ phase \in {"run", "drain", "stopped", "returned"} \cup Failures
  /\ crashes \in Nat

LEMMA DeliverType ==
  ASSUME RTypeOK, NEW b \in Agent, NEW d \in Delivery, Deliver(b, d)
  PROVE  Delivering'
<1>0. Delivering
  BY DEF RTypeOK, Delivering
<1>1. CASE ToUser(d)
  <2>1. d.thread \in Thread
    BY DEF Delivery
  <2>2. uiPending' \in [Thread -> BOOLEAN]
    BY <1>0, <1>1, <2>1 DEF ToUser, Delivering, fds
  <2>3. phase' \in {"run", "drain", "stopped", "returned"} \cup Failures
    BY <1>0, <1>1 DEF ToUser, Delivering, fds, Failures
  <2>. QED  BY <1>0, <1>1, <2>2, <2>3 DEF ToUser, Delivering, fds
<1>2. CASE ToRuntime(d)
  <2>1. Reply(d.thread, d.id, {}) \in Message
    BY Made, UserExists DEF Delivery
  <2>2. outbox[runtime] \in Seq(Message)
    BY <1>0, UserExists DEF Delivering
  <2>3. Append(outbox[runtime], Reply(d.thread, d.id, {})) \in Seq(Message)
    BY <2>1, <2>2, Pushed
  <2>4. outbox' \in [Agent -> Seq(Message)]
    BY <1>0, <1>2, <2>3 DEF ToRuntime, Delivering, fds
  <2>5. stopping' \in BOOLEAN
    BY <1>0, <1>2 DEF ToRuntime, Delivering, fds
  <2>. QED  BY <1>0, <1>2, <2>4, <2>5 DEF ToRuntime, Delivering, fds
<1>3. CASE Start(b, d)
  <2>1. inbox' \in [Agent -> Seq(Delivery)]
    <3>1. <<d>> \in Seq(Delivery)
      OBVIOUS
    <3>. QED  BY <1>0, <1>3, <3>1 DEF Start, Delivering
  <2>2. service' \in [Agent -> Seq(Entry)]
    <3>1. <<>> \in Seq(Entry)
      OBVIOUS
    <3>. QED  BY <1>0, <1>3, <3>1 DEF Start, Delivering
  <2>3. proc' \in [Agent -> {"none", "up", "dead"}]
    BY <1>0, <1>3 DEF Start, Delivering
  <2>4. heirs' \in [Agent -> SUBSET Agent]
    BY <1>0, <1>3 DEF Start, Delivering
  <2>. QED  BY <1>0, <1>3, <2>1, <2>2, <2>3, <2>4 DEF Start, Delivering
<1>4. CASE FailToStart(b)
  BY <1>0, <1>4 DEF FailToStart, Delivering, fds, Failures
<1>5. CASE GiveUp(b)
  BY <1>0, <1>5 DEF GiveUp, Delivering, fds
<1>6. CASE Send(b, d)
  <2>1. inbox[b] \in Seq(Delivery)
    BY <1>0 DEF Delivering
  <2>2. Append(inbox[b], d) \in Seq(Delivery)
    BY <2>1, Pushed
  <2>3. inbox' \in [Agent -> Seq(Delivery)]
    BY <1>0, <1>6, <2>2 DEF Send, Delivering, fds
  <2>4. phase' \in {"run", "drain", "stopped", "returned"} \cup Failures
    BY <1>0, <1>6 DEF Send, Delivering, fds, Failures
  <2>. QED  BY <1>0, <1>6, <2>3, <2>4 DEF Send, Delivering, fds
<1>. QED
  BY <1>1, <1>2, <1>3, <1>4, <1>5, <1>6 DEF Deliver

\* A routed message reaches its recipient with the identifier of its record.
LEMMA DeliveredType ==
  ASSUME NEW a \in Agent, NEW m \in Message, NEW id \in Nat
  PROVE  Delivered(a, m, id) \in Delivery
<1>1. m.thread \in Thread /\ (m.inReplyTo # NoId) \in BOOLEAN
  BY DEF Message
<1>. QED
  BY <1>1 DEF Delivered, Delivery

LEMMA ProcessType ==
  ASSUME RInv, Process
  PROVE  RTypeOK'
<1>1. /\ todos' \in Seq(Todo) /\ UNCHANGED <<events, draining, requests, calls>>
      /\ Next1.agent \in Agent /\ Next1.msg \in Message
  <2>1. NextTodo
    BY DEF Process, ProcessNote, ProcessRouted, ProcessDeath, ProcessCommand
  <2>. QED  BY <2>1, TodoType DEF NextTodo, RInv
<1>2. lastId \in Nat /\ lastId' \in Nat
  <2>1. TypeOK /\ TypeOK'
    BY ProcessIsNext, TypeStep DEF RInv, IInv
  <2>. QED  BY <2>1 DEF TypeOK
<1>3. Delivering'
  <2>0. Undelivered => Delivering'
    BY DEF Undelivered, Delivering, fds, RInv, RTypeOK
  <2>1. ASSUME NEW b \in Agent, ProcessRouted(b)
        PROVE  Delivering'
    <3>1. Delivered(Next1.agent, Next1.msg, lastId') \in Delivery
      BY <1>1, <1>2, DeliveredType
    <3>. QED  BY <2>0, <2>1, <3>1, DeliverType DEF ProcessRouted, RInv
  <2>2. ASSUME NEW b \in Agent, ProcessDeath(b)
        PROVE  Delivering'
    <3>1. HomeThread(Next1.agent) \in Thread
      BY <1>1, UserExists DEF HomeThread, RInv, IInv, TypeOK, Home
    <3>2. [thread |-> HomeThread(Next1.agent), id |-> lastId', from |-> Nobody,
           reply |-> FALSE] \in Delivery
      BY <1>2, <3>1 DEF Delivery
    <3>. QED  BY <2>2, <3>2, DeliverType DEF ProcessDeath, RInv
  <2>3. ASSUME NEW new \in SUBSET (Agent \ agents), NEW f \in [new -> SUBSET Flag],
               ProcessCommand(new, f)
        PROVE  Delivering'
    <3>1. Delivered(Next1.agent, Next1.msg, lastId + 1) \in Delivery
      BY <1>1, <1>2, DeliveredType
    <3>. QED  BY <2>0, <2>3, <3>1, DeliverType, UserExists DEF ProcessCommand, RInv
  <2>4. CASE ProcessNote
    BY <2>0, <2>4 DEF ProcessNote
  <2>. QED  BY <2>1, <2>2, <2>3, <2>4 DEF Process
<1>. QED
  BY <1>1, <1>3 DEF RInv, RTypeOK, Delivering

LEMMA UserSendType ==
  ASSUME RInv, NEW t \in Thread, NEW b \in Contacts[t], UserSend(t, b)
  PROVE  RTypeOK'
<1>1. b \in Agent
  BY RuntimeAssumption
<1>2. Request(t, NoId, To(b), {}) \in Message
  BY <1>1, Made DEF NoId
<1>3. Append(outbox[user], Request(t, NoId, To(b), {})) \in Seq(Message)
  BY <1>2, UserExists, Pushed DEF RInv, RTypeOK
<1>4. outbox' \in [Agent -> Seq(Message)]
  BY <1>3 DEF UserSend, RInv, RTypeOK
<1>5. uiPending' \in [Thread -> BOOLEAN] /\ requests' \in Nat
  BY DEF UserSend, RInv, RTypeOK
<1>. QED
  BY <1>4, <1>5 DEF UserSend, RInv, RTypeOK, fds

\* An adapter leaves a stack of entries and posts messages of the thread it serves.
LEMMA RoundType ==
  ASSUME RInv, NEW a \in Agent, inbox[a] # <<>>,
         Head(inbox[a]).reply => Expected(a, Head(inbox[a])),
         Serving(a, Head(inbox[a])) # <<>>
  PROVE  /\ Serving(a, Head(inbox[a])) \in Seq(Entry)
         /\ Last(Serving(a, Head(inbox[a]))) \in Entry
         /\ Front(Serving(a, Head(inbox[a]))) \in Seq(Entry)
         /\ Tail(inbox[a]) \in Seq(Delivery)
<1>1. inbox[a] \in Seq(Delivery)
  BY DEF RInv, RTypeOK
<1>2. Head(inbox[a]) \in Delivery /\ Tail(inbox[a]) \in Seq(Delivery)
  BY <1>1, FirstOf
<1>3. Serving(a, Head(inbox[a])) \in Seq(Entry)
  BY <1>2, ServingType DEF RInv
<1>. QED
  BY <1>2, <1>3, LastOf

LEMMA AdapterReplyType ==
  ASSUME RInv, NEW a \in Agent, AdapterReply(a)
  PROVE  RTypeOK'
<1>. DEFINE d == Head(inbox[a])
            s == Serving(a, d)
            e == Last(s)
<1>1. s \in Seq(Entry) /\ e \in Entry /\ Front(s) \in Seq(Entry) /\ Tail(inbox[a]) \in Seq(Delivery)
  BY RoundType DEF AdapterReply
<1>2. e.thread \in Thread /\ e.id \in Nat
  BY <1>1 DEF Entry
<1>3. Reply(e.thread, e.id, {}) \in Message
  BY <1>2, Made, UserExists
<1>4. outbox[a] \o Notes(a, e.thread) \o <<Reply(e.thread, e.id, {})>> \in Seq(Message)
  BY <1>2, <1>3, Sent DEF RInv, RTypeOK
<1>5. outbox' \in [Agent -> Seq(Message)]
  BY <1>4 DEF AdapterReply, RInv, RTypeOK
<1>6. service' \in [Agent -> Seq(Entry)]
  BY <1>1 DEF AdapterReply, RInv, RTypeOK
<1>7. inbox' \in [Agent -> Seq(Delivery)]
  BY <1>1 DEF AdapterReply, RInv, RTypeOK
<1>. QED
  BY <1>5, <1>6, <1>7 DEF AdapterReply, RInv, RTypeOK, fds, counters

LEMMA AdapterCallType ==
  ASSUME RInv, NEW a \in Agent, NEW b \in Peers[a], AdapterCall(a, b)
  PROVE  RTypeOK'
<1>. DEFINE d == Head(inbox[a])
            s == Serving(a, d)
            e == Last(s)
            out == [incoming |-> FALSE, thread |-> e.thread, id |-> NoId, peer |-> b]
<1>0. b \in Agent
  BY RuntimeAssumption
<1>1. s \in Seq(Entry) /\ e \in Entry /\ Tail(inbox[a]) \in Seq(Delivery)
  BY RoundType DEF AdapterCall
<1>2. e.thread \in Thread /\ e.id \in Nat
  BY <1>1 DEF Entry
<1>3. Request(e.thread, e.id, To(b), {}) \in Message
  BY <1>0, <1>2, Made
<1>4. outbox[a] \o Notes(a, e.thread) \o <<Request(e.thread, e.id, To(b), {})>> \in Seq(Message)
  BY <1>2, <1>3, Sent DEF RInv, RTypeOK
<1>5. outbox' \in [Agent -> Seq(Message)]
  BY <1>4 DEF AdapterCall, RInv, RTypeOK
<1>6. out \in Entry
  BY <1>0, <1>2 DEF Entry, NoId
<1>7. Append(s, out) \in Seq(Entry)
  BY <1>1, <1>6, Pushed
<1>8. service' \in [Agent -> Seq(Entry)]
  BY <1>7 DEF AdapterCall, RInv, RTypeOK
<1>9. inbox' \in [Agent -> Seq(Delivery)] /\ calls' \in Nat
  BY <1>1 DEF AdapterCall, RInv, RTypeOK
<1>. QED
  BY <1>5, <1>8, <1>9 DEF AdapterCall, RInv, RTypeOK, fds

LEMMA EndType ==
  ASSUME RInv, NEW a \in Agent, AdapterCheck(a) \/ Crash(a)
  PROVE  RTypeOK'
<1>1. Exit(a) /\ crashes' \in Nat
  BY DEF AdapterCheck, Crash, counters, RInv, RTypeOK
<1>2. UNCHANGED <<outbox, service, events, todos, uiPending, stopping, phase,
                  draining, requests, calls>>
  BY DEF AdapterCheck, Crash, counters
<1>. QED
  BY <1>1, <1>2, ExitType DEF RInv, RTypeOK

LEMMA PollType ==
  ASSUME RInv, Poll \/ PollCheck
  PROVE  RTypeOK'
<1>1. Ready \subseteq Agent \X {"open", "stale"}
  BY DEF Ready
<1>2. CASE Poll
  BY <1>1, <1>2 DEF Poll, RInv, RTypeOK, fds, counters
<1>3. CASE PollCheck
  BY <1>3 DEF PollCheck, RInv, RTypeOK, fds, counters, Failures
<1>. QED
  BY <1>2, <1>3

LEMMA ReceiveType ==
  ASSUME RInv, NEW e \in events, Receive(e)
  PROVE  RTypeOK'
<1>. DEFINE a == e[1]
<1>1. a \in Agent
  BY DEF RInv, RTypeOK
<1>2. Received(a) \in Seq(Todo) /\ Remaining(a) \in Seq(Message)
  BY <1>1, ReceivedType DEF RInv
<1>3. todos' \in Seq(Todo) /\ events' \subseteq Agent \X {"open", "stale"}
  BY <1>2 DEF Receive, RInv, RTypeOK
<1>4. outbox' \in [Agent -> Seq(Message)]
  BY <1>2 DEF Receive, RInv, RTypeOK
<1>5. /\ proc' \in [Agent -> {"none", "up", "dead"}]
      /\ heirs' \in [Agent -> SUBSET Agent] /\ stale' \in [Agent -> SUBSET Agent]
  <2>1. CASE outbox[a] = <<>>
    <3>1. heirs[a] \in SUBSET Agent /\ stale[a] \cup heirs[a] \in SUBSET Agent
      BY <1>1 DEF RInv, RTypeOK
    <3>2. /\ proc' = [proc EXCEPT ![a] = "none"]
          /\ stale' = [stale EXCEPT ![a] = stale[a] \cup heirs[a]]
          /\ heirs' = [heirs EXCEPT ![a] = {}]
      BY <2>1 DEF Receive
    <3>3. proc' \in [Agent -> {"none", "up", "dead"}]
      BY <3>2 DEF RInv, RTypeOK
    <3>4. stale' \in [Agent -> SUBSET Agent]
      BY <3>1, <3>2 DEF RInv, RTypeOK
    <3>5. heirs' \in [Agent -> SUBSET Agent]
      BY <3>2 DEF RInv, RTypeOK
    <3>. QED  BY <3>3, <3>4, <3>5
  <2>2. CASE outbox[a] # <<>>
    BY <2>2 DEF Receive, RInv, RTypeOK, fds
  <2>. QED  BY <2>1, <2>2
<1>. QED
  BY <1>3, <1>4, <1>5 DEF Receive, RInv, RTypeOK, counters

LEMMA ShutdownType ==
  ASSUME RInv, BeginShutdown \/ DrainReceive \/ DrainCheck \/ DrainNext
  PROVE  RTypeOK'
<1>1. CASE BeginShutdown
  BY <1>1 DEF BeginShutdown, drainvars, fds, counters, RInv, RTypeOK
<1>2. CASE DrainReceive
  <2>1. Draining \in Agent
    <3>1. draining \in 1 .. Len(AgentOrder)
      BY <1>2 DEF DrainReceive, InDrain
    <3>. QED  BY <3>1, RuntimeAssumption DEF Draining
  <2>2. Received(Draining) \in Seq(Todo) /\ Remaining(Draining) \in Seq(Message)
    BY <2>1, ReceivedType DEF RInv
  <2>3. outbox' \in [Agent -> Seq(Message)] /\ todos' \in Seq(Todo)
    BY <1>2, <2>2 DEF DrainReceive, RInv, RTypeOK
  <2>. QED  BY <1>2, <2>3 DEF DrainReceive, drainvars, fds, counters, RInv, RTypeOK
<1>3. CASE DrainCheck
  BY <1>3 DEF DrainCheck, drainvars, fds, counters, Failures, RInv, RTypeOK
<1>4. CASE DrainNext
  <2>1. inbox' \in [Agent -> Seq(Delivery)]
    <3>1. <<>> \in Seq(Delivery)
      OBVIOUS
    <3>. QED  BY <1>4, <3>1 DEF DrainNext, RInv, RTypeOK
  <2>2. proc' \in [Agent -> {"none", "up", "dead"}] /\ draining' \in Nat
    <3>1. proc' = proc \/ proc' = [proc EXCEPT ![Draining] = "none"]
      BY <1>4 DEF DrainNext
    <3>2. draining' = draining \/ draining' = draining + 1
      BY <1>4 DEF DrainNext
    <3>3. proc' \in [Agent -> {"none", "up", "dead"}]
      BY <3>1 DEF RInv, RTypeOK
    <3>4. draining' \in Nat
      BY <3>2 DEF RInv, RTypeOK
    <3>. QED  BY <3>3, <3>4
  <2>3. phase' \in {"run", "drain", "stopped", "returned"} \cup Failures
    BY <1>4 DEF DrainNext, RInv, RTypeOK, Failures
  <2>. QED  BY <1>4, <2>1, <2>2, <2>3 DEF DrainNext, drainvars, fds, counters, RInv, RTypeOK
<1>. QED
  BY <1>1, <1>2, <1>3, <1>4

-----------------------------------------------------------------------------
(* The theorems *)

LEMMA RInvInit ==
  ASSUME RInit
  PROVE  RInv
<1>1. <<>> \in Seq(Delivery) /\ <<>> \in Seq(Message) /\ <<>> \in Seq(Entry) /\ <<>> \in Seq(Todo)
  OBVIOUS
<1>2. RTypeOK
  BY <1>1 DEF RInit, RTypeOK
<1>3. user \in agents
  BY ArenaAssumption DEF RInit, Init, Founders
<1>. QED
  BY <1>2, <1>3, IInvInit DEF RInit, RInv

LEMMA RInvStep ==
  ASSUME RInv, RNext
  PROVE  RInv'
<1>1. RTypeOK'
  <2>1. ASSUME NEW a \in Adapters, Adapter(a) \/ Crash(a)
        PROVE  RTypeOK'
    <3>1. a \in Agent
      BY DEF Adapters
    <3>2. CASE AdapterReply(a)
      BY <3>1, <3>2, AdapterReplyType
    <3>3. CASE AdapterCheck(a) \/ Crash(a)
      BY <3>1, <3>3, EndType
    <3>4. ASSUME NEW b \in Peers[a], AdapterCall(a, b)  PROVE RTypeOK'
      BY <3>1, <3>4, AdapterCallType
    <3>. QED  BY <2>1, <3>2, <3>3, <3>4 DEF Adapter
  <2>2. CASE Loop
    BY <2>2, PollType, ReceiveType, ProcessType, ShutdownType DEF Loop
  <2>. QED  BY <2>1, <2>2, UserSendType DEF RNext
<1>2. IInv' /\ user \in agents'
  <2>1. CASE Next
    BY <2>1, IInvStep, AgentsStay DEF RInv, IInv
  <2>2. CASE UNCHANGED vars
    BY <2>2, IInvStutter DEF RInv, vars
  <2>. QED  BY <2>1, <2>2, ProgramStep
<1>. QED
  BY <1>1, <1>2 DEF RInv

LEMMA RInvStutter ==
  ASSUME RInv, UNCHANGED rvars
  PROVE  RInv'
<1>1. RTypeOK'
  BY DEF RInv, RTypeOK, rvars, fds, counters
<1>2. UNCHANGED vars
  BY DEF rvars, program
<1>. QED
  BY <1>1, <1>2, IInvStutter DEF RInv, vars

THEOREM RuntimeInvariant == RSpec => []RInv
<1>1. RInv /\ [RNext]_rvars => RInv'
  BY RInvStep, RInvStutter
<1>. QED
  BY RInvInit, <1>1, PTL DEF RSpec

\* Queues, stacks and drivers keep their types for any arena, and any number of
\* requests, calls and crashes.
THEOREM RuntimeTypeCorrect == RSpec => []RTypeOK
<1>1. RInv => RTypeOK
  BY DEF RInv
<1>. QED
  BY RuntimeInvariant, <1>1, PTL

\* Whatever crashes and however the loop interleaves with the processes, the
\* system's steps are steps of the routing core.
THEOREM RuntimeImplementsProgram == RSpec => ProgramSpec
<1>1. RInit => Init
  BY DEF RInit
<1>2. RInv /\ [RNext]_rvars => [Next]_vars
  <2>1. ASSUME UNCHANGED rvars  PROVE UNCHANGED vars
    BY <2>1 DEF rvars, program
  <2>. QED  BY <2>1, ProgramStep
<1>. QED
  BY RuntimeInvariant, <1>1, <1>2, PTL DEF RSpec, ProgramSpec, Spec

-----------------------------------------------------------------------------
(* Nobody writes on a thread out of its scope                                 *)

\* What concerns threads agent a may write on.
In(a) == {d \in Delivery : MayPost(a, d.thread)}
Out(a) == {m \in Message : MayPost(a, m.thread)}
Served(a) == {e \in Entry : MayPost(a, e.thread)}
Acceptable == {w \in Todo : ~w.died => MayPost(w.agent, w.msg.thread)}

\* The strengthening of SendersMayWrite: an adapter is only sent messages of
\* threads in its scope, and writes on no others.
Scoped ==
  /\ RInv
  /\ home[user] = Global
  /\ \A a \in Agent : /\ inbox[a] \in Seq(In(a))
                      /\ outbox[a] \in Seq(Out(a))
                      /\ service[a] \in Seq(Served(a))
  /\ todos \in Seq(Acceptable)

LEMMA ScopeStays ==
  ASSUME RInv, RNext \/ UNCHANGED rvars, NEW a, NEW t, MayPost(a, t)
  PROVE  MayPost(a, t)'
<1>1. Next \/ UNCHANGED vars
  BY ProgramStep DEF rvars, program
<1>2. CASE Next
  BY <1>2, AgentsStay DEF MayPost, HomeOf, RInv, IInv
<1>3. CASE UNCHANGED vars
  BY <1>3 DEF vars, MayPost, HomeOf
<1>. QED
  BY <1>1, <1>2, <1>3

\* The queues keep what was in scope.
LEMMA QueuesStay ==
  ASSUME Scoped, RNext \/ UNCHANGED rvars
  PROVE  /\ \A a \in Agent : /\ In(a) \subseteq In(a)'
                             /\ Out(a) \subseteq Out(a)'
                             /\ Served(a) \subseteq Served(a)'
                             /\ inbox[a] \in Seq(In(a)')
                             /\ outbox[a] \in Seq(Out(a)')
                             /\ service[a] \in Seq(Served(a)')
         /\ Acceptable \subseteq Acceptable'
         /\ todos \in Seq(Acceptable')
         /\ home'[user] = Global
<1>1. ASSUME NEW a \in Agent
      PROVE  In(a) \subseteq In(a)' /\ Out(a) \subseteq Out(a)' /\ Served(a) \subseteq Served(a)'
  BY ScopeStays DEF In, Out, Served, Scoped
<1>2. Acceptable \subseteq Acceptable'
  BY ScopeStays DEF Acceptable, Scoped
<1>3. ASSUME NEW a \in Agent
      PROVE  /\ inbox[a] \in Seq(In(a)') /\ outbox[a] \in Seq(Out(a)')
             /\ service[a] \in Seq(Served(a)')
  BY <1>1, SeqMonotonic DEF Scoped
<1>4. todos \in Seq(Acceptable')
  BY <1>2, SeqMonotonic DEF Scoped
<1>5. home'[user] = Global
  <2>1. Next \/ UNCHANGED vars
    BY ProgramStep DEF rvars, program, Scoped
  <2>2. CASE Next
    BY <2>2, AgentsStay DEF Scoped, RInv, IInv
  <2>. QED  BY <2>1, <2>2 DEF Scoped, vars
<1>. QED
  BY <1>1, <1>2, <1>3, <1>4, <1>5

\* A hand-over gives the thread to an agent in its scope.
LEMMA CallerInScope ==
  ASSUME Scoped, NEW t \in Thread, NEW i \in 1 .. Len(stack[t])
  PROVE  MayPost(stack[t][i].from, t) /\ MayPost(stack[t][i].to, t)
<1>1. stack[t] \in Seq(Frame)
  BY DEF Scoped, RInv, IInv, TypeOK
<1>2. \A j \in 1 .. Len(stack[t]) : MayPost(stack[t][j].to, t)
  BY DEF Scoped, RInv, IInv, HolderInScope, MayPost
<1>3. MayPost(user, t)
  BY DEF Scoped, RInv, MayPost
<1>4. CASE i = 1
  BY <1>2, <1>3, <1>4 DEF Scoped, RInv, IInv, CallChain
<1>5. CASE i # 1
  <2>1. i - 1 \in 1 .. Len(stack[t])
    BY <1>1, <1>5
  <2>2. stack[t][i].from = stack[t][i - 1].to
    BY <1>5 DEF Scoped, RInv, IInv, CallChain
  <2>. QED  BY <1>2, <2>1, <2>2
<1>. QED
  BY <1>4, <1>5

LEMMA RewoundInScope ==
  ASSUME Scoped, NEW t \in Thread, NEW a, MayPost(a, t), NEW b, ApplyRewind(t, a, b)
  PROVE  MayPost(b, t)
<1>1. PICK d \in 0 .. Len(stack[t]) : b = RewindTarget(t, a, d)
  BY DEF ApplyRewind
<1>2. CASE d = Len(stack[t])
  BY <1>1, <1>2 DEF RewindTarget
<1>3. CASE d # Len(stack[t])
  <2>1. stack[t] \in Seq(Frame)
    BY DEF Scoped, RInv, IInv, TypeOK
  <2>2. d + 1 \in 1 .. Len(stack[t])
    BY <1>3, <2>1
  <2>. QED  BY <1>1, <1>3, <2>2, CallerInScope DEF RewindTarget
<1>. QED
  BY <1>2, <1>3

LEMMA HolderMayPost ==
  ASSUME Scoped, NEW t \in Thread
  PROVE  MayPost(Holder(t), t)
<1>1. CASE stack[t] = <<>>
  BY <1>1 DEF Holder, MayPost, Scoped, RInv
<1>2. CASE stack[t] # <<>>
  <2>1. Len(stack[t]) \in 1 .. Len(stack[t])
    BY <1>2, TopType DEF Scoped, RInv, IInv
  <2>. QED  BY <1>2, <2>1, CallerInScope DEF Holder, Top
<1>. QED
  BY <1>1, <1>2

LEMMA RoutedInScope ==
  ASSUME Scoped, RNext, NEW a \in Agent, NEW b \in Agent, NEW m \in Message, Route(a, m, b)
  PROVE  MayPost(b, m.thread)'
<1>. DEFINE t == m.thread
<1>0. t \in Thread
  BY DEF Message
<1>1. CASE Return(a, m, b)
  <2>1. stack[t] # <<>> /\ b = Top(t).from
    BY <1>1 DEF Return, IsReturn, TopIs, ApplyReturn
  <2>2. Len(stack[t]) \in 1 .. Len(stack[t])
    BY <1>0, <2>1, TopType DEF Scoped, RInv, IInv
  <2>3. MayPost(b, t)
    BY <1>0, <2>1, <2>2, CallerInScope DEF Top
  <2>. QED  BY <2>3, ScopeStays DEF Scoped
<1>2. CASE Call(a, m, b)
  <2>1. MayPost(b, t)
    BY <1>2 DEF Call, IsCall, Resolves, Visible, MayPost
  <2>. QED  BY <2>1, ScopeStays DEF Scoped
<1>3. CASE CallClone(a, m, b)
  <2>1. ApplyCreate({b}, HomeOf(t), [c \in {b} |-> flags[m.to.agent] \ {"CLONE"}])
    BY <1>3 DEF CallClone
  <2>2. b \in agents' /\ home'[b] = HomeOf(t)
    BY <2>1 DEF ApplyCreate
  <2>. QED  BY <2>2 DEF MayPost, HomeOf
<1>4. CASE Reject(a, m, b)
  <2>1. MayPost(b, t)
    BY <1>0, <1>4, RewoundInScope, HolderMayPost DEF Reject
  <2>. QED  BY <2>1, ScopeStays DEF Scoped
<1>. QED
  BY <1>1, <1>2, <1>3, <1>4 DEF Route

LEMMA DeathInScope ==
  ASSUME Scoped, RNext, NEW a \in Agent, NEW b \in Agent, Died(a, b)
  PROVE  /\ HomeThread(a) \in Thread
         /\ \A t \in Thread : t = HomeThread(a) => MayPost(b, t)'
<1>1. a \in agents /\ home[a] \in Home /\ ApplyRewind(HomeThread(a), a, b)
  BY DEF Died, Scoped, RInv, IInv, TypeOK
<1>2. HomeThread(a) \in Thread /\ MayPost(a, HomeThread(a))
  BY <1>1, ArenaAssumption DEF HomeThread, MayPost, HomeOf, Home
<1>3. MayPost(b, HomeThread(a))
  BY <1>1, <1>2, RewoundInScope
<1>. QED
  BY <1>2, <1>3, ScopeStays DEF Scoped

LEMMA InitScoped ==
  ASSUME RInit
  PROVE  Scoped
<1>1. \A S : <<>> \in Seq(S)
  OBVIOUS
<1>2. home[user] = Global
  BY ArenaAssumption, UserExists DEF RInit, Init, Founders
<1>. QED
  BY <1>1, <1>2, RInvInit DEF RInit, Scoped

LEMMA DeliverScoped ==
  ASSUME Scoped, RNext, NEW b \in Agent, NEW d \in Delivery, MayPost(b, d.thread)',
         Deliver(b, d)
  PROVE  \A a \in Agent : /\ inbox'[a] \in Seq(In(a)')
                          /\ outbox'[a] \in Seq(Out(a)')
                          /\ service'[a] \in Seq(Served(a)')
<1>0. /\ inbox \in [Agent -> Seq(Delivery)] /\ outbox \in [Agent -> Seq(Message)]
      /\ service \in [Agent -> Seq(Entry)]
  BY DEF Scoped, RInv, RTypeOK
<1>1. d \in In(b)' /\ <<d>> \in Seq(In(b)') /\ Append(inbox[b], d) \in Seq(In(b)')
  <2>1. d \in In(b)'
    BY DEF In
  <2>2. inbox[b] \in Seq(In(b)')
    BY QueuesStay
  <2>. QED  BY <2>1, <2>2, Pushed
<1>2. ASSUME NEW a \in Agent  PROVE inbox'[a] \in Seq(In(a)')
  <2>1. \/ inbox' = inbox
        \/ inbox' = [inbox EXCEPT ![b] = <<d>>]
        \/ inbox' = [inbox EXCEPT ![b] = Append(@, d)]
    BY DEF Deliver, ToUser, ToRuntime, Start, FailToStart, GiveUp, Send
  <2>2. inbox[a] \in Seq(In(a)')
    BY QueuesStay
  <2>. QED  BY <1>0, <1>1, <2>1, <2>2
<1>3. ASSUME NEW a \in Agent  PROVE service'[a] \in Seq(Served(a)')
  <2>1. service' = service \/ service' = [service EXCEPT ![b] = <<>>]
    BY DEF Deliver, ToUser, ToRuntime, Start, FailToStart, GiveUp, Send
  <2>2. service[a] \in Seq(Served(a)') /\ <<>> \in Seq(Served(a)')
    BY QueuesStay
  <2>. QED  BY <1>0, <2>1, <2>2
<1>4. ASSUME NEW a \in Agent  PROVE outbox'[a] \in Seq(Out(a)')
  <2>0. outbox[a] \in Seq(Out(a)')
    BY QueuesStay
  <2>1. CASE outbox' = outbox
    BY <2>0, <2>1
  <2>2. CASE b = runtime /\ ToRuntime(d)
    <3>1. Reply(d.thread, d.id, {}) \in Message /\ Reply(d.thread, d.id, {}).thread = d.thread
      BY Made, UserExists DEF Delivery, Reply
    <3>2. Reply(d.thread, d.id, {}) \in Out(runtime)'
      BY <2>2, <3>1 DEF Out
    <3>3. CASE a = runtime
      <4>1. outbox'[a] = Append(outbox[a], Reply(d.thread, d.id, {}))
        BY <1>0, <2>2, <3>3 DEF ToRuntime
      <4>. QED  BY <2>0, <3>2, <3>3, <4>1, Pushed
    <3>4. CASE a # runtime
      <4>1. outbox'[a] = outbox[a]
        BY <1>0, <2>2, <3>4 DEF ToRuntime
      <4>. QED  BY <2>0, <4>1
    <3>. QED  BY <3>3, <3>4
  <2>. QED  BY <2>1, <2>2 DEF Deliver, ToUser, Start, FailToStart, GiveUp, Send
<1>. QED
  BY <1>2, <1>3, <1>4

LEMMA ProcessScoped ==
  ASSUME Scoped, RNext, Process
  PROVE  /\ \A a \in Agent : /\ inbox'[a] \in Seq(In(a)')
                             /\ outbox'[a] \in Seq(Out(a)')
                             /\ service'[a] \in Seq(Served(a)')
         /\ todos' \in Seq(Acceptable')
<1>1. /\ todos # <<>> /\ todos' = Tail(todos) /\ Next1.agent \in Agent /\ Next1.msg \in Message
  <2>1. NextTodo
    BY DEF Process, ProcessNote, ProcessRouted, ProcessDeath, ProcessCommand
  <2>. QED  BY <2>1, TodoType DEF NextTodo, Scoped, RInv
<1>2. todos' \in Seq(Acceptable')
  BY <1>1, QueuesStay, FirstOf
<1>3. lastId \in Nat /\ lastId' \in Nat
  <2>1. TypeOK /\ TypeOK'
    BY ProcessIsNext, TypeStep DEF Scoped, RInv, IInv
  <2>. QED  BY <2>1 DEF TypeOK
<1>. DEFINE Kept == \A a \in Agent : /\ inbox'[a] \in Seq(In(a)')
                                     /\ outbox'[a] \in Seq(Out(a)')
                                     /\ service'[a] \in Seq(Served(a)')
<1>4. ASSUME Undelivered  PROVE Kept
  <2>1. inbox' = inbox /\ outbox' = outbox /\ service' = service
    BY <1>4 DEF Undelivered
  <2>2. ASSUME NEW a \in Agent
        PROVE  /\ inbox'[a] \in Seq(In(a)') /\ outbox'[a] \in Seq(Out(a)')
               /\ service'[a] \in Seq(Served(a)')
    <3>1. /\ inbox[a] \in Seq(In(a)') /\ outbox[a] \in Seq(Out(a)')
          /\ service[a] \in Seq(Served(a)')
      BY QueuesStay
    <3>. QED  BY <2>1, <3>1
  <2>. QED  BY <2>2
<1>5. ASSUME ProcessNote  PROVE Kept
  BY <1>4, <1>5 DEF ProcessNote
<1>. PICK a \in Agent, m \in Message : Next1.agent = a /\ Next1.msg = m
  BY <1>1
<1>6. ASSUME NEW b \in Agent, ProcessRouted(b)
      PROVE  Kept
  <2>1. CASE Undelivered
    BY <1>4, <2>1
  <2>2. CASE Deliver(b, Delivered(a, m, lastId'))
    <3>1. PICK d \in Delivery : d = Delivered(a, m, lastId')
      BY <1>3, DeliveredType
    <3>2. d.thread = m.thread
      BY <3>1 DEF Delivered
    <3>3. MayPost(b, d.thread)'
      BY <1>6, <3>2, RoutedInScope DEF ProcessRouted
    <3>. QED  BY <2>2, <3>1, <3>3, DeliverScoped
  <2>. QED  BY <1>6, <2>1, <2>2 DEF ProcessRouted
<1>7. ASSUME NEW b \in Agent, ProcessDeath(b)
      PROVE  Kept
  <2>1. HomeThread(a) \in Thread /\ Died(a, b)
    BY <1>7, DeathInScope DEF ProcessDeath
  <2>2. PICK t \in Thread : t = HomeThread(a)
    BY <2>1
  <2>3. MayPost(b, t)'
    BY <2>1, <2>2, DeathInScope
  <2>4. [thread |-> t, id |-> lastId', from |-> Nobody, reply |-> FALSE] \in Delivery
    BY <1>3 DEF Delivery
  <2>5. PICK d \in Delivery :
          d = [thread |-> t, id |-> lastId', from |-> Nobody, reply |-> FALSE]
    BY <2>4
  <2>6. Deliver(b, d)
    BY <1>7, <2>2, <2>5 DEF ProcessDeath
  <2>7. d.thread = t
    BY <2>5
  <2>. QED  BY <2>3, <2>6, <2>7, DeliverScoped
<1>8. ASSUME NEW new \in SUBSET (Agent \ agents), NEW f \in [new -> SUBSET Flag],
             ProcessCommand(new, f)
      PROVE  Kept
  <2>1. CASE Undelivered
    BY <1>4, <2>1
  <2>2. CASE Deliver(runtime, Delivered(a, m, lastId + 1))
    <3>1. PICK d \in Delivery : d = Delivered(a, m, lastId + 1)
      BY <1>3, DeliveredType
    <3>2. d.thread = m.thread
      BY <3>1 DEF Delivered
    <3>3. MayPost(runtime, m.thread)
      BY <1>8 DEF ProcessCommand, Command, CallRuntime, IsCall, Resolves, Visible, MayPost
    <3>4. MayPost(runtime, d.thread)'
      BY <3>2, <3>3, ScopeStays DEF Scoped
    <3>. QED  BY <2>2, <3>1, <3>4, DeliverScoped, UserExists
  <2>. QED  BY <1>8, <2>1, <2>2 DEF ProcessCommand
<1>9. Kept
  BY <1>5, <1>6, <1>7, <1>8 DEF Process
<1>. QED
  BY <1>2, <1>9

\* The steps that leave the program alone leave the scopes alone.
LEMMA RoundScoped ==
  ASSUME Scoped, RNext, NEW a \in Agent, inbox[a] # <<>>,
         Head(inbox[a]).reply => Expected(a, Head(inbox[a])),
         Serving(a, Head(inbox[a])) # <<>>
  PROVE  /\ Serving(a, Head(inbox[a])) \in Seq(Served(a)')
         /\ Last(Serving(a, Head(inbox[a]))) \in Served(a)'
         /\ Front(Serving(a, Head(inbox[a]))) \in Seq(Served(a)')
         /\ Tail(inbox[a]) \in Seq(In(a)')
<1>. DEFINE d == Head(inbox[a])
<1>1. d \in In(a)' /\ Tail(inbox[a]) \in Seq(In(a)') /\ service[a] \in Seq(Served(a)')
  BY QueuesStay, FirstOf
<1>2. Serving(a, d) \in Seq(Served(a)')
  <2>1. CASE d.reply
    BY <1>1, <2>1, LastOf DEF Serving, Expected
  <2>2. CASE ~d.reply
    <3>1. [incoming |-> TRUE, thread |-> d.thread, id |-> d.id, peer |-> d.from] \in Served(a)'
      BY <1>1 DEF In, Served, Entry, Delivery, MayPost
    <3>. QED  BY <1>1, <2>2, <3>1, Pushed DEF Serving
  <2>. QED  BY <2>1, <2>2
<1>. QED
  BY <1>1, <1>2, LastOf

\* The queue of an adapter that posts m of a thread it may write on.
LEMMA SentScoped ==
  ASSUME Scoped, RNext, NEW a \in Agent, NEW t \in Thread, MayPost(a, t)',
         NEW m \in Message, m.thread = t
  PROVE  outbox[a] \o Notes(a, t) \o <<m>> \in Seq(Out(a)')
<1>1. outbox[a] \in Seq(Out(a)') /\ m \in Out(a)'
  BY QueuesStay DEF Out
<1>2. DataMessage(t) \in Out(a)'
  <2>1. DataMessage(t) \in Message /\ DataMessage(t).thread = t
    BY Made, UserExists DEF DataMessage
  <2>. QED  BY <2>1 DEF Out
<1>3. Notes(a, t) \in Seq(Out(a)')
  BY <1>2 DEF Notes
<1>4. outbox[a] \o Notes(a, t) \in Seq(Out(a)')
  BY <1>1, <1>3
<1>. QED
  BY <1>1, <1>4

LEMMA AdapterScoped ==
  ASSUME Scoped, RNext, NEW a \in Agent,
         AdapterReply(a) \/ \E b \in Peers[a] : AdapterCall(a, b)
  PROVE  /\ inbox' = [inbox EXCEPT ![a] = Tail(@)]
         /\ \E q \in Seq(Out(a)') : outbox' = [outbox EXCEPT ![a] = q]
         /\ \E q \in Seq(Served(a)') : service' = [service EXCEPT ![a] = q]
         /\ Tail(inbox[a]) \in Seq(In(a)')
         /\ todos' = todos
<1>. DEFINE s == Serving(a, Head(inbox[a]))
<1>1. /\ s \in Seq(Served(a)') /\ Last(s) \in Served(a)' /\ Front(s) \in Seq(Served(a)')
      /\ Tail(inbox[a]) \in Seq(In(a)')
  BY RoundScoped DEF AdapterReply, AdapterCall
<1>. PICK t \in Thread, id \in Nat : t = Last(s).thread /\ id = Last(s).id
  BY <1>1 DEF Served, Entry
<1>2. MayPost(a, t)'
  BY <1>1 DEF Served
<1>3. CASE AdapterReply(a)
  <2>1. Reply(t, id, {}) \in Message /\ Reply(t, id, {}).thread = t
    BY Made, UserExists DEF Reply
  <2>2. outbox[a] \o Notes(a, t) \o <<Reply(t, id, {})>> \in Seq(Out(a)')
    BY <1>2, <2>1, SentScoped
  <2>3. /\ outbox' = [outbox EXCEPT ![a] = outbox[a] \o Notes(a, t) \o <<Reply(t, id, {})>>]
        /\ service' = [service EXCEPT ![a] = Front(s)]
        /\ inbox' = [inbox EXCEPT ![a] = Tail(@)] /\ todos' = todos
    BY <1>3 DEF AdapterReply
  <2>. QED  BY <1>1, <2>2, <2>3
<1>4. ASSUME NEW b \in Peers[a], AdapterCall(a, b)
      PROVE  /\ inbox' = [inbox EXCEPT ![a] = Tail(@)]
             /\ \E q \in Seq(Out(a)') : outbox' = [outbox EXCEPT ![a] = q]
             /\ \E q \in Seq(Served(a)') : service' = [service EXCEPT ![a] = q]
             /\ todos' = todos
  <2>. DEFINE out == [incoming |-> FALSE, thread |-> t, id |-> NoId, peer |-> b]
  <2>0. b \in Agent
    BY RuntimeAssumption
  <2>1. Request(t, id, To(b), {}) \in Message /\ Request(t, id, To(b), {}).thread = t
    BY <2>0, Made DEF Request
  <2>2. outbox[a] \o Notes(a, t) \o <<Request(t, id, To(b), {})>> \in Seq(Out(a)')
    BY <1>2, <2>1, SentScoped
  <2>3. out \in Served(a)'
    <3>1. out \in Entry /\ out.thread = t
      BY <2>0 DEF Entry, NoId
    <3>. QED  BY <1>2, <3>1 DEF Served
  <2>4. Append(s, out) \in Seq(Served(a)')
    BY <1>1, <2>3, Pushed
  <2>5. /\ outbox' = [outbox EXCEPT ![a] =
                        outbox[a] \o Notes(a, t) \o <<Request(t, id, To(b), {})>>]
        /\ service' = [service EXCEPT ![a] = Append(s, out)]
        /\ inbox' = [inbox EXCEPT ![a] = Tail(@)] /\ todos' = todos
    BY <1>4 DEF AdapterCall
  <2>. QED  BY <2>2, <2>4, <2>5
<1>. QED
  BY <1>1, <1>3, <1>4

LEMMA ReceivedScoped ==
  ASSUME Scoped, RNext, NEW a \in Agent
  PROVE  Received(a) \in Seq(Acceptable') /\ Remaining(a) \in Seq(Out(a)')
<1>1. outbox[a] \in Seq(Out(a)')
  BY QueuesStay
<1>2. Remaining(a) \in Seq(Out(a)')
  BY <1>1 DEF Remaining
<1>3. ASSUME NEW m \in Out(a)'
      PROVE  [agent |-> a, msg |-> m, died |-> FALSE] \in Acceptable'
  BY <1>3 DEF Out, Acceptable, Todo, MayPost, HomeOf
<1>4. [agent |-> a, msg |-> DataMessage(MainThread), died |-> TRUE] \in Acceptable'
  BY Made, UserExists DEF Acceptable, Todo
<1>5. CASE a \in Loops
  <2>1. Received(a) = [i \in 1 .. Len(outbox[a]) |->
                         [agent |-> a, msg |-> outbox[a][i], died |-> FALSE]]
    BY <1>5 DEF Received
  <2>2. Len(outbox[a]) \in Nat /\ \A i \in 1 .. Len(outbox[a]) : outbox[a][i] \in Out(a)'
    BY <1>1
  <2>. QED  BY <1>2, <1>3, <2>1, <2>2
<1>6. CASE a \notin Loops /\ outbox[a] # <<>>
  <2>1. Head(outbox[a]) \in Out(a)'
    BY <1>1, <1>6, FirstOf
  <2>. QED  BY <1>2, <1>3, <1>6, <2>1 DEF Received
<1>7. CASE a \notin Loops /\ outbox[a] = <<>>
  BY <1>2, <1>4, <1>7 DEF Received
<1>. QED
  BY <1>5, <1>6, <1>7

\* What a step leaves in the queues.
QueuesScoped ==
  /\ \A a \in Agent : /\ inbox[a] \in Seq(In(a))
                      /\ outbox[a] \in Seq(Out(a))
                      /\ service[a] \in Seq(Served(a))
  /\ todos \in Seq(Acceptable)

LEMMA QueuesStep ==
  ASSUME Scoped, RNext
  PROVE  QueuesScoped'
<1>0. /\ inbox \in [Agent -> Seq(Delivery)] /\ outbox \in [Agent -> Seq(Message)]
      /\ service \in [Agent -> Seq(Entry)]
  BY DEF Scoped, RInv, RTypeOK
<1>1. /\ \A c \in Agent : /\ inbox[c] \in Seq(In(c)') /\ outbox[c] \in Seq(Out(c)')
                          /\ service[c] \in Seq(Served(c)')
      /\ todos \in Seq(Acceptable')
  BY QueuesStay
<1>2. CASE UNCHANGED <<inbox, outbox, service, todos>>
  BY <1>1, <1>2 DEF QueuesScoped
<1>3. ASSUME NEW t \in Thread, NEW b \in Contacts[t], UserSend(t, b)
      PROVE  QueuesScoped'
  <2>1. b \in Agent
    BY RuntimeAssumption
  <2>2. Request(t, NoId, To(b), {}) \in Message /\ Request(t, NoId, To(b), {}).thread = t
    BY <2>1, Made DEF Request, NoId
  <2>3. MayPost(user, t)'
    <3>1. MayPost(user, t)
      BY DEF Scoped, RInv, MayPost
    <3>. QED  BY <3>1, ScopeStays DEF Scoped
  <2>4. Request(t, NoId, To(b), {}) \in Out(user)'
    BY <2>2, <2>3 DEF Out
  <2>5. Append(outbox[user], Request(t, NoId, To(b), {})) \in Seq(Out(user)')
    BY <1>1, <2>4, Pushed, UserExists
  <2>6. /\ outbox' = [outbox EXCEPT ![user] = Append(@, Request(t, NoId, To(b), {}))]
        /\ UNCHANGED <<inbox, service, todos>>
    BY <1>3 DEF UserSend
  <2>7. ASSUME NEW c \in Agent  PROVE outbox'[c] \in Seq(Out(c)')
    BY <1>0, <1>1, <2>5, <2>6
  <2>. QED  BY <1>1, <2>6, <2>7 DEF QueuesScoped
<1>4. ASSUME NEW a \in Agent, AdapterReply(a) \/ \E b \in Peers[a] : AdapterCall(a, b)
      PROVE  QueuesScoped'
  <2>1. /\ inbox' = [inbox EXCEPT ![a] = Tail(@)] /\ Tail(inbox[a]) \in Seq(In(a)')
        /\ todos' = todos
    BY <1>4, AdapterScoped
  <2>2. PICK q \in Seq(Out(a)') : outbox' = [outbox EXCEPT ![a] = q]
    BY <1>4, AdapterScoped
  <2>3. PICK s \in Seq(Served(a)') : service' = [service EXCEPT ![a] = s]
    BY <1>4, AdapterScoped
  <2>4. ASSUME NEW c \in Agent
        PROVE  /\ inbox'[c] \in Seq(In(c)') /\ outbox'[c] \in Seq(Out(c)')
               /\ service'[c] \in Seq(Served(c)')
    BY <1>0, <1>1, <2>1, <2>2, <2>3
  <2>. QED  BY <1>1, <2>1, <2>4 DEF QueuesScoped
<1>5. ASSUME NEW a \in Agent, AdapterCheck(a) \/ Crash(a)
      PROVE  QueuesScoped'
  <2>1. inbox' = [inbox EXCEPT ![a] = <<>>] /\ UNCHANGED <<outbox, service, todos>>
    BY <1>5 DEF AdapterCheck, Crash, Exit
  <2>2. ASSUME NEW c \in Agent  PROVE inbox'[c] \in Seq(In(c)')
    <3>1. inbox[c] \in Seq(In(c)') /\ <<>> \in Seq(In(c)')
      BY <1>1
    <3>. QED  BY <1>0, <2>1, <3>1
  <2>. QED  BY <1>1, <2>1, <2>2 DEF QueuesScoped
<1>6. ASSUME NEW e \in events, Receive(e)
      PROVE  QueuesScoped'
  <2>. DEFINE a == e[1]
  <2>0. PICK b \in Agent : b = a
    BY DEF Scoped, RInv, RTypeOK
  <2>1. Received(b) \in Seq(Acceptable') /\ Remaining(b) \in Seq(Out(b)')
    BY ReceivedScoped
  <2>2. /\ todos' = todos \o Received(b) /\ outbox' = [outbox EXCEPT ![b] = Remaining(b)]
        /\ UNCHANGED <<inbox, service>>
    BY <1>6, <2>0 DEF Receive
  <2>3. todos' \in Seq(Acceptable')
    BY <1>1, <2>1, <2>2
  <2>4. ASSUME NEW c \in Agent  PROVE outbox'[c] \in Seq(Out(c)')
    BY <1>0, <1>1, <2>1, <2>2
  <2>. QED  BY <1>1, <2>2, <2>3, <2>4 DEF QueuesScoped
<1>7. CASE Process
  BY <1>7, ProcessScoped DEF QueuesScoped
<1>8. CASE DrainReceive
  <2>1. PICK b \in Agent : b = Draining
    <3>1. draining \in 1 .. Len(AgentOrder)
      BY <1>8 DEF DrainReceive, InDrain
    <3>. QED  BY <3>1, RuntimeAssumption DEF Draining
  <2>2. Received(b) \in Seq(Acceptable') /\ Remaining(b) \in Seq(Out(b)')
    BY ReceivedScoped
  <2>3. /\ todos' = Received(b) /\ outbox' = [outbox EXCEPT ![b] = Remaining(b)]
        /\ UNCHANGED <<inbox, service>>
    BY <1>8, <2>1 DEF DrainReceive, drainvars
  <2>4. ASSUME NEW c \in Agent  PROVE outbox'[c] \in Seq(Out(c)')
    BY <1>0, <1>1, <2>2, <2>3
  <2>. QED  BY <1>1, <2>2, <2>3, <2>4 DEF QueuesScoped
<1>9. CASE DrainNext
  <2>1. /\ inbox' = inbox \/ inbox' = [inbox EXCEPT ![Draining] = <<>>]
        /\ UNCHANGED <<outbox, service, todos>>
    BY <1>9 DEF DrainNext, drainvars
  <2>2. ASSUME NEW c \in Agent  PROVE inbox'[c] \in Seq(In(c)')
    <3>1. inbox[c] \in Seq(In(c)') /\ <<>> \in Seq(In(c)')
      BY <1>1
    <3>. QED  BY <1>0, <2>1, <3>1
  <2>. QED  BY <1>1, <2>1, <2>2 DEF QueuesScoped
<1>10. CASE Poll \/ PollCheck \/ BeginShutdown \/ DrainCheck
  BY <1>2, <1>10 DEF Poll, PollCheck, BeginShutdown, DrainCheck, drainvars
<1>11. ASSUME NEW a \in Adapters, Adapter(a) \/ Crash(a)
       PROVE  QueuesScoped'
  BY <1>4, <1>5, <1>11 DEF Adapter, Adapters
<1>. QED
  BY <1>3, <1>6, <1>7, <1>8, <1>9, <1>10, <1>11 DEF RNext, Loop

\* Whatever crashes, the runtime never receives a message of a thread its
\* sender may not write on, the case in which preprocess ends the program.
THEOREM SendersMayWriteCorrect == RSpec => []SendersMayWrite
<1>1. Scoped /\ [RNext]_rvars => Scoped'
  <2>1. ASSUME Scoped, RNext  PROVE Scoped'
    BY <2>1, RInvStep, QueuesStep, QueuesStay DEF Scoped, QueuesScoped
  <2>2. ASSUME Scoped, UNCHANGED rvars  PROVE Scoped'
    <3>1. UNCHANGED <<inbox, outbox, service, todos>> /\ home' = home
      BY <2>2 DEF rvars, program, vars
    <3>. QED  BY <2>2, <3>1, RInvStutter, QueuesStay DEF Scoped
  <2>. QED  BY <2>1, <2>2
<1>2. Scoped => SendersMayWrite
  <2>1. ASSUME Scoped, NEW i \in 1 .. Len(todos)  PROVE todos[i] \in Acceptable
    BY <2>1 DEF Scoped
  <2>. QED  BY <2>1 DEF SendersMayWrite, Acceptable
<1>. QED
  BY InitScoped, <1>1, <1>2, PTL DEF RSpec

-----------------------------------------------------------------------------
(* A shutdown that ends leaves no call open                                   *)

\* The agents whose shutdown is over when that of the n-th is under way.
Passed(n) == {AgentOrder[i] : i \in 1 .. n - 1}

\* A call of an agent that was shut down is above a call of one that was not,
\* which made it: the shutdown does not pass that one before the call is gone.
Beneath(n) ==
  \A t \in Thread : \A i \in 1 .. Len(stack[t]) :
    stack[t][i].to \in Passed(n) => \E j \in 1 .. i - 1 : stack[t][j].to \notin Passed(n)

\* The user, too, may be called, and sends but never answers.
UserCalled == \E t \in Thread : \E i \in 1 .. Len(stack[t]) : stack[t][i].to = user

UserAsks ==
  /\ \A i \in 1 .. Len(outbox[user]) : outbox[user][i].inReplyTo = NoId
  /\ \A i \in 1 .. Len(todos) : todos[i].agent = user => todos[i].msg.inReplyTo = NoId

\* During the shutdown only the agent whose turn it is is listened to.
Turn ==
  /\ draining \in 1 .. Len(AgentOrder)
  /\ \A i \in 1 .. Len(todos) : todos[i].agent = Draining /\ ~todos[i].died
  /\ todos # <<>> /\ Draining = user => UserCalled
  /\ Beneath(draining) \/ (Draining = user /\ UserCalled)

ShutdownInv ==
  /\ RInv
  /\ "CATCH" \in flags[user]
  /\ UserAsks
  /\ phase = "drain" => Turn
  /\ phase = "stopped" => draining = Len(AgentOrder) + 1 /\ Beneath(draining)

LEMMA OrderLength == Len(AgentOrder) \in Nat
  BY RuntimeAssumption

LEMMA DrainingType ==
  ASSUME draining \in 1 .. Len(AgentOrder)
  PROVE  Draining \in Agent /\ Draining \notin Passed(draining)
<1>1. /\ AgentOrder \in Seq(Agent) /\ IsInjective(AgentOrder) /\ Len(AgentOrder) \in Nat
  BY RuntimeAssumption
<1>2. \A i, j \in 1 .. Len(AgentOrder) : AgentOrder[i] = AgentOrder[j] => i = j
  BY <1>1 DEF IsInjective
<1>. QED
  BY <1>1, <1>2 DEF Draining, Passed

LEMMA UserCatches ==
  ASSUME RInv, "CATCH" \in flags[user], RNext \/ UNCHANGED rvars
  PROVE  "CATCH" \in flags'[user]
<1>1. CASE UNCHANGED vars
  BY <1>1 DEF vars
<1>2. CASE Next
  BY <1>2, AgentsStay DEF RInv, IInv
<1>. QED
  BY <1>1, <1>2, ProgramStep DEF rvars, program

\* A rewind does not go past a call of the user's, which the user made from the
\* thread it held: every frame it releases is of somebody else.
LEMMA RewindSparesUser ==
  ASSUME TypeOK, CallChain, "CATCH" \in flags[user], NEW t \in Thread, NEW b,
         ApplyRewind(t, Holder(t), b)
  PROVE  \E d \in 0 .. Len(stack[t]) :
           Trim(t, d) /\ \A i \in d + 1 .. Len(stack[t]) : stack[t][i].to # user
<1>1. PICK d \in 0 .. Len(stack[t]) : Unwinds(t, Holder(t), d) /\ Trim(t, d)
  BY DEF ApplyRewind, Trim
<1>2. Len(stack[t]) \in Nat /\ (stack[t] = <<>> => Len(stack[t]) = 0)
  BY DEF TypeOK
<1>3. ASSUME NEW i \in d + 1 .. Len(stack[t]), stack[t][i].to = user  PROVE FALSE
  <2>1. /\ "CATCH" \notin flags[Holder(t)] /\ stack[t] # <<>>
        /\ \A j \in d + 2 .. Len(stack[t]) : "CATCH" \notin flags[stack[t][j].from]
    BY <1>1, <1>2, <1>3 DEF Unwinds
  <2>2. CASE i = Len(stack[t])
    BY <1>3, <2>1, <2>2 DEF Holder, Top
  <2>3. CASE i < Len(stack[t])
    <3>1. i + 1 \in d + 2 .. Len(stack[t]) /\ i + 1 \in 1 .. Len(stack[t]) /\ i + 1 # 1
      BY <1>2, <2>3
    <3>2. stack[t][i + 1].from = user
      BY <1>3, <3>1 DEF CallChain
    <3>. QED  BY <2>1, <3>1, <3>2
  <2>. QED  BY <1>2, <2>2, <2>3
<1>. QED
  BY <1>1, <1>3

\* What is cut off the top of a stack leaves Beneath and, without a frame of the
\* user's, UserCalled.
LEMMA TrimBeneath ==
  ASSUME TypeOK, NEW t \in Thread, NEW d \in 0 .. Len(stack[t]), Trim(t, d), NEW n
  PROVE  /\ Beneath(n) => Beneath(n)'
         /\ (\A i \in d + 1 .. Len(stack[t]) : stack[t][i].to # user) /\ UserCalled => UserCalled'
<1>1. /\ Len(stack'[t]) = d /\ Len(stack[t]) \in Nat
      /\ \A i \in 1 .. d : stack'[t][i] = stack[t][i]
      /\ \A u \in Thread \ {t} : stack'[u] = stack[u]
  BY TrimFacts
<1>2. ASSUME Beneath(n), NEW u \in Thread, NEW i \in 1 .. Len(stack'[u]),
             stack'[u][i].to \in Passed(n)
      PROVE  \E j \in 1 .. i - 1 : stack'[u][j].to \notin Passed(n)
  <2>1. i \in 1 .. Len(stack[u]) /\ \A j \in 1 .. i : stack'[u][j] = stack[u][j]
    BY <1>1
  <2>2. PICK j \in 1 .. i - 1 : stack[u][j].to \notin Passed(n)
    BY <1>2, <2>1 DEF Beneath
  <2>. QED  BY <2>1, <2>2
<1>3. ASSUME \A i \in d + 1 .. Len(stack[t]) : stack[t][i].to # user, UserCalled
      PROVE  UserCalled'
  <2>1. PICK u \in Thread : \E i \in 1 .. Len(stack[u]) : stack[u][i].to = user
    BY <1>3 DEF UserCalled
  <2>2. PICK i \in 1 .. Len(stack[u]) : stack[u][i].to = user
    BY <2>1
  <2>3. i \in 1 .. Len(stack'[u]) /\ stack'[u][i] = stack[u][i]
    BY <1>1, <1>3, <2>2
  <2>. QED  BY <2>2, <2>3 DEF UserCalled
<1>4. Passed(n)' = Passed(n)
  BY DEF Passed
<1>. QED
  BY <1>2, <1>3, <1>4 DEF Beneath

\* A call made by an agent whose turn it is, or by the user while it is called.
LEMMA PushBeneath ==
  ASSUME RInv, NEW t \in Thread, CallPush(t), Turn, Holder(t) = Draining, Draining = user => UserCalled
  PROVE  /\ UserCalled => UserCalled'
         /\ Beneath(draining)' \/ (Draining = user /\ UserCalled') \/ draining' # draining
<1>1. PICK b \in Agent, id \in Nat : Push(t, [id |-> id, from |-> Holder(t), to |-> b])
  BY DEF CallPush
<1>. DEFINE e == [id |-> id, from |-> Holder(t), to |-> b]
<1>2. e \in Frame
  BY HolderType DEF Frame, RInv, IInv
<1>3. /\ Len(stack'[t]) = Len(stack[t]) + 1 /\ Len(stack[t]) \in Nat
      /\ stack'[t][Len(stack[t]) + 1] = e
      /\ \A i \in 1 .. Len(stack[t]) : stack'[t][i] = stack[t][i]
      /\ \A u \in Thread \ {t} : stack'[u] = stack[u]
  BY <1>1, <1>2, PushFacts DEF RInv, IInv
<1>. HIDE DEF e
<1>4. UserCalled => UserCalled'
  <2>1. SUFFICES ASSUME UserCalled  PROVE UserCalled'
    OBVIOUS
  <2>2. PICK u \in Thread : \E i \in 1 .. Len(stack[u]) : stack[u][i].to = user
    BY <2>1 DEF UserCalled
  <2>3. PICK i \in 1 .. Len(stack[u]) : stack[u][i].to = user
    BY <2>2
  <2>4. i \in 1 .. Len(stack'[u]) /\ stack'[u][i] = stack[u][i]
    BY <1>3, <2>3
  <2>. QED  BY <2>3, <2>4 DEF UserCalled
<1>5. CASE Draining # user
  <2>1. /\ stack[t] # <<>> /\ Len(stack[t]) \in 1 .. Len(stack[t])
        /\ stack[t][Len(stack[t])].to = Draining
    BY <1>5, TopType DEF Holder, Top, RInv, IInv
  <2>2. Draining \notin Passed(draining)
    BY DrainingType DEF Turn
  <2>3. ASSUME NEW u \in Thread, NEW i \in 1 .. Len(stack'[u]), stack'[u][i].to \in Passed(draining)
        PROVE  \E j \in 1 .. i - 1 : stack'[u][j].to \notin Passed(draining)
    <3>1. CASE u = t /\ i = Len(stack[t]) + 1
      BY <1>3, <2>1, <2>2, <3>1
    <3>2. CASE u # t \/ i # Len(stack[t]) + 1
      <4>1. i \in 1 .. Len(stack[u]) /\ \A j \in 1 .. i : stack'[u][j] = stack[u][j]
        BY <1>3, <3>2
      <4>2. Beneath(draining)
        BY <1>5 DEF Turn
      <4>3. PICK j \in 1 .. i - 1 : stack[u][j].to \notin Passed(draining)
        BY <2>3, <4>1, <4>2 DEF Beneath
      <4>. QED  BY <4>1, <4>3
    <3>. QED  BY <3>1, <3>2
  <2>4. draining' = draining => Passed(draining)' = Passed(draining)
    BY DEF Passed
  <2>. QED  BY <1>4, <2>3, <2>4 DEF Beneath
<1>. QED
  BY <1>4, <1>5

\* A todo's message during the shutdown, and what it does to the stacks.
LEMMA DrainedEffect ==
  ASSUME RInv, ShutdownInv, phase = "drain", Process
  PROVE  /\ UserCalled => UserCalled'
         /\ phase' = phase /\ draining' = draining
         /\ Turn'
<1>1. /\ Turn /\ todos # <<>> /\ todos' = Tail(todos) /\ draining' = draining /\ todos \in Seq(Todo)
  BY DEF ShutdownInv, Process, ProcessNote, ProcessRouted, ProcessCommand, ProcessDeath, NextTodo,
         RInv, RTypeOK
<1>2. /\ Next1.agent = Draining /\ ~Next1.died /\ Next1.agent \in Agent /\ Next1.msg \in Message
      /\ Next1.msg.thread \in Thread
      /\ (Draining = user => UserCalled /\ Next1.msg.inReplyTo = NoId)
  <2>1. Next1 = todos[1] /\ 1 \in 1 .. Len(todos)
    BY <1>1 DEF Next1
  <2>. QED  BY <1>1, <2>1, TodoType DEF Turn, ShutdownInv, UserAsks, RInv, Message
<1>3. \A i \in 1 .. Len(todos') : todos'[i] = todos[i + 1] /\ i + 1 \in 1 .. Len(todos)
  BY <1>1
<1>4. ASSUME UserCalled => UserCalled', Beneath(draining)' \/ (Draining = user /\ UserCalled')
      PROVE  Turn'
  BY <1>1, <1>2, <1>3, <1>4 DEF Turn, Draining
<1>. DEFINE m == Next1.msg
            a == Next1.agent
            Goal == /\ UserCalled => UserCalled'
                    /\ phase' = phase
                    /\ Beneath(draining)' \/ (Draining = user /\ UserCalled')
<1>5. CASE UNCHANGED stack /\ phase' = phase
  <2>1. UserCalled' = UserCalled /\ Beneath(draining)' = Beneath(draining)
    BY <1>1, <1>5 DEF UserCalled, Beneath, Passed
  <2>. QED  BY <1>1, <1>4, <1>5, <2>1 DEF Turn
<1>6. ASSUME NEW d \in 0 .. Len(stack[m.thread]), Trim(m.thread, d), phase' = phase,
             \A i \in d + 1 .. Len(stack[m.thread]) : stack[m.thread][i].to # user
      PROVE  Goal
  <2>1. /\ Beneath(draining) => Beneath(draining)'
        /\ UserCalled => UserCalled'
    BY <1>1, <1>2, <1>6, TrimBeneath DEF RInv, IInv, Beneath, Passed
  <2>. QED  BY <1>1, <1>6, <2>1 DEF Turn
<1>7. ASSUME CallPush(m.thread), a = Holder(m.thread), phase' = phase
      PROVE  Goal
  BY <1>1, <1>2, <1>7, PushBeneath
<1>8. ASSUME NEW b \in Agent, Return(a, m, b), phase' = phase
      PROVE  Goal
  <2>1. /\ stack[m.thread] # <<>> /\ a = Holder(m.thread) /\ m.inReplyTo # NoId
        /\ ApplyReturn(m.thread, a, b, Offered(a, m))
    BY <1>8, ReturnsHaveFrames DEF Return, IsReturn
  <2>2. Len(stack[m.thread]) - 1 \in 0 .. Len(stack[m.thread])
        /\ Trim(m.thread, Len(stack[m.thread]) - 1)
    BY <1>2, <2>1, TopType DEF RInv, IInv, ApplyReturn, Trim
  <2>3. \A i \in Len(stack[m.thread]) - 1 + 1 .. Len(stack[m.thread]) : stack[m.thread][i].to # user
    <3>1. stack[m.thread][Len(stack[m.thread])].to = a
      BY <2>1 DEF Holder, Top
    <3>. QED  BY <1>2, <2>1, <2>2, <3>1
  <2>. QED  BY <1>6, <1>8, <2>2, <2>3
<1>9. ASSUME NEW b \in Agent, Reject(a, m, b), phase' = phase
      PROVE  Goal
  <2>1. ApplyRewind(m.thread, Holder(m.thread), b)
    BY <1>9 DEF Reject
  <2>. QED  BY <1>2, <1>6, <1>9, <2>1, RewindSparesUser DEF RInv, IInv, ShutdownInv
<1>10. ASSUME NEW b \in Agent, Call(a, m, b) \/ CallClone(a, m, b), phase' = phase
       PROVE  Goal
  <2>1. Called(m.thread, a, b, Offered(a, m))
    BY <1>2, <1>10, CallParts DEF RInv, IInv
  <2>. QED  BY <1>7, <1>10, <2>1 DEF Called, ApplyCall, Push, CallPush
<1>11. ASSUME NEW new \in SUBSET Agent, NEW f, CallRuntime(a, m, new, f), phase' = phase
       PROVE  Goal
  <2>1. Called(m.thread, a, runtime, Offered(a, m))
    BY <1>2, <1>11, CallParts DEF RInv, IInv
  <2>. QED  BY <1>7, <1>11, <2>1, UserExists DEF Called, ApplyCall, Push, CallPush
<1>. HIDE DEF Goal
<1>12. CASE ProcessNote
  <2>1. UNCHANGED stack /\ phase' = phase
    BY <1>12 DEF ProcessNote, Note, Data, Undelivered
  <2>. QED  BY <1>1, <1>5, <2>1 DEF UserCalled
<1>13. ASSUME NEW b \in Agent, ProcessRouted(b)  PROVE Goal
  <2>1. Route(a, m, b) /\ phase' = phase
    BY <1>13 DEF ProcessRouted, Undelivered, ShutdownInv
  <2>. QED  BY <1>8, <1>9, <1>10, <2>1 DEF Route
<1>14. ASSUME NEW new \in SUBSET (Agent \ agents), NEW f, ProcessCommand(new, f)  PROVE Goal
  <2>1. CallRuntime(a, m, new, f) /\ phase' = phase /\ new \in SUBSET Agent
    BY <1>14 DEF ProcessCommand, Command, Undelivered
  <2>. QED  BY <1>11, <2>1
<1>15. ~\E b \in Agent : ProcessDeath(b)
  BY <1>2 DEF ProcessDeath
<1>16. ProcessNote \/ Goal
  BY <1>13, <1>14, <1>15 DEF Process
<1>17. CASE Goal
  BY <1>1, <1>4, <1>17 DEF Goal
<1>. QED
  BY <1>1, <1>5, <1>12, <1>16, <1>17 DEF ProcessNote, Note, Data, Undelivered, UserCalled

\* The user's part of the queues, whatever step is taken.
LEMMA UserAsksStep ==
  ASSUME RInv, UserAsks, RNext
  PROVE  UserAsks'
<1>0. /\ outbox \in [Agent -> Seq(Message)] /\ todos \in Seq(Todo)
      /\ user \in Agent /\ runtime \in Agent /\ user # runtime
  BY UserExists, ArenaAssumption DEF RInv, RTypeOK
<1>1. CASE UNCHANGED <<outbox, todos>>
  BY <1>1 DEF UserAsks
<1>2. ASSUME NEW t \in Thread, NEW b \in Contacts[t], UserSend(t, b)
      PROVE  UserAsks'
  <2>1. PICK m : m = Request(t, NoId, To(b), {})
    OBVIOUS
  <2>2. m \in Message /\ m.inReplyTo = NoId
    BY <2>1, RuntimeAssumption, Made DEF Request, NoId
  <2>3. outbox'[user] = Append(outbox[user], m) /\ todos' = todos
    BY <1>0, <1>2, <2>1 DEF UserSend
  <2>4. \A i \in 1 .. Len(outbox'[user]) : outbox'[user][i].inReplyTo = NoId
    BY <1>0, <2>2, <2>3, Pushed DEF UserAsks
  <2>. QED  BY <2>3, <2>4 DEF UserAsks
<1>3. ASSUME NEW a \in Adapters, Adapter(a) \/ Crash(a)
      PROVE  UserAsks'
  <2>1. /\ UNCHANGED todos
        /\ outbox' = outbox \/ \E q : outbox' = [outbox EXCEPT ![a] = q]
    BY <1>3 DEF Adapter, AdapterReply, AdapterCall, AdapterCheck, Crash
  <2>2. a # user
    BY DEF Adapters, Loops
  <2>3. outbox'[user] = outbox[user]
    BY <1>0, <2>1, <2>2
  <2>. QED  BY <2>1, <2>3 DEF UserAsks
<1>4. ASSUME NEW a \in Agent, outbox' = [outbox EXCEPT ![a] = Remaining(a)],
             todos' = todos \o Received(a)
      PROVE  UserAsks'
  <2>1. \A i \in 1 .. Len(outbox'[user]) : outbox'[user][i].inReplyTo = NoId
    <3>1. CASE a # user
      BY <1>0, <1>4, <3>1 DEF UserAsks
    <3>2. CASE a = user
      BY <1>0, <1>4, <3>2 DEF Remaining, Loops
    <3>. QED  BY <3>1, <3>2
  <2>2. PICK r : r = Received(a)
    OBVIOUS
  <2>3. r \in Seq(Todo)
    BY <2>2, ReceivedType DEF RInv
  <2>4. ASSUME NEW i \in 1 .. Len(r), r[i].agent = user  PROVE r[i].msg.inReplyTo = NoId
    <3>1. CASE a \in Loops
      <4>1. r = [k \in 1 .. Len(outbox[a]) |-> [agent |-> a, msg |-> outbox[a][k], died |-> FALSE]]
        BY <2>2, <3>1 DEF Received
      <4>2. Len(outbox[a]) \in Nat
        BY <1>0
      <4>3. Len(r) = Len(outbox[a])
        BY <4>1, <4>2
      <4>. QED  BY <2>4, <4>1, <4>3 DEF UserAsks
    <3>2. CASE a \notin Loops
      <4>1. r[i].agent = a
        BY <2>2, <3>2 DEF Received
      <4>. QED  BY <2>4, <3>2, <4>1 DEF Loops
    <3>. QED  BY <3>1, <3>2
  <2>5. ASSUME NEW i \in 1 .. Len(todos'), todos'[i].agent = user  PROVE todos'[i].msg.inReplyTo = NoId
    <3>1. CASE i <= Len(todos)
      <4>1. i \in 1 .. Len(todos) /\ todos'[i] = todos[i]
        BY <1>0, <1>4, <2>2, <2>3, <3>1
      <4>. QED  BY <2>5, <4>1 DEF UserAsks
    <3>2. CASE i > Len(todos)
      <4>1. i - Len(todos) \in 1 .. Len(r) /\ todos'[i] = r[i - Len(todos)]
        BY <1>0, <1>4, <2>2, <2>3, <3>2
      <4>. QED  BY <2>4, <2>5, <4>1
    <3>. QED  BY <1>0, <3>1, <3>2
  <2>. QED  BY <2>1, <2>5 DEF UserAsks
<1>5. ASSUME NEW e \in events, Receive(e)
      PROVE  UserAsks'
  <2>1. e[1] \in Agent
    BY DEF RInv, RTypeOK
  <2>. QED  BY <1>4, <1>5, <2>1 DEF Receive
<1>6. CASE DrainReceive
  <2>1. Draining \in Agent
    BY <1>6, DrainingType DEF DrainReceive, InDrain
  <2>2. todos = <<>> /\ todos' = Received(Draining) /\ Received(Draining) \in Seq(Todo)
    BY <1>6, <2>1, ReceivedType DEF DrainReceive, InDrain, RInv
  <2>3. todos' = todos \o Received(Draining)
    BY <2>2
  <2>. QED  BY <1>4, <1>6, <2>1, <2>3 DEF DrainReceive
<1>7. CASE Process
  <2>1. /\ todos # <<>> /\ todos' = Tail(todos)
    BY <1>7 DEF Process, ProcessNote, ProcessRouted, ProcessCommand, ProcessDeath, NextTodo
  <2>2. outbox'[user] = outbox[user]
    BY <1>0, <1>7 DEF Process, ProcessNote, ProcessRouted, ProcessCommand, ProcessDeath, Undelivered,
         Deliver, ToUser, ToRuntime, Start, FailToStart, GiveUp, Send
  <2>3. \A i \in 1 .. Len(todos') : todos'[i] = todos[i + 1] /\ i + 1 \in 1 .. Len(todos)
    BY <1>0, <2>1
  <2>. QED  BY <2>2, <2>3 DEF UserAsks
<1>8. CASE Poll \/ PollCheck \/ BeginShutdown \/ DrainCheck \/ DrainNext
  BY <1>1, <1>8 DEF Poll, PollCheck, BeginShutdown, DrainCheck, DrainNext, drainvars
<1>. QED
  BY <1>2, <1>3, <1>5, <1>6, <1>7, <1>8 DEF RNext, Loop

\* The steps that leave the stacks alone.
LEMMA TurnKept ==
  ASSUME UNCHANGED <<stack, draining, todos>>, phase' = phase \/ phase' \notin {"drain", "stopped"}
  PROVE  /\ (phase = "drain" => Turn) => (phase' = "drain" => Turn')
         /\ (phase = "stopped" => draining = Len(AgentOrder) + 1 /\ Beneath(draining)) =>
              (phase' = "stopped" => draining' = Len(AgentOrder) + 1 /\ Beneath(draining)')
BY DEF Turn, Beneath, Passed, UserCalled, Draining

\* An agent's turn ends when it owes no answer.
LEMMA NextBeneath ==
  ASSUME RInv, Turn, ~Owes(Draining), UNCHANGED stack
  PROVE  Beneath(draining) /\ (draining' = draining + 1 => Beneath(draining)')
<1>1. Draining \in Agent /\ draining \in Nat
  BY DrainingType DEF Turn, RInv, RTypeOK
<1>2. FramesOf(Draining) = {}
  <2>1. /\ IsFiniteSet(FramesOf(Draining)) /\ obligation[Draining] = Cardinality(FramesOf(Draining))
    BY <1>1 DEF RInv, IInv, Accounting
  <2>2. Cardinality(FramesOf(Draining)) \in Nat /\ ~(Cardinality(FramesOf(Draining)) > 0)
    BY <2>1, FS_CardinalityType DEF Owes
  <2>. QED  BY <2>1, <2>2, FS_EmptySet
<1>3. \A t \in Thread : \A i \in 1 .. Len(stack[t]) : stack[t][i].to # Draining
  BY <1>2, FramesOfIs
<1>4. Beneath(draining)
  BY <1>3 DEF Turn, UserCalled
<1>5. ASSUME draining' = draining + 1  PROVE Beneath(draining)'
  <2>1. Passed(draining') = Passed(draining) \cup {Draining}
    BY <1>1, <1>5 DEF Passed, Draining, Turn
  <2>2. ASSUME NEW t \in Thread, NEW i \in 1 .. Len(stack[t]), stack[t][i].to \in Passed(draining')
        PROVE  \E j \in 1 .. i - 1 : stack[t][j].to \notin Passed(draining')
    <3>1. stack[t][i].to \in Passed(draining)
      BY <1>3, <2>1, <2>2
    <3>2. PICK j \in 1 .. i - 1 : stack[t][j].to \notin Passed(draining)
      BY <1>4, <3>1 DEF Beneath
    <3>3. Len(stack[t]) \in Nat
      BY DEF RInv, IInv, TypeOK
    <3>. QED  BY <1>3, <2>1, <3>2, <3>3
  <2>. QED  BY <2>2 DEF Beneath, Passed
<1>. QED
  BY <1>4, <1>5

LEMMA ShutdownStep ==
  ASSUME ShutdownInv, RNext
  PROVE  ShutdownInv'
<1>0. RInv /\ RInv' /\ Len(AgentOrder) \in Nat
  BY RInvStep, OrderLength DEF ShutdownInv
<1>1. "CATCH" \in flags'[user] /\ UserAsks'
  BY <1>0, UserCatches, UserAsksStep DEF ShutdownInv
<1>. DEFINE Goal == /\ phase' = "drain" => Turn'
                    /\ phase' = "stopped" => draining' = Len(AgentOrder) + 1 /\ Beneath(draining)'
<1>2. ASSUME UNCHANGED <<stack, draining, todos>>, phase' = phase \/ phase' \notin {"drain", "stopped"}
      PROVE  Goal
  BY <1>2, TurnKept DEF ShutdownInv
<1>. SUFFICES Goal
  BY <1>0, <1>1 DEF ShutdownInv
<1>. HIDE DEF Goal
<1>3. ASSUME NEW t \in Thread, NEW b \in Contacts[t], UserSend(t, b)  PROVE Goal
  BY <1>2, <1>3 DEF UserSend, program, vars
<1>4. ASSUME NEW a \in Adapters, Adapter(a) \/ Crash(a)  PROVE Goal
  BY <1>2, <1>4 DEF Adapter, AdapterReply, AdapterCall, AdapterCheck, Crash, program, vars
<1>5. CASE Poll \/ PollCheck
  BY <1>2, <1>5 DEF Poll, PollCheck, program, vars
<1>6. ASSUME NEW e \in events, Receive(e)  PROVE Goal
  BY <1>6 DEF Receive, Polling, Goal
<1>7. CASE DrainCheck
  BY <1>2, <1>7 DEF DrainCheck, drainvars, program, vars
<1>8. CASE Process
  <2>1. phase \in {"run", "drain"}
    BY <1>8 DEF Process, ProcessNote, ProcessRouted, ProcessCommand, ProcessDeath, NextTodo
  <2>2. CASE phase = "drain"
    BY <1>0, <1>8, <2>2, DrainedEffect DEF Goal
  <2>3. CASE phase = "run"
    <3>1. phase' \notin {"drain", "stopped"}
      BY <1>8, <2>3 DEF Process, ProcessNote, ProcessRouted, ProcessCommand, ProcessDeath, Undelivered,
         Deliver, ToUser, ToRuntime, Start, FailToStart, GiveUp, Send
    <3>. QED  BY <3>1 DEF Goal
  <2>. QED  BY <2>1, <2>2, <2>3
<1>9. CASE BeginShutdown
  <2>1. phase' = "drain" /\ draining' = 1 /\ todos' = <<>>
    BY <1>9 DEF BeginShutdown
  <2>2. Passed(1) = {} /\ Beneath(draining)'
    BY <2>1 DEF Passed, Beneath
  <2>3. draining' \in 1 .. Len(AgentOrder)
    <3>1. \E i \in 1 .. Len(AgentOrder) : AgentOrder[i] = user
      BY RuntimeAssumption, UserExists DEF ToSet
    <3>. QED  BY <1>0, <2>1, <3>1
  <2>. QED  BY <2>1, <2>2, <2>3 DEF Turn, Goal
<1>10. CASE DrainReceive
  <2>1. /\ phase = "drain" /\ phase' = phase /\ draining' = draining /\ todos = <<>>
        /\ Owes(Draining) /\ outbox[Draining] # <<>> /\ todos' = Received(Draining)
        /\ UNCHANGED stack
    BY <1>10 DEF DrainReceive, InDrain, drainvars, program, vars
  <2>2. Turn /\ Draining \in Agent
    BY <2>1, DrainingType DEF ShutdownInv, Turn
  <2>3. \A i \in 1 .. Len(todos') : todos'[i].agent = Draining /\ ~todos'[i].died
    <3>1. CASE Draining \in Loops
      <4>1. todos' = [k \in 1 .. Len(outbox[Draining]) |->
                        [agent |-> Draining, msg |-> outbox[Draining][k], died |-> FALSE]]
        BY <2>1, <3>1 DEF Received
      <4>2. Len(outbox[Draining]) \in Nat
        BY <1>0, <2>2 DEF RInv, RTypeOK
      <4>3. Len(todos') = Len(outbox[Draining])
        BY <4>1, <4>2
      <4>. QED  BY <4>1, <4>3
    <3>2. CASE Draining \notin Loops
      BY <2>1, <3>2 DEF Received
    <3>. QED  BY <3>1, <3>2
  <2>4. Draining = user => UserCalled
    <3>1. SUFFICES ASSUME Draining = user  PROVE UserCalled
      OBVIOUS
    <3>2. FramesOf(user) # {}
      <4>1. obligation[user] = Cardinality(FramesOf(user))
        BY <1>0, UserExists DEF RInv, IInv, Accounting
      <4>. QED  BY <2>1, <3>1, <4>1, FS_EmptySet DEF Owes
    <3>3. PICK x : x \in FramesOf(user)
      BY <3>2
    <3>. QED  BY <3>3, FramesOfIs DEF UserCalled
  <2>5. /\ Draining' = Draining /\ UserCalled' = UserCalled /\ Beneath(draining)' = Beneath(draining)
    BY <2>1 DEF Draining, UserCalled, Beneath, Passed
  <2>. QED  BY <2>1, <2>2, <2>3, <2>4, <2>5 DEF Turn, Goal
<1>11. CASE DrainNext
  <2>1. /\ phase = "drain" /\ todos = <<>> /\ todos' = todos /\ UNCHANGED stack
        /\ ~Owes(Draining) /\ draining \in 1 .. Len(AgentOrder)
    BY <1>11 DEF DrainNext, InDrain, drainvars, program, vars
  <2>2. Turn
    BY <2>1 DEF ShutdownInv
  <2>3. draining' = draining + 1 => Beneath(draining)'
    BY <1>0, <2>1, <2>2, NextBeneath
  <2>4. CASE phase' = "broken_pipe"
    BY <2>4 DEF Goal
  <2>5. CASE phase' # "broken_pipe"
    <3>1. /\ draining' = draining + 1
          /\ phase' = IF draining = Len(AgentOrder) THEN "stopped" ELSE phase
      BY <1>11, <2>5 DEF DrainNext
    <3>2. phase' = "drain" => draining' \in 1 .. Len(AgentOrder)
      BY <1>0, <2>1, <3>1
    <3>3. phase' = "stopped" => draining' = Len(AgentOrder) + 1
      BY <2>1, <3>1
    <3>. QED  BY <2>1, <2>3, <3>1, <3>2, <3>3 DEF Turn, Goal
  <2>. QED  BY <2>4, <2>5
<1>12. CASE Loop
  BY <1>5, <1>6, <1>7, <1>8, <1>9, <1>10, <1>11, <1>12 DEF Loop
<1>. QED
  BY <1>3, <1>4, <1>12 DEF RNext

LEMMA ShutdownInit ==
  ASSUME RInit
  PROVE  ShutdownInv
<1>1. "CATCH" \in flags[user]
  BY ArenaAssumption DEF RInit, Init, Founders
<1>2. outbox[user] = <<>> /\ todos = <<>> /\ phase = "run"
  BY UserExists DEF RInit
<1>3. UserAsks
  BY <1>2 DEF UserAsks
<1>. QED
  BY <1>1, <1>2, <1>3, RInvInit DEF ShutdownInv

\* What the end of the shutdown means for the program.
LEMMA StoppedIsClean ==
  ASSUME ShutdownInv
  PROVE  StoppedClean
<1>1. SUFFICES ASSUME phase = "stopped"
               PROVE  /\ \A t \in Thread : stack[t] = <<>> /\ ~pending[t]
                      /\ \A a \in Agent : obligation[a] = 0
  BY DEF StoppedClean
<1>2. Beneath(draining) /\ Passed(draining) = Agent
  <2>1. draining = Len(AgentOrder) + 1 /\ Len(AgentOrder) \in Nat
    BY <1>1, OrderLength DEF ShutdownInv
  <2>2. draining - 1 = Len(AgentOrder)
    BY <2>1
  <2>. QED  BY <1>1, <2>2, RuntimeAssumption DEF ShutdownInv, Passed, ToSet
<1>3. ASSUME NEW t \in Thread  PROVE stack[t] = <<>>
  <2>1. stack[t] \in Seq(Frame)
    BY DEF ShutdownInv, RInv, IInv, TypeOK
  <2>2. CASE stack[t] # <<>>
    <3>1. 1 \in 1 .. Len(stack[t]) /\ stack[t][1] \in Frame
      BY <2>1, <2>2
    <3>. QED  BY <1>2, <3>1 DEF Beneath, Frame
  <2>. QED  BY <2>2
<1>4. ASSUME NEW t \in Thread  PROVE ~pending[t]
  BY <1>3 DEF ShutdownInv, RInv, IInv, PendingOnlyAway, Holder
<1>5. ASSUME NEW a \in Agent  PROVE obligation[a] = 0
  <2>1. FramesOf(a) = {}
    <3>1. \A t \in Thread : Len(stack[t]) = 0
      BY <1>3
    <3>. QED  BY <3>1 DEF FramesOf
  <2>. QED  BY <2>1, FS_EmptySet DEF ShutdownInv, RInv, IInv, Accounting
<1>. QED
  BY <1>3, <1>4, <1>5

\* A shutdown that ends leaves no call open and no user waiting, whatever has
\* crashed, in any order of agents.
THEOREM StoppedCleanCorrect == RSpec => []StoppedClean
<1>1. ShutdownInv /\ [RNext]_rvars => ShutdownInv'
  <2>1. ASSUME ShutdownInv, UNCHANGED rvars  PROVE ShutdownInv'
    <3>1. UNCHANGED <<stack, flags, outbox, todos, phase, draining>>
      BY <2>1 DEF rvars, program, vars
    <3>2. RInv'
      BY <2>1, RInvStutter DEF ShutdownInv
    <3>. QED  BY <2>1, <3>1, <3>2, TurnKept DEF ShutdownInv, UserAsks
  <2>. QED  BY <2>1, ShutdownStep
<1>. QED
  BY ShutdownInit, <1>1, StoppedIsClean, PTL DEF RSpec

-----------------------------------------------------------------------------
(* One message of a thread at a time                                          *)

\* What can be called on each thread, in an arena that separates its threads.
Reach == CHOOSE reach \in [Thread -> SUBSET Founders] : Separates(reach)

\* A queue has nothing of S but what is in D.
Mute(q, S, D) == \A i \in 1 .. Len(q) : q[i] \in S => q[i] \in D

\* A queue has one element x of S that is not in D, after all the others.
Ends(q, S, D, x) ==
  \E i \in 1 .. Len(q) :
    /\ q[i] = x /\ x \in S /\ x \notin D
    /\ \A j \in 1 .. Len(q) : q[j] \in S /\ j # i => j < i /\ q[j] \in D

\* A step of the queue that neither brings nor takes an element of S.
Keeps(q, r, S) ==
  \A D, x : (Mute(q, S, D) => Mute(r, S, D)) /\ (Ends(q, S, D, x) => Ends(r, S, D, x))

PostsOf(t) == {m \in Message : m.thread = t}
TodosOf(t) == {w \in Todo : w.msg.thread = t}
MailOf(t) == {d \in Delivery : d.thread = t}
Plain == {m \in Message : m.data}
PlainTodos(a) == {w \in Todo : w.msg.data /\ w.agent = a}
Taken(a, m) == [agent |-> a, msg |-> m, died |-> FALSE]

NoPost(t) == \A a \in Agent : Mute(outbox[a], PostsOf(t), {})
NoTodo(t) == Mute(todos, TodosOf(t), {})
NoMail(t) == \A a \in Agent : Mute(inbox[a], MailOf(t), {})

\* The entries of LinearService::stack for the frames q of thread t, each of
\* which waits for the next one's callee and the last one for x.
Incoming(t, f) == [incoming |-> TRUE, thread |-> t, id |-> f.id, peer |-> f.from]
Outgoing(t, x) == [incoming |-> FALSE, thread |-> t, id |-> NoId, peer |-> x]
Share(t, q, x, a) ==
  [i \in 1 .. Len(q) |->
     IF q[i].to = a
     THEN <<Incoming(t, q[i]), Outgoing(t, IF i < Len(q) THEN q[i + 1].to ELSE x)>>
     ELSE <<>>]
Waits(t, q, x, a) == FlattenSeq(Share(t, q, x, a))

Calls(a) == a \in Adapters /\ Peers[a] # {}
Serves(t, q, x) == \A a \in Reach[t] : Calls(a) => service[a] = Waits(t, q, x, a)

\* The message m that the holder of thread t has posted: the user's request, an
\* answer, or a call of an adapter's, which then waits for the callee.
Posted(t, m) ==
  \/ /\ stack[t] = <<>> /\ Serves(t, <<>>, user)
     /\ \E b \in Contacts[t] : m = Request(t, NoId, To(b), {})
  \/ /\ stack[t] # <<>> /\ Serves(t, Front(stack[t]), Holder(t))
     /\ m = Reply(t, Top(t).id, {})
  \/ /\ stack[t] # <<>> /\ Holder(t) \in Adapters
     /\ \E b \in Peers[Holder(t)] : m = Request(t, Top(t).id, To(b), {}) /\ Serves(t, stack[t], b)

\* The delivery d to the holder of thread t: its call, or the answer to one of
\* its own.
Carried(t, d) ==
  /\ stack[t] # <<>> /\ Holder(t) \in Adapters
  /\ \/ /\ d = [thread |-> t, id |-> Top(t).id, from |-> Top(t).from, reply |-> FALSE]
        /\ Serves(t, Front(stack[t]), Holder(t))
     \/ /\ d.reply /\ d.thread = t /\ d.from \in Agent
        /\ Peers[Holder(t)] # {} /\ Serves(t, stack[t], d.from)

\* Where they are.
AtOutbox(t, m) ==
  /\ Ends(outbox[Holder(t)], PostsOf(t), Plain, m)
  /\ \A a \in Agent \ {Holder(t)} : Mute(outbox[a], PostsOf(t), {})
  /\ Mute(todos, TodosOf(t), PlainTodos(Holder(t)))
  /\ NoMail(t)
AtTodos(t, m) ==
  /\ NoPost(t) /\ NoMail(t)
  /\ Ends(todos, TodosOf(t), PlainTodos(Holder(t)), Taken(Holder(t), m))
AtInbox(t, d) ==
  /\ NoPost(t) /\ NoTodo(t)
  /\ Ends(inbox[Holder(t)], MailOf(t), {}, d)
  /\ \A a \in Agent \ {Holder(t)} : Mute(inbox[a], MailOf(t), {})

\* A thread at rest, one with a message under way, and one whose message the
\* shutdown has recorded and not delivered.
Idle(t) ==
  /\ ~uiPending[t] /\ stack[t] = <<>> /\ Serves(t, <<>>, user)
  /\ NoPost(t) /\ NoTodo(t) /\ NoMail(t)
Posting(t) == \E m \in Message : Posted(t, m) /\ (AtOutbox(t, m) \/ AtTodos(t, m))
Carrying(t) == \E d \in Delivery : Carried(t, d) /\ AtInbox(t, d)
Dropped(t) == phase = "drain" /\ NoPost(t) /\ NoTodo(t) /\ NoMail(t)

Track(t) == Idle(t) \/ (uiPending[t] /\ (Posting(t) \/ Carrying(t) \/ Dropped(t)))

\* The frames are of agents that can be called, and all but the last one of
\* adapters that have called; they run, but for the callee of a call that the
\* shutdown has recorded and not delivered, while its caller's turn lasts.
FramesOK(t) ==
  /\ pending[t] <=> stack[t] # <<>>
  /\ \A i \in 1 .. Len(stack[t]) :
       LET b == stack[t][i].to
       IN /\ b \in Reach[t]
          /\ i < Len(stack[t]) => Calls(b)
          /\ b \in Adapters /\ proc[b] = "none" =>
               phase = "drain" /\ i = Len(stack[t]) /\ i > 1 /\ stack[t][i - 1].to = Draining

\* Nothing calls a.
Unreached(a) == \A t \in Thread : a \notin Reach[t]

\* Processes and what the loop knows of them.
Calm ==
  /\ \A a \in Agent : /\ proc[a] # "dead" /\ stale[a] = {}
                      /\ proc[a] = "none" => inbox[a] = <<>>
                      /\ a \in Adapters /\ (Peers[a] = {} \/ Unreached(a)) => service[a] = <<>>
  /\ \A i \in 1 .. Len(todos) : ~todos[i].died
  /\ phase = "run" =>
       /\ \A a \in Loops : proc[a] = "up"
       /\ \A a \in Adapters : proc[a] = "none" => service[a] = <<>>
       /\ \A e \in events : e[2] = "open" /\ outbox[e[1]] # <<>> /\ proc[e[1]] # "none"
  /\ phase = "drain" => \A a \in Loops : proc[a] = "none" => a \in Passed(draining)

\* The arena's agents are as they were.
ArenaStays ==
  \A a \in Founders : a \in agents /\ home[a] = ArenaHome[a] /\ flags[a] = ArenaFlags[a]

Flows == phase \in {"run", "drain"} => Calm /\ \A t \in Thread : FramesOK(t) /\ Track(t)

TokenInv ==
  /\ ShutdownInv /\ ArenaStays
  /\ crashes = 0 => phase \notin Failures /\ Flows

LEMMA Joined ==
  ASSUME NEW X, NEW q \in Seq(X), NEW r \in Seq(X)
  PROVE  /\ q \o r \in Seq(X) /\ Len(q \o r) = Len(q) + Len(r)
         /\ Len(q) \in Nat /\ Len(r) \in Nat
         /\ \A i \in 1 .. Len(q) : (q \o r)[i] = q[i]
         /\ \A i \in 1 .. Len(r) : (q \o r)[Len(q) + i] = r[i]
         /\ \A i \in 1 .. Len(q \o r) :
              i \in 1 .. Len(q) \/ (i - Len(q) \in 1 .. Len(r) /\ (q \o r)[i] = r[i - Len(q)])
  OBVIOUS

LEMMA Rest ==
  ASSUME NEW X, NEW q \in Seq(X), q # <<>>
  PROVE  /\ Tail(q) \in Seq(X) /\ Len(Tail(q)) = Len(q) - 1 /\ Len(q) \in Nat
         /\ \A i \in 1 .. Len(q) - 1 : Tail(q)[i] = q[i + 1]
         /\ Head(q) = q[1] /\ 1 \in 1 .. Len(q)
  OBVIOUS

LEMMA MuteJoined ==
  ASSUME NEW X, NEW q \in Seq(X), NEW r \in Seq(X), NEW S, NEW D,
         Mute(q, S, D), Mute(r, S, D)
  PROVE  Mute(q \o r, S, D)
  BY Joined DEF Mute

LEMMA MuteMore ==
  ASSUME NEW q, NEW S, NEW D, Mute(q, S, {})
  PROVE  Mute(q, S, D)
  BY DEF Mute

LEMMA MuteTail ==
  ASSUME NEW X, NEW q \in Seq(X), q # <<>>, NEW S, NEW D, Mute(q, S, D)
  PROVE  Mute(Tail(q), S, D)
<1>1. \A i \in 1 .. Len(Tail(q)) : i + 1 \in 1 .. Len(q) /\ Tail(q)[i] = q[i + 1]
  BY Rest
<1>. QED
  BY <1>1 DEF Mute

LEMMA MuteEmpty ==
  ASSUME NEW S, NEW D
  PROVE  Mute(<<>>, S, D)
  BY DEF Mute

\* What is put after a queue that ends nothing.
LEMMA EndsJoined ==
  ASSUME NEW X, NEW q \in Seq(X), NEW r \in Seq(X), NEW S, NEW D, NEW x,
         Mute(q, S, D), Ends(r, S, D, x)
  PROVE  Ends(q \o r, S, D, x)
<1>. DEFINE w == q \o r
            n == Len(q)
<1>1. PICK k \in 1 .. Len(r) :
        /\ r[k] = x /\ x \in S /\ x \notin D
        /\ \A j \in 1 .. Len(r) : r[j] \in S /\ j # k => j < k /\ r[j] \in D
  BY DEF Ends
<1>2. /\ Len(w) = n + Len(r) /\ n \in Nat /\ Len(r) \in Nat
      /\ w[n + k] = x
      /\ \A i \in 1 .. n : w[i] = q[i]
      /\ \A i \in 1 .. Len(w) : i \in 1 .. n \/ (i - n \in 1 .. Len(r) /\ w[i] = r[i - n])
  BY <1>1, Joined
<1>3. n + k \in 1 .. Len(w)
  BY <1>1, <1>2
<1>4. ASSUME NEW j \in 1 .. Len(w), w[j] \in S, j # n + k
      PROVE  j < n + k /\ w[j] \in D
  <2>. HIDE DEF w, n
  <2>1. CASE j \in 1 .. n
    BY <1>1, <1>2, <1>4, <2>1 DEF Mute, n
  <2>2. CASE j - n \in 1 .. Len(r) /\ w[j] = r[j - n]
    <3>0. j \in Int /\ n \in Int /\ k \in Int
      BY <1>2
    <3>1. j - n # k
      BY <1>4, <3>0
    <3>2. j - n < k /\ r[j - n] \in D
      BY <1>1, <1>4, <2>2, <3>1
    <3>. QED  BY <1>1, <1>2, <2>2, <3>2
  <2>. QED  BY <1>2, <2>1, <2>2
<1>. HIDE DEF w, n
<1>. QED
  BY <1>1, <1>2, <1>3, <1>4 DEF Ends, w

LEMMA EndsMade ==
  ASSUME NEW X, NEW q \in Seq(X), NEW S, NEW D, NEW x \in X, Mute(q, S, D), x \in S, x \notin D
  PROVE  Ends(q \o <<x>>, S, D, x)
<1>1. <<x>> \in Seq(X) /\ Len(<<x>>) = 1 /\ <<x>>[1] = x
  OBVIOUS
<1>2. 1 \in 1 .. Len(<<x>>) /\ \A j \in 1 .. Len(<<x>>) : j = 1
  OBVIOUS
<1>3. Ends(<<x>>, S, D, x)
  BY <1>1, <1>2 DEF Ends
<1>. QED
  BY <1>1, <1>3, EndsJoined

\* What is put after a queue that has its end already.
LEMMA EndsKept ==
  ASSUME NEW X, NEW q \in Seq(X), NEW r \in Seq(X), NEW S, NEW D, NEW x,
         Ends(q, S, D, x), Mute(r, S, {})
  PROVE  Ends(q \o r, S, D, x)
<1>. DEFINE w == q \o r
            n == Len(q)
<1>1. PICK k \in 1 .. n :
        /\ q[k] = x /\ x \in S /\ x \notin D
        /\ \A j \in 1 .. n : q[j] \in S /\ j # k => j < k /\ q[j] \in D
  BY DEF Ends
<1>2. /\ Len(w) = n + Len(r) /\ n \in Nat /\ Len(r) \in Nat
      /\ \A i \in 1 .. n : w[i] = q[i]
      /\ \A i \in 1 .. Len(w) : i \in 1 .. n \/ (i - n \in 1 .. Len(r) /\ w[i] = r[i - n])
  BY Joined
<1>3. k \in 1 .. Len(w)
  BY <1>1, <1>2
<1>4. ASSUME NEW j \in 1 .. Len(w), w[j] \in S, j # k
      PROVE  j < k /\ w[j] \in D
  <2>. HIDE DEF w, n
  <2>1. CASE j \in 1 .. n
    BY <1>1, <1>2, <1>4, <2>1
  <2>2. CASE j - n \in 1 .. Len(r) /\ w[j] = r[j - n]
    BY <1>4, <2>2 DEF Mute
  <2>. QED  BY <1>2, <2>1, <2>2
<1>. HIDE DEF w, n
<1>. QED
  BY <1>1, <1>2, <1>3, <1>4 DEF Ends, w

LEMMA EndsTail ==
  ASSUME NEW X, NEW q \in Seq(X), q # <<>>, NEW S, NEW D, NEW x, Ends(q, S, D, x),
         Head(q) \in S => Head(q) \in D
  PROVE  Ends(Tail(q), S, D, x)
<1>. DEFINE w == Tail(q)
<1>1. PICK k \in 1 .. Len(q) :
        /\ q[k] = x /\ x \in S /\ x \notin D
        /\ \A j \in 1 .. Len(q) : q[j] \in S /\ j # k => j < k /\ q[j] \in D
  BY DEF Ends
<1>2. Len(w) = Len(q) - 1 /\ Len(q) \in Nat /\ \A i \in 1 .. Len(q) - 1 : w[i] = q[i + 1]
  BY Rest
<1>3. k # 1 /\ Head(q) = q[1]
  BY <1>1, Rest
<1>. HIDE DEF w
<1>4. k - 1 \in 1 .. Len(w) /\ w[k - 1] = x
  BY <1>1, <1>2, <1>3
<1>5. ASSUME NEW j \in 1 .. Len(w), w[j] \in S, j # k - 1
      PROVE  j < k - 1 /\ w[j] \in D
  <2>1. j + 1 \in 1 .. Len(q) /\ w[j] = q[j + 1] /\ j + 1 # k
    BY <1>2, <1>5
  <2>2. j + 1 < k /\ q[j + 1] \in D
    BY <1>1, <1>5, <2>1
  <2>. QED  BY <2>1, <2>2
<1>. QED
  BY <1>1, <1>4, <1>5 DEF Ends, w

\* The end is the first of its thread: it is taken, and nothing is left.
LEMMA EndsTaken ==
  ASSUME NEW X, NEW q \in Seq(X), q # <<>>, NEW S, NEW D, NEW x, Ends(q, S, D, x),
         Head(q) \in S, Head(q) \notin D
  PROVE  Head(q) = x /\ Mute(Tail(q), S, {})
<1>1. PICK k \in 1 .. Len(q) :
        /\ q[k] = x /\ x \in S /\ x \notin D
        /\ \A j \in 1 .. Len(q) : q[j] \in S /\ j # k => j < k /\ q[j] \in D
  BY DEF Ends
<1>2. /\ Len(Tail(q)) = Len(q) - 1 /\ Len(q) \in Nat
      /\ \A i \in 1 .. Len(q) - 1 : Tail(q)[i] = q[i + 1]
      /\ Head(q) = q[1] /\ 1 \in 1 .. Len(q)
  BY Rest
<1>3. k = 1
  BY <1>1, <1>2
<1>4. ASSUME NEW i \in 1 .. Len(Tail(q)), Tail(q)[i] \in S
      PROVE  FALSE
  <2>1. i + 1 \in 1 .. Len(q) /\ q[i + 1] \in S /\ i + 1 # k /\ ~(i + 1 < k)
    BY <1>2, <1>3, <1>4
  <2>. QED  BY <1>1, <2>1
<1>. QED
  BY <1>1, <1>2, <1>3, <1>4 DEF Mute

LEMMA EndsThere ==
  ASSUME NEW q, NEW S, NEW D, NEW x, Ends(q, S, D, x)
  PROVE  ~Mute(q, S, D) /\ x \in S /\ x \notin D /\ \E i \in 1 .. Len(q) : q[i] = x
  BY DEF Ends, Mute

-----------------------------------------------------------------------------
(* The queues, for the threads a step is not about *)

LEMMA KeepsSame == ASSUME NEW q, NEW S PROVE Keeps(q, q, S)
  BY DEF Keeps

LEMMA KeepsJoined ==
  ASSUME NEW X, NEW q \in Seq(X), NEW r \in Seq(X), NEW S, Mute(r, S, {})
  PROVE  Keeps(q, q \o r, S)
<1>1. ASSUME NEW D, Mute(q, S, D)  PROVE Mute(q \o r, S, D)
  BY <1>1, MuteJoined, MuteMore
<1>2. ASSUME NEW D, NEW x, Ends(q, S, D, x)  PROVE Ends(q \o r, S, D, x)
  BY <1>2, EndsKept
<1>. QED
  BY <1>1, <1>2 DEF Keeps

LEMMA KeepsPut ==
  ASSUME NEW X, NEW q \in Seq(X), NEW e \in X, NEW S, e \notin S
  PROVE  Keeps(q, Append(q, e), S)
<1>1. <<e>> \in Seq(X) /\ Append(q, e) = q \o <<e>> /\ Mute(<<e>>, S, {})
  BY DEF Mute
<1>. QED
  BY <1>1, KeepsJoined

LEMMA KeepsTail ==
  ASSUME NEW X, NEW q \in Seq(X), q # <<>>, NEW S, Head(q) \notin S
  PROVE  Keeps(q, Tail(q), S)
  BY MuteTail, EndsTail DEF Keeps

LEMMA KeepsEmptied ==
  ASSUME NEW q, NEW S, Mute(q, S, {})
  PROVE  Keeps(q, <<>>, S)
<1>1. \A D, x : ~Ends(q, S, D, x)
  BY EndsThere, MuteMore
<1>. QED
  BY <1>1, MuteEmpty DEF Keeps

LEMMA KeepsMute ==
  ASSUME NEW q, NEW r, NEW S, Keeps(q, r, S)
  PROVE  /\ \A D : Mute(q, S, D) => Mute(r, S, D)
         /\ \A D, x : Ends(q, S, D, x) => Ends(r, S, D, x)
  BY DEF Keeps

-----------------------------------------------------------------------------
(* The stacks of LinearService, from the frames *)

LEMMA WaitsEmpty ==
  ASSUME NEW t, NEW x, NEW a
  PROVE  Waits(t, <<>>, x, a) = <<>>
<1>1. Share(t, <<>>, x, a) = <<>>
  BY DEF Share
<1>. QED
  BY <1>1, FlattenSeqEmpty DEF Waits

\* What a stack holds for the frames q.
EntriesFor(t, q, a) ==
  {Incoming(t, q[i]) : i \in {j \in 1 .. Len(q) : q[j].to = a}} \cup
  {e \in Entry : ~e.incoming}

LEMMA WaitsType ==
  ASSUME NEW t \in Thread, NEW q \in Seq(Frame), NEW x \in Agent, NEW a
  PROVE  /\ Waits(t, q, x, a) \in Seq(EntriesFor(t, q, a))
         /\ Waits(t, q, x, a) \in Seq(Entry)
         /\ Share(t, q, x, a) \in Seq(Seq(Entry))
<1>1. \A i \in 1 .. Len(q) : q[i] \in Frame /\ q[i].to \in Agent /\ Incoming(t, q[i]) \in Entry
  <2>1. \A f \in Frame : f.to \in Agent /\ Incoming(t, f) \in Entry
    BY DEF Frame, Incoming, Entry
  <2>. QED  BY <2>1
<1>2. \A y \in Agent : Outgoing(t, y) \in Entry /\ ~Outgoing(t, y).incoming
  BY DEF Outgoing, Entry, NoId
<1>3. Len(q) \in Nat
  OBVIOUS
<1>. DEFINE y(i) == IF i < Len(q) THEN q[i + 1].to ELSE x
<1>4. ASSUME NEW i \in 1 .. Len(q)  PROVE y(i) \in Agent
  <2>1. i < Len(q) => i + 1 \in 1 .. Len(q)
    BY <1>3
  <2>. QED  BY <1>1, <2>1
<1>. DEFINE s(i) == IF q[i].to = a THEN <<Incoming(t, q[i]), Outgoing(t, y(i))>> ELSE <<>>
<1>5. Share(t, q, x, a) = [i \in 1 .. Len(q) |-> s(i)]
  BY DEF Share
<1>6. ASSUME NEW i \in 1 .. Len(q)
      PROVE  s(i) \in Seq(EntriesFor(t, q, a)) /\ s(i) \in Seq(Entry)
  <2>1. Outgoing(t, y(i)) \in EntriesFor(t, q, a) /\ Outgoing(t, y(i)) \in Entry
    BY <1>2, <1>4 DEF EntriesFor
  <2>2. CASE q[i].to = a
    <3>1. Incoming(t, q[i]) \in EntriesFor(t, q, a)
      BY <2>2 DEF EntriesFor
    <3>2. Incoming(t, q[i]) \in Entry
      BY <1>1
    <3>. HIDE DEF y
    <3>. QED  BY <2>1, <2>2, <3>1, <3>2
  <2>3. CASE q[i].to # a
    BY <2>3
  <2>. QED  BY <2>2, <2>3
<1>. HIDE DEF s
<1>7. Share(t, q, x, a) \in Seq(Seq(EntriesFor(t, q, a))) /\ Share(t, q, x, a) \in Seq(Seq(Entry))
  BY <1>3, <1>5, <1>6
<1>. QED
  BY <1>7, FlattenSeqType DEF Waits

LEMMA ShareLength ==
  ASSUME NEW t \in Thread, NEW q \in Seq(Frame), NEW x \in Agent, NEW a
  PROVE  Len(Share(t, q, x, a)) = Len(q)
<1>1. Share(t, q, x, a) \in Seq(Seq(Entry)) /\ Len(q) \in Nat
  BY WaitsType
<1>2. DOMAIN Share(t, q, x, a) = 1 .. Len(q)
  BY DEF Share
<1>. QED
  BY <1>1, <1>2

\* One more frame: its caller waits for it, and it for x.
LEMMA WaitsAppend ==
  ASSUME NEW t \in Thread, NEW q \in Seq(Frame), NEW f \in Frame, NEW x \in Agent, NEW a
  PROVE  Waits(t, Append(q, f), x, a) =
           Waits(t, q, f.to, a) \o
           (IF f.to = a THEN <<Incoming(t, f), Outgoing(t, x)>> ELSE <<>>)
<1>. DEFINE r == Append(q, f)
            last == IF f.to = a THEN <<Incoming(t, f), Outgoing(t, x)>> ELSE <<>>
            n == Len(q)
<1>1. /\ r \in Seq(Frame) /\ Len(r) = n + 1 /\ n \in Nat /\ r[n + 1] = f
      /\ \A i \in 1 .. n : r[i] = q[i]
  BY Pushed
<1>2. f.to \in Agent
  BY DEF Frame
<1>3. last \in Seq(Entry)
  <2>1. Incoming(t, f) \in Entry /\ Outgoing(t, x) \in Entry
    BY DEF Frame, Incoming, Outgoing, Entry, NoId
  <2>. QED  BY <2>1
<1>4. Share(t, r, x, a) = Append(Share(t, q, f.to, a), last)
  <2>. DEFINE s == Share(t, q, f.to, a)
              w == Share(t, r, x, a)
  <2>1. s \in Seq(Seq(Entry)) /\ Len(s) = n
    BY <1>1, <1>2, WaitsType, ShareLength
  <2>2. w \in Seq(Seq(Entry)) /\ Len(w) = n + 1
    BY <1>1, WaitsType, ShareLength
  <2>3. w[n + 1] = last
    <3>1. n + 1 \in 1 .. n + 1 /\ ~(n + 1 < n + 1)
      BY <1>1
    <3>2. w[n + 1] = IF r[n + 1].to = a THEN <<Incoming(t, r[n + 1]), Outgoing(t, x)>> ELSE <<>>
      BY <1>1, <3>1 DEF Share
    <3>. QED  BY <1>1, <3>2
  <2>4. ASSUME NEW i \in 1 .. n  PROVE w[i] = s[i]
    <3>1. i \in 1 .. n + 1 /\ i < n + 1 /\ r[i] = q[i]
      BY <1>1
    <3>2. r[i + 1].to = IF i < n THEN q[i + 1].to ELSE f.to
      <4>1. CASE i < n
        BY <1>1, <4>1
      <4>2. CASE ~(i < n)
        <5>1. i = n
          BY <1>1, <4>2
        <5>. QED  BY <1>1, <4>2, <5>1
      <4>. QED  BY <4>1, <4>2
    <3>3. w[i] = IF r[i].to = a THEN <<Incoming(t, r[i]), Outgoing(t, r[i + 1].to)>> ELSE <<>>
      BY <1>1, <3>1 DEF Share
    <3>4. s[i] = IF q[i].to = a
                 THEN <<Incoming(t, q[i]), Outgoing(t, IF i < n THEN q[i + 1].to ELSE f.to)>>
                 ELSE <<>>
      BY DEF Share
    <3>. QED  BY <3>1, <3>2, <3>3, <3>4
  <2>. HIDE DEF s, w, r, last
  <2>5. Append(s, last) \in Seq(Seq(Entry)) /\ Len(Append(s, last)) = n + 1
        /\ Append(s, last)[n + 1] = last /\ \A i \in 1 .. n : Append(s, last)[i] = s[i]
    BY <1>3, <2>1, Pushed
  <2>6. \A i \in 1 .. n + 1 : i = n + 1 \/ i \in 1 .. n
    BY <1>1
  <2>7. \A i \in 1 .. n + 1 : w[i] = Append(s, last)[i]
    BY <2>3, <2>4, <2>5, <2>6
  <2>. QED  BY <2>2, <2>5, <2>7, SeqEqual DEF s, w
<1>. QED
  BY <1>2, <1>3, <1>4, WaitsType, FlattenSeqAppend DEF Waits

-----------------------------------------------------------------------------
(* What can be called *)

LEMMA ReachSeparates ==
  ASSUME Separate
  PROVE  Reach \in [Thread -> SUBSET Founders] /\ Separates(Reach)
<1>1. PICK reach \in [Thread -> SUBSET Founders] : Separates(reach)
  BY DEF Separate
<1>. QED
  BY <1>1 DEF Reach

LEMMA Reached ==
  ASSUME Separate, ArenaStays, NEW t \in Thread, NEW a \in Reach[t]
  PROVE  /\ a \in Agent /\ a # user /\ Visible(t, a) /\ "CLONE" \notin flags[a]
         /\ a \in Adapters => Peers[a] \subseteq Reach[t]
<1>1. Separates(Reach) /\ a \in Founders /\ Founders \subseteq Agent
  BY ReachSeparates, ArenaAssumption DEF Founders
<1>. QED
  BY <1>1 DEF Separates, ArenaStays, Visible

LEMMA CallsOnOne ==
  ASSUME Separate, NEW t \in Thread, NEW u \in Thread,
         NEW a \in Reach[t], a \in Reach[u], Calls(a)
  PROVE  t = u
  BY ReachSeparates DEF Separates, Calls

\* A contact can be called, or is out of the thread's scope for ever.
LEMMA Contacted ==
  ASSUME Separate, ArenaStays, NEW t \in Thread, NEW b \in Contacts[t]
  PROVE  b \in Reach[t] \/ ~Visible(t, b)
<1>1. b \in Reach[t] \/ (b \in Founders /\ ArenaHome[b] \notin {Global, HomeOf(t)})
  BY ReachSeparates DEF Separates
<1>. QED
  BY <1>1 DEF ArenaStays, Visible

-----------------------------------------------------------------------------
(* A thread the step is not about *)

\* What a step leaves alone of thread u.
Apart(u) ==
  /\ uiPending'[u] = uiPending[u] /\ stack'[u] = stack[u]
  /\ phase = "drain" => phase' = "drain"
  /\ \A a \in Reach[u] : Calls(a) => service'[a] = service[a]
  /\ \A a \in Agent : /\ Keeps(outbox[a], outbox'[a], PostsOf(u))
                      /\ Keeps(inbox[a], inbox'[a], MailOf(u))
  /\ Keeps(todos, todos', TodosOf(u))

LEMMA PostedKept ==
  ASSUME NEW u \in Thread, stack'[u] = stack[u],
         \A a \in Reach[u] : Calls(a) => service'[a] = service[a]
  PROVE  /\ \A m : Posted(u, m) => Posted(u, m)'
         /\ \A d : Carried(u, d) => Carried(u, d)'
         /\ Holder(u)' = Holder(u) /\ Top(u)' = Top(u)
<1>1. Holder(u)' = Holder(u) /\ Top(u)' = Top(u)
  BY DEF Holder, Top
<1>2. \A q, x : Serves(u, q, x) => \A a \in Reach[u] : Calls(a) => service'[a] = Waits(u, q, x, a)
  BY DEF Serves
<1>3. ASSUME NEW m, Posted(u, m)  PROVE Posted(u, m)'
  BY <1>1, <1>2, <1>3 DEF Posted, Serves, Calls
<1>4. ASSUME NEW d, Carried(u, d)  PROVE Carried(u, d)'
  BY <1>1, <1>2, <1>4 DEF Carried, Serves, Calls
<1>. QED
  BY <1>1, <1>3, <1>4

LEMMA TrackApart ==
  ASSUME NEW u \in Thread, Track(u), Apart(u), Holder(u) \in Agent
  PROVE  Track(u)'
<1>1. /\ \A m : Posted(u, m) => Posted(u, m)'
      /\ \A d : Carried(u, d) => Carried(u, d)'
      /\ Holder(u)' = Holder(u)
  BY PostedKept DEF Apart
<1>2. /\ \A a \in Agent :
           /\ \A D : Mute(outbox[a], PostsOf(u), D) => Mute(outbox'[a], PostsOf(u), D)
           /\ \A D, x : Ends(outbox[a], PostsOf(u), D, x) => Ends(outbox'[a], PostsOf(u), D, x)
           /\ \A D : Mute(inbox[a], MailOf(u), D) => Mute(inbox'[a], MailOf(u), D)
           /\ \A D, x : Ends(inbox[a], MailOf(u), D, x) => Ends(inbox'[a], MailOf(u), D, x)
      /\ \A D : Mute(todos, TodosOf(u), D) => Mute(todos', TodosOf(u), D)
      /\ \A D, x : Ends(todos, TodosOf(u), D, x) => Ends(todos', TodosOf(u), D, x)
  BY DEF Apart, Keeps
<1>3. /\ NoPost(u) => NoPost(u)'
      /\ NoMail(u) => NoMail(u)'
      /\ NoTodo(u) => NoTodo(u)'
  BY <1>2 DEF NoPost, NoMail, NoTodo
<1>4. ASSUME NEW m  PROVE (AtOutbox(u, m) => AtOutbox(u, m)') /\ (AtTodos(u, m) => AtTodos(u, m)')
  BY <1>1, <1>2, <1>3 DEF AtOutbox, AtTodos
<1>5. ASSUME NEW d  PROVE AtInbox(u, d) => AtInbox(u, d)'
  BY <1>1, <1>2, <1>3 DEF AtInbox
<1>6. Idle(u) => Idle(u)'
  BY <1>3 DEF Idle, Apart, Serves
<1>7. Posting(u) => Posting(u)'
  BY <1>1, <1>4 DEF Posting
<1>8. Carrying(u) => Carrying(u)'
  BY <1>1, <1>5 DEF Carrying
<1>9. Dropped(u) => Dropped(u)'
  BY <1>3 DEF Dropped, Apart
<1>. QED
  BY <1>6, <1>7, <1>8, <1>9 DEF Track, Apart

-----------------------------------------------------------------------------
(* The user sends *)

LEMMA QueueTypes ==
  ASSUME RTypeOK, NEW a \in Agent
  PROVE  outbox[a] \in Seq(Message) /\ inbox[a] \in Seq(Delivery) /\ service[a] \in Seq(Entry)
  BY DEF RTypeOK

LEMMA HolderThere == ASSUME RInv, NEW t \in Thread PROVE Holder(t) \in Agent
  BY HolderType, UserExists DEF RInv, IInv

\* The frames, while neither they nor the processes change.
LEMMA FramesKept ==
  ASSUME NEW t \in Thread, FramesOK(t), stack'[t] = stack[t], pending'[t] = pending[t],
         UNCHANGED <<proc, phase, draining>>
  PROVE  FramesOK(t)'
  BY DEF FramesOK, Draining

Threads == \A t \in Thread : FramesOK(t) /\ Track(t)

LEMMA SendFlows ==
  ASSUME RInv, Calm, Threads, NEW t \in Thread, NEW b \in Contacts[t], UserSend(t, b)
  PROVE  Calm' /\ Threads'
<1>. DEFINE m == Request(t, NoId, To(b), {})
<1>1. /\ outbox' = [outbox EXCEPT ![user] = Append(@, m)]
      /\ uiPending' = [uiPending EXCEPT ![t] = TRUE] /\ ~uiPending[t]
      /\ UNCHANGED <<stack, pending, proc, inbox, service, fds, events, todos, phase, draining>>
  BY DEF UserSend, program, vars
<1>2. outbox \in [Agent -> Seq(Message)] /\ uiPending \in [Thread -> BOOLEAN] /\ user \in Agent
  BY UserExists DEF RInv, RTypeOK
<1>3. m \in Message /\ m.thread = t /\ ~m.data
  <2>1. b \in Agent
    BY RuntimeAssumption
  <2>. QED  BY <2>1, Made DEF Request, NoId
<1>4. /\ outbox'[user] = Append(outbox[user], m) /\ outbox[user] \in Seq(Message)
      /\ Append(outbox[user], m) = outbox[user] \o <<m>>
      /\ \A a \in Agent \ {user} : outbox'[a] = outbox[a]
      /\ uiPending'[t] = TRUE /\ \A u \in Thread \ {t} : uiPending'[u] = uiPending[u]
  BY <1>1, <1>2
<1>5. Calm'
  <2>1. \A a \in Agent : outbox[a] # <<>> => outbox'[a] # <<>>
    <3>1. outbox'[user] # <<>>
      BY <1>3, <1>4
    <3>. QED  BY <1>4, <3>1
  <2>2. \A e \in events : e[1] \in Agent
    BY DEF RInv, RTypeOK
  <2>. QED  BY <1>1, <2>1, <2>2 DEF Calm, fds
<1>6. ASSUME NEW u \in Thread  PROVE FramesOK(u)'
  BY <1>1, <1>6, FramesKept DEF Threads
<1>7. ASSUME NEW u \in Thread, u # t  PROVE Track(u)'
  <2>1. m \notin PostsOf(u)
    BY <1>3, <1>7 DEF PostsOf
  <2>2. \A a \in Agent : Keeps(outbox[a], outbox'[a], PostsOf(u))
    BY <1>3, <1>4, <2>1, KeepsPut, KeepsSame
  <2>3. Apart(u)
    BY <1>1, <1>4, <1>7, <2>2, KeepsSame DEF Apart
  <2>. QED  BY <1>7, <2>3, TrackApart, HolderThere DEF Threads
<1>8. Track(t)'
  <2>1. Idle(t)
    BY <1>1 DEF Threads, Track
  <2>2. stack'[t] = <<>> /\ Holder(t)' = user /\ Serves(t, <<>>, user)'
    BY <1>1, <2>1 DEF Idle, Holder, Serves
  <2>3. Posted(t, m)'
    BY <2>2 DEF Posted
  <2>4. m \in PostsOf(t) /\ m \notin Plain /\ Mute(outbox[user], PostsOf(t), Plain)
    BY <1>2, <1>3, <2>1, MuteMore DEF PostsOf, Plain, Idle, NoPost
  <2>5. Ends(outbox'[user], PostsOf(t), Plain, m)
    BY <1>3, <1>4, <2>4, EndsMade
  <2>6. AtOutbox(t, m)'
    <3>1. \A a \in Agent \ {user} : Mute(outbox'[a], PostsOf(t), {})
      BY <1>4, <2>1 DEF Idle, NoPost
    <3>2. Mute(todos', TodosOf(t), PlainTodos(user)) /\ NoMail(t)'
      BY <1>1, <2>1, MuteMore DEF Idle, NoTodo, NoMail
    <3>. QED  BY <2>2, <2>5, <3>1, <3>2 DEF AtOutbox
  <2>. QED  BY <1>3, <1>4, <2>3, <2>6 DEF Track, Posting
<1>. QED
  BY <1>5, <1>6, <1>7, <1>8 DEF Threads

-----------------------------------------------------------------------------
(* A round of an adapter *)

\* The top frame and those below it.
LEMMA FramesSplit ==
  ASSUME RInv, NEW t \in Thread, stack[t] # <<>>
  PROVE  /\ Front(stack[t]) \in Seq(Frame) /\ Top(t) \in Frame
         /\ stack[t] = Append(Front(stack[t]), Top(t))
         /\ Top(t).to = Holder(t) /\ Top(t).to \in Agent /\ Top(t).from \in Agent
         /\ Len(Front(stack[t])) = Len(stack[t]) - 1
         /\ \A i \in 1 .. Len(stack[t]) - 1 : Front(stack[t])[i] = stack[t][i]
<1>1. stack[t] \in Seq(Frame)
  BY DEF RInv, IInv, TypeOK
<1>2. Top(t) \in Frame
  BY TopType DEF RInv, IInv
<1>3. Len(stack[t]) - 1 \in 0 .. Len(stack[t])
  BY <1>1
<1>4. /\ Front(stack[t]) \in Seq(Frame) /\ Len(Front(stack[t])) = Len(stack[t]) - 1
      /\ \A i \in 1 .. Len(stack[t]) - 1 : Front(stack[t])[i] = stack[t][i]
  BY <1>1, <1>3, Cut DEF Front
<1>5. stack[t] = Append(Front(stack[t]), Top(t))
  <2>. DEFINE q == Append(Front(stack[t]), Top(t))
              n == Len(stack[t]) - 1
  <2>1. q \in Seq(Frame) /\ Len(q) = n + 1 /\ q[n + 1] = Top(t) /\ \A i \in 1 .. n : q[i] = stack[t][i]
    BY <1>2, <1>4, Pushed
  <2>2. Len(stack[t]) = n + 1 /\ stack[t][n + 1] = Top(t) /\ \A i \in 1 .. n + 1 : i = n + 1 \/ i \in 1 .. n
    BY <1>1 DEF Top
  <2>. HIDE DEF q, n
  <2>3. \A i \in 1 .. Len(stack[t]) : stack[t][i] = q[i]
    BY <2>1, <2>2
  <2>4. stack[t] = q
    BY <1>1, <2>1, <2>2, <2>3, SeqEqual
  <2>. QED  BY <2>4 DEF q
<1>6. Top(t).to \in Agent /\ Top(t).from \in Agent
  BY <1>2 DEF Frame
<1>. QED
  BY <1>2, <1>4, <1>5, <1>6 DEF Holder

LEMMA WaitsTop ==
  ASSUME RInv, NEW t \in Thread, stack[t] # <<>>, NEW x \in Agent, NEW a
  PROVE  /\ Waits(t, stack[t], x, a) =
              Waits(t, Front(stack[t]), Holder(t), a) \o
              (IF Holder(t) = a THEN <<Incoming(t, Top(t)), Outgoing(t, x)>> ELSE <<>>)
         /\ Waits(t, Front(stack[t]), Holder(t), a) \in Seq(Entry)
<1>1. PICK q, f : q = Front(stack[t]) /\ f = Top(t)
  OBVIOUS
<1>2. q \in Seq(Frame) /\ f \in Frame /\ stack[t] = Append(q, f) /\ f.to = Holder(t) /\ f.to \in Agent
  BY <1>1, FramesSplit
<1>3. Waits(t, Append(q, f), x, a) =
        Waits(t, q, f.to, a) \o
        (IF f.to = a THEN <<Incoming(t, f), Outgoing(t, x)>> ELSE <<>>)
  BY <1>2, WaitsAppend
<1>5. Waits(t, q, f.to, a) \in Seq(Entry)
  BY <1>2, WaitsType
<1>4. Append(q, f) = stack[t] /\ f.to = Holder(t)
  BY <1>2
<1>. QED
  BY <1>1, <1>3, <1>4, <1>5

\* The stack below the call an adapter serves, when the frames below the top one
\* and the callee's own calls are on it.
Below(t, a, s) ==
  /\ s \in Seq(Entry)
  /\ IF Calls(a) THEN s = Waits(t, Front(stack[t]), a, a) ELSE s = <<>>

LEMMA LastPair ==
  ASSUME NEW s \in Seq(Entry), NEW e \in Entry, NEW f \in Entry
  PROVE  /\ s \o <<e, f>> # <<>> /\ Last(s \o <<e, f>>) = f
         /\ Front(s \o <<e, f>>) = Append(s, e)
         /\ Len(s \o <<e, f>>) # 1
         /\ Append(s, e) # <<>> /\ Last(Append(s, e)) = e /\ Front(Append(s, e)) = s
         /\ Append(Append(s, e), f) = s \o <<e, f>>
<1>1. /\ Append(s, e) \in Seq(Entry) /\ Len(Append(s, e)) = Len(s) + 1 /\ Len(s) \in Nat
      /\ Append(s, e)[Len(s) + 1] = e /\ \A i \in 1 .. Len(s) : Append(s, e)[i] = s[i]
  BY Pushed
<1>2. /\ Append(Append(s, e), f) \in Seq(Entry) /\ Len(Append(Append(s, e), f)) = Len(s) + 2
      /\ Append(Append(s, e), f)[Len(s) + 2] = f
      /\ \A i \in 1 .. Len(s) + 1 : Append(Append(s, e), f)[i] = Append(s, e)[i]
  <2>1. Len(s) + 1 + 1 = Len(s) + 2
    BY <1>1
  <2>. QED  BY <1>1, <2>1, Pushed
<1>3. Append(Append(s, e), f) = s \o <<e, f>>
  OBVIOUS
<1>4. Front(Append(s, e)) = s
  <2>. DEFINE q == Append(s, e)
  <2>1. Len(q) - 1 = Len(s) /\ Len(s) \in 0 .. Len(q)
    BY <1>1
  <2>2. SubSeq(q, 1, Len(s)) \in Seq(Entry) /\ Len(SubSeq(q, 1, Len(s))) = Len(s)
        /\ \A i \in 1 .. Len(s) : SubSeq(q, 1, Len(s))[i] = q[i]
    BY <1>1, <2>1, Cut
  <2>3. SubSeq(q, 1, Len(s)) = s
    BY <1>1, <2>2, SeqEqual
  <2>. QED  BY <2>1, <2>3 DEF Front
<1>5. Front(Append(Append(s, e), f)) = Append(s, e) /\ Len(s) + 2 # 1
  <2>. DEFINE r == Append(s, e)
              q == Append(r, f)
  <2>1. Len(q) - 1 = Len(r) /\ Len(r) \in 0 .. Len(q)
    BY <1>1, <1>2
  <2>2. SubSeq(q, 1, Len(r)) \in Seq(Entry) /\ Len(SubSeq(q, 1, Len(r))) = Len(r)
        /\ \A i \in 1 .. Len(r) : SubSeq(q, 1, Len(r))[i] = q[i]
    BY <1>2, <2>1, Cut
  <2>3. SubSeq(q, 1, Len(r)) = r
    BY <1>1, <1>2, <2>2, SeqEqual
  <2>. QED  BY <1>1, <2>1, <2>3 DEF Front
<1>6. Last(Append(s, e)) = e /\ Last(Append(Append(s, e), f)) = f
  BY <1>1, <1>2 DEF Last
<1>7. Append(s, e) # <<>> /\ Append(Append(s, e), f) # <<>>
  OBVIOUS
<1>. QED
  BY <1>2, <1>3, <1>4, <1>5, <1>6, <1>7

\* What an adapter is sent is for the call it serves or answers the one it made.
Rounds(a, t, s) ==
  /\ t = Head(inbox[a]).thread /\ t \in Thread /\ stack[t] # <<>> /\ a = Holder(t)
  /\ AtInbox(t, Head(inbox[a])) /\ Mute(Tail(inbox[a]), MailOf(t), {})
  /\ Head(inbox[a]).reply =>
       /\ Expected(a, Head(inbox[a])) /\ Len(service[a]) # 1
       /\ Last(Front(service[a])).incoming
  /\ Below(t, a, s) /\ Serving(a, Head(inbox[a])) = Append(s, Incoming(t, Top(t)))
  /\ \A c \in Reach[t] : c # a /\ Calls(c) => service[c] = Waits(t, Front(stack[t]), a, c)

LEMMA RoundIs ==
  ASSUME RInv, Separate, ArenaStays, Calm, Threads, NEW a \in Adapters, inbox[a] # <<>>
  PROVE  uiPending[Head(inbox[a]).thread] /\ \E s : Rounds(a, Head(inbox[a]).thread, s)
<1>. DEFINE d == Head(inbox[a])
            t == d.thread
            f == Top(t)
            e == Incoming(t, f)
<1>1. a \in Agent /\ inbox[a] \in Seq(Delivery) /\ d \in Delivery /\ Tail(inbox[a]) \in Seq(Delivery)
      /\ 1 \in 1 .. Len(inbox[a]) /\ inbox[a][1] = d
  <2>1. a \in Agent /\ inbox[a] \in Seq(Delivery)
    BY QueueTypes DEF Adapters, RInv
  <2>. QED  BY <2>1, FirstOf
<1>2. t \in Thread /\ d \in MailOf(t)
  BY <1>1 DEF Delivery, MailOf
<1>3. ~NoMail(t)
  BY <1>1, <1>2 DEF NoMail, Mute
<1>4. uiPending[t] /\ Carrying(t)
  BY <1>2, <1>3 DEF Threads, Track, Idle, Posting, AtOutbox, AtTodos, Dropped
<1>5. PICK d0 \in Delivery : Carried(t, d0) /\ AtInbox(t, d0)
  BY <1>4 DEF Carrying
<1>6. a = Holder(t)
  BY <1>1, <1>2, <1>5 DEF AtInbox, Mute
<1>7. d = d0 /\ Mute(Tail(inbox[a]), MailOf(t), {})
  BY <1>1, <1>2, <1>5, <1>6, EndsTaken DEF AtInbox
<1>8. stack[t] # <<>>
  BY <1>5 DEF Carried
<1>9. /\ Front(stack[t]) \in Seq(Frame) /\ f \in Frame /\ f.to = a /\ f.from \in Agent
      /\ stack[t] = Append(Front(stack[t]), f)
  BY <1>2, <1>6, <1>8, FramesSplit
<1>10. e \in Entry /\ e.incoming
  BY <1>2, <1>9 DEF Incoming, Entry, Frame
<1>11. a \in Reach[t]
  <2>1. Len(stack[t]) \in 1 .. Len(stack[t])
    BY <1>2, <1>8, TopType DEF RInv, IInv
  <2>. QED  BY <1>2, <1>9, <2>1 DEF Threads, FramesOK, Top
<1>. HIDE DEF e, f
<1>12. CASE ~d.reply
  <2>1. d = [thread |-> t, id |-> f.id, from |-> f.from, reply |-> FALSE]
        /\ Serves(t, Front(stack[t]), a)
    BY <1>5, <1>6, <1>7, <1>12 DEF Carried, f
  <2>2. Serving(a, d) = Append(service[a], e)
    <3>1. d.thread = t /\ d.id = f.id /\ d.from = f.from
      BY <2>1
    <3>. QED  BY <1>12, <3>1 DEF Serving, e, Incoming
  <2>3. Below(t, a, service[a])
    BY <1>1, <1>11, <2>1, QueueTypes DEF Below, Serves, Calls, Calm, RInv
  <2>4. Rounds(a, t, service[a])
    BY <1>2, <1>5, <1>6, <1>7, <1>8, <1>12, <2>1, <2>2, <2>3 DEF Rounds, e, f, Serves
  <2>. QED  BY <1>4, <2>4
<1>13. CASE d.reply
  <2>1. Peers[a] # {} /\ Serves(t, stack[t], d.from)
    BY <1>5, <1>6, <1>7, <1>13 DEF Carried
  <2>. DEFINE s == Waits(t, Front(stack[t]), a, a)
              o == Outgoing(t, d.from)
  <2>2. Calls(a)
    BY <2>1 DEF Calls
  <2>3. d.from \in Agent
    BY <1>5, <1>7, <1>13 DEF Carried
  <2>4. s \in Seq(Entry)
    BY <1>1, <1>2, <1>9, WaitsType
  <2>5. service[a] = s \o <<e, o>>
    <3>1. service[a] = Waits(t, stack[t], d.from, a)
      BY <1>11, <2>1, <2>2 DEF Serves
    <3>. QED  BY <1>2, <1>6, <1>8, <2>3, <3>1, WaitsTop DEF e, f
  <2>6. o \in Entry /\ ~o.incoming /\ o.peer = d.from
    BY <1>2, <2>3 DEF Outgoing, Entry, NoId
  <2>. HIDE DEF s, o
  <2>7. /\ service[a] # <<>> /\ Last(service[a]) = o /\ Len(service[a]) # 1
        /\ Front(service[a]) = Append(s, e) /\ Last(Append(s, e)) = e
    BY <1>10, <2>4, <2>5, <2>6, LastPair
  <2>8. Expected(a, d) /\ Serving(a, d) = Append(s, e) /\ Last(Front(service[a])).incoming
    BY <1>10, <1>13, <2>6, <2>7 DEF Expected, Serving
  <2>9. Below(t, a, s)
    BY <2>2, <2>4 DEF Below, s
  <2>10. ASSUME NEW c \in Reach[t], c # a, Calls(c)
         PROVE  service[c] = Waits(t, Front(stack[t]), a, c)
    <3>1. service[c] = Waits(t, stack[t], d.from, c)
      BY <2>1, <2>10 DEF Serves
    <3>2. Holder(t) # c /\ Holder(t) = a
      BY <1>6, <2>10
    <3>3. service[c] = Waits(t, Front(stack[t]), Holder(t), c) \o <<>>
      BY <1>2, <1>8, <2>3, <3>1, <3>2, WaitsTop
    <3>4. Waits(t, Front(stack[t]), a, c) \in Seq(Entry)
      BY <1>1, <1>2, <1>9, WaitsType
    <3>. QED  BY <3>2, <3>3, <3>4
  <2>11. Rounds(a, t, s)
    BY <1>2, <1>5, <1>6, <1>7, <1>8, <2>7, <2>8, <2>9, <2>10 DEF Rounds, e, f
  <2>. QED  BY <1>4, <2>11
<1>. QED
  BY <1>12, <1>13

LEMMA KeepsTwice ==
  ASSUME NEW q, NEW r, NEW w, NEW S, Keeps(q, r, S), Keeps(r, w, S)
  PROVE  Keeps(q, w, S)
  BY DEF Keeps

LEMMA NotesPlain ==
  ASSUME NEW a, NEW t \in Thread, NEW S
  PROVE  /\ Mute(Notes(a, t), S, Plain) /\ Notes(a, t) \in Seq(Message)
         /\ \A u \in Thread \ {t} : Mute(Notes(a, t), PostsOf(u), {})
<1>1. DataMessage(t) \in Plain /\ DataMessage(t).thread = t
  BY Made, UserExists DEF DataMessage, Plain
<1>. QED
  BY <1>1, NotesType DEF Notes, Mute, PostsOf

\* The holder of the thread of a round.
LEMMA RoundOwner ==
  ASSUME RInv, Threads, NEW t \in Thread, stack[t] # <<>>
  PROVE  Holder(t) \in Reach[t] /\ Len(stack[t]) \in 1 .. Len(stack[t])
<1>1. Len(stack[t]) \in 1 .. Len(stack[t])
  BY TopType DEF RInv, IInv
<1>. QED
  BY <1>1 DEF Threads, FramesOK, Holder, Top

\* An adapter ends a round: it posts m, after its notes, and its stack is q.
LEMMA PostFlows ==
  ASSUME RInv, Separate, ArenaStays, Calm, Threads, NEW a \in Adapters, inbox[a] # <<>>,
         NEW t \in Thread, NEW s, Rounds(a, t, s), uiPending[t],
         NEW m \in Message, m.thread = t, ~m.data, NEW q,
         outbox' = [outbox EXCEPT ![a] = outbox[a] \o Notes(a, t) \o <<m>>],
         inbox' = [inbox EXCEPT ![a] = Tail(inbox[a])],
         service' = [service EXCEPT ![a] = q], ~Calls(a) => q = <<>>,
         proc[a] = "up", Posted(t, m)',
         UNCHANGED <<stack, pending, proc, stale, events, todos, uiPending, phase, draining>>
  PROVE  Calm' /\ Threads'
<1>1. /\ a \in Agent /\ outbox[a] \in Seq(Message) /\ inbox[a] \in Seq(Delivery)
      /\ outbox \in [Agent -> Seq(Message)] /\ inbox \in [Agent -> Seq(Delivery)]
      /\ service \in [Agent -> Seq(Entry)]
  BY DEF Adapters, RInv, RTypeOK
<1>2. /\ outbox'[a] = outbox[a] \o Notes(a, t) \o <<m>> /\ inbox'[a] = Tail(inbox[a])
      /\ service'[a] = q
      /\ \A c \in Agent \ {a} : outbox'[c] = outbox[c] /\ inbox'[c] = inbox[c]
                                /\ service'[c] = service[c]
  BY <1>1
<1>3. Notes(a, t) \in Seq(Message) /\ outbox[a] \o Notes(a, t) \in Seq(Message)
  <2>1. Notes(a, t) \in Seq(Message)
    BY NotesType
  <2>. QED  BY <1>1, <2>1
<1>4. a \in Reach[t] /\ a = Holder(t) /\ AtInbox(t, Head(inbox[a])) /\ t = Head(inbox[a]).thread
      /\ Mute(Tail(inbox[a]), MailOf(t), {})
  BY RoundOwner DEF Rounds
<1>5. Calm'
  <2>1. outbox'[a] # <<>>
    BY <1>2, <1>3
  <2>2. \A c \in Agent : outbox[c] # <<>> => outbox'[c] # <<>>
    BY <1>2, <2>1
  <2>3. \A e \in events : e[1] \in Agent
    BY DEF RInv, RTypeOK
  <2>4. \A c \in Agent : /\ proc[c] = "none" => inbox'[c] = <<>>
                         /\ c \in Adapters /\ (Peers[c] = {} \/ Unreached(c)) => service'[c] = <<>>
                         /\ c \in Adapters /\ proc[c] = "none" => service'[c] = service[c]
    <3>1. ~Unreached(a)
      BY <1>4 DEF Unreached
    <3>. QED  BY <1>1, <1>2, <3>1 DEF Calm, Calls
  <2>. QED  BY <1>1, <2>2, <2>3, <2>4 DEF Calm, Adapters
<1>6. ASSUME NEW u \in Thread  PROVE FramesOK(u)'
  BY <1>6, FramesKept DEF Threads
<1>7. ASSUME NEW u \in Thread, u # t  PROVE Track(u)'
  <2>1. Keeps(outbox[a], outbox'[a], PostsOf(u))
    <3>1. Keeps(outbox[a], outbox[a] \o Notes(a, t), PostsOf(u))
      BY <1>1, <1>3, <1>7, NotesPlain, KeepsJoined
    <3>2. Mute(<<m>>, PostsOf(u), {}) /\ <<m>> \in Seq(Message)
      BY <1>7 DEF Mute, PostsOf
    <3>3. Keeps(outbox[a] \o Notes(a, t), outbox[a] \o Notes(a, t) \o <<m>>, PostsOf(u))
      BY <1>3, <3>2, KeepsJoined
    <3>. QED  BY <1>2, <3>1, <3>3, KeepsTwice
  <2>2. Keeps(inbox[a], inbox'[a], MailOf(u))
    <3>1. Head(inbox[a]) \notin MailOf(u)
      BY <1>4, <1>7 DEF MailOf
    <3>. QED  BY <1>1, <1>2, <3>1, KeepsTail
  <2>3. \A c \in Reach[u] : Calls(c) => service'[c] = service[c]
    <3>1. Reach[u] \subseteq Agent
      BY ReachSeparates, ArenaAssumption DEF Founders
    <3>2. a \in Reach[u] => ~Calls(a)
      BY <1>4, <1>7, CallsOnOne
    <3>. QED  BY <1>2, <3>1, <3>2
  <2>4. Apart(u)
    BY <1>2, <2>1, <2>2, <2>3, KeepsSame DEF Apart
  <2>. QED  BY <1>7, <2>4, TrackApart, HolderThere DEF Threads
<1>8. Track(t)'
  <2>1. Holder(t)' = a
    BY <1>4 DEF Holder, Top
  <2>2. Ends(outbox'[a], PostsOf(t), Plain, m)
    <3>1. Mute(outbox[a], PostsOf(t), Plain)
      BY <1>1, <1>4, MuteMore DEF AtInbox, NoPost
    <3>2. Mute(outbox[a] \o Notes(a, t), PostsOf(t), Plain)
      BY <1>1, <1>3, <3>1, NotesPlain, MuteJoined
    <3>3. m \in PostsOf(t) /\ m \notin Plain
      BY DEF PostsOf, Plain
    <3>4. \A w \in Seq(Message) :
            Mute(w, PostsOf(t), Plain) => Ends(w \o <<m>>, PostsOf(t), Plain, m)
      BY <3>3, EndsMade
    <3>5. Ends(outbox[a] \o Notes(a, t) \o <<m>>, PostsOf(t), Plain, m)
      BY <1>3, <3>2, <3>4
    <3>. QED  BY <1>2, <3>5
  <2>3. \A c \in Agent \ {a} : Mute(outbox'[c], PostsOf(t), {})
    BY <1>2, <1>4 DEF AtInbox, NoPost
  <2>4. Mute(todos', TodosOf(t), PlainTodos(a))
    BY <1>4, MuteMore DEF AtInbox, NoTodo
  <2>5. NoMail(t)'
    BY <1>2, <1>4 DEF AtInbox, NoMail
  <2>6. AtOutbox(t, m)'
    BY <2>1, <2>2, <2>3, <2>4, <2>5 DEF AtOutbox
  <2>. QED  BY <2>6 DEF Track, Posting
<1>. QED
  BY <1>5, <1>6, <1>7, <1>8 DEF Threads

LEMMA ReplyFlows ==
  ASSUME RInv, Separate, ArenaStays, Calm, Threads, NEW a \in Adapters, AdapterReply(a)
  PROVE  Calm' /\ Threads'
<1>1. inbox[a] # <<>> /\ proc[a] = "up"
  BY DEF AdapterReply
<1>. PICK t : t = Head(inbox[a]).thread
  OBVIOUS
<1>. PICK e, m : e = Incoming(t, Top(t)) /\ m = Reply(t, Top(t).id, {})
  OBVIOUS
<1>2. uiPending[t]
  BY <1>1, RoundIs
<1>3. PICK s : Rounds(a, t, s)
  BY <1>1, RoundIs
<1>4. t \in Thread /\ stack[t] # <<>> /\ a = Holder(t) /\ s \in Seq(Entry)
  BY <1>3 DEF Rounds, Below
<1>5. Top(t) \in Frame /\ Top(t).id \in Nat
  <2>1. Top(t) \in Frame
    BY <1>4, FramesSplit
  <2>. QED  BY <2>1 DEF Frame
<1>6. e \in Entry /\ e.thread = t /\ e.id = Top(t).id
  BY <1>4, <1>5 DEF Incoming, Entry, Frame
<1>7. Serving(a, Head(inbox[a])) = Append(s, e) /\ Last(Append(s, e)) = e /\ Front(Append(s, e)) = s
  BY <1>3, <1>4, <1>6, LastPair DEF Rounds
<1>8. /\ outbox' = [outbox EXCEPT ![a] = outbox[a] \o Notes(a, t) \o <<m>>]
      /\ inbox' = [inbox EXCEPT ![a] = Tail(inbox[a])]
      /\ service' = [service EXCEPT ![a] = s]
      /\ UNCHANGED <<stack, pending, proc, stale, events, todos, uiPending, phase, draining>>
  <2>1. /\ outbox' = [outbox EXCEPT ![a] = @ \o Notes(a, e.thread) \o <<Reply(e.thread, e.id, {})>>]
        /\ service' = [service EXCEPT ![a] = s]
    BY <1>7 DEF AdapterReply
  <2>. QED  BY <1>6, <2>1 DEF AdapterReply, program, vars, fds
<1>9. m \in Message /\ m.thread = t /\ ~m.data
  BY <1>4, <1>5, Made, UserExists DEF Reply
<1>10. ~Calls(a) => s = <<>>
  BY <1>3 DEF Rounds, Below
<1>11. Posted(t, m)'
  <2>1. \A c \in Reach[t] : Calls(c) => service'[c] = Waits(t, Front(stack[t]), Holder(t), c)
    <3>1. service \in [Agent -> Seq(Entry)] /\ a \in Agent
      BY DEF RInv, RTypeOK, Adapters
    <3>2. Reach[t] \subseteq Agent
      BY <1>4, ReachSeparates, ArenaAssumption DEF Founders
    <3>3. Calls(a) => service'[a] = Waits(t, Front(stack[t]), a, a)
      BY <1>3, <1>8, <3>1 DEF Rounds, Below
    <3>4. \A c \in Reach[t] : c # a /\ Calls(c) => service'[c] = Waits(t, Front(stack[t]), a, c)
      BY <1>3, <1>8, <3>1, <3>2 DEF Rounds
    <3>. QED  BY <1>4, <3>3, <3>4
  <2>2. Holder(t)' = Holder(t) /\ Top(t)' = Top(t) /\ stack'[t] = stack[t]
    BY <1>8 DEF Holder, Top
  <2>3. Serves(t, Front(stack[t]), Holder(t))'
    BY <2>1, <2>2 DEF Serves
  <2>. QED  BY <1>4, <2>2, <2>3 DEF Posted
<1>. QED
  BY <1>1, <1>2, <1>3, <1>4, <1>8, <1>9, <1>10, <1>11, PostFlows

LEMMA CallFlows ==
  ASSUME RInv, Separate, ArenaStays, Calm, Threads, NEW a \in Adapters, NEW b \in Peers[a],
         AdapterCall(a, b)
  PROVE  Calm' /\ Threads'
<1>1. inbox[a] # <<>> /\ proc[a] = "up" /\ a \in Agent /\ b \in Agent
  BY RuntimeAssumption DEF AdapterCall, Adapters
<1>. PICK t : t = Head(inbox[a]).thread
  OBVIOUS
<1>. PICK e, m, o :
       /\ e = Incoming(t, Top(t)) /\ m = Request(t, Top(t).id, To(b), {})
       /\ o = Outgoing(t, b)
  OBVIOUS
<1>2. uiPending[t]
  BY <1>1, RoundIs
<1>3. PICK s : Rounds(a, t, s)
  BY <1>1, RoundIs
<1>4. t \in Thread /\ stack[t] # <<>> /\ a = Holder(t) /\ s \in Seq(Entry) /\ Calls(a)
  BY <1>3 DEF Rounds, Below, Calls
<1>5. Top(t) \in Frame /\ Top(t).id \in Nat
  <2>1. Top(t) \in Frame
    BY <1>4, FramesSplit
  <2>. QED  BY <2>1 DEF Frame
<1>6. e \in Entry /\ e.thread = t /\ e.id = Top(t).id /\ o \in Entry
  BY <1>1, <1>4, <1>5 DEF Incoming, Outgoing, Entry, Frame, NoId
<1>7. /\ Serving(a, Head(inbox[a])) = Append(s, e) /\ Last(Append(s, e)) = e
      /\ Append(Append(s, e), o) = s \o <<e, o>>
  BY <1>3, <1>4, <1>6, LastPair DEF Rounds
<1>8. /\ outbox' = [outbox EXCEPT ![a] = outbox[a] \o Notes(a, t) \o <<m>>]
      /\ inbox' = [inbox EXCEPT ![a] = Tail(inbox[a])]
      /\ service' = [service EXCEPT ![a] = s \o <<e, o>>]
      /\ UNCHANGED <<stack, pending, proc, stale, events, todos, uiPending, phase, draining>>
  <2>1. /\ outbox' = [outbox EXCEPT ![a] =
                        @ \o Notes(a, e.thread) \o <<Request(e.thread, e.id, To(b), {})>>]
        /\ service' = [service EXCEPT ![a] =
             Append(Append(s, e), [incoming |-> FALSE, thread |-> e.thread,
                                   id |-> NoId, peer |-> b])]
    BY <1>7 DEF AdapterCall
  <2>2. o = [incoming |-> FALSE, thread |-> e.thread, id |-> NoId, peer |-> b]
    BY <1>6 DEF Outgoing
  <2>. QED  BY <1>6, <1>7, <2>1, <2>2 DEF AdapterCall, program, vars, fds
<1>9. m \in Message /\ m.thread = t /\ ~m.data
  BY <1>1, <1>4, <1>5, Made DEF Request
<1>10. Posted(t, m)'
  <2>1. \A c \in Reach[t] : Calls(c) => service'[c] = Waits(t, stack[t], b, c)
    <3>1. service \in [Agent -> Seq(Entry)]
      BY DEF RInv, RTypeOK
    <3>2. Reach[t] \subseteq Agent
      BY <1>4, ReachSeparates, ArenaAssumption DEF Founders
    <3>3. service'[a] = Waits(t, stack[t], b, a)
      <4>1. s = Waits(t, Front(stack[t]), Holder(t), a)
        BY <1>3, <1>4 DEF Rounds, Below
      <4>2. Waits(t, stack[t], b, a) = Waits(t, Front(stack[t]), Holder(t), a) \o <<e, o>>
        BY <1>1, <1>4, WaitsTop
      <4>. QED  BY <1>1, <1>8, <3>1, <4>1, <4>2
    <3>4. ASSUME NEW c \in Reach[t], c # a, Calls(c)
          PROVE  service'[c] = Waits(t, stack[t], b, c)
      <4>1. service'[c] = Waits(t, Front(stack[t]), Holder(t), c)
        BY <1>3, <1>4, <1>8, <3>1, <3>2, <3>4 DEF Rounds
      <4>2. Waits(t, stack[t], b, c) = Waits(t, Front(stack[t]), Holder(t), c) \o <<>>
        <5>1. Holder(t) # c
          BY <1>4, <3>4
        <5>. QED  BY <1>1, <1>4, <5>1, WaitsTop
      <4>3. Waits(t, Front(stack[t]), Holder(t), c) \in Seq(Entry)
        BY <1>1, <1>4, WaitsTop
      <4>. QED  BY <4>1, <4>2, <4>3
    <3>. QED  BY <3>3, <3>4
  <2>2. Holder(t)' = Holder(t) /\ Top(t)' = Top(t) /\ stack'[t] = stack[t]
    BY <1>8 DEF Holder, Top
  <2>3. Serves(t, stack[t], b)'
    BY <2>1, <2>2 DEF Serves
  <2>. QED  BY <1>4, <2>2, <2>3 DEF Posted
<1>. PICK q : q = s \o <<e, o>>
  OBVIOUS
<1>. QED
  BY <1>1, <1>2, <1>3, <1>4, <1>8, <1>9, <1>10, PostFlows

\* LinearService's CHECKs hold.
LEMMA ChecksHold ==
  ASSUME RInv, Separate, ArenaStays, Calm, Threads, NEW a \in Adapters
  PROVE  ~AdapterCheck(a)
<1>. SUFFICES ASSUME AdapterCheck(a) PROVE FALSE
  OBVIOUS
<1>1. inbox[a] # <<>>
  BY DEF AdapterCheck
<1>2. PICK s : Rounds(a, Head(inbox[a]).thread, s)
  BY <1>1, RoundIs
<1>. QED
  BY <1>2 DEF AdapterCheck, Rounds

-----------------------------------------------------------------------------
(* Polling and receiving *)

LEMMA TakenParts ==
  ASSUME NEW a \in Agent, NEW m \in Message, NEW t \in Thread
  PROVE  /\ Taken(a, m) \in Todo
         /\ Taken(a, m) \in TodosOf(t) <=> m \in PostsOf(t)
         /\ Taken(a, m) \in PlainTodos(a) <=> m \in Plain
  BY DEF Taken, Todo, TodosOf, PostsOf, PlainTodos, Plain

\* What LoopDriver hands over and what is left.
LEMMA ReceivedLoop ==
  ASSUME RInv, NEW a \in Agent, a \in Loops
  PROVE  /\ Len(Received(a)) = Len(outbox[a]) /\ Remaining(a) = <<>>
         /\ \A i \in 1 .. Len(outbox[a]) :
              Received(a)[i] = Taken(a, outbox[a][i]) /\ outbox[a][i] \in Message
<1>1. outbox[a] \in Seq(Message) /\ Len(outbox[a]) \in Nat
  BY QueueTypes DEF RInv
<1>2. Received(a) = [i \in 1 .. Len(outbox[a]) |-> Taken(a, outbox[a][i])]
  BY DEF Received, Taken
<1>3. Received(a) \in Seq(Todo)
  BY ReceivedType DEF RInv
<1>4. Len(Received(a)) = Len(outbox[a])
  <2>1. DOMAIN Received(a) = 1 .. Len(outbox[a])
    BY <1>2
  <2>. QED  BY <1>1, <1>3, <2>1
<1>. QED
  BY <1>1, <1>2, <1>4 DEF Remaining

\* ... and ShellDriver.
LEMMA ReceivedOne ==
  ASSUME RInv, NEW a \in Agent, a \notin Loops, outbox[a] # <<>>
  PROVE  /\ Received(a) = <<Taken(a, Head(outbox[a]))>> /\ Remaining(a) = Tail(outbox[a])
         /\ outbox[a] \in Seq(Message) /\ Head(outbox[a]) \in Message
<1>1. outbox[a] \in Seq(Message)
  BY QueueTypes DEF RInv
<1>2. Head(outbox[a]) \in Message
  BY <1>1, FirstOf
<1>. QED
  BY <1>1, <1>2 DEF Received, Remaining, Taken

LEMMA MuteReceived ==
  ASSUME RInv, NEW a \in Agent, outbox[a] # <<>>, NEW t \in Thread,
         Mute(outbox[a], PostsOf(t), {})
  PROVE  Mute(Received(a), TodosOf(t), {}) /\ Mute(Remaining(a), PostsOf(t), {})
<1>1. CASE a \in Loops
  <2>1. Mute(Received(a), TodosOf(t), {})
    BY <1>1, ReceivedLoop, TakenParts DEF Mute
  <2>. QED  BY <1>1, <2>1, ReceivedLoop, MuteEmpty
<1>2. CASE a \notin Loops
  <2>1. Head(outbox[a]) \notin PostsOf(t)
    <3>1. 1 \in 1 .. Len(outbox[a]) /\ outbox[a][1] = Head(outbox[a])
      BY <1>2, ReceivedOne
    <3>. QED  BY <3>1 DEF Mute
  <2>2. Taken(a, Head(outbox[a])) \notin TodosOf(t)
    BY <1>2, <2>1, ReceivedOne, TakenParts
  <2>3. Mute(<<Taken(a, Head(outbox[a]))>>, TodosOf(t), {})
    BY <2>2 DEF Mute
  <2>. QED  BY <1>2, <2>3, ReceivedOne, MuteTail
<1>. QED
  BY <1>1, <1>2

LEMMA EndsReceived ==
  ASSUME RInv, NEW a \in Agent, outbox[a] # <<>>, NEW t \in Thread, NEW m,
         Ends(outbox[a], PostsOf(t), Plain, m)
  PROVE  \/ /\ Ends(Received(a), TodosOf(t), PlainTodos(a), Taken(a, m))
            /\ Mute(Remaining(a), PostsOf(t), {})
         \/ /\ Mute(Received(a), TodosOf(t), PlainTodos(a))
            /\ Ends(Remaining(a), PostsOf(t), Plain, m)
<1>0. m \in Message /\ m \in PostsOf(t) /\ m \notin Plain
  BY EndsThere DEF PostsOf
<1>1. CASE a \in Loops
  <2>1. PICK k \in 1 .. Len(outbox[a]) :
          /\ outbox[a][k] = m
          /\ \A j \in 1 .. Len(outbox[a]) :
               outbox[a][j] \in PostsOf(t) /\ j # k => j < k /\ outbox[a][j] \in Plain
    BY DEF Ends
  <2>2. \A i \in 1 .. Len(outbox[a]) :
          /\ Received(a)[i] \in TodosOf(t) <=> outbox[a][i] \in PostsOf(t)
          /\ Received(a)[i] \in PlainTodos(a) <=> outbox[a][i] \in Plain
    BY <1>1, ReceivedLoop, TakenParts
  <2>3. Len(Received(a)) = Len(outbox[a]) /\ Received(a)[k] = Taken(a, m)
    BY <1>1, <2>1, ReceivedLoop
  <2>4. Taken(a, m) \in TodosOf(t) /\ Taken(a, m) \notin PlainTodos(a)
    BY <1>0, TakenParts
  <2>5. Ends(Received(a), TodosOf(t), PlainTodos(a), Taken(a, m))
    BY <2>1, <2>2, <2>3, <2>4 DEF Ends
  <2>. QED  BY <1>1, <2>5, ReceivedLoop, MuteEmpty
<1>2. CASE a \notin Loops
  <2>. PICK h : h = Head(outbox[a])
    OBVIOUS
  <2>1. /\ h \in Message /\ outbox[a] \in Seq(Message) /\ Remaining(a) = Tail(outbox[a])
        /\ Received(a) = <<Taken(a, h)>>
    BY <1>2, ReceivedOne
  <2>2. CASE h \in PostsOf(t) /\ h \notin Plain
    <3>1. h = m /\ Mute(Tail(outbox[a]), PostsOf(t), {})
      BY <2>1, <2>2, EndsTaken
    <3>2. Taken(a, m) \in Todo /\ Taken(a, m) \in TodosOf(t) /\ Taken(a, m) \notin PlainTodos(a)
      BY <1>0, TakenParts
    <3>3. Ends(<<Taken(a, m)>>, TodosOf(t), PlainTodos(a), Taken(a, m))
      <4>1. 1 \in 1 .. Len(<<Taken(a, m)>>) /\ \A j \in 1 .. Len(<<Taken(a, m)>>) : j = 1
        OBVIOUS
      <4>. QED  BY <3>2, <4>1 DEF Ends
    <3>. QED  BY <2>1, <3>1, <3>3
  <2>3. CASE h \in PostsOf(t) => h \in Plain
    <3>1. Ends(Tail(outbox[a]), PostsOf(t), Plain, m)
      BY <2>1, <2>3, EndsTail
    <3>2. Taken(a, h) \in TodosOf(t) => Taken(a, h) \in PlainTodos(a)
      BY <2>1, <2>3, TakenParts
    <3>3. Mute(<<Taken(a, h)>>, TodosOf(t), PlainTodos(a))
      BY <3>2 DEF Mute
    <3>. QED  BY <2>1, <3>1, <3>3
  <2>. QED  BY <2>2, <2>3
<1>. QED
  BY <1>1, <1>2

\* The messages of a driver are taken up behind the todos.
Takes(a) ==
  /\ todos' = todos \o Received(a)
  /\ outbox' = [outbox EXCEPT ![a] = Remaining(a)]
  /\ UNCHANGED <<inbox, stack, service, uiPending>>

LEMMA TakesTracks ==
  ASSUME RInv, NEW a \in Agent, outbox[a] # <<>>, Takes(a), phase' = phase,
         NEW t \in Thread, Track(t)
  PROVE  Track(t)'
<1>1. /\ outbox'[a] = Remaining(a) /\ \A c \in Agent \ {a} : outbox'[c] = outbox[c]
      /\ inbox' = inbox /\ todos' = todos \o Received(a) /\ uiPending'[t] = uiPending[t]
  BY DEF RInv, RTypeOK, Takes
<1>2. todos \in Seq(Todo) /\ Received(a) \in Seq(Todo)
  BY ReceivedType DEF RInv, RTypeOK
<1>3. /\ \A m : Posted(t, m) => Posted(t, m)'
      /\ \A d : Carried(t, d) => Carried(t, d)'
      /\ Holder(t)' = Holder(t) /\ Holder(t) \in Agent
  BY PostedKept, HolderThere DEF Takes
<1>4. NoMail(t) => NoMail(t)'
  BY <1>1 DEF NoMail
<1>5. ASSUME Mute(outbox[a], PostsOf(t), {})
      PROVE  /\ NoPost(t) => NoPost(t)'
             /\ \A D : Mute(todos, TodosOf(t), D) => Mute(todos', TodosOf(t), D)
             /\ \A D, x : Ends(todos, TodosOf(t), D, x) => Ends(todos', TodosOf(t), D, x)
             /\ \A c \in Agent \ {a} : outbox'[c] = outbox[c]
             /\ Mute(outbox'[a], PostsOf(t), {})
  <2>1. Mute(Received(a), TodosOf(t), {}) /\ Mute(outbox'[a], PostsOf(t), {})
    BY <1>1, <1>5, MuteReceived
  <2>2. NoPost(t) => NoPost(t)'
    BY <1>1, <2>1 DEF NoPost
  <2>3. Keeps(todos, todos', TodosOf(t))
    BY <1>1, <1>2, <2>1, KeepsJoined
  <2>. QED  BY <1>1, <2>1, <2>2, <2>3 DEF Keeps
<1>6. NoPost(t) => Mute(outbox[a], PostsOf(t), {})
  BY DEF NoPost
<1>7. Idle(t) => Idle(t)'
  BY <1>1, <1>4, <1>5, <1>6 DEF Idle, NoTodo, Takes, Serves
<1>8. ASSUME NEW m, AtTodos(t, m)  PROVE AtTodos(t, m)'
  BY <1>3, <1>4, <1>5, <1>6, <1>8 DEF AtTodos
<1>9. ASSUME NEW d, AtInbox(t, d)  PROVE AtInbox(t, d)'
  BY <1>1, <1>3, <1>5, <1>6, <1>9 DEF AtInbox, NoTodo
<1>10. ASSUME NEW m, AtOutbox(t, m)  PROVE AtOutbox(t, m)' \/ AtTodos(t, m)'
  <2>1. CASE Holder(t) = a
    <3>1. \A c \in Agent \ {a} : Mute(outbox'[c], PostsOf(t), {})
      BY <1>1, <1>10, <2>1 DEF AtOutbox
    <3>2. CASE /\ Ends(Received(a), TodosOf(t), PlainTodos(a), Taken(a, m))
               /\ Mute(Remaining(a), PostsOf(t), {})
      <4>1. Ends(todos', TodosOf(t), PlainTodos(a), Taken(a, m))
        BY <1>1, <1>2, <1>10, <2>1, <3>2, EndsJoined DEF AtOutbox
      <4>2. NoPost(t)'
        BY <1>1, <3>1, <3>2 DEF NoPost
      <4>. QED  BY <1>3, <1>4, <1>10, <2>1, <4>1, <4>2 DEF AtOutbox, AtTodos
    <3>3. CASE /\ Mute(Received(a), TodosOf(t), PlainTodos(a))
               /\ Ends(Remaining(a), PostsOf(t), Plain, m)
      <4>1. Mute(todos', TodosOf(t), PlainTodos(a))
        BY <1>1, <1>2, <1>10, <2>1, <3>3, MuteJoined DEF AtOutbox
      <4>. QED  BY <1>1, <1>3, <1>4, <1>10, <2>1, <3>1, <3>3, <4>1 DEF AtOutbox
    <3>. QED  BY <1>10, <2>1, <3>2, <3>3, EndsReceived DEF AtOutbox
  <2>2. CASE Holder(t) # a
    <3>1. Mute(outbox[a], PostsOf(t), {})
      BY <1>10, <2>2 DEF AtOutbox
    <3>2. outbox'[Holder(t)] = outbox[Holder(t)]
      BY <1>1, <1>3, <2>2
    <3>3. \A c \in Agent \ {Holder(t)} : Mute(outbox'[c], PostsOf(t), {})
      BY <1>1, <1>5, <1>10, <3>1 DEF AtOutbox
    <3>4. Mute(todos', TodosOf(t), PlainTodos(Holder(t)))
      BY <1>5, <1>10, <3>1 DEF AtOutbox
    <3>. QED  BY <1>3, <1>4, <1>10, <3>2, <3>3, <3>4 DEF AtOutbox
  <2>. QED  BY <2>1, <2>2
<1>11. Posting(t) => Posting(t)'
  BY <1>3, <1>8, <1>10 DEF Posting
<1>12. Carrying(t) => Carrying(t)'
  BY <1>3, <1>9 DEF Carrying
<1>13. Dropped(t) => Dropped(t)'
  BY <1>1, <1>4, <1>5, <1>6 DEF Dropped, NoTodo
<1>. QED
  BY <1>1, <1>7, <1>11, <1>12, <1>13 DEF Track

\* A step that moves nothing.
LEMMA ThreadsStay ==
  ASSUME RInv, Threads,
         UNCHANGED <<stack, pending, proc, inbox, outbox, service, todos, uiPending>>,
         (phase' = phase /\ draining' = draining) \/ phase = "run"
  PROVE  Threads'
<1>1. ASSUME NEW t \in Thread  PROVE FramesOK(t)'
  BY DEF Threads, FramesOK, Draining
<1>2. ASSUME NEW t \in Thread  PROVE Track(t)'
  <2>1. Apart(t)
    BY KeepsSame DEF Apart
  <2>. QED  BY <2>1, TrackApart, HolderThere DEF Threads
<1>. QED
  BY <1>1, <1>2 DEF Threads

LEMMA PollFlows ==
  ASSUME RInv, Calm, Threads, Poll
  PROVE  Calm' /\ Threads'
<1>1. UNCHANGED <<stack, pending, proc, inbox, outbox, service, todos, uiPending, phase,
                  draining, stale>>
  BY DEF Poll, program, vars, fds
<1>2. \A e \in Ready : e[2] = "open" /\ outbox[e[1]] # <<>> /\ proc[e[1]] # "none"
  BY DEF Ready, Readable, Calm
<1>3. events' = Ready
  BY DEF Poll
<1>. QED
  BY <1>1, <1>2, <1>3, ThreadsStay DEF Calm

\* CHECK(state.driver) of the loop.
LEMMA EventsHaveDrivers ==
  ASSUME Calm
  PROVE  ~PollCheck
  BY DEF Calm, PollCheck, Polling

LEMMA ReceivedAlive ==
  ASSUME RInv, NEW a \in Agent, outbox[a] # <<>>
  PROVE  \A i \in 1 .. Len(Received(a)) : ~Received(a)[i].died
<1>1. CASE a \in Loops
  <2>1. \A i \in 1 .. Len(Received(a)) : Received(a)[i] = Taken(a, outbox[a][i])
    BY <1>1, ReceivedLoop
  <2>2. \A m : ~Taken(a, m).died
    BY DEF Taken
  <2>. QED  BY <2>1, <2>2
<1>2. CASE a \notin Loops
  <2>1. Received(a) = <<Taken(a, Head(outbox[a]))>>
    BY <1>2, ReceivedOne
  <2>. QED  BY <2>1 DEF Taken
<1>. QED
  BY <1>1, <1>2

LEMMA TakesFlows ==
  ASSUME RInv, Calm, Threads, NEW a \in Agent, outbox[a] # <<>>, Takes(a),
         UNCHANGED <<pending, proc, stale, phase, draining>>, events' \subseteq events,
         phase = "run" => \A e \in events' : e[1] # a
  PROVE  Calm' /\ Threads'
<1>1. \A t \in Thread : FramesOK(t)' /\ Track(t)'
  BY FramesKept, TakesTracks DEF Threads, Takes
<1>2. \A i \in 1 .. Len(todos') : ~todos'[i].died
  <2>1. todos \in Seq(Todo) /\ Received(a) \in Seq(Todo) /\ todos' = todos \o Received(a)
    BY ReceivedType DEF RInv, RTypeOK, Takes
  <2>2. \A i \in 1 .. Len(todos \o Received(a)) :
          i \in 1 .. Len(todos) \/
          (i - Len(todos) \in 1 .. Len(Received(a)) /\
           (todos \o Received(a))[i] = Received(a)[i - Len(todos)])
    BY <2>1, Joined
  <2>3. \A i \in 1 .. Len(todos) : (todos \o Received(a))[i] = todos[i]
    BY <2>1, Joined
  <2>. QED  BY <2>1, <2>2, <2>3, ReceivedAlive DEF Calm
<1>3. phase = "run" =>
        \A e \in events' : e[2] = "open" /\ outbox'[e[1]] # <<>> /\ proc[e[1]] # "none"
  <2>1. \A e \in events : e[1] \in Agent
    BY DEF RInv, RTypeOK
  <2>2. \A c \in Agent \ {a} : outbox'[c] = outbox[c]
    BY DEF RInv, RTypeOK, Takes
  <2>. QED  BY <2>1, <2>2 DEF Calm
<1>. QED
  BY <1>1, <1>2, <1>3 DEF Calm, Threads, Takes

LEMMA ReceiveFlows ==
  ASSUME RInv, Calm, Threads, NEW e \in events, Receive(e)
  PROVE  Calm' /\ Threads'
<1>1. e \in Agent \X {"open", "stale"} /\ e[2] = "open" /\ outbox[e[1]] # <<>>
  BY DEF RInv, RTypeOK, Calm, Receive, Polling
<1>. PICK a \in Agent : e = <<a, "open">>
  BY <1>1
<1>2. /\ Takes(a) /\ outbox[a] # <<>> /\ events' = events \ {e}
      /\ UNCHANGED <<pending, proc, stale, phase, draining>>
  BY <1>1 DEF Receive, Takes, program, vars, fds
<1>3. phase = "run" => \A g \in events' : g[1] # a
  <2>1. ASSUME NEW g \in events, g # e, phase = "run"  PROVE g[1] # a
    <3>1. g \in Agent \X {"open", "stale"} /\ g[2] = "open"
      BY <2>1 DEF RInv, RTypeOK, Calm
    <3>. QED  BY <2>1, <3>1
  <2>. QED  BY <1>2, <2>1
<1>. QED
  BY <1>2, <1>3, TakesFlows

-----------------------------------------------------------------------------
(* The shutdown *)

LEMMA BeginFlows ==
  ASSUME RInv, Calm, Threads, BeginShutdown
  PROVE  Calm' /\ Threads'
<1>1. /\ UNCHANGED <<stack, pending, proc, inbox, outbox, service, todos, uiPending, stale>>
      /\ phase = "run" /\ phase' = "drain"
  BY DEF BeginShutdown, drainvars, program, vars, fds
<1>. QED
  BY <1>1, ThreadsStay DEF Calm

LEMMA OwedFrames ==
  ASSUME RInv, NEW a \in Agent
  PROVE  Owes(a) <=> \E t \in Thread : \E i \in 1 .. Len(stack[t]) : stack[t][i].to = a
<1>1. IsFiniteSet(FramesOf(a)) /\ obligation[a] = Cardinality(FramesOf(a))
  BY DEF RInv, IInv, Accounting
<1>2. obligation[a] \in Nat /\ (obligation[a] = 0 <=> FramesOf(a) = {})
  BY <1>1, FS_CardinalityType, FS_EmptySet
<1>3. FramesOf(a) # {} <=> \E t \in Thread : \E i \in 1 .. Len(stack[t]) : stack[t][i].to = a
  <2>1. \A t \in Thread : \A i \in 1 .. Len(stack[t]) :
          <<t, i>> \in FramesOf(a) <=> stack[t][i].to = a
    BY FramesOfIs
  <2>2. ASSUME NEW x \in FramesOf(a)
        PROVE  \E t \in Thread : \E i \in 1 .. Len(stack[t]) : stack[t][i].to = a
    BY FramesOfIs
  <2>. QED  BY <2>1, <2>2
<1>. QED
  BY <1>2, <1>3 DEF Owes

\* An agent whose turn it is and that owes an answer has its driver.
LEMMA OwingRuns ==
  ASSUME ShutdownInv, Calm, Threads, phase = "drain",
         NEW t \in Thread, NEW i \in 1 .. Len(stack[t]), stack[t][i].to = Draining
  PROVE  proc[Draining] = "up" /\ Draining \in Agent
<1>1. Draining \in Agent /\ draining \in 1 .. Len(AgentOrder)
  BY DrainingType DEF ShutdownInv, Turn
<1>. SUFFICES ASSUME proc[Draining] = "none" PROVE FALSE
  BY <1>1 DEF Calm, ShutdownInv, RInv, RTypeOK
<1>2. CASE Draining \in Loops
  BY <1>1, <1>2, DrainingType DEF Calm
<1>3. CASE Draining \in Adapters
  <2>1. i = Len(stack[t]) /\ i > 1 /\ stack[t][i - 1].to = Draining
    BY <1>3 DEF Threads, FramesOK
  <2>2. i - 1 \in 1 .. Len(stack[t]) /\ i - 1 # Len(stack[t])
    BY <2>1
  <2>. QED  BY <1>3, <2>1, <2>2 DEF Threads, FramesOK
<1>. QED
  BY <1>1, <1>2, <1>3 DEF Adapters

\* CHECK(state.driver) of the shutdown.
LEMMA DrainHasDriver ==
  ASSUME ShutdownInv, Calm, Threads
  PROVE  ~DrainCheck
<1>. SUFFICES ASSUME DrainCheck PROVE FALSE
  OBVIOUS
<1>1. phase = "drain" /\ Owes(Draining) /\ proc[Draining] # "up" /\ Draining \in Agent
  BY DrainingType DEF DrainCheck, InDrain
<1>2. \E t \in Thread : \E i \in 1 .. Len(stack[t]) : stack[t][i].to = Draining
  BY <1>1, OwedFrames DEF ShutdownInv
<1>. QED
  BY <1>1, <1>2, OwingRuns

LEMMA DrainReceiveFlows ==
  ASSUME RInv, Calm, Threads, DrainReceive
  PROVE  Calm' /\ Threads'
<1>. PICK a : a = Draining
  OBVIOUS
<1>1. /\ a \in Agent /\ outbox[a] # <<>> /\ phase = "drain" /\ todos = <<>>
      /\ UNCHANGED <<pending, proc, stale, phase, draining, events>>
  BY DrainingType DEF DrainReceive, InDrain, drainvars, program, vars, fds
<1>2. Takes(a)
  <2>1. todos' = Received(a) /\ Received(a) \in Seq(Todo)
    BY <1>1, ReceivedType DEF DrainReceive, RInv
  <2>2. todos' = todos \o Received(a)
    BY <1>1, <2>1
  <2>. QED  BY <2>2 DEF Takes, DrainReceive, drainvars, program, vars
<1>. QED
  BY <1>1, <1>2, TakesFlows

LEMMA DrainNextFlows ==
  ASSUME RInv, Calm, Threads, DrainNext
  PROVE  phase' \in {"drain", "stopped"} /\ (phase' = "drain" => Calm' /\ Threads')
<1>. PICK a : a = Draining
  OBVIOUS
<1>0. a \in Agent /\ draining \in 1 .. Len(AgentOrder) /\ phase = "drain" /\ ~Owes(a)
  BY DrainingType DEF DrainNext, InDrain
<1>1. /\ proc' = [proc EXCEPT ![a] = "none"] /\ inbox' = [inbox EXCEPT ![a] = <<>>]
      /\ draining' = draining + 1 /\ phase' \in {"drain", "stopped"}
      /\ UNCHANGED <<stack, pending, outbox, service, todos, uiPending, stale>>
  BY <1>0 DEF DrainNext, Calm, drainvars, program, vars, fds
<1>2. /\ proc'[a] = "none" /\ inbox'[a] = <<>>
      /\ \A c \in Agent \ {a} : proc'[c] = proc[c] /\ inbox'[c] = inbox[c]
  BY <1>0, <1>1 DEF RInv, RTypeOK
<1>3. \A t \in Thread : \A i \in 1 .. Len(stack[t]) : stack[t][i].to # a
  BY <1>0, OwedFrames
<1>4. Calm'
  <2>1. \A c \in Agent : proc'[c] # "dead" /\ (proc'[c] = "none" => inbox'[c] = <<>>)
    BY <1>2 DEF Calm
  <2>2. \A c \in Loops : proc'[c] = "none" => c \in Passed(draining')
    <3>1. a \in Passed(draining') /\ Passed(draining) \subseteq Passed(draining')
      BY <1>0, <1>1, OrderLength DEF Passed, Draining
    <3>. QED  BY <1>0, <1>2, <3>1, UserExists DEF Calm, Loops
  <2>. QED  BY <1>1, <2>1, <2>2 DEF Calm
<1>5. ASSUME NEW t \in Thread  PROVE FramesOK(t)'
  <2>1. ASSUME NEW i \in 1 .. Len(stack[t])
        PROVE  stack[t][i].to \in Adapters => proc'[stack[t][i].to] # "none"
    <3>1. SUFFICES ASSUME stack[t][i].to \in Adapters, proc[stack[t][i].to] = "none"
                   PROVE  FALSE
      BY <1>2, <1>3 DEF Adapters
    <3>2. i = Len(stack[t]) /\ i > 1 /\ stack[t][i - 1].to = a
      BY <3>1 DEF Threads, FramesOK
    <3>3. i - 1 \in 1 .. Len(stack[t])
      BY <3>2
    <3>. QED  BY <1>3, <3>2, <3>3
  <2>. QED  BY <1>1, <2>1 DEF Threads, FramesOK
<1>6. ASSUME NEW t \in Thread, phase' = "drain"  PROVE Track(t)'
  <2>1. Mute(inbox[a], MailOf(t), {})
    <3>1. CASE Carrying(t)
      <4>1. PICK d \in Delivery : Carried(t, d) /\ AtInbox(t, d)
        BY <3>1 DEF Carrying
      <4>2. Holder(t) # a
        <5>1. stack[t] # <<>>
          BY <4>1 DEF Carried
        <5>2. Len(stack[t]) \in 1 .. Len(stack[t])
          BY <5>1, TopType DEF RInv, IInv
        <5>. QED  BY <1>3, <5>1, <5>2 DEF Holder, Top
      <4>. QED  BY <1>0, <4>1, <4>2 DEF AtInbox
    <3>2. CASE NoMail(t)
      BY <1>0, <3>2 DEF NoMail
    <3>. QED  BY <3>1, <3>2 DEF Threads, Track, Idle, Posting, AtOutbox, AtTodos, Dropped
  <2>2. Keeps(inbox[a], inbox'[a], MailOf(t))
    BY <1>2, <2>1, KeepsEmptied
  <2>3. Apart(t)
    BY <1>1, <1>2, <1>6, <2>2, KeepsSame DEF Apart
  <2>. QED  BY <2>3, TrackApart, HolderThere DEF Threads
<1>. QED
  BY <1>1, <1>4, <1>5, <1>6 DEF Threads

-----------------------------------------------------------------------------
(* What is done with the message of a thread *)

\* The next todo is a note of the holder of its thread, or the message.
Foremost(t) ==
  /\ t = Next1.msg.thread /\ t \in Thread /\ uiPending[t]
  /\ Next1.agent = Holder(t) /\ Next1.msg \in Message /\ ~Next1.died
  /\ todos \in Seq(Todo) /\ Next1 \in TodosOf(t)

LastTodo(t) ==
  /\ Posted(t, Next1.msg) /\ ~Next1.msg.data
  /\ NoPost(t) /\ NoMail(t) /\ Mute(Tail(todos), TodosOf(t), {})

LEMMA Foremosts ==
  ASSUME RInv, Calm, Threads, todos # <<>>
  PROVE  \E t \in Thread : Foremost(t) /\ (Next1.msg.data \/ LastTodo(t))
<1>. PICK w : w = Next1
  OBVIOUS
<1>1. todos \in Seq(Todo) /\ w \in Todo /\ w = Head(todos) /\ 1 \in 1 .. Len(todos) /\ todos[1] = w
  <2>1. todos \in Seq(Todo)
    BY DEF RInv, RTypeOK
  <2>. QED  BY <2>1, FirstOf DEF Next1
<1>. PICK t, m : m = w.msg /\ t = m.thread
  OBVIOUS
<1>2. m \in Message /\ t \in Thread /\ w \in TodosOf(t) /\ w.agent \in Agent /\ ~w.died
  BY <1>1 DEF Todo, Message, TodosOf, Calm
<1>3. w = Taken(w.agent, m)
  BY <1>1, <1>2 DEF Todo, Taken
<1>4. ~NoTodo(t)
  BY <1>1, <1>2 DEF NoTodo, Mute
<1>5. uiPending[t] /\ Posting(t)
  BY <1>2, <1>4 DEF Threads, Track, Idle, Carrying, AtInbox, Dropped
<1>6. PICK n \in Message : Posted(t, n) /\ (AtOutbox(t, n) \/ AtTodos(t, n))
  BY <1>5 DEF Posting
<1>7. CASE w \in PlainTodos(Holder(t))
  <2>1. w.agent = Holder(t) /\ m.data
    BY <1>7 DEF PlainTodos
  <2>. QED  BY <1>1, <1>2, <1>5, <2>1 DEF Foremost
<1>8. CASE w \notin PlainTodos(Holder(t))
  <2>1. AtTodos(t, n)
    BY <1>1, <1>2, <1>6, <1>8 DEF AtOutbox, Mute
  <2>2. w = Taken(Holder(t), n) /\ Mute(Tail(todos), TodosOf(t), {})
    BY <1>1, <1>2, <1>8, <2>1, EndsTaken DEF AtTodos
  <2>3. w.agent = Holder(t) /\ m = n
    BY <1>3, <2>2 DEF Taken
  <2>4. ~m.data
    <3>1. Holder(t) \in Agent
      BY <1>2, HolderThere
    <3>2. m \notin Plain
      BY <1>2, <1>3, <1>8, <2>3, <3>1, TakenParts
    <3>. QED  BY <1>2, <3>2 DEF Plain
  <2>. QED  BY <1>1, <1>2, <1>5, <1>6, <2>1, <2>2, <2>3, <2>4 DEF Foremost, LastTodo, AtTodos
<1>. QED
  BY <1>7, <1>8

\* A note changes nothing but the todos.
LEMMA NoteFlows ==
  ASSUME RInv, Calm, Threads, ProcessNote
  PROVE  phase' = phase /\ Calm' /\ Threads'
<1>1. /\ todos # <<>> /\ todos' = Tail(todos) /\ phase \in {"run", "drain"} /\ Next1.msg.data
      /\ UNCHANGED <<stack, pending, proc, inbox, outbox, service, stale, events, uiPending,
                     phase, draining>>
  BY DEF ProcessNote, NextTodo, Note, Data, IsData, Undelivered, fds
<1>2. PICK t \in Thread : Foremost(t)
  BY <1>1, Foremosts
<1>. PICK w : w = Next1
  OBVIOUS
<1>3. w \in PlainTodos(Holder(t)) /\ w = Head(todos) /\ w \in TodosOf(t) /\ todos \in Seq(Todo)
  <2>1. w \in Todo /\ w.msg.data /\ w.agent = Holder(t)
    BY <1>1, <1>2 DEF Foremost, TodosOf
  <2>. QED  BY <1>2, <2>1 DEF Foremost, PlainTodos, Next1
<1>4. ASSUME NEW u \in Thread, u # t  PROVE Track(u)'
  <2>1. Head(todos) \notin TodosOf(u)
    BY <1>3, <1>4 DEF TodosOf
  <2>2. Keeps(todos, todos', TodosOf(u))
    BY <1>1, <1>3, <2>1, KeepsTail
  <2>3. Apart(u)
    BY <1>1, <2>2, KeepsSame DEF Apart
  <2>. QED  BY <1>4, <2>3, TrackApart, HolderThere DEF Threads
<1>5. Track(t)'
  <2>1. ~NoTodo(t)
    <3>1. 1 \in 1 .. Len(todos) /\ todos[1] = w
      BY <1>1, <1>3
    <3>. QED  BY <1>3, <3>1 DEF NoTodo, Mute
  <2>2. uiPending[t] /\ Posting(t)
    BY <2>1 DEF Threads, Track, Idle, Carrying, AtInbox, Dropped
  <2>3. PICK n \in Message : Posted(t, n) /\ (AtOutbox(t, n) \/ AtTodos(t, n))
    BY <2>2 DEF Posting
  <2>4. Posted(t, n)' /\ Holder(t)' = Holder(t)
    BY <1>1, <2>3, PostedKept
  <2>5. CASE AtOutbox(t, n)
    <3>1. Mute(todos', TodosOf(t), PlainTodos(Holder(t)))
      BY <1>1, <1>3, <2>5, MuteTail DEF AtOutbox
    <3>. QED  BY <1>1, <2>2, <2>4, <2>5, <3>1 DEF AtOutbox, NoMail, Posting, Track
  <2>6. CASE AtTodos(t, n)
    <3>1. Ends(todos', TodosOf(t), PlainTodos(Holder(t)), Taken(Holder(t), n))
      BY <1>1, <1>3, <2>6, EndsTail DEF AtTodos
    <3>. QED  BY <1>1, <2>2, <2>4, <2>6, <3>1 DEF AtTodos, NoPost, NoMail, Posting, Track
  <2>. QED  BY <2>3, <2>5, <2>6
<1>6. Calm'
  <2>1. \A i \in 1 .. Len(todos') : ~todos'[i].died
    <3>1. \A i \in 1 .. Len(Tail(todos)) : i + 1 \in 1 .. Len(todos) /\ Tail(todos)[i] = todos[i + 1]
      BY <1>1, <1>3, Rest
    <3>. QED  BY <1>1, <3>1 DEF Calm
  <2>. QED  BY <1>1, <2>1 DEF Calm
<1>7. \A u \in Thread : FramesOK(u)'
  BY <1>1, FramesKept DEF Threads
<1>. QED
  BY <1>1, <1>4, <1>5, <1>6, <1>7 DEF Threads

\* The delivery, while the loop runs.
Passes(b, d) == IF phase = "run" THEN Deliver(b, d) ELSE Undelivered

\* The message is a call of b, an answer to the top frame, or refused.
Pushes(t, b) ==
  \E id \in Nat :
    /\ stack' = [stack EXCEPT ![t] = Append(@, [id |-> id, from |-> Holder(t), to |-> b])]
    /\ pending' = [pending EXCEPT ![t] = TRUE]
    /\ Passes(b, [thread |-> t, id |-> id, from |-> Holder(t), reply |-> FALSE])

Pops(t) ==
  /\ stack' = [stack EXCEPT ![t] = Front(@)]
  /\ pending' = PendingAfter(t, Holder(t), Top(t).from)
  /\ lastId' \in Nat
  /\ Passes(Top(t).from, [thread |-> t, id |-> lastId', from |-> Holder(t), reply |-> TRUE])

Refuses(t) ==
  /\ stack' = stack /\ pending' = [pending EXCEPT ![t] = FALSE] /\ lastId' \in Nat
  /\ Passes(user, [thread |-> t, id |-> lastId', from |-> user, reply |-> FALSE])

\* A call that preprocess accepts: its callee is pushed.
LEMMA AskedPushes ==
  ASSUME RInv, Separate, ArenaStays, Calm, Threads, NEW t \in Thread, Foremost(t), Process,
         NEW b \in Reach[t], NEW r, r = NoId \/ TopIs(t, r),
         Next1.msg = Request(t, r, To(b), {})
  PROVE  Pushes(t, b)
<1>. PICK a, m : a = Next1.agent /\ m = Next1.msg
  OBVIOUS
<1>1. /\ m.thread = t /\ ~m.data /\ m.inReplyTo = NoId /\ m.inResponseTo = r /\ m.to = To(b)
      /\ a = Holder(t) /\ m \in Message /\ ~Next1.died
  BY DEF Request, Foremost
<1>2. b # user /\ Visible(t, b) /\ "CLONE" \notin flags[b] /\ b \in Agent
  BY Reached
<1>3. m.to.agent = b /\ ~m.to.clone /\ m.to # NoAddress
  <2>1. To(b).agent = b /\ ~To(b).clone /\ To(b) \in [agent : Agent, clone : BOOLEAN]
    BY <1>2 DEF To
  <2>. QED  BY <1>1, <2>1, ArenaAssumption
<1>4. IsCall(a, m) /\ ~IsReturn(a, m) /\ ~IsData(a, m) /\ ~Clones(m.to)
  BY <1>1, <1>2, <1>3 DEF IsCall, IsReturn, IsData, Clones, Resolves
<1>5. PendingAfter(t, a, b) = [pending EXCEPT ![t] = TRUE]
  <2>1. pending[t] \/ a = user
    BY <1>1 DEF Threads, FramesOK, Holder
  <2>2. pending \in [Thread -> BOOLEAN]
    BY DEF RInv, IInv, TypeOK
  <2>3. CASE a = user
    BY <1>2, <2>3 DEF PendingAfter
  <2>4. CASE a # user
    <3>1. PendingAfter(t, a, b) = [pending EXCEPT ![t] = pending[t]]
      BY <1>2, <2>4 DEF PendingAfter
    <3>2. pending[t] = TRUE
      BY <2>1, <2>2, <2>4
    <3>. QED  BY <3>1, <3>2
  <2>. QED  BY <2>3, <2>4
<1>6. lastId + 1 \in Nat /\ NextId(1) = lastId + 1
  BY DEF RInv, IInv, TypeOK, NextId
<1>7. Delivered(a, m, lastId + 1) = [thread |-> t, id |-> lastId + 1, from |-> a, reply |-> FALSE]
  BY <1>1 DEF Delivered
<1>8. ~ProcessNote
  BY <1>4 DEF ProcessNote, Note, Data
<1>9. ASSUME NEW c \in Agent, ProcessRouted(c)
      PROVE  Pushes(t, b)
  <2>1. Call(a, m, c)
    BY <1>4, <1>9 DEF ProcessRouted, Route, Return, CallClone, Reject, IsError
  <2>2. c = b /\ ApplyCall(t, a, b, Offered(a, m), NextId(1)) /\ lastId' = NextId(1)
    BY <1>1, <1>3, <2>1 DEF Call
  <2>3. /\ stack' = [stack EXCEPT ![t] = Append(@, [id |-> lastId + 1, from |-> a, to |-> b])]
        /\ pending' = [pending EXCEPT ![t] = TRUE]
    BY <1>5, <1>6, <2>2 DEF ApplyCall
  <2>4. Passes(b, [thread |-> t, id |-> lastId + 1, from |-> a, reply |-> FALSE])
    BY <1>6, <1>7, <1>9, <2>2 DEF ProcessRouted, Passes
  <2>. QED  BY <1>1, <1>6, <2>3, <2>4 DEF Pushes
<1>10. ASSUME NEW new \in SUBSET (Agent \ agents), NEW f \in [new -> SUBSET Flag],
              ProcessCommand(new, f)
       PROVE  Pushes(t, b)
  <2>1. CallRuntime(a, m, new, f)
    BY <1>10 DEF ProcessCommand, Command
  <2>2. b = runtime /\ ApplyCall(t, a, b, Offered(a, m), NextId(1))
    BY <1>1, <1>3, <2>1 DEF CallRuntime
  <2>3. /\ stack' = [stack EXCEPT ![t] = Append(@, [id |-> lastId + 1, from |-> a, to |-> b])]
        /\ pending' = [pending EXCEPT ![t] = TRUE]
    BY <1>5, <1>6, <2>2 DEF ApplyCall
  <2>4. Passes(b, [thread |-> t, id |-> lastId + 1, from |-> a, reply |-> FALSE])
    BY <1>7, <1>10, <2>2 DEF ProcessCommand, Passes
  <2>. QED  BY <1>1, <1>6, <2>3, <2>4 DEF Pushes
<1>11. \A c \in Agent : ~ProcessDeath(c)
  BY <1>1 DEF ProcessDeath
<1>. QED
  BY <1>8, <1>9, <1>10, <1>11 DEF Process

\* An answer to the top frame.
LEMMA AnsweredPops ==
  ASSUME RInv, Threads, NEW t \in Thread, Foremost(t), Process, stack[t] # <<>>,
         Next1.msg = Reply(t, Top(t).id, {})
  PROVE  Pops(t)
<1>. PICK a, m : a = Next1.agent /\ m = Next1.msg
  OBVIOUS
<1>1. /\ m.thread = t /\ ~m.data /\ m.inReplyTo = Top(t).id
      /\ a = Holder(t) /\ m \in Message /\ ~Next1.died
  BY DEF Reply, Foremost
<1>2. m.inReplyTo # NoId
  <2>1. Len(stack[t]) \in 1 .. Len(stack[t])
    BY TopType DEF RInv, IInv
  <2>2. Top(t).id \in 1 .. lastId
    BY <2>1 DEF RInv, IInv, UniqueIds, Top
  <2>. QED  BY <1>1, <2>2 DEF NoId
<1>3. IsReturn(a, m) /\ ~IsCall(a, m) /\ ~IsData(a, m)
  BY <1>1, <1>2 DEF IsCall, IsReturn, IsData, TopIs
<1>4. ~ProcessNote /\ \A c \in Agent : ~ProcessDeath(c)
  BY <1>1, <1>3 DEF ProcessNote, Note, Data, ProcessDeath
<1>5. \A new \in SUBSET (Agent \ agents) : \A f \in [new -> SUBSET Flag] : ~ProcessCommand(new, f)
  BY <1>3 DEF ProcessCommand, Command, CallRuntime
<1>6. PICK c \in Agent : ProcessRouted(c)
  BY <1>4, <1>5 DEF Process
<1>7. Return(a, m, c)
  BY <1>3, <1>6 DEF ProcessRouted, Route, Call, CallClone, Reject, IsError
<1>8. ApplyReturn(t, a, c, Offered(a, m)) /\ c = Top(t).from
  BY <1>1, <1>7 DEF Return, ApplyReturn
<1>9. stack' = [stack EXCEPT ![t] = Front(@)] /\ pending' = PendingAfter(t, a, c)
  BY <1>8 DEF ApplyReturn, Front
<1>10. lastId' \in Nat
  BY <1>8 DEF ApplyReturn, NextId, RInv, IInv, TypeOK
<1>11. Delivered(a, m, lastId') = [thread |-> t, id |-> lastId', from |-> a, reply |-> TRUE]
  BY <1>1, <1>2 DEF Delivered
<1>12. Passes(c, [thread |-> t, id |-> lastId', from |-> a, reply |-> TRUE])
  BY <1>6, <1>11 DEF ProcessRouted, Passes
<1>. QED
  BY <1>1, <1>8, <1>9, <1>10, <1>12 DEF Pops

\* A request of the user's for an agent that it cannot call.
LEMMA RequestRefused ==
  ASSUME RInv, Threads, NEW t \in Thread, Foremost(t), Process, stack[t] = <<>>,
         NEW b, ~Visible(t, b), Next1.msg = Request(t, NoId, To(b), {})
  PROVE  Refuses(t)
<1>. PICK a, m : a = Next1.agent /\ m = Next1.msg
  OBVIOUS
<1>1. /\ m.thread = t /\ ~m.data /\ m.inReplyTo = NoId /\ m.to = To(b)
      /\ a = user /\ Holder(t) = user /\ m \in Message /\ ~Next1.died
  BY DEF Request, Foremost, Holder
<1>2. m.to.agent = b
  BY <1>1 DEF To
<1>3. ~IsReturn(a, m) /\ ~IsCall(a, m) /\ ~IsData(a, m)
  BY <1>1, <1>2 DEF IsCall, IsReturn, IsData, Resolves
<1>4. ~ProcessNote /\ \A c \in Agent : ~ProcessDeath(c)
  BY <1>1, <1>3 DEF ProcessNote, Note, Data, ProcessDeath
<1>5. \A new \in SUBSET (Agent \ agents) : \A f \in [new -> SUBSET Flag] : ~ProcessCommand(new, f)
  BY <1>3 DEF ProcessCommand, Command, CallRuntime
<1>6. PICK c \in Agent : ProcessRouted(c)
  BY <1>4, <1>5 DEF Process
<1>7. ApplyRewind(t, user, c)
  BY <1>1, <1>3, <1>6 DEF ProcessRouted, Route, Return, Call, CallClone, Reject
<1>8. PICK d \in 0 .. Len(stack[t]) :
        /\ c = RewindTarget(t, user, d) /\ stack' = [stack EXCEPT ![t] = SubSeq(@, 1, d)]
        /\ pending' = PendingAfter(t, user, c) /\ lastId' = NextId(1)
  BY <1>7 DEF ApplyRewind
<1>9. d = 0 /\ Len(stack[t]) = 0
  BY <1>8
<1>10. c = user /\ pending' = [pending EXCEPT ![t] = FALSE]
  BY <1>8, <1>9 DEF RewindTarget, PendingAfter
<1>11. stack' = stack
  <2>1. SubSeq(stack[t], 1, 0) = stack[t]
    OBVIOUS
  <2>2. stack \in [Thread -> Seq(Frame)]
    BY DEF RInv, IInv, TypeOK
  <2>. QED  BY <1>8, <1>9, <2>1, <2>2
<1>12. lastId' \in Nat
  BY <1>8 DEF NextId, RInv, IInv, TypeOK
<1>13. Delivered(a, m, lastId') = [thread |-> t, id |-> lastId', from |-> user, reply |-> FALSE]
  BY <1>1 DEF Delivered
<1>14. Passes(user, [thread |-> t, id |-> lastId', from |-> user, reply |-> FALSE])
  BY <1>6, <1>10, <1>13 DEF ProcessRouted, Passes
<1>. QED
  BY <1>10, <1>11, <1>12, <1>14 DEF Refuses

\* What becomes of the message: a call is pushed, an answer pops the top frame,
\* and a request of the user's out of scope is refused.
LEMMA Outcome ==
  ASSUME RInv, Separate, ArenaStays, Calm, Threads, NEW t \in Thread,
         Foremost(t), LastTodo(t), Process
  PROVE  \/ \E b \in Reach[t] : /\ Serves(t, stack[t], b) /\ Pushes(t, b)
                                /\ stack[t] # <<>> => Calls(Holder(t))
         \/ stack[t] # <<>> /\ Serves(t, Front(stack[t]), Holder(t)) /\ Pops(t)
         \/ stack[t] = <<>> /\ Serves(t, <<>>, user) /\ Refuses(t)
<1>1. CASE stack[t] = <<>> /\ Serves(t, <<>>, user)
           /\ \E b \in Contacts[t] : Next1.msg = Request(t, NoId, To(b), {})
  <2>1. PICK b \in Contacts[t] : Next1.msg = Request(t, NoId, To(b), {})
    BY <1>1
  <2>2. CASE b \in Reach[t]
    <3>1. Serves(t, stack[t], b)
      BY <1>1, WaitsEmpty DEF Serves
    <3>2. Pushes(t, b)
      BY <2>1, <2>2, AskedPushes
    <3>. QED  BY <1>1, <2>2, <3>1, <3>2
  <2>3. CASE ~Visible(t, b)
    BY <1>1, <2>1, <2>3, RequestRefused
  <2>. QED  BY <2>2, <2>3, Contacted
<1>2. CASE stack[t] # <<>> /\ Serves(t, Front(stack[t]), Holder(t))
           /\ Next1.msg = Reply(t, Top(t).id, {})
  BY <1>2, AnsweredPops
<1>3. CASE stack[t] # <<>> /\ Holder(t) \in Adapters
           /\ \E b \in Peers[Holder(t)] : /\ Next1.msg = Request(t, Top(t).id, To(b), {})
                                          /\ Serves(t, stack[t], b)
  <2>1. PICK b \in Peers[Holder(t)] : /\ Next1.msg = Request(t, Top(t).id, To(b), {})
                                      /\ Serves(t, stack[t], b)
    BY <1>3
  <2>2. b \in Reach[t] /\ Calls(Holder(t))
    <3>1. Holder(t) \in Reach[t]
      BY <1>3, RoundOwner
    <3>. QED  BY <1>3, <3>1, Reached DEF Calls
  <2>3. TopIs(t, Top(t).id)
    BY <1>3 DEF TopIs
  <2>4. Pushes(t, b)
    BY <2>1, <2>2, <2>3, AskedPushes
  <2>. QED  BY <2>1, <2>2, <2>4
<1>. QED
  BY <1>1, <1>2, <1>3 DEF LastTodo, Posted

-----------------------------------------------------------------------------
(* The delivery *)

\* What b's delivery d of thread t does, when it is recorded only or delivered.
Handed(t, b, d) ==
  /\ phase' = phase /\ UNCHANGED <<service, stale>>
  /\ \/ phase = "drain" /\ UNCHANGED <<proc, inbox, outbox, uiPending>>
     \/ /\ phase = "run" /\ b = user /\ uiPending' = [uiPending EXCEPT ![t] = FALSE]
        /\ UNCHANGED <<proc, inbox, outbox>>
     \/ /\ phase = "run" /\ b = runtime
        /\ outbox' = [outbox EXCEPT ![runtime] = Append(@, Reply(t, d.id, {}))]
        /\ UNCHANGED <<proc, inbox, uiPending>>
     \/ /\ phase = "run" /\ b \in Adapters
        /\ proc' = [proc EXCEPT ![b] = "up"] /\ inbox' = [inbox EXCEPT ![b] = Append(@, d)]
        /\ UNCHANGED <<outbox, uiPending>>

LEMMA Arrival ==
  ASSUME RInv, Calm, phase = "run", NEW b \in Adapters, NEW d, Deliver(b, d), crashes' = crashes
  PROVE  phase' = "returned" \/ Handed(d.thread, b, d)
<1>1. /\ proc \in [Agent -> {"none", "up", "dead"}] /\ b \in Agent /\ crashes \in Nat
      /\ service \in [Agent -> Seq(Entry)] /\ b # user /\ b # runtime
  BY DEF RInv, RTypeOK, Adapters, Loops
<1>2. CASE Start(b, d)
  <2>1. inbox[b] = <<>> /\ service[b] = <<>>
    BY <1>1, <1>2 DEF Calm, Start
  <2>2. service' = service
    <3>1. service' = [service EXCEPT ![b] = <<>>]
      BY <1>2 DEF Start
    <3>. QED  BY <1>1, <2>1, <3>1
  <2>3. inbox' = [inbox EXCEPT ![b] = Append(@, d)]
    <3>1. inbox' = [inbox EXCEPT ![b] = <<d>>]
      BY <1>2 DEF Start
    <3>2. <<d>> = Append(inbox[b], d)
      BY <2>1
    <3>. QED  BY <3>1, <3>2
  <2>. QED  BY <1>2, <2>2, <2>3 DEF Start, Handed
<1>3. CASE FailToStart(b)
  BY <1>1, <1>3 DEF FailToStart
<1>4. CASE GiveUp(b)
  BY <1>4 DEF GiveUp
<1>5. CASE Send(b, d)
  <2>1. proc[b] = "up"
    BY <1>1, <1>5 DEF Calm, Send
  <2>2. proc' = [proc EXCEPT ![b] = "up"]
    <3>1. proc' = proc
      BY <1>5 DEF Send
    <3>. QED  BY <1>1, <2>1, <3>1
  <2>. QED  BY <1>5, <2>1, <2>2 DEF Send, Handed, fds
<1>. QED
  BY <1>1, <1>2, <1>3, <1>4, <1>5 DEF Deliver

LEMMA PassesEffect ==
  ASSUME RInv, Calm, phase \in {"run", "drain"}, NEW t \in Thread, uiPending[t],
         NEW b \in Agent, NEW d, d.thread = t, Passes(b, d), crashes' = crashes
  PROVE  phase' = "returned" \/ Handed(t, b, d)
<1>1. CASE phase = "drain"
  BY <1>1 DEF Passes, Undelivered, Handed, fds
<1>2. CASE phase = "run"
  <2>1. Deliver(b, d)
    BY <1>2 DEF Passes
  <2>2. CASE b \in Adapters
    BY <1>2, <2>1, <2>2, Arrival
  <2>3. CASE b = user
    <3>1. ToUser(d)
      BY <2>1, <2>3, ArenaAssumption DEF Deliver, Adapters, Loops
    <3>2. phase' = phase /\ uiPending' = [uiPending EXCEPT ![t] = FALSE]
      BY <3>1 DEF ToUser
    <3>. QED  BY <1>2, <2>3, <3>1, <3>2 DEF ToUser, Handed, fds
  <2>4. CASE b = runtime
    <3>1. ToRuntime(d)
      BY <2>1, <2>4, ArenaAssumption DEF Deliver, Adapters, Loops
    <3>. QED  BY <1>2, <2>4, <3>1 DEF ToRuntime, Handed, fds
  <2>. QED  BY <2>2, <2>3, <2>4 DEF Adapters, Loops
<1>. QED
  BY <1>1, <1>2

\* The next todo, of thread t, has been processed.
Handles(t) ==
  /\ phase \in {"run", "drain"} /\ todos # <<>> /\ Next1 \in TodosOf(t) /\ todos' = Tail(todos)
  /\ events = {} /\ UNCHANGED <<events, draining>>
  /\ \A u \in Thread \ {t} : stack'[u] = stack[u] /\ pending'[u] = pending[u]

\* Who the message does not concern.
LEMMA HandedOthers ==
  ASSUME RInv, Calm, Threads, NEW t \in Thread, NEW b \in Agent, NEW d \in Delivery,
         d.thread = t, Handed(t, b, d), Handles(t)
  PROVE  Calm' /\ \A u \in Thread \ {t} : FramesOK(u)' /\ Track(u)'
<1>. PICK m : m = Reply(t, d.id, {})
  OBVIOUS
<1>1. /\ proc \in [Agent -> {"none", "up", "dead"}] /\ inbox \in [Agent -> Seq(Delivery)]
      /\ outbox \in [Agent -> Seq(Message)] /\ todos \in Seq(Todo)
      /\ uiPending \in [Thread -> BOOLEAN] /\ user \in Agent /\ runtime \in Agent
  BY UserExists DEF RInv, RTypeOK
<1>2. m \in Message /\ m.thread = t
  BY Made, UserExists DEF Reply, Delivery
<1>3. \A a \in Agent :
        /\ proc'[a] = proc[a] \/ (a = b /\ a \in Adapters /\ phase = "run" /\ proc'[a] = "up")
        /\ inbox'[a] = inbox[a] \/ (a = b /\ proc'[a] = "up" /\ inbox'[a] = Append(inbox[a], d))
        /\ outbox'[a] = outbox[a] \/ outbox'[a] = Append(outbox[a], m)
  BY <1>1 DEF Handed
<1>4. phase' = phase /\ UNCHANGED <<service, stale, events, draining>> /\ events = {}
      /\ todos # <<>> /\ todos' = Tail(todos)
  BY DEF Handed, Handles
<1>5. Calm'
  <2>1. \A a \in Agent : proc'[a] # "dead" /\ (proc'[a] = "none" => proc[a] = "none" /\ inbox'[a] = <<>>)
    BY <1>3 DEF Calm
  <2>2. \A i \in 1 .. Len(todos') : ~todos'[i].died
    <3>1. \A i \in 1 .. Len(Tail(todos)) : i + 1 \in 1 .. Len(todos) /\ Tail(todos)[i] = todos[i + 1]
      BY <1>1, <1>4, Rest
    <3>. QED  BY <1>4, <3>1 DEF Calm
  <2>3. \A a \in Loops : a \in Agent /\ proc'[a] = proc[a]
    BY <1>1, <1>3 DEF Loops, Adapters
  <2>4. Adapters \subseteq Agent
    BY DEF Adapters
  <2>. QED  BY <1>4, <2>1, <2>2, <2>3, <2>4 DEF Calm
<1>6. ASSUME NEW u \in Thread \ {t}  PROVE FramesOK(u)'
  <2>1. \A a \in Adapters : proc'[a] = "none" => proc[a] = "none"
    BY <1>3 DEF Adapters
  <2>2. stack'[u] = stack[u] /\ pending'[u] = pending[u]
    BY DEF Handles
  <2>. QED  BY <1>4, <2>1, <2>2 DEF Threads, FramesOK, Draining
<1>7. ASSUME NEW u \in Thread \ {t}  PROVE Track(u)'
  <2>1. \A a \in Agent : /\ Keeps(outbox[a], outbox'[a], PostsOf(u))
                         /\ Keeps(inbox[a], inbox'[a], MailOf(u))
    <3>1. m \notin PostsOf(u) /\ d \notin MailOf(u)
      BY <1>2 DEF PostsOf, MailOf
    <3>2. ASSUME NEW a \in Agent
          PROVE  /\ Keeps(outbox[a], outbox'[a], PostsOf(u))
                 /\ Keeps(inbox[a], inbox'[a], MailOf(u))
      <4>1. outbox[a] \in Seq(Message) /\ inbox[a] \in Seq(Delivery)
        BY <1>1
      <4>2. \A q \in Seq(Message) : Keeps(q, Append(q, m), PostsOf(u))
        BY <1>2, <3>1, KeepsPut
      <4>3. \A q \in Seq(Delivery) : Keeps(q, Append(q, d), MailOf(u))
        BY <3>1, KeepsPut
      <4>. QED  BY <1>3, <4>1, <4>2, <4>3, KeepsSame
    <3>. QED  BY <3>2
  <2>2. Keeps(todos, todos', TodosOf(u))
    <3>1. Head(todos) \notin TodosOf(u)
      BY <1>7 DEF Handles, TodosOf, Next1
    <3>. QED  BY <1>1, <1>4, <3>1, KeepsTail
  <2>3. uiPending'[u] = uiPending[u]
    BY <1>1, <1>7 DEF Handed
  <2>4. Apart(u)
    BY <1>4, <2>1, <2>2, <2>3 DEF Apart, Handles
  <2>. QED  BY <2>4, TrackApart, HolderThere DEF Threads
<1>. QED
  BY <1>5, <1>6, <1>7

\* The queues, for the thread of the message.
LEMMA HandedOwn ==
  ASSUME RInv, NEW t \in Thread, NEW b \in Agent, NEW d \in Delivery, d.thread = t,
         Foremost(t), LastTodo(t), Handed(t, b, d), Handles(t)
  PROVE  /\ NoTodo(t)'
         /\ phase = "drain" => Dropped(t)' /\ uiPending'[t]
         /\ phase = "run" /\ b = user => NoPost(t)' /\ NoMail(t)' /\ ~uiPending'[t]
         /\ phase = "run" /\ b = runtime =>
              /\ Ends(outbox'[b], PostsOf(t), Plain, Reply(t, d.id, {})) /\ NoMail(t)'
              /\ \A a \in Agent \ {b} : Mute(outbox'[a], PostsOf(t), {})
              /\ uiPending'[t] /\ Reply(t, d.id, {}) \in Message
         /\ phase = "run" /\ b \in Adapters =>
              /\ Ends(inbox'[b], MailOf(t), {}, d) /\ NoPost(t)'
              /\ \A a \in Agent \ {b} : Mute(inbox'[a], MailOf(t), {})
              /\ uiPending'[t]
<1>. PICK m : m = Reply(t, d.id, {})
  OBVIOUS
<1>1. /\ inbox \in [Agent -> Seq(Delivery)] /\ outbox \in [Agent -> Seq(Message)]
      /\ uiPending \in [Thread -> BOOLEAN] /\ user # runtime
  BY ArenaAssumption DEF RInv, RTypeOK
<1>2. NoPost(t) /\ NoMail(t) /\ Mute(Tail(todos), TodosOf(t), {}) /\ uiPending[t]
      /\ phase' = phase /\ todos' = Tail(todos)
  BY DEF Foremost, LastTodo, Handed, Handles
<1>3. NoTodo(t)'
  BY <1>2 DEF NoTodo
<1>4. outbox' = outbox => NoPost(t)'
  BY <1>2 DEF NoPost
<1>5. inbox' = inbox => NoMail(t)'
  BY <1>2 DEF NoMail
<1>6. phase = "drain" => Dropped(t)' /\ uiPending'[t]
  BY <1>2, <1>3, <1>4, <1>5 DEF Dropped, Handed
<1>7. phase = "run" /\ b = user => NoPost(t)' /\ NoMail(t)' /\ ~uiPending'[t]
  BY <1>1, <1>4, <1>5 DEF Handed, Adapters, Loops
<1>8. ASSUME phase = "run", b = runtime
      PROVE  /\ Ends(outbox'[b], PostsOf(t), Plain, m) /\ NoMail(t)'
             /\ \A a \in Agent \ {b} : Mute(outbox'[a], PostsOf(t), {})
             /\ uiPending'[t] /\ m \in Message
  <2>1. outbox' = [outbox EXCEPT ![b] = Append(@, m)] /\ UNCHANGED <<inbox, uiPending>>
    BY <1>1, <1>8 DEF Handed, Adapters, Loops
  <2>2. m \in Message /\ m \in PostsOf(t) /\ m \notin Plain
    <3>1. m \in Message
      BY Made, UserExists DEF Delivery
    <3>. QED  BY <3>1 DEF PostsOf, Plain, Reply
  <2>3. outbox'[b] = outbox[b] \o <<m>> /\ outbox[b] \in Seq(Message)
    <3>1. outbox[b] \in Seq(Message) /\ outbox'[b] = Append(outbox[b], m)
      BY <1>1, <2>1
    <3>2. \A q \in Seq(Message), n \in Message : Append(q, n) = q \o <<n>>
      OBVIOUS
    <3>. QED  BY <2>2, <3>1, <3>2
  <2>4. Mute(outbox[b], PostsOf(t), Plain)
    BY <1>2, MuteMore DEF NoPost
  <2>5. \A q \in Seq(Message) :
          Mute(q, PostsOf(t), Plain) => Ends(q \o <<m>>, PostsOf(t), Plain, m)
    BY <2>2, EndsMade
  <2>6. \A a \in Agent \ {b} : Mute(outbox'[a], PostsOf(t), {})
    BY <1>1, <1>2, <2>1 DEF NoPost
  <2>. QED  BY <1>2, <1>5, <2>1, <2>2, <2>3, <2>4, <2>5, <2>6
<1>9. ASSUME phase = "run", b \in Adapters
      PROVE  /\ Ends(inbox'[b], MailOf(t), {}, d) /\ NoPost(t)'
             /\ \A a \in Agent \ {b} : Mute(inbox'[a], MailOf(t), {})
             /\ uiPending'[t]
  <2>1. inbox' = [inbox EXCEPT ![b] = Append(@, d)] /\ UNCHANGED <<outbox, uiPending>>
    BY <1>9 DEF Handed, Adapters, Loops
  <2>2. inbox'[b] = inbox[b] \o <<d>> /\ inbox[b] \in Seq(Delivery)
    BY <1>1, <2>1
  <2>3. \A q \in Seq(Delivery) : Mute(q, MailOf(t), {}) => Ends(q \o <<d>>, MailOf(t), {}, d)
    <3>1. d \in MailOf(t)
      BY DEF MailOf
    <3>. QED  BY <3>1, EndsMade
  <2>4. \A a \in Agent \ {b} : Mute(inbox'[a], MailOf(t), {})
    BY <1>1, <1>2, <2>1 DEF NoMail
  <2>. QED  BY <1>2, <1>4, <2>1, <2>2, <2>3, <2>4 DEF NoMail
<1>. QED
  BY <1>3, <1>6, <1>7, <1>8, <1>9

-----------------------------------------------------------------------------
(* The thread of the message *)

LEMMA PushedFrames ==
  ASSUME ShutdownInv, Separate, ArenaStays, Calm, Threads, NEW t \in Thread, Foremost(t),
         NEW b \in Reach[t], stack[t] # <<>> => Calls(Holder(t)),
         NEW d, Handed(t, b, d), Handles(t), NEW id \in Nat,
         stack' = [stack EXCEPT ![t] = Append(@, [id |-> id, from |-> Holder(t), to |-> b])],
         pending' = [pending EXCEPT ![t] = TRUE]
  PROVE  /\ FramesOK(t)' /\ stack'[t] # <<>> /\ Holder(t)' = b
         /\ Top(t)' = [id |-> id, from |-> Holder(t), to |-> b]
         /\ Front(stack'[t]) = stack[t]
<1>. PICK f, n, s : /\ f = [id |-> id, from |-> Holder(t), to |-> b]
                    /\ n = Len(stack[t]) /\ s = stack[t]
  OBVIOUS
<1>0. RInv
  BY DEF ShutdownInv
<1>1. /\ f \in Frame /\ f.to = b /\ b \in Agent /\ b # user
      /\ stack \in [Thread -> Seq(Frame)] /\ s \in Seq(Frame) /\ pending \in [Thread -> BOOLEAN]
      /\ proc \in [Agent -> {"none", "up", "dead"}]
  BY <1>0, Reached, HolderThere DEF Frame, RInv, RTypeOK, IInv, TypeOK
<1>2. stack'[t] = Append(s, f) /\ pending'[t] = TRUE
  BY <1>1
<1>3. /\ Append(s, f) \in Seq(Frame) /\ Len(Append(s, f)) = n + 1 /\ n \in Nat
      /\ \A i \in 1 .. n : Append(s, f)[i] = s[i]
      /\ Append(s, f)[n + 1] = f /\ Append(s, f) # <<>>
  BY <1>1, Pushed
<1>4. Front(Append(s, f)) = s
  <2>1. Len(Append(s, f)) - 1 = n /\ n \in 0 .. Len(Append(s, f))
    BY <1>3
  <2>2. /\ SubSeq(Append(s, f), 1, n) \in Seq(Frame) /\ Len(SubSeq(Append(s, f), 1, n)) = n
        /\ \A i \in 1 .. n : SubSeq(Append(s, f), 1, n)[i] = Append(s, f)[i]
    BY <1>3, <2>1, Cut
  <2>3. SubSeq(Append(s, f), 1, n) = s
    BY <1>1, <1>3, <2>2, SeqEqual
  <2>. QED  BY <2>1, <2>3 DEF Front
<1>5. Top(t)' = f /\ Holder(t)' = b
  BY <1>1, <1>2, <1>3 DEF Top, Holder
<1>6. phase' = phase /\ draining' = draining /\ Draining' = Draining
  BY DEF Handed, Handles, Draining
<1>7. \A a \in Agent : proc'[a] = "none" => proc[a] = "none" /\ (phase = "run" => a # b \/ b \notin Adapters)
  BY <1>1 DEF Handed, Adapters, Loops
<1>8. phase = "drain" => Holder(t) = Draining
  <2>1. 1 \in 1 .. Len(todos) /\ todos[1] = Next1
    <3>1. todos \in Seq(Todo) /\ todos # <<>>
      BY DEF Foremost, Handles
    <3>. QED  BY <3>1, Rest DEF Next1
  <2>. QED  BY <2>1 DEF ShutdownInv, Turn, Foremost
<1>9. phase = "drain" => s # <<>>
  <2>1. SUFFICES ASSUME phase = "drain", s = <<>>  PROVE FALSE
    OBVIOUS
  <2>2. Draining = user
    BY <1>8, <2>1 DEF Holder
  <2>3. PICK u \in Thread : \E i \in 1 .. Len(stack[u]) : stack[u][i].to = user
    BY <2>1, <2>2 DEF ShutdownInv, Turn, Handles, UserCalled
  <2>4. user \in Reach[u]
    BY <2>3 DEF Threads, FramesOK
  <2>. QED  BY <2>4, Reached
<1>10. s # <<>> => n \in 1 .. n /\ s[n].to = Holder(t)
  BY <1>1 DEF Holder, Top
<1>11. ASSUME NEW i \in 1 .. n
       PROVE  /\ s[i].to \in Reach[t] /\ Calls(s[i].to)
              /\ s[i].to \in Adapters => proc'[s[i].to] # "none"
  <2>1. s[i].to \in Reach[t] /\ s[i].to \in Agent
    <3>1. s[i].to \in Reach[t]
      BY DEF Threads, FramesOK
    <3>. QED  BY <3>1, Reached
  <2>2. Calls(s[i].to)
    BY <1>3, <1>10 DEF Threads, FramesOK
  <2>3. s[i].to \in Adapters => proc[s[i].to] # "none"
    <3>1. SUFFICES ASSUME s[i].to \in Adapters, proc[s[i].to] = "none"  PROVE FALSE
      OBVIOUS
    <3>2. phase = "drain" /\ i = n
      BY <3>1 DEF Threads, FramesOK
    <3>3. stack[t][i].to = Draining
      BY <1>8, <1>10, <3>2
    <3>. QED  BY <3>1, <3>2, <3>3, OwingRuns
  <2>. QED  BY <1>7, <2>1, <2>2, <2>3
<1>12. b \in Adapters /\ proc'[b] = "none" =>
         phase' = "drain" /\ n + 1 > 1 /\ Append(s, f)[n + 1 - 1].to = Draining'
  <2>1. SUFFICES ASSUME b \in Adapters, proc'[b] = "none"
                 PROVE  phase' = "drain" /\ n + 1 > 1 /\ Append(s, f)[n + 1 - 1].to = Draining'
    OBVIOUS
  <2>2. phase = "drain"
    BY <1>1, <1>7, <2>1 DEF Handles
  <2>3. n \in 1 .. n /\ s[n].to = Draining /\ n + 1 > 1 /\ n + 1 - 1 = n
    BY <1>3, <1>8, <1>9, <1>10, <2>2
  <2>. QED  BY <1>3, <1>6, <2>2, <2>3
<1>13. FramesOK(t)'
  <2>. PICK q : q = Append(s, f)
    OBVIOUS
  <2>1. ASSUME NEW i \in 1 .. Len(q)
        PROVE  /\ q[i].to \in Reach[t]
               /\ i < Len(q) => Calls(q[i].to)
               /\ q[i].to \in Adapters /\ proc'[q[i].to] = "none" =>
                    phase' = "drain" /\ i = Len(q) /\ i > 1 /\ q[i - 1].to = Draining'
    <3>1. CASE i \in 1 .. n
      BY <1>3, <1>11, <3>1
    <3>2. CASE i = n + 1
      BY <1>1, <1>3, <1>12, <3>2
    <3>. QED  BY <1>3, <3>1, <3>2
  <2>2. stack'[t] = q /\ q # <<>>
    BY <1>2, <1>3
  <2>. QED  BY <1>2, <2>1, <2>2 DEF FramesOK, Calls
<1>. QED
  BY <1>2, <1>3, <1>4, <1>5, <1>13

\* A call: its callee has it, or answers at once, or the shutdown keeps it.
LEMMA PushFlows ==
  ASSUME ShutdownInv, Separate, ArenaStays, Calm, Threads, NEW t \in Thread,
         Foremost(t), LastTodo(t), NEW b \in Reach[t], stack[t] # <<>> => Calls(Holder(t)),
         Serves(t, stack[t], b), Pushes(t, b), Handles(t), crashes' = crashes
  PROVE  phase' = "returned" \/ (phase' = phase /\ Calm' /\ Threads')
<1>0. RInv /\ b \in Agent /\ b # user /\ Holder(t) \in Agent /\ uiPending[t]
  BY Reached, HolderThere DEF ShutdownInv, Foremost
<1>1. PICK id \in Nat :
        /\ stack' = [stack EXCEPT ![t] = Append(@, [id |-> id, from |-> Holder(t), to |-> b])]
        /\ pending' = [pending EXCEPT ![t] = TRUE]
        /\ Passes(b, [thread |-> t, id |-> id, from |-> Holder(t), reply |-> FALSE])
  BY DEF Pushes
<1>. PICK d, a : d = [thread |-> t, id |-> id, from |-> Holder(t), reply |-> FALSE] /\ a = Holder(t)
  OBVIOUS
<1>2. d \in Delivery /\ d.thread = t /\ d.id = id
  BY <1>0 DEF Delivery
<1>. SUFFICES ASSUME Handed(t, b, d)  PROVE phase' = phase /\ Calm' /\ Threads'
  BY <1>0, <1>1, <1>2, PassesEffect DEF Handles
<1>3. Calm' /\ \A u \in Thread \ {t} : FramesOK(u)' /\ Track(u)'
  BY <1>0, <1>2, HandedOthers
<1>4. /\ FramesOK(t)' /\ stack'[t] # <<>> /\ Holder(t)' = b
      /\ Top(t)' = [id |-> id, from |-> a, to |-> b]
      /\ Front(stack'[t]) = stack[t]
  BY <1>1, PushedFrames
<1>5. Top(t)'.id = id /\ Top(t)'.from = a
  BY <1>4
<1>6. \A c \in Reach[t] : Calls(c) => service'[c] = Waits(t, stack[t], b, c)
  BY DEF Serves, Handed
<1>7. phase = "drain" => Track(t)'
  BY <1>0, <1>2, HandedOwn DEF Track
<1>8. ASSUME phase = "run", b = runtime  PROVE Track(t)'
  <2>. PICK m : m = Reply(t, id, {})
    OBVIOUS
  <2>1. /\ Ends(outbox'[b], PostsOf(t), Plain, m) /\ NoMail(t)' /\ NoTodo(t)'
        /\ \A c \in Agent \ {b} : Mute(outbox'[c], PostsOf(t), {})
        /\ uiPending'[t] /\ m \in Message
    BY <1>0, <1>2, <1>8, HandedOwn
  <2>2. Posted(t, m)'
    <3>1. Serves(t, Front(stack[t]), Holder(t))'
      BY <1>4, <1>6 DEF Serves, Calls
    <3>. QED  BY <1>4, <1>5, <3>1 DEF Posted
  <2>3. AtOutbox(t, m)'
    <3>1. Mute(todos', TodosOf(t), PlainTodos(b))
      BY <2>1, MuteMore DEF NoTodo
    <3>. QED  BY <1>4, <2>1, <3>1 DEF AtOutbox
  <2>. QED  BY <2>1, <2>2, <2>3 DEF Track, Posting
<1>9. ASSUME phase = "run", b \in Adapters  PROVE Track(t)'
  <2>1. /\ Ends(inbox'[b], MailOf(t), {}, d) /\ NoPost(t)' /\ NoTodo(t)'
        /\ \A c \in Agent \ {b} : Mute(inbox'[c], MailOf(t), {}) /\ uiPending'[t]
    BY <1>0, <1>2, <1>9, HandedOwn
  <2>2. Carried(t, d)'
    <3>1. Serves(t, Front(stack[t]), Holder(t))'
      BY <1>4, <1>6 DEF Serves, Calls
    <3>2. d = [thread |-> t, id |-> Top(t)'.id, from |-> Top(t)'.from, reply |-> FALSE]
      BY <1>5
    <3>. QED  BY <1>4, <1>9, <3>1, <3>2 DEF Carried
  <2>3. AtInbox(t, d)' /\ uiPending'[t]
    <3>1. uiPending'[t]
      BY <1>0, <1>2, <1>9, HandedOwn
    <3>. QED  BY <1>4, <2>1, <3>1 DEF AtInbox
  <2>. QED  BY <1>2, <2>2, <2>3 DEF Track, Carrying
<1>10. Track(t)'
  BY <1>0, <1>7, <1>8, <1>9 DEF Handles, Adapters, Loops
<1>. QED
  BY <1>3, <1>4, <1>10 DEF Threads, Handed

\* The frames after an answer.
LEMMA PoppedFrames ==
  ASSUME RInv, Separate, ArenaStays, Calm, Threads, NEW t \in Thread, Foremost(t), stack[t] # <<>>,
         NEW d, Handed(t, Top(t).from, d), Handles(t),
         stack' = [stack EXCEPT ![t] = Front(@)],
         pending' = PendingAfter(t, Holder(t), Top(t).from)
  PROVE  /\ FramesOK(t)' /\ stack'[t] = Front(stack[t])
         /\ \/ Top(t).from = user /\ stack'[t] = <<>>
            \/ stack'[t] # <<>> /\ Holder(t)' = Top(t).from /\ Calls(Top(t).from)
<1>. PICK n, s, q, x : n = Len(stack[t]) /\ s = stack[t] /\ q = Front(stack[t]) /\ x = Top(t).from
  OBVIOUS
<1>1. /\ s \in Seq(Frame) /\ n \in 1 .. n /\ n \in Nat /\ q \in Seq(Frame) /\ Len(q) = n - 1
      /\ \A i \in 1 .. n - 1 : q[i] = s[i]
      /\ stack \in [Thread -> Seq(Frame)] /\ pending \in [Thread -> BOOLEAN]
  BY FramesSplit, RoundOwner DEF RInv, IInv, TypeOK
<1>2. stack'[t] = q
  BY <1>1
<1>3. \A i \in 1 .. n : s[i].from = IF i = 1 THEN user ELSE s[i - 1].to
  BY DEF RInv, IInv, CallChain
<1>4. x = IF n = 1 THEN user ELSE s[n - 1].to
  BY <1>1, <1>3 DEF Top
<1>5. pending[t] = TRUE /\ Holder(t) # user
  <2>1. Holder(t) \in Reach[t]
    BY RoundOwner
  <2>. QED  BY <1>1, <2>1, Reached DEF Threads, FramesOK
<1>6. CASE n = 1
  <2>1. q = <<>> /\ x = user
    BY <1>1, <1>4, <1>6
  <2>2. pending'[t] = FALSE
    <3>1. pending' = [pending EXCEPT ![t] = FALSE]
      BY <1>5, <2>1 DEF PendingAfter
    <3>. QED  BY <1>1, <3>1
  <2>3. FramesOK(t)'
    BY <1>2, <2>1, <2>2 DEF FramesOK
  <2>. QED  BY <1>2, <2>1, <2>3
<1>7. CASE n # 1
  <2>1. n - 1 \in 1 .. n /\ n - 1 < n /\ n - 1 \in 1 .. n - 1
    BY <1>1, <1>7
  <2>2. x = s[n - 1].to /\ Calls(x)
    BY <1>4, <1>7, <2>1 DEF Threads, FramesOK
  <2>3. q # <<>> /\ Len(q) = n - 1 /\ q[n - 1] = s[n - 1]
    BY <1>1, <2>1
  <2>4. Holder(t)' = x
    BY <1>2, <2>2, <2>3 DEF Holder, Top
  <2>5. pending'[t]
    <3>1. x # user
      BY <2>2 DEF Calls, Adapters, Loops
    <3>2. pending' = [pending EXCEPT ![t] = pending[t]]
      BY <1>5, <3>1 DEF PendingAfter
    <3>. QED  BY <1>1, <1>5, <3>2
  <2>6. \A a \in Adapters : proc'[a] = "none" => proc[a] = "none"
    <3>1. proc \in [Agent -> {"none", "up", "dead"}]
      BY DEF RInv, RTypeOK
    <3>. QED  BY <3>1 DEF Handed, Adapters
  <2>7. ASSUME NEW i \in 1 .. Len(q)
        PROVE  /\ q[i].to \in Reach[t]
               /\ i < Len(q) => Calls(q[i].to)
               /\ q[i].to \in Adapters => proc'[q[i].to] # "none"
    <3>1. i \in 1 .. n /\ q[i] = s[i] /\ i < n
      BY <1>1
    <3>2. q[i].to \in Reach[t] /\ Calls(q[i].to)
      BY <3>1 DEF Threads, FramesOK
    <3>3. q[i].to \in Adapters => proc[q[i].to] # "none"
      BY <3>1 DEF Threads, FramesOK
    <3>. QED  BY <2>6, <3>2, <3>3
  <2>8. FramesOK(t)'
    BY <1>2, <2>3, <2>5, <2>7 DEF FramesOK, Calls
  <2>. QED  BY <1>2, <2>2, <2>3, <2>4, <2>8
<1>. QED
  BY <1>6, <1>7

LEMMA PopFlows ==
  ASSUME RInv, Separate, ArenaStays, Calm, Threads, NEW t \in Thread, stack[t] # <<>>,
         Foremost(t), LastTodo(t), Serves(t, Front(stack[t]), Holder(t)), Pops(t), Handles(t),
         crashes' = crashes
  PROVE  phase' = "returned" \/ (phase' = phase /\ Calm' /\ Threads')
<1>. PICK b, a, id : b = Top(t).from /\ a = Holder(t) /\ id = lastId'
  OBVIOUS
<1>. PICK d : d = [thread |-> t, id |-> id, from |-> a, reply |-> TRUE]
  OBVIOUS
<1>0. b \in Agent /\ a \in Agent /\ uiPending[t] /\ id \in Nat
  BY FramesSplit, HolderThere DEF Foremost, Pops
<1>1. /\ stack' = [stack EXCEPT ![t] = Front(@)]
      /\ pending' = PendingAfter(t, Holder(t), Top(t).from)
      /\ Passes(b, d)
  BY DEF Pops
<1>2. d \in Delivery /\ d.thread = t /\ d.reply /\ d.from = a
  BY <1>0 DEF Delivery
<1>. SUFFICES ASSUME Handed(t, b, d)  PROVE phase' = phase /\ Calm' /\ Threads'
  BY <1>0, <1>1, <1>2, PassesEffect DEF Handles
<1>3. Calm' /\ \A u \in Thread \ {t} : FramesOK(u)' /\ Track(u)'
  BY <1>0, <1>2, HandedOthers
<1>4. /\ FramesOK(t)' /\ stack'[t] = Front(stack[t])
      /\ \/ b = user /\ stack'[t] = <<>>
         \/ stack'[t] # <<>> /\ Holder(t)' = b /\ Calls(b)
  BY <1>1, PoppedFrames
<1>5. \A c \in Reach[t] : Calls(c) => service'[c] = Waits(t, Front(stack[t]), a, c)
  BY DEF Serves, Handed
<1>6. phase = "drain" => Track(t)'
  BY <1>0, <1>2, HandedOwn DEF Track
<1>7. ASSUME phase = "run", b = user, stack'[t] = <<>>  PROVE Track(t)'
  <2>1. NoPost(t)' /\ NoMail(t)' /\ NoTodo(t)' /\ ~uiPending'[t]
    BY <1>0, <1>2, <1>7, HandedOwn
  <2>2. Front(stack[t]) = <<>>
    BY <1>4, <1>7
  <2>3. Serves(t, <<>>, user)'
    BY <1>5, <2>2, WaitsEmpty DEF Serves, Calls
  <2>. QED  BY <1>7, <2>1, <2>3 DEF Track, Idle
<1>8. ASSUME phase = "run", stack'[t] # <<>>, Holder(t)' = b, Calls(b)  PROVE Track(t)'
  <2>0. b \in Adapters /\ Peers[b] # {}
    BY <1>8 DEF Calls
  <2>1. /\ Ends(inbox'[b], MailOf(t), {}, d) /\ NoPost(t)' /\ NoTodo(t)'
        /\ \A c \in Agent \ {b} : Mute(inbox'[c], MailOf(t), {})
        /\ uiPending'[t]
    BY <1>0, <1>2, <1>8, <2>0, HandedOwn
  <2>2. Serves(t, stack[t], a)'
    BY <1>4, <1>5 DEF Serves, Calls
  <2>3. Carried(t, d)'
    BY <1>0, <1>2, <1>8, <2>0, <2>2 DEF Carried
  <2>4. AtInbox(t, d)'
    BY <1>8, <2>1 DEF AtInbox
  <2>. QED  BY <1>2, <2>1, <2>3, <2>4 DEF Track, Carrying
<1>9. Track(t)'
  BY <1>4, <1>6, <1>7, <1>8 DEF Handles
<1>. QED
  BY <1>3, <1>4, <1>9 DEF Threads, Handed

LEMMA RefuseFlows ==
  ASSUME RInv, Separate, ArenaStays, Calm, Threads, NEW t \in Thread, stack[t] = <<>>,
         Foremost(t), LastTodo(t), Serves(t, <<>>, user), Refuses(t), Handles(t),
         crashes' = crashes
  PROVE  phase' = "returned" \/ (phase' = phase /\ Calm' /\ Threads')
<1>. PICK id : id = lastId'
  OBVIOUS
<1>. PICK d : d = [thread |-> t, id |-> id, from |-> user, reply |-> FALSE]
  OBVIOUS
<1>0. user \in Agent /\ uiPending[t] /\ id \in Nat
  BY UserExists DEF Foremost, Refuses
<1>1. stack' = stack /\ pending' = [pending EXCEPT ![t] = FALSE] /\ Passes(user, d)
  BY DEF Refuses
<1>2. d \in Delivery /\ d.thread = t
  BY <1>0 DEF Delivery
<1>. SUFFICES ASSUME Handed(t, user, d)  PROVE phase' = phase /\ Calm' /\ Threads'
  BY <1>0, <1>1, <1>2, PassesEffect DEF Handles
<1>3. Calm' /\ \A u \in Thread \ {t} : FramesOK(u)' /\ Track(u)'
  BY <1>0, <1>2, HandedOthers
<1>4. FramesOK(t)' /\ stack'[t] = <<>>
  <2>1. pending'[t] = FALSE
    BY <1>1 DEF RInv, IInv, TypeOK
  <2>. QED  BY <1>1, <2>1 DEF FramesOK
<1>5. Serves(t, <<>>, user)'
  BY DEF Serves, Handed, Calls
<1>6. phase = "drain" => Track(t)'
  BY <1>0, <1>2, HandedOwn DEF Track
<1>7. phase = "run" => Track(t)'
  BY <1>0, <1>2, <1>4, <1>5, HandedOwn DEF Track, Idle
<1>. QED
  BY <1>3, <1>4, <1>6, <1>7 DEF Threads, Handed, Handles

-----------------------------------------------------------------------------
(* The steps *)

LEMMA ProcessFlows ==
  ASSUME ShutdownInv, Separate, ArenaStays, Calm, Threads, Process, crashes' = crashes
  PROVE  phase' = "returned" \/ (phase' = phase /\ Calm' /\ Threads')
<1>0. RInv
  BY DEF ShutdownInv
<1>1. CASE ProcessNote
  BY <1>0, <1>1, NoteFlows
<1>2. CASE ~ProcessNote
  <2>1. /\ phase \in {"run", "drain"} /\ todos # <<>> /\ todos' = Tail(todos) /\ events = {}
        /\ UNCHANGED <<events, draining>>
    BY DEF Process, ProcessNote, ProcessRouted, ProcessCommand, ProcessDeath, NextTodo
  <2>2. PICK t \in Thread : Foremost(t) /\ (Next1.msg.data \/ LastTodo(t))
    BY <1>0, <2>1, Foremosts
  <2>3. ~Next1.msg.data
    <3>1. SUFFICES ASSUME Next1.msg.data  PROVE FALSE
      OBVIOUS
    <3>2. IsData(Next1.agent, Next1.msg)
      BY <2>2, <3>1 DEF IsData, Foremost
    <3>3. \A b : ~Route(Next1.agent, Next1.msg, b)
      BY <3>1, <3>2 DEF Route, Return, Call, CallClone, Reject, IsReturn, IsCall, IsError
    <3>4. \A new, f : ~Command(Next1.agent, Next1.msg, new, f)
      BY <3>1 DEF Command, CallRuntime, IsCall
    <3>5. ~Next1.died
      BY <2>2 DEF Foremost
    <3>. QED  BY <1>2, <3>3, <3>4, <3>5 DEF Process, ProcessRouted, ProcessCommand, ProcessDeath
  <2>4. LastTodo(t)
    BY <2>2, <2>3
  <2>5. (\A u \in Thread \ {t} : stack'[u] = stack[u] /\ pending'[u] = pending[u]) => Handles(t)
    BY <2>1, <2>2 DEF Handles, Foremost
  <2>6. stack \in [Thread -> Seq(Frame)] /\ pending \in [Thread -> BOOLEAN]
    BY <1>0 DEF RInv, IInv, TypeOK
  <2>7. ASSUME NEW b \in Reach[t], Serves(t, stack[t], b), Pushes(t, b),
               stack[t] # <<>> => Calls(Holder(t))
        PROVE  phase' = "returned" \/ (phase' = phase /\ Calm' /\ Threads')
    <3>1. Handles(t)
      BY <2>5, <2>6, <2>7 DEF Pushes
    <3>. QED  BY <2>2, <2>4, <2>7, <3>1, PushFlows
  <2>8. ASSUME stack[t] # <<>>, Serves(t, Front(stack[t]), Holder(t)), Pops(t)
        PROVE  phase' = "returned" \/ (phase' = phase /\ Calm' /\ Threads')
    <3>1. Handles(t)
      BY <2>5, <2>6, <2>8 DEF Pops, PendingAfter
    <3>. QED  BY <1>0, <2>2, <2>4, <2>8, <3>1, PopFlows
  <2>9. ASSUME stack[t] = <<>>, Serves(t, <<>>, user), Refuses(t)
        PROVE  phase' = "returned" \/ (phase' = phase /\ Calm' /\ Threads')
    <3>1. Handles(t)
      BY <2>5, <2>6, <2>9 DEF Refuses
    <3>. QED  BY <1>0, <2>2, <2>4, <2>9, <3>1, RefuseFlows
  <2>. QED  BY <1>0, <2>2, <2>4, <2>7, <2>8, <2>9, Outcome
<1>. QED
  BY <1>1, <1>2

\* Nothing but a crash or a failure to start is counted as one.
LEMMA CrashesCounted ==
  ASSUME RNext
  PROVE  crashes' \in {crashes, crashes + 1}
<1>1. \A b, d : Deliver(b, d) => crashes' \in {crashes, crashes + 1}
  BY DEF Deliver, ToUser, ToRuntime, Start, FailToStart, GiveUp, Send
<1>2. Undelivered => crashes' \in {crashes, crashes + 1}
  BY DEF Undelivered
<1>3. Process => crashes' \in {crashes, crashes + 1}
  BY <1>1, <1>2 DEF Process, ProcessNote, ProcessRouted, ProcessCommand, ProcessDeath
<1>4. Loop => crashes' \in {crashes, crashes + 1}
  BY <1>3 DEF Loop, Poll, Receive, PollCheck, BeginShutdown, DrainReceive, DrainCheck, DrainNext,
              drainvars, counters
<1>5. \A a : Adapter(a) \/ Crash(a) => crashes' \in {crashes, crashes + 1}
  BY DEF Adapter, AdapterReply, AdapterCall, AdapterCheck, Crash, counters
<1>6. \A t, b : UserSend(t, b) => crashes' \in {crashes, crashes + 1}
  BY DEF UserSend
<1>. QED
  BY <1>4, <1>5, <1>6 DEF RNext

LEMMA FlowsStep ==
  ASSUME ShutdownInv, Separate, ArenaStays, phase \notin Failures, Flows, RNext, crashes' = crashes
  PROVE  phase' \notin Failures /\ Flows'
<1>0. RInv /\ crashes \in Nat
  BY DEF ShutdownInv, RInv, RTypeOK
<1>1. /\ phase \notin Failures => phase \in {"run", "drain", "stopped", "returned"}
      /\ \A p \in {"run", "drain", "stopped", "returned"} : p \notin Failures
  BY <1>0 DEF RInv, RTypeOK, Failures
<1>2. CASE phase = "returned"
  <2>1. ~Loop
    <3>1. ~Process
      BY <1>2 DEF Process, ProcessNote, ProcessRouted, ProcessCommand, ProcessDeath, NextTodo
    <3>. QED  BY <1>2, <3>1 DEF Loop, Poll, Receive, PollCheck, Polling, BeginShutdown,
                                DrainReceive, DrainCheck, DrainNext, InDrain
  <2>2. phase' = phase
    BY <1>0, <2>1 DEF RNext, UserSend, Adapter, AdapterReply, AdapterCall, AdapterCheck, Crash
  <2>. QED  BY <1>1, <1>2, <2>2 DEF Flows
<1>3. CASE phase \in {"run", "drain"}
  <2>1. Calm /\ Threads
    BY <1>3 DEF Flows, Threads
  <2>. DEFINE Kept == phase' = phase /\ Calm' /\ Threads'
  <2>2. ASSUME NEW t \in Thread, NEW b \in Contacts[t], UserSend(t, b)  PROVE Kept
    BY <1>0, <2>1, <2>2, SendFlows DEF UserSend
  <2>3. ASSUME NEW a \in Adapters, Adapter(a)  PROVE Kept
    <3>1. ~AdapterCheck(a)
      BY <1>0, <2>1, ChecksHold
    <3>2. AdapterReply(a) => Kept
      BY <1>0, <2>1, ReplyFlows DEF AdapterReply
    <3>3. ASSUME NEW b \in Peers[a], AdapterCall(a, b)  PROVE Kept
      BY <1>0, <2>1, <3>3, CallFlows DEF AdapterCall
    <3>. QED  BY <2>3, <3>1, <3>2, <3>3 DEF Adapter
  <2>4. \A a : ~Crash(a)
    BY <1>0 DEF Crash
  <2>5. Poll => Kept
    BY <1>0, <2>1, PollFlows DEF Poll
  <2>6. ASSUME NEW e \in events, Receive(e)  PROVE Kept
    BY <1>0, <2>1, <2>6, ReceiveFlows DEF Receive
  <2>7. ~PollCheck /\ ~DrainCheck
    BY <2>1, EventsHaveDrivers, DrainHasDriver
  <2>8. Process => phase' = "returned" \/ Kept
    BY <2>1, ProcessFlows
  <2>9. BeginShutdown => phase' = "drain" /\ Calm' /\ Threads'
    BY <1>0, <2>1, BeginFlows DEF BeginShutdown
  <2>10. DrainReceive => Kept
    BY <1>0, <2>1, DrainReceiveFlows DEF DrainReceive
  <2>11. DrainNext => phase' \in {"drain", "stopped"} /\ (phase' = "drain" => Calm' /\ Threads')
    BY <1>0, <2>1, DrainNextFlows
  <2>. HIDE DEF Kept
  <2>12. Kept \/ phase' = "returned" \/ (phase' = "drain" /\ Calm' /\ Threads') \/ phase' = "stopped"
    BY <2>2, <2>3, <2>4, <2>5, <2>6, <2>7, <2>8, <2>9, <2>10, <2>11 DEF RNext, Loop
  <2>. QED  BY <1>1, <1>3, <2>12 DEF Kept, Flows, Threads
<1>. QED
  BY <1>1, <1>2, <1>3 DEF RNext, Alive

LEMMA TokenStep ==
  ASSUME Separate, TokenInv, RNext
  PROVE  TokenInv'
<1>0. RInv /\ ShutdownInv'
  BY ShutdownStep DEF TokenInv, ShutdownInv
<1>1. ArenaStays'
  <2>1. CASE Next
    BY <1>0, <2>1, AgentsStay DEF TokenInv, ArenaStays, RInv, IInv
  <2>2. CASE UNCHANGED vars
    BY <2>2 DEF TokenInv, ArenaStays, vars
  <2>. QED  BY <1>0, <2>1, <2>2, ProgramStep
<1>2. ASSUME crashes' = 0  PROVE phase' \notin Failures /\ Flows'
  <2>1. crashes = 0 /\ crashes' = crashes
    <3>1. crashes \in Nat
      BY <1>0 DEF RInv, RTypeOK
    <3>. QED  BY <1>2, <3>1, CrashesCounted
  <2>. QED  BY <2>1, FlowsStep DEF TokenInv
<1>. QED
  BY <1>0, <1>1, <1>2 DEF TokenInv

LEMMA TokenStutter ==
  ASSUME TokenInv, UNCHANGED rvars
  PROVE  TokenInv'
<1>1. /\ UNCHANGED <<agents, home, flags, stack, pending, proc, inbox, outbox, service, stale, events,
                     todos, uiPending, phase, draining, crashes>>
  BY DEF rvars, program, vars, fds, counters
<1>2. ShutdownInv'
  <2>1. RInv'
    BY RInvStutter DEF TokenInv, ShutdownInv
  <2>. QED  BY <1>1, <2>1, TurnKept DEF TokenInv, ShutdownInv, UserAsks
<1>3. ArenaStays'
  BY <1>1 DEF TokenInv, ArenaStays
<1>4. ASSUME crashes' = 0  PROVE phase' \notin Failures /\ Flows'
  <2>1. phase \notin Failures /\ Flows /\ RInv
    BY <1>1, <1>4 DEF TokenInv, ShutdownInv
  <2>2. phase \in {"run", "drain"} => Calm' /\ Threads'
    <3>1. SUFFICES ASSUME phase \in {"run", "drain"}  PROVE Calm' /\ Threads'
      OBVIOUS
    <3>2. Calm /\ Threads
      BY <2>1, <3>1 DEF Flows, Threads
    <3>. QED  BY <1>1, <2>1, <3>2, ThreadsStay DEF Calm
  <2>. QED  BY <1>1, <2>1, <2>2 DEF Flows, Threads
<1>. QED
  BY <1>2, <1>3, <1>4 DEF TokenInv

LEMMA TokenInit ==
  ASSUME RInit, Separate
  PROVE  TokenInv
<1>1. /\ user \in Agent /\ phase = "run" /\ stack = [t \in Thread |-> <<>>]
      /\ pending = [t \in Thread |-> FALSE] /\ uiPending = [t \in Thread |-> FALSE]
      /\ proc = [a \in Agent |-> IF a \in Loops THEN "up" ELSE "none"]
      /\ inbox = [a \in Agent |-> <<>>] /\ outbox = [a \in Agent |-> <<>>]
      /\ service = [a \in Agent |-> <<>>] /\ stale = [a \in Agent |-> {}]
      /\ events = {} /\ todos = <<>>
  BY UserExists DEF RInit, Init
<1>2. ArenaStays
  BY ArenaAssumption DEF RInit, Init, ArenaStays, Founders
<1>3. Calm
  <2>1. Loops \subseteq Agent /\ Adapters \subseteq Agent
    BY UserExists DEF Loops, Adapters
  <2>. QED  BY <1>1, <2>1 DEF Calm
<1>4. ASSUME NEW t \in Thread  PROVE FramesOK(t) /\ Track(t)
  <2>1. FramesOK(t)
    BY <1>1 DEF FramesOK
  <2>2. Serves(t, <<>>, user)
    <3>1. Reach[t] \subseteq Agent
      BY ReachSeparates, ArenaAssumption DEF Founders
    <3>. QED  BY <1>1, <3>1, WaitsEmpty DEF Serves
  <2>3. NoPost(t) /\ NoTodo(t) /\ NoMail(t)
    BY <1>1, MuteEmpty DEF NoPost, NoTodo, NoMail
  <2>. QED  BY <1>1, <2>1, <2>2, <2>3 DEF Track, Idle
<1>5. phase \notin Failures
  BY <1>1 DEF Failures
<1>. QED
  BY <1>2, <1>3, <1>4, <1>5, ShutdownInit DEF TokenInv, Flows

-----------------------------------------------------------------------------
(* What follows from it *)

\* An adapter that calls waits for the thread's frames, or for those below the top.
LEMMA WaitingFor ==
  ASSUME RInv, phase = "run", NEW t \in Thread, Track(t), NEW a \in Reach[t], Calls(a)
  PROVE  \E q \in Seq(Frame), x \in Agent :
           /\ service[a] = Waits(t, q, x, a)
           /\ \A i \in 1 .. Len(q) : i \in 1 .. Len(stack[t]) /\ q[i] = stack[t][i]
<1>. DEFINE Goal == \E q \in Seq(Frame), x \in Agent :
                      /\ service[a] = Waits(t, q, x, a)
                      /\ \A i \in 1 .. Len(q) : i \in 1 .. Len(stack[t]) /\ q[i] = stack[t][i]
<1>1. Serves(t, <<>>, user) => Goal
  <2>1. <<>> \in Seq(Frame) /\ Len(<<>>) = 0 /\ user \in Agent
    BY UserExists
  <2>2. \A i \in 1 .. Len(<<>>) : FALSE
    BY <2>1
  <2>. QED  BY <2>1, <2>2 DEF Serves
<1>2. stack[t] # <<>> /\ Serves(t, Front(stack[t]), Holder(t)) => Goal
  <2>1. SUFFICES ASSUME stack[t] # <<>>, Serves(t, Front(stack[t]), Holder(t))  PROVE Goal
    OBVIOUS
  <2>. PICK q : q = Front(stack[t])
    OBVIOUS
  <2>2. /\ q \in Seq(Frame) /\ Len(q) = Len(stack[t]) - 1 /\ Holder(t) \in Agent
        /\ \A i \in 1 .. Len(stack[t]) - 1 : q[i] = stack[t][i]
    BY <2>1, FramesSplit, HolderThere
  <2>3. Len(stack[t]) \in Nat
    BY DEF RInv, IInv, TypeOK
  <2>4. \A i \in 1 .. Len(q) : i \in 1 .. Len(stack[t]) /\ q[i] = stack[t][i]
    BY <2>2, <2>3
  <2>. QED  BY <2>1, <2>2, <2>4 DEF Serves
<1>3. ASSUME NEW b \in Agent, Serves(t, stack[t], b)  PROVE Goal
  <2>1. stack[t] \in Seq(Frame)
    BY DEF RInv, IInv, TypeOK
  <2>. QED  BY <1>3, <2>1 DEF Serves
<1>. HIDE DEF Goal
<1>4. \A m : Posted(t, m) => Goal
  <2>1. \A b \in Adapters : Peers[b] \subseteq Agent
    BY RuntimeAssumption DEF Adapters
  <2>. QED  BY <1>1, <1>2, <1>3, <2>1 DEF Posted
<1>5. \A d : Carried(t, d) => Goal
  BY <1>2, <1>3 DEF Carried
<1>6. Goal
  BY <1>1, <1>4, <1>5 DEF Track, Idle, Posting, Carrying, Dropped
<1>. QED
  BY <1>6 DEF Goal

LEMMA TokenServesFrames ==
  ASSUME Separate, TokenInv
  PROVE  ServesFrames
<1>. SUFFICES ASSUME phase = "run", crashes = 0,
                     NEW a \in Adapters, NEW k \in 1 .. Len(service[a]), service[a][k].incoming
              PROVE  \E i \in 1 .. Len(stack[service[a][k].thread]) :
                       stack[service[a][k].thread][i] =
                         [id |-> service[a][k].id, from |-> service[a][k].peer, to |-> a]
  BY DEF ServesFrames
<1>. PICK e : e = service[a][k]
  OBVIOUS
<1>1. RInv /\ Calm /\ Threads
  BY DEF TokenInv, ShutdownInv, Flows, Threads
<1>2. a \in Agent /\ service[a] # <<>>
  <2>1. a \in Agent
    BY DEF Adapters
  <2>. QED  BY <1>1, <2>1 DEF RInv, RTypeOK
<1>3. Calls(a) /\ ~Unreached(a)
  BY <1>1, <1>2 DEF Calm, Calls
<1>4. PICK t \in Thread : a \in Reach[t]
  BY <1>3 DEF Unreached
<1>5. PICK q \in Seq(Frame), x \in Agent :
        /\ service[a] = Waits(t, q, x, a)
        /\ \A i \in 1 .. Len(q) : i \in 1 .. Len(stack[t]) /\ q[i] = stack[t][i]
  BY <1>1, <1>3, <1>4, WaitingFor DEF Threads
<1>6. e \in EntriesFor(t, q, a)
  <2>1. service[a] \in Seq(EntriesFor(t, q, a))
    BY <1>5, WaitsType
  <2>. QED  BY <2>1
<1>7. PICK i \in 1 .. Len(q) : q[i].to = a /\ e = Incoming(t, q[i])
  BY <1>6 DEF EntriesFor
<1>8. i \in 1 .. Len(stack[t]) /\ stack[t][i] = q[i] /\ q[i] \in Frame
  BY <1>5, <1>7
<1>9. e.thread = t /\ e.id = q[i].id /\ e.peer = q[i].from
  BY <1>7 DEF Incoming
<1>10. q[i] = [id |-> e.id, from |-> e.peer, to |-> a]
  BY <1>7, <1>8, <1>9 DEF Frame
<1>. QED
  BY <1>8, <1>9, <1>10

\* The routed messages of thread t, in terms of the queues.
LEMMA UnderWayIs ==
  ASSUME RInv, NEW t \in Thread, NEW x
  PROVE  x \in UnderWay(t) <=>
           \/ \E a \in Agent : \E i \in 1 .. Len(inbox[a]) :
                x = <<a, "in", i>> /\ inbox[a][i] \in MailOf(t)
           \/ \E a \in Agent : \E i \in 1 .. Len(outbox[a]) :
                x = <<a, "out", i>> /\ outbox[a][i] \in PostsOf(t) \ Plain
           \/ \E i \in 1 .. Len(todos) :
                x = <<user, "todo", i>> /\ todos[i] \in TodosOf(t) /\ ~todos[i].msg.data
<1>1. \A a \in Agent : \A i \in 1 .. Len(inbox[a]) : inbox[a][i] \in Delivery
  BY DEF RInv, RTypeOK
<1>2. \A a \in Agent : \A i \in 1 .. Len(outbox[a]) : outbox[a][i] \in Message
  BY DEF RInv, RTypeOK
<1>3. \A i \in 1 .. Len(todos) : todos[i] \in Todo
  BY DEF RInv, RTypeOK
<1>. DEFINE A == UNION {{a} \X {"in"} \X Routed(inbox[a], t) : a \in Agent}
            B == UNION {{a} \X {"out"} \X {i \in Routed(outbox[a], t) : ~outbox[a][i].data} : a \in Agent}
            C == {user} \X {"todo"} \X {i \in 1 .. Len(todos) :
                                         todos[i].msg.thread = t /\ ~todos[i].msg.data}
<1>4. x \in A <=>
        \E a \in Agent : \E i \in 1 .. Len(inbox[a]) :
          x = <<a, "in", i>> /\ inbox[a][i] \in MailOf(t)
  BY <1>1 DEF Routed, MailOf
<1>5. x \in B <=>
        \E a \in Agent : \E i \in 1 .. Len(outbox[a]) :
          x = <<a, "out", i>> /\ outbox[a][i] \in PostsOf(t) \ Plain
  BY <1>2 DEF Routed, PostsOf, Plain
<1>6. x \in C <=>
        \E i \in 1 .. Len(todos) :
          x = <<user, "todo", i>> /\ todos[i] \in TodosOf(t) /\ ~todos[i].msg.data
  BY <1>3 DEF TodosOf
<1>7. UnderWay(t) = A \cup B \cup C
  BY DEF UnderWay
<1>. HIDE DEF A, B, C
<1>8. x \in UnderWay(t) <=> x \in A \/ x \in B \/ x \in C
  BY <1>7
<1>. QED
  BY <1>4, <1>5, <1>6, <1>8

LEMMA OnlyOne ==
  ASSUME NEW S, NEW y, \A x : x \in S <=> x = y
  PROVE  S = {y}
  OBVIOUS

LEMMA EndsOnce ==
  ASSUME NEW q, NEW S, NEW D, NEW x, Ends(q, S, D, x)
  PROVE  \E k \in 1 .. Len(q) : q[k] = x /\ \A i \in 1 .. Len(q) : q[i] \in S /\ q[i] \notin D <=> i = k
  BY DEF Ends

LEMMA TrackOneMessage ==
  ASSUME RInv, phase = "run", NEW t \in Thread, Track(t)
  PROVE  Cardinality(UnderWay(t)) = (IF uiPending[t] THEN 1 ELSE 0)
<1>0. Holder(t) \in Agent
  BY HolderThere
<1>1. CASE Idle(t)
  <2>1. \A x : x \notin UnderWay(t)
    BY <1>1, UnderWayIs DEF Idle, NoPost, NoMail, NoTodo, Mute
  <2>2. UnderWay(t) = {}
    BY <2>1
  <2>. QED  BY <1>1, <2>2, FS_EmptySet DEF Idle
<1>2. ASSUME uiPending[t], NEW m, AtOutbox(t, m)
      PROVE  \E x : UnderWay(t) = {x}
  <2>. PICK h : h = Holder(t)
    OBVIOUS
  <2>1. PICK k \in 1 .. Len(outbox[h]) :
          \A i \in 1 .. Len(outbox[h]) :
            outbox[h][i] \in PostsOf(t) /\ outbox[h][i] \notin Plain <=> i = k
    BY <1>2, EndsOnce DEF AtOutbox
  <2>2. \A a \in Agent : \A i \in 1 .. Len(outbox[a]) :
          outbox[a][i] \in PostsOf(t) \ Plain <=> a = h /\ i = k
    BY <1>2, <2>1 DEF AtOutbox, Mute
  <2>3. \A i \in 1 .. Len(todos) : todos[i] \in TodosOf(t) => todos[i].msg.data
    BY <1>2 DEF AtOutbox, Mute, PlainTodos
  <2>4. \A a \in Agent : \A i \in 1 .. Len(inbox[a]) : inbox[a][i] \notin MailOf(t)
    BY <1>2 DEF AtOutbox, NoMail, Mute
  <2>5. \A x : x \in UnderWay(t) <=> x = <<h, "out", k>>
    BY <1>0, <2>1, <2>2, <2>3, <2>4, UnderWayIs
  <2>6. UnderWay(t) = {<<h, "out", k>>}
    BY <2>5, OnlyOne
  <2>. QED  BY <2>6
<1>3. ASSUME uiPending[t], NEW m, AtTodos(t, m)
      PROVE  \E x : UnderWay(t) = {x}
  <2>. PICK h : h = Holder(t)
    OBVIOUS
  <2>1. PICK k \in 1 .. Len(todos) :
          /\ todos[k] = Taken(h, m)
          /\ \A i \in 1 .. Len(todos) : todos[i] \in TodosOf(t) /\ todos[i] \notin PlainTodos(h) <=> i = k
    BY <1>3, EndsOnce DEF AtTodos
  <2>2. todos[k] \in Todo /\ todos[k].agent = h
    <3>1. todos[k] \in Todo
      BY DEF RInv, RTypeOK
    <3>. QED  BY <2>1, <3>1 DEF Taken
  <2>3. \A i \in 1 .. Len(todos) : todos[i] \in TodosOf(t) /\ ~todos[i].msg.data <=> i = k
    BY <2>1, <2>2 DEF PlainTodos
  <2>4. /\ \A a \in Agent : \A i \in 1 .. Len(inbox[a]) : inbox[a][i] \notin MailOf(t)
        /\ \A a \in Agent : \A i \in 1 .. Len(outbox[a]) : outbox[a][i] \notin PostsOf(t)
    BY <1>3 DEF AtTodos, NoMail, NoPost, Mute
  <2>5. \A x : x \in UnderWay(t) <=> x = <<user, "todo", k>>
    BY <2>1, <2>3, <2>4, UnderWayIs
  <2>6. UnderWay(t) = {<<user, "todo", k>>}
    BY <2>5, OnlyOne
  <2>. QED  BY <2>6
<1>4. ASSUME uiPending[t], NEW d, AtInbox(t, d)
      PROVE  \E x : UnderWay(t) = {x}
  <2>. PICK h : h = Holder(t)
    OBVIOUS
  <2>1. PICK k \in 1 .. Len(inbox[h]) :
          \A i \in 1 .. Len(inbox[h]) : inbox[h][i] \in MailOf(t) <=> i = k
    <3>. PICK D : D = {}
      OBVIOUS
    <3>1. Ends(inbox[h], MailOf(t), D, d)
      BY <1>4 DEF AtInbox
    <3>2. PICK k \in 1 .. Len(inbox[h]) :
            \A i \in 1 .. Len(inbox[h]) : inbox[h][i] \in MailOf(t) /\ inbox[h][i] \notin D <=> i = k
      BY <3>1, EndsOnce
    <3>. QED  BY <3>2
  <2>2. \A a \in Agent : \A i \in 1 .. Len(inbox[a]) : inbox[a][i] \in MailOf(t) <=> a = h /\ i = k
    BY <1>4, <2>1 DEF AtInbox, Mute
  <2>3. /\ \A i \in 1 .. Len(todos) : todos[i] \notin TodosOf(t)
        /\ \A a \in Agent : \A i \in 1 .. Len(outbox[a]) : outbox[a][i] \notin PostsOf(t)
    BY <1>4 DEF AtInbox, NoTodo, NoPost, Mute
  <2>4. \A x : x \in UnderWay(t) <=> x = <<h, "in", k>>
    BY <1>0, <2>1, <2>2, <2>3, UnderWayIs
  <2>5. UnderWay(t) = {<<h, "in", k>>}
    BY <2>4, OnlyOne
  <2>. QED  BY <2>5
<1>5. CASE uiPending[t] /\ (Posting(t) \/ Carrying(t))
  <2>1. PICK x : UnderWay(t) = {x}
    BY <1>2, <1>3, <1>4, <1>5 DEF Posting, Carrying
  <2>2. Cardinality({x}) = 1
    BY FS_Singleton
  <2>. QED  BY <1>5, <2>1, <2>2
<1>. QED
  BY <1>1, <1>5 DEF Track, Dropped

LEMMA TrackUiAgrees ==
  ASSUME RInv, Separate, ArenaStays, Threads, phase = "run", NEW t \in Thread
  PROVE  /\ uiPending[t] <=> pending[t] \/ Submitted(t)
         /\ ~(pending[t] /\ Submitted(t))
<1>0. user \in Agent /\ (pending[t] <=> stack[t] # <<>>) /\ Track(t)
      /\ (stack[t] = <<>> => Holder(t) = user) /\ (stack[t] # <<>> => Holder(t) # user)
  <2>1. stack[t] # <<>> => Holder(t) # user
    BY RoundOwner, Reached
  <2>. QED  BY <2>1, UserExists DEF Threads, FramesOK, Holder
<1>1. Submitted(t) <=>
        \/ \E i \in 1 .. Len(outbox[user]) : outbox[user][i] \in PostsOf(t)
        \/ \E i \in 1 .. Len(todos) : todos[i] \in TodosOf(t) /\ todos[i].agent = user
  <2>1. \A i \in 1 .. Len(outbox[user]) : outbox[user][i] \in Message
    BY <1>0 DEF RInv, RTypeOK
  <2>2. \A i \in 1 .. Len(todos) : todos[i] \in Todo
    BY DEF RInv, RTypeOK
  <2>. QED  BY <2>1, <2>2 DEF Submitted, PostsOf, TodosOf
<1>2. NoPost(t) /\ NoTodo(t) => ~Submitted(t)
  BY <1>0, <1>1 DEF NoPost, NoTodo, Mute
<1>3. CASE Idle(t)
  BY <1>0, <1>2, <1>3 DEF Idle
<1>4. CASE uiPending[t] /\ Carrying(t)
  BY <1>0, <1>2, <1>4 DEF Carrying, Carried, AtInbox
<1>5. ASSUME uiPending[t], NEW m, AtOutbox(t, m)  PROVE Submitted(t) <=> stack[t] = <<>>
  <2>1. CASE stack[t] = <<>>
    BY <1>0, <1>1, <1>5, <2>1, EndsThere DEF AtOutbox
  <2>2. CASE stack[t] # <<>>
    <3>1. \A i \in 1 .. Len(outbox[user]) : outbox[user][i] \notin PostsOf(t)
      BY <1>0, <1>5, <2>2 DEF AtOutbox, Mute
    <3>2. \A i \in 1 .. Len(todos) : todos[i] \in TodosOf(t) => todos[i].agent = Holder(t)
      BY <1>5 DEF AtOutbox, Mute, PlainTodos
    <3>. QED  BY <1>0, <1>1, <2>2, <3>1, <3>2
  <2>. QED  BY <2>1, <2>2
<1>6. ASSUME uiPending[t], NEW m, AtTodos(t, m)  PROVE Submitted(t) <=> stack[t] = <<>>
  <2>1. PICK k \in 1 .. Len(todos) :
          /\ todos[k] = Taken(Holder(t), m)
          /\ \A i \in 1 .. Len(todos) :
               todos[i] \in TodosOf(t) /\ todos[i] \notin PlainTodos(Holder(t)) <=> i = k
    BY <1>6, EndsOnce DEF AtTodos
  <2>2. todos[k] \in TodosOf(t) /\ todos[k].agent = Holder(t)
    BY <2>1 DEF Taken
  <2>3. \A i \in 1 .. Len(todos) : todos[i] \in TodosOf(t) => todos[i].agent = Holder(t)
    BY <2>1, <2>2 DEF PlainTodos
  <2>4. \A i \in 1 .. Len(outbox[user]) : outbox[user][i] \notin PostsOf(t)
    BY <1>0, <1>6 DEF AtTodos, NoPost, Mute
  <2>. QED  BY <1>0, <1>1, <2>2, <2>3, <2>4
<1>7. CASE uiPending[t] /\ Posting(t)
  <2>1. Submitted(t) <=> stack[t] = <<>>
    BY <1>5, <1>6, <1>7 DEF Posting
  <2>. QED  BY <1>0, <1>7, <2>1
<1>. QED
  BY <1>0, <1>3, <1>4, <1>7 DEF Track, Dropped

LEMMA TokenOneToken ==
  ASSUME Separate, TokenInv
  PROVE  OneToken
<1>. SUFFICES ASSUME phase = "run", crashes = 0
              PROVE  \A t \in Thread : /\ Cardinality(UnderWay(t)) = (IF uiPending[t] THEN 1 ELSE 0)
                                       /\ uiPending[t] <=> pending[t] \/ Submitted(t)
                                       /\ ~(pending[t] /\ Submitted(t))
  BY DEF OneToken, OneMessage, UiAgrees
<1>1. RInv /\ ArenaStays /\ Threads
  BY DEF TokenInv, ShutdownInv, Flows, Threads
<1>. QED
  BY <1>1, TrackOneMessage, TrackUiAgrees DEF Threads

LEMMA TokenInvariant == ASSUME Separate PROVE RSpec => []TokenInv
<1>1. RInit => TokenInv
  BY TokenInit
<1>2. TokenInv /\ [RNext]_rvars => TokenInv'
  BY TokenStep, TokenStutter
<1>. QED
  BY <1>1, <1>2, PTL DEF RSpec

\* While run() runs and nothing has crashed a thread is one token: while an answer
\* is due on it exactly one routed message of it exists, and the interface's and
\* the program's record of it agree; for any number of threads, agents, requests
\* and calls, in every arena that keeps the threads of an adapter that calls apart.
THEOREM OneTokenCorrect == ASSUME Separate PROVE RSpec => []OneToken
<1>1. TokenInv => OneToken
  BY TokenOneToken
<1>. QED
  BY TokenInvariant, <1>1, PTL

\* In such an arena, while run() runs and nothing has crashed, each call that a
\* LinearService stack holds as one it serves is a frame of the program's, in any
\* place of the thread's stack, from the peer that will be answered.
THEOREM ServesFramesCorrect == ASSUME Separate PROVE RSpec => []ServesFrames
<1>1. TokenInv => ServesFrames
  BY TokenServesFrames
<1>. QED
  BY TokenInvariant, <1>1, PTL

\* In such an arena, without a crash, no CHECK of the runtime, of the interface
\* or of the shutdown fails, no exception leaves run() and nothing is written to
\* a process that is gone.
THEOREM NoCheckFailsCorrect == ASSUME Separate PROVE RSpec => []NoCheckFails
<1>1. TokenInv => NoCheckFails
  BY DEF TokenInv, NoCheckFails
<1>. QED
  BY TokenInvariant, <1>1, PTL
=============================================================================
