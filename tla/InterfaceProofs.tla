-------------------------- MODULE InterfaceProofs --------------------------
(***************************************************************************)
(* Proofs about Interface, for any interface, number of threads, arena and *)
(* number of messages: types first, then where each thread's message is,   *)
(* what the interface's marks and its future say of it, and last the       *)
(* states of the program the mirror passes through.                        *)
(***************************************************************************)
EXTENDS Interface, Induction

-----------------------------------------------------------------------------
(* Programs, records and letters *)

ProgramState == [due : SUBSET Thread, trace : [Thread -> Seq(Nat)], agents : Nat]

\* The letters of the first n messages sent, and their answers.
Sent(n) == {m \in Letter : m.id \in 1 .. n}

LEMMA ApplyFacts ==
  ASSUME NEW p \in ProgramState, NEW r \in Record
  PROVE  /\ Apply(p, r) \in ProgramState
         /\ r.op = "commit" => Apply(p, r).due = p.due /\ Apply(p, r).trace = p.trace
         /\ r.op = "call" => Apply(p, r).due = p.due \cup {r.thread}
         /\ r.op = "return" => Apply(p, r).due = p.due \ {r.thread}
         /\ r.op # "commit" => Apply(p, r).trace = [p.trace EXCEPT ![r.thread] = Append(@, r.id)]
         /\ Apply(p, r).agents = IF r.op = "commit" THEN p.agents + 1 ELSE p.agents
<1>0. /\ p.due \subseteq Thread /\ p.trace \in [Thread -> Seq(Nat)] /\ p.agents \in Nat
      /\ r.thread \in Thread /\ r.id \in Nat /\ r.op \in {"call", "return", "commit"}
  BY DEF ProgramState, Record
<1>4. PICK o : o = [due |-> p.due, trace |-> p.trace, agents |-> p.agents]
  OBVIOUS
<1>5. p = o
  BY <1>4 DEF ProgramState
<1>1. CASE r.op = "commit"
  <2>1. PICK q : q = [o EXCEPT !.agents = @ + 1]
    OBVIOUS
  <2>2. q \in ProgramState /\ q.due = p.due /\ q.trace = p.trace /\ q.agents = p.agents + 1
    BY <1>0, <1>4, <2>1 DEF ProgramState
  <2>3. Apply(p, r) = q
    BY <1>1, <1>5, <2>1 DEF Apply
  <2> QED BY <1>1, <2>2, <2>3
<1>2. CASE r.op = "call"
  <2>1. PICK d : d = [o EXCEPT !.due = @ \cup {r.thread}]
    OBVIOUS
  <2>2. PICK q : q = [d EXCEPT !.trace[r.thread] = Append(o.trace[r.thread], r.id)]
    OBVIOUS
  <2>3. d = [due |-> p.due \cup {r.thread}, trace |-> p.trace, agents |-> p.agents]
    BY <1>4, <2>1
  <2>4. /\ q \in ProgramState /\ q.due = p.due \cup {r.thread}
        /\ q.trace = [p.trace EXCEPT ![r.thread] = Append(@, r.id)] /\ q.agents = p.agents
    <3>1. PICK u : u = [p.trace EXCEPT ![r.thread] = Append(@, r.id)]
      OBVIOUS
    <3>2. u \in [Thread -> Seq(Nat)]
      BY <1>0, <3>1
    <3>3. q = [due |-> p.due \cup {r.thread}, trace |-> u, agents |-> p.agents]
      <4>1. p.trace = o.trace
        BY <1>4
      <4>2. q = [d EXCEPT !.trace = u]
        BY <2>2, <2>3, <3>1, <4>1
      <4> QED BY <2>3, <4>2
    <3> QED BY <1>0, <3>1, <3>2, <3>3 DEF ProgramState
  <2>5. Apply(p, r) = q
    BY <1>2, <1>5, <2>1, <2>2 DEF Apply
  <2> QED BY <1>2, <2>4, <2>5
<1>3. CASE r.op = "return"
  <2>1. PICK d : d = [o EXCEPT !.due = @ \ {r.thread}]
    OBVIOUS
  <2>2. PICK q : q = [d EXCEPT !.trace[r.thread] = Append(o.trace[r.thread], r.id)]
    OBVIOUS
  <2>3. d = [due |-> p.due \ {r.thread}, trace |-> p.trace, agents |-> p.agents]
    BY <1>4, <2>1
  <2>4. /\ q \in ProgramState /\ q.due = p.due \ {r.thread}
        /\ q.trace = [p.trace EXCEPT ![r.thread] = Append(@, r.id)] /\ q.agents = p.agents
    <3>1. PICK u : u = [p.trace EXCEPT ![r.thread] = Append(@, r.id)]
      OBVIOUS
    <3>2. u \in [Thread -> Seq(Nat)]
      BY <1>0, <3>1
    <3>3. q = [due |-> p.due \ {r.thread}, trace |-> u, agents |-> p.agents]
      <4>1. p.trace = o.trace
        BY <1>4
      <4>2. q = [d EXCEPT !.trace = u]
        BY <2>2, <2>3, <3>1, <4>1
      <4> QED BY <2>3, <4>2
    <3> QED BY <1>0, <3>1, <3>2, <3>3 DEF ProgramState
  <2>5. Apply(p, r) = q
    BY <1>3, <1>5, <2>1, <2>2 DEF Apply
  <2> QED BY <1>3, <2>4, <2>5
<1> QED BY <1>0, <1>1, <1>2, <1>3

LEMMA RecordType ==
  ASSUME NEW m \in Letter
  PROVE  /\ RecordOf(m) \in Record /\ RecordOf(m).thread = m.thread /\ RecordOf(m).id = m.id
         /\ RecordOf(m).op = IF m.op = "answer" THEN "return" ELSE "call"
BY DEF RecordOf, Record, Letter

LEMMA AnswerType ==
  ASSUME NEW n \in Nat, NEW m \in Sent(n)
  PROVE  Answer(m) \in Sent(n) /\ Answer(m).thread = m.thread /\ Answer(m).id = m.id
BY DEF Answer, Sent, Letter, Ops

LEMMA LettersGrow ==
  ASSUME NEW n \in Nat, NEW s \in Seq(Sent(n))
  PROVE  s \in Seq(Sent(n + 1))
<1>1. Sent(n) \subseteq Sent(n + 1)
  BY DEF Sent
<1>2. \A i \in 1 .. Len(s) : s[i] \in Sent(n)
  BY ElementOfSeq
<1>3. s = [i \in 1 .. Len(s) |-> s[i]] /\ Len(s) \in Nat
  OBVIOUS
<1> QED BY <1>1, <1>2, <1>3

-----------------------------------------------------------------------------
(* Replays *)

\* f holds the program after each of the first records.
Replays(f, p, rs) == f[0] = p /\ \A i \in 1 .. Len(rs) : f[i] = Apply(f[i - 1], rs[i])

Histories(rs) == [0 .. Len(rs) -> ProgramState]

LEMMA ReplaysExist ==
  ASSUME NEW p \in ProgramState, NEW rs \in Seq(Record)
  PROVE  \E f \in Histories(rs) : Replays(f, p, rs)
<1> DEFINE n == Len(rs)
           prev == [g \in 1 .. n |-> g - 1]
           next == [x \in (1 .. n) \X ProgramState |-> Apply(x[2], rs[x[1]])]
<1>1. n \in Nat /\ prev \in [1 .. n -> Nat] /\ \A g \in 1 .. n : prev[g] < g
  OBVIOUS
<1>2. next \in [(1 .. n) \X ProgramState -> ProgramState]
  <2> SUFFICES ASSUME NEW g \in 1 .. n, NEW q \in ProgramState PROVE Apply(q, rs[g]) \in ProgramState
    OBVIOUS
  <2>1. rs[g] \in Record
    BY ElementOfSeq
  <2> QED BY <2>1, ApplyFacts
<1>3. PICK f \in [0 .. n -> ProgramState] : Recursion(f, n, p, prev, next)
  <2> HIDE DEF n, prev, next
  <2> QED BY <1>1, <1>2, RecursionExists
<1>4. ASSUME NEW i \in 1 .. n PROVE f[i] = Apply(f[i - 1], rs[i])
  <2>1. f[i] = next[<<i, f[prev[i]]>>]
    BY <1>3 DEF Recursion
  <2>2. prev[i] = i - 1 /\ f[i - 1] \in ProgramState
    OBVIOUS
  <2> QED BY <2>1, <2>2
<1> QED BY <1>3, <1>4 DEF Recursion, Replays, Histories

\* The last of them is what Replay returns.
LEMMA ReplayIs ==
  ASSUME NEW p \in ProgramState, NEW rs \in Seq(Record), NEW f \in Histories(rs), Replays(f, p, rs)
  PROVE  Replay(p, rs) = f[Len(rs)]
<1> DEFINE n == Len(rs)
           Body(d) == [i \in 0 .. n |-> IF i = 0 THEN p ELSE Apply(d[i - 1], rs[i])]
           d == CHOOSE d : d = Body(d)
<1>0. n \in Nat /\ f \in [0 .. n -> ProgramState]
  BY DEF Histories
<1>1. Replay(p, rs) = d[n]
  BY DEF Replay
<1>2. f = Body(f)
  <2>1. ASSUME NEW i \in 0 .. n PROVE f[i] = Body(f)[i]
    <3>1. CASE i = 0
      BY <3>1 DEF Replays
    <3>2. CASE i # 0
      BY <1>0, <3>2 DEF Replays
    <3> QED BY <3>1, <3>2
  <2> QED BY <1>0, <2>1
<1>3. d = Body(d)
  <2> HIDE DEF Body
  <2> QED BY <1>2
<1> HIDE DEF d
<1> DEFINE T == {i \in 0 .. n : d[i] # f[i]}
<1>4. T = {}
  <2> SUFFICES ASSUME T # {} PROVE FALSE
    OBVIOUS
  <2>1. PICK i \in T : \A k \in T : i <= k
    <3> T \subseteq Nat BY <1>0
    <3> HIDE DEF T
    <3> QED BY LeastNat
  <2>2. i \in 0 .. n /\ d[i] # f[i] /\ d[i] = IF i = 0 THEN p ELSE Apply(d[i - 1], rs[i])
    BY <1>3
  <2>3. CASE i = 0
    BY <2>2, <2>3 DEF Replays
  <2>4. CASE i # 0
    <3>1. i - 1 \in 0 .. n /\ ~(i <= i - 1) /\ i \in 1 .. n
      BY <1>0, <2>2, <2>4
    <3>2. d[i - 1] = f[i - 1]
      BY <2>1, <3>1
    <3>3. f[i] = Apply(f[i - 1], rs[i])
      BY <3>1 DEF Replays
    <3> QED BY <2>2, <2>4, <3>2, <3>3
  <2> QED BY <2>3, <2>4
<1>5. n \in 0 .. n
  BY <1>0
<1> QED BY <1>1, <1>4, <1>5

LEMMA ReplayType ==
  ASSUME NEW p \in ProgramState, NEW rs \in Seq(Record)
  PROVE  Replay(p, rs) \in ProgramState
<1>1. PICK f \in Histories(rs) : Replays(f, p, rs)
  BY ReplaysExist
<1>2. Len(rs) \in 0 .. Len(rs)
  OBVIOUS
<1> QED BY <1>1, <1>2, ReplayIs DEF Histories

-----------------------------------------------------------------------------
(* Types *)

Flowing == run \notin {"drain", "stopped"}
Sending == {"marked", "pushed", "future"}

\* The interface's thread, and its marks.
UiType ==
  /\ kind \in Kinds /\ sends \in Nat /\ arena \in Seq(Thread)
  /\ at \in Sending \cup {"choose", "idle", "latch", "left", "joined"}
  /\ draft \in [msg : Letter, awaited : BOOLEAN] /\ draft.msg.id \in 0 .. sends
  /\ at = "marked" => draft.msg.id # 0
  /\ at \in Sending /\ draft.awaited => arena # <<>>
  /\ at = "future" => draft.awaited
  /\ pending \subseteq Thread /\ wanted \subseteq pending /\ result \in 0 .. sends

\* The letters under way.
MailType ==
  /\ queue \in Seq(Sent(sends)) /\ self \in Seq(Sent(sends)) /\ todos \in Seq(Sent(sends))
  /\ serving \subseteq Sent(sends) /\ answers \subseteq Sent(sends)

\* The runtime's thread.
LoopType ==
  /\ run \in {"poll", "receive", "reset", "process", "consume", "drain", "stopped"}
  /\ run = "consume" => todos # <<>>
  /\ ~Flowing => stop
  /\ events \subseteq {"user", "runtime"} \cup Thread
  /\ wake \in BOOLEAN /\ stop \in BOOLEAN /\ exited \in BOOLEAN
  /\ halted \in {"no", "pending", "answer", "no_driver"}

ViewType == program \in ProgramState /\ mirror \in ProgramState /\ records \in Seq(Record)

ITypeInv == UiType /\ MailType /\ LoopType /\ ViewType

LEMMA ITypeInit == IInit => ITypeInv
<1> SUFFICES ASSUME IInit PROVE ITypeInv
  OBVIOUS
<1>1. UiType
  BY InterfaceAssumption DEF IInit, UiType, Letter, Ops, Sending
<1>2. MailType
  BY DEF IInit, MailType
<1>3. LoopType
  BY DEF IInit, LoopType, Flowing
<1>4. Fresh \in ProgramState
  BY DEF Fresh, ProgramState
<1>5. ViewType
  BY <1>4 DEF IInit, ViewType
<1> QED BY <1>1, <1>2, <1>3, <1>5 DEF ITypeInv

\* Where neither the letters nor the counter changes, and so on.
LEMMA MailKept ==
  ASSUME MailType, UNCHANGED <<sends, queue, self, todos, serving, answers>>
  PROVE  MailType'
BY DEF MailType

LEMMA ViewKept ==
  ASSUME ViewType, UNCHANGED views
  PROVE  ViewType'
BY DEF ViewType, views

LEMMA UiKept ==
  ASSUME UiType, UNCHANGED <<ui, states>>
  PROVE  UiType'
BY DEF UiType, ui, states

LEMMA BeginType ==
  ASSUME ITypeInv, NEW t \in Thread, NEW op \in Ops, NEW awaited \in BOOLEAN,
         awaited => arena # <<>>, Begin(t, op, awaited)
  PROVE  ITypeInv'
<1>0. UNCHANGED <<queue, wake, self, loop, views>>
  BY DEF Begin
<1>1. CASE t \in pending
  <2>1. halted' = "pending" /\ UNCHANGED <<ui, states>>
    BY <1>1 DEF Begin
  <2>2. MailType'
    BY <1>0, <2>1, MailKept DEF ITypeInv, ui, loop
  <2>3. LoopType'
    BY <1>0, <2>1 DEF ITypeInv, LoopType, loop, Flowing
  <2> QED BY <1>0, <2>1, <2>2, <2>3, UiKept, ViewKept DEF ITypeInv
<1>2. CASE t \notin pending
  <2>1. PICK m : m = [thread |-> t, op |-> op, id |-> sends + 1]
    OBVIOUS
  <2>2. /\ at' = "marked" /\ draft' = [msg |-> m, awaited |-> awaited] /\ sends' = sends + 1
        /\ pending' = pending \cup {t} /\ wanted' = IF awaited THEN wanted \cup {t} ELSE wanted \ {t}
        /\ result' = 0 /\ UNCHANGED <<kind, arena, halted>>
    BY <1>2, <2>1 DEF Begin, Marked, FreshPromise
  <2>3. UiType'
    <3>1. sends + 1 \in Nat /\ m \in Letter /\ m.id = sends + 1
      BY <2>1 DEF Letter, ITypeInv, UiType
    <3>2. draft' \in [msg : Letter, awaited : BOOLEAN] /\ draft'.msg = m /\ draft'.awaited = awaited
      BY <2>2, <3>1
    <3> QED BY <2>2, <3>1, <3>2 DEF ITypeInv, UiType, Sending
  <2>4. MailType'
    <3>1. sends \in Nat /\ Sent(sends) \subseteq Sent(sends + 1)
      BY DEF ITypeInv, UiType, Sent
    <3>2. /\ queue \in Seq(Sent(sends + 1)) /\ self \in Seq(Sent(sends + 1))
          /\ todos \in Seq(Sent(sends + 1))
      BY <3>1, LettersGrow DEF ITypeInv, MailType
    <3> QED BY <1>0, <2>2, <3>1, <3>2 DEF ITypeInv, MailType, loop
  <2>5. LoopType'
    BY <1>0, <2>2 DEF ITypeInv, LoopType, loop, Flowing
  <2> QED BY <1>0, <2>3, <2>4, <2>5, ViewKept DEF ITypeInv
<1> QED BY <1>1, <1>2

\* What the interface's thread does by itself or its user decides on, but for
\* the sends.
LEMMA UiStepType ==
  ASSUME ITypeInv, Push \/ Wake \/ FutureGet \/ CliQuit \/ Leave \/ Join
  PROVE  ITypeInv'
<1>1. /\ UNCHANGED <<kind, draft, sends, states, self, loop, views>>
      /\ Push => UNCHANGED <<arena, wake>>
      /\ ~Push => UNCHANGED <<queue, halted>>
  BY DEF Push, Wake, FutureGet, CliQuit, Leave, Join, Signal
<1>2. UiType'
  <2>0. Push => at' \in {"marked", "pushed"} /\ at = "marked"
    BY DEF Push
  <2>1. CASE Push
    BY <1>1, <2>0, <2>1 DEF ITypeInv, UiType, states, Sending
  <2>2. CASE Wake
    BY <2>2 DEF Wake, Signal, Afterwards, ITypeInv, UiType, states, Sending
  <2>3. CASE FutureGet
    <3>1. arena' \in Seq(Thread)
      BY <2>3 DEF FutureGet, ITypeInv, UiType, Sending
    <3> QED BY <2>3, <3>1 DEF FutureGet, ITypeInv, UiType, states, Sending
  <2>4. CASE CliQuit
    BY <2>4 DEF CliQuit, Running, ITypeInv, UiType, states, Sending
  <2>5. CASE Leave \/ Join
    BY <2>5 DEF Leave, Join, Running, ITypeInv, UiType, states, Sending
  <2> QED BY <2>1, <2>2, <2>3, <2>4, <2>5
<1>3. MailType'
  <2>1. CASE Push
    <3>1. queue' = queue \/ (queue' = Append(queue, draft.msg) /\ at = "marked")
      BY <2>1 DEF Push
    <3>2. at = "marked" => draft.msg \in Sent(sends)
      BY DEF ITypeInv, UiType, Sent
    <3>3. queue' \in Seq(Sent(sends))
      BY <3>1, <3>2 DEF ITypeInv, MailType
    <3> QED BY <1>1, <2>1, <3>3 DEF ITypeInv, MailType, loop
  <2>2. CASE ~Push
    BY <1>1, <2>2, MailKept DEF ITypeInv, loop
  <2> QED BY <2>1, <2>2
<1>4. LoopType'
  BY DEF ITypeInv, LoopType, loop, Flowing, Push, Wake, FutureGet, CliQuit, Leave, Join, Signal
<1>5. ViewType'
  BY <1>1, ViewKept DEF ITypeInv
<1> QED BY <1>2, <1>3, <1>4, <1>5 DEF ITypeInv

LEMMA SendType ==
  ASSUME ITypeInv,
         ArenaSyscall \/ NullExit \/ CliExit \/ ButtonExit \/ \E t \in Thread : CliSend(t) \/ TuiSend(t)
  PROVE  ITypeInv'
<1>0. {"work", "command", "exit"} \subseteq Ops /\ Main \in Thread
  BY InterfaceAssumption DEF Ops
<1>1. CASE ArenaSyscall
  <2>1. arena # <<>> /\ Begin(Head(arena), "command", TRUE) /\ arena \in Seq(Thread)
    BY <1>1 DEF ArenaSyscall, ITypeInv, UiType
  <2>2. Head(arena) \in Thread
    BY <2>1
  <2> QED BY <1>0, <2>1, <2>2, BeginType
<1>2. CASE NullExit \/ CliExit \/ ButtonExit
  BY <1>0, <1>2, BeginType DEF NullExit, CliExit, ButtonExit
<1>3. ASSUME NEW t \in Thread, CliSend(t) \/ TuiSend(t) PROVE ITypeInv'
  BY <1>0, <1>3, BeginType DEF CliSend, TuiSend
<1> QED BY <1>1, <1>2, <1>3

LEMMA RenderType ==
  ASSUME ITypeInv, Render
  PROVE  ITypeInv'
<1>1. ViewType'
  BY ReplayType DEF ITypeInv, ViewType, Render
<1>2. LoopType'
  BY DEF ITypeInv, LoopType, loop, Flowing, Render
<1> QED BY <1>1, <1>2, UiKept, MailKept DEF ITypeInv, Render, ui, loop

\* What the runtime's thread receives.
LEMMA ReceiveType ==
  ASSUME ITypeInv, Poll \/ TakeQueue \/ Reset \/ TakeSelf \/ TakeAnswer \/ AllReceived
  PROVE  ITypeInv'
<1>1. UiType' /\ ViewType'
  BY UiKept, ViewKept
  DEF ITypeInv, Poll, TakeQueue, Reset, TakeSelf, TakeAnswer, AllReceived
<1>0. sends' = sends /\ sends \in Nat
  BY DEF Poll, TakeQueue, Reset, TakeSelf, TakeAnswer, AllReceived, ui, ITypeInv, UiType
<1>2. MailType'
  <2>1. CASE Poll \/ Reset \/ AllReceived
    BY <1>0, <2>1, MailKept DEF Poll, Reset, AllReceived, ITypeInv
  <2>2. CASE TakeQueue \/ TakeSelf
    <3>1. PICK S : S = Sent(sends)
      OBVIOUS
    <3>2. /\ queue \in Seq(S) /\ self \in Seq(S) /\ todos \in Seq(S)
          /\ serving \subseteq S /\ answers \subseteq S
      BY <3>1 DEF ITypeInv, MailType
    <3>3. <<>> \in Seq(S) /\ todos \o queue \in Seq(S) /\ todos \o self \in Seq(S)
      BY <3>2, ConcatProperties
    <3>4. /\ queue' \in {queue, <<>>} /\ self' \in {self, <<>>}
          /\ todos' \in {todos \o queue, todos \o self}
          /\ serving' = serving /\ answers' = answers
      BY <2>2 DEF TakeQueue, TakeSelf, Remaining
    <3> QED BY <1>0, <3>1, <3>2, <3>3, <3>4 DEF MailType
  <2>3. CASE TakeAnswer
    BY <1>0, <2>3 DEF TakeAnswer, ITypeInv, MailType
  <2> QED BY <2>1, <2>2, <2>3
<1>3. LoopType'
  <2>1. CASE Poll
    <3>1. Ready \subseteq {"user", "runtime"} \cup Thread
      BY DEF Ready, ITypeInv, MailType, Sent, Letter
    <3> QED BY <2>1, <3>1 DEF Poll, ITypeInv, LoopType, Flowing
  <2>2. CASE TakeQueue \/ Reset \/ TakeSelf \/ AllReceived
    BY <2>2 DEF TakeQueue, Reset, TakeSelf, AllReceived, ITypeInv, LoopType, Flowing
  <2>3. CASE TakeAnswer
    BY <2>3 DEF TakeAnswer, ITypeInv, LoopType, Flowing
  <2> QED BY <2>1, <2>2, <2>3
<1> QED BY <1>1, <1>2, <1>3 DEF ITypeInv

LEMMA ConsumedType ==
  ASSUME records \in Seq(Record), NEW r \in Record
  PROVE  Consumed(r) \in Seq(Record)
BY DEF Consumed

\* The message at the head of todos.
LEMMA HeadOfTodos ==
  ASSUME ITypeInv, todos # <<>>
  PROVE  /\ Head(todos) \in Sent(sends) /\ Head(todos) \in Letter
         /\ RecordOf(Head(todos)) \in Record
         /\ Tail(todos) \in Seq(Sent(sends))
<1>1. todos \in Seq(Sent(sends)) /\ Sent(sends) \subseteq Letter
  BY DEF ITypeInv, MailType, Sent
<1>2. Head(todos) \in Sent(sends) /\ Tail(todos) \in Seq(Sent(sends))
  BY <1>1
<1> QED BY <1>1, <1>2, RecordType

CommitOf(m) == [thread |-> m.thread, id |-> m.id, op |-> "commit"]

LEMMA CommitType ==
  ASSUME NEW m \in Letter
  PROVE  CommitOf(m) \in Record /\ CommitOf(m).op = "commit"
BY DEF CommitOf, Record, Letter

LEMMA ProcessFacts ==
  ASSUME Process
  PROVE  /\ run = "process" /\ todos # <<>> /\ run' = "consume"
         /\ UNCHANGED <<ui, queue, wake, events, todos, answers, exited, mirror>>
         /\ \/ ProcessWork(Head(todos)) \/ ProcessCommand(Head(todos))
            \/ ProcessExit(Head(todos)) \/ ProcessAnswer(Head(todos))
BY DEF Process

LEMMA ProcessType ==
  ASSUME ITypeInv, Process
  PROVE  ITypeInv'
<1>1. PICK m : m = Head(todos)
  OBVIOUS
<1>2. /\ run = "process" /\ todos # <<>> /\ run' = "consume"
      /\ UNCHANGED <<ui, queue, wake, events, todos, answers, exited, mirror>>
      /\ ProcessWork(m) \/ ProcessCommand(m) \/ ProcessExit(m) \/ ProcessAnswer(m)
  BY <1>1, ProcessFacts
<1>3. m \in Sent(sends) /\ m \in Letter /\ RecordOf(m) \in Record
  BY <1>1, <1>2, HeadOfTodos
<1>4. sends \in Nat /\ sends' = sends
  BY <1>2 DEF ITypeInv, UiType, ui
<1>5. Answer(m) \in Sent(sends)
  BY <1>3, <1>4, AnswerType
<1>6. UiType'
  <2>1. CASE ProcessAnswer(m) /\ m.thread \in pending
    <3>1. /\ pending' = pending \ {m.thread} /\ wanted' = wanted \ {m.thread}
          /\ result' \in {m.id, result}
      BY <2>1 DEF ProcessAnswer, Cleared, Fulfil
    <3>2. m.id \in 0 .. sends
      BY <1>3, <1>4 DEF Sent
    <3> QED BY <1>2, <3>1, <3>2 DEF ITypeInv, UiType, ui
  <2>2. CASE ~(ProcessAnswer(m) /\ m.thread \in pending)
    <3>1. UNCHANGED states
      BY <1>2, <2>2 DEF ProcessWork, ProcessCommand, ProcessExit, ProcessAnswer
    <3> QED BY <1>2, <3>1, UiKept DEF ITypeInv
  <2> QED BY <2>1, <2>2
<1>7. MailType'
  <2>1. self' = self \/ self' = Append(self, Answer(m))
    BY <1>2 DEF ProcessWork, ProcessCommand, ProcessExit, ProcessAnswer
  <2>2. serving' = serving \/ serving' = serving \cup {m}
    BY <1>2 DEF ProcessWork, ProcessCommand, ProcessExit, ProcessAnswer
  <2>3. self' \in Seq(Sent(sends))
    BY <1>5, <2>1 DEF ITypeInv, MailType
  <2> QED BY <1>2, <1>3, <1>4, <2>2, <2>3 DEF ITypeInv, MailType
<1>8. LoopType'
  BY <1>2 DEF ITypeInv, LoopType, Flowing, ProcessWork, ProcessCommand, ProcessExit, ProcessAnswer
<1>9. ViewType'
  <2>1. PICK r : r = RecordOf(m)
    OBVIOUS
  <2>2. PICK c : c = CommitOf(m)
    OBVIOUS
  <2>3. r \in Record /\ c \in Record /\ program \in ProgramState /\ records \in Seq(Record)
    BY <1>3, <2>1, <2>2, CommitType DEF ITypeInv, ViewType
  <2>4. Apply(program, r) \in ProgramState /\ Apply(Apply(program, r), c) \in ProgramState
    <3>1. Apply(program, r) \in ProgramState
      BY <2>3, ApplyFacts
    <3> QED BY <2>3, <3>1, ApplyFacts
  <2>5. program' \in {Apply(program, r), Apply(Apply(program, r), c)}
        /\ records' \in {records, Consumed(c)}
    BY <1>2, <2>1, <2>2 DEF ProcessWork, ProcessCommand, ProcessExit, ProcessAnswer, CommitOf
  <2>6. Consumed(c) \in Seq(Record)
    BY <2>3, ConsumedType
  <2> QED BY <1>2, <2>3, <2>4, <2>5, <2>6 DEF ITypeInv, ViewType
<1> QED BY <1>6, <1>7, <1>8, <1>9 DEF ITypeInv

LEMMA ConsumeType ==
  ASSUME ITypeInv, Consume
  PROVE  ITypeInv'
<1>1. todos # <<>> /\ todos' = Tail(todos) /\ run' = "process"
      /\ records' = Consumed(RecordOf(Head(todos)))
      /\ UNCHANGED <<ui, states, queue, wake, self, events, serving, answers, stop, exited,
                     program, mirror, halted>>
  BY DEF Consume, ITypeInv, LoopType
<1>2. RecordOf(Head(todos)) \in Record /\ Tail(todos) \in Seq(Sent(sends))
  BY <1>1, HeadOfTodos
<1>3. ViewType'
  BY <1>1, <1>2, ConsumedType DEF ITypeInv, ViewType
<1>4. MailType'
  BY <1>1, <1>2 DEF ITypeInv, MailType, ui
<1>5. LoopType'
  BY <1>1 DEF ITypeInv, LoopType, Flowing
<1> QED BY <1>1, <1>3, <1>4, <1>5, UiKept DEF ITypeInv

LEMMA DrainType ==
  ASSUME ITypeInv, TurnEnds \/ DrainRuntime \/ DrainUser \/ DrainAdapter \/ Stopped
  PROVE  ITypeInv'
<1>1. UiType'
  BY UiKept DEF ITypeInv, TurnEnds, DrainRuntime, DrainUser, DrainAdapter, Stopped
<1>0. sends' = sends /\ queue' = queue /\ todos' = todos /\ serving' = serving
  BY DEF TurnEnds, DrainRuntime, DrainUser, DrainAdapter, Stopped, ui, loop
<1>2. MailType'
  <2>1. (self' = self \/ self' = <<>>) /\ answers' \subseteq answers
    BY DEF TurnEnds, DrainRuntime, DrainUser, DrainAdapter, Stopped, loop
  <2>2. self' \in Seq(Sent(sends))
    <3>1. self \in Seq(Sent(sends)) /\ <<>> \in Seq(Sent(sends))
      BY DEF ITypeInv, MailType
    <3> QED BY <2>1, <3>1
  <2> QED BY <1>0, <2>1, <2>2 DEF ITypeInv, MailType
<1>3. LoopType'
  BY DEF ITypeInv, LoopType, TurnEnds, DrainRuntime, DrainUser, DrainAdapter, Stopped, loop, Flowing
<1>4. ViewType'
  <2>1. CASE DrainRuntime
    <3>1. PICK rs : rs = [i \in DOMAIN self |-> RecordOf(self[i])]
      OBVIOUS
    <3>2. rs \in Seq(Record)
      <4>1. self \in Seq(Sent(sends)) /\ Sent(sends) \subseteq Letter
        BY DEF ITypeInv, MailType, Sent
      <4>2. \A i \in 1 .. Len(self) : self[i] \in Letter
        BY <4>1, ElementOfSeq
      <4>3. \A i \in 1 .. Len(self) : RecordOf(self[i]) \in Record
        BY <4>2, RecordType
      <4> QED BY <3>1, <4>1, <4>3
    <3>3. program' = Replay(program, rs) /\ UNCHANGED <<mirror, records>>
      BY <2>1, <3>1 DEF DrainRuntime
    <3> QED BY <3>2, <3>3, ReplayType DEF ITypeInv, ViewType
  <2>2. CASE DrainAdapter
    <3>1. PICK m \in answers : program' = Apply(program, RecordOf(m))
      BY <2>2 DEF DrainAdapter
    <3>2. m \in Letter
      BY DEF ITypeInv, MailType, Sent
    <3>3. RecordOf(m) \in Record
      BY <3>2, RecordType
    <3> QED BY <2>2, <3>1, <3>3, ApplyFacts DEF DrainAdapter, ITypeInv, ViewType
  <2>3. CASE TurnEnds \/ DrainUser \/ Stopped
    BY <2>3, ViewKept DEF TurnEnds, DrainUser, Stopped, ITypeInv
  <2> QED BY <2>1, <2>2, <2>3
<1> QED BY <1>1, <1>2, <1>3, <1>4 DEF ITypeInv

LEMMA AnswersType ==
  ASSUME ITypeInv, Answers
  PROVE  ITypeInv'
<1>1. PICK m \in serving : serving' = serving \ {m} /\ answers' = answers \cup {Answer(m)}
  BY DEF Answers
<1>2. Answer(m) \in Sent(sends)
  BY AnswerType DEF ITypeInv, UiType, MailType
<1>3. MailType'
  BY <1>1, <1>2 DEF Answers, ITypeInv, MailType, ui
<1>4. LoopType'
  BY DEF ITypeInv, LoopType, Flowing, Answers
<1> QED BY <1>3, <1>4, UiKept, ViewKept DEF ITypeInv, Answers

LEMMA ITypeNext == ITypeInv /\ [INext]_ivars => ITypeInv'
<1> SUFFICES ASSUME ITypeInv, [INext]_ivars PROVE ITypeInv'
  OBVIOUS
<1>1. CASE Automatic \/ Chosen
  BY <1>1, UiStepType, SendType, RenderType DEF Automatic, Chosen
<1>2. CASE Runs
  BY <1>2, ReceiveType, ProcessType, ConsumeType, DrainType DEF Runs
<1>3. CASE UNCHANGED ivars
  BY <1>3, UiKept, MailKept, ViewKept DEF ivars, ui, states, loop, ITypeInv, LoopType, Flowing
<1> QED BY <1>1, <1>2, <1>3, AnswersType DEF INext

LEMMA ITypeInvTypes == ITypeInv => ITypeOK
<1> SUFFICES ASSUME ITypeInv PROVE ITypeOK
  OBVIOUS
<1>1. Sent(sends) \subseteq Letter
  BY DEF Sent
<1>2. queue \in Seq(Letter) /\ self \in Seq(Letter) /\ todos \in Seq(Letter)
  <2>1. ASSUME NEW s \in Seq(Sent(sends)) PROVE s \in Seq(Letter)
    <3>1. \A i \in 1 .. Len(s) : s[i] \in Letter
      BY <1>1, ElementOfSeq
    <3> QED BY <3>1
  <2> QED BY <2>1 DEF ITypeInv, MailType
<1> QED BY <1>1, <1>2 DEF ITypeInv, UiType, MailType, LoopType, ViewType, ITypeOK, Sending, ProgramState

\* Whatever the interleaving of the two threads and the adapters, the values of
\* their shared state are those the code's types and enumerations allow; in
\* particular a thread whose result is wanted is marked, and every letter is
\* one that was sent.
THEOREM ITypeCorrect == ISpec => []ITypeOK
<1>1. ISpec => []ITypeInv
  BY ITypeInit, ITypeNext, PTL DEF ISpec
<1> QED BY <1>1, ITypeInvTypes, PTL

-----------------------------------------------------------------------------
(* Queues of letters *)

\* No two letters of the sequence are of one thread.
Distinct(s) == \A i \in DOMAIN s : \A j \in DOMAIN s : s[i].thread = s[j].thread => i = j

\* No letter of one set is of the thread of a letter of the other.
Alone(A, B) == \A m \in A : \A n \in B : m.thread # n.thread

LEMMA EmptyQueue == ToSet(<<>>) = {} /\ Distinct(<<>>)
BY DEF ToSet, Distinct

LEMMA AppendQueue ==
  ASSUME NEW S, NEW s \in Seq(S), NEW m \in S
  PROVE  /\ ToSet(Append(s, m)) = ToSet(s) \cup {m}
         /\ Distinct(s) /\ Alone(ToSet(s), {m}) => Distinct(Append(s, m))
<1>1. /\ Len(Append(s, m)) = Len(s) + 1 /\ Append(s, m)[Len(s) + 1] = m /\ Len(s) \in Nat
      /\ \A i \in 1 .. Len(s) : Append(s, m)[i] = s[i]
      /\ DOMAIN s = 1 .. Len(s) /\ DOMAIN Append(s, m) = 1 .. Len(s) + 1
  OBVIOUS
<1>2. PICK u : u = Append(s, m)
  OBVIOUS
<1>3. ToSet(u) = ToSet(s) \cup {m}
  BY <1>1, <1>2 DEF ToSet
<1>4. ASSUME Distinct(s), Alone(ToSet(s), {m}) PROVE Distinct(u)
  <2>1. \A i \in 1 .. Len(s) : s[i].thread # m.thread
    BY <1>1, <1>4 DEF Alone, ToSet
  <2>2. \A i \in 1 .. Len(s) : \A j \in 1 .. Len(s) : u[i].thread = u[j].thread => i = j
    BY <1>1, <1>2, <1>4 DEF Distinct
  <2> QED BY <1>1, <1>2, <2>1, <2>2 DEF Distinct
<1> QED BY <1>2, <1>3, <1>4

LEMMA ConcatQueue ==
  ASSUME NEW S, NEW s \in Seq(S), NEW r \in Seq(S)
  PROVE  /\ ToSet(s \o r) = ToSet(s) \cup ToSet(r)
         /\ Distinct(s) /\ Distinct(r) /\ Alone(ToSet(s), ToSet(r)) => Distinct(s \o r)
<1>1. PICK u : u = s \o r
  OBVIOUS
<1>2. /\ Len(s) \in Nat /\ Len(r) \in Nat /\ DOMAIN u = 1 .. Len(s) + Len(r)
      /\ DOMAIN s = 1 .. Len(s) /\ DOMAIN r = 1 .. Len(r)
      /\ \A i \in 1 .. Len(s) : u[i] = s[i]
      /\ \A i \in 1 .. Len(s) + Len(r) : i > Len(s) => u[i] = r[i - Len(s)]
  BY <1>1, ConcatProperties
<1>3. \A i \in 1 .. Len(r) : u[i + Len(s)] = r[i] /\ i + Len(s) \in 1 .. Len(s) + Len(r)
  BY <1>2
<1>4. ToSet(u) = ToSet(s) \cup ToSet(r)
  <2>1. \A i \in 1 .. Len(s) + Len(r) :
          (i \in 1 .. Len(s)) \/ (i > Len(s) /\ i - Len(s) \in 1 .. Len(r))
    BY <1>2
  <2>2. ToSet(u) \subseteq ToSet(s) \cup ToSet(r)
    BY <1>2, <2>1 DEF ToSet
  <2>3. ToSet(s) \subseteq ToSet(u)
    <3>1. \A i \in 1 .. Len(s) : i \in 1 .. Len(s) + Len(r)
      BY <1>2
    <3> QED BY <1>2, <3>1 DEF ToSet
  <2>4. ToSet(r) \subseteq ToSet(u)
    BY <1>2, <1>3 DEF ToSet
  <2> QED BY <2>2, <2>3, <2>4
<1>5. ASSUME Distinct(s), Distinct(r), Alone(ToSet(s), ToSet(r)) PROVE Distinct(u)
  <2>1. \A i \in 1 .. Len(s) : \A j \in 1 .. Len(r) : s[i].thread # r[j].thread
    BY <1>2, <1>5 DEF Alone, ToSet
  <2>2. SUFFICES ASSUME NEW i \in 1 .. Len(s) + Len(r), NEW j \in 1 .. Len(s) + Len(r),
                        u[i].thread = u[j].thread
                 PROVE  i = j
    BY <1>2 DEF Distinct
  <2>3. CASE i <= Len(s) /\ j <= Len(s)
    BY <1>2, <1>5, <2>2, <2>3 DEF Distinct
  <2>4. CASE i > Len(s) /\ j > Len(s)
    <3>0. i - Len(s) \in 1 .. Len(r) /\ j - Len(s) \in 1 .. Len(r)
      BY <1>2, <2>4
    <3>1. PICK a \in 1 .. Len(r), b \in 1 .. Len(r) : a = i - Len(s) /\ b = j - Len(s)
      BY <3>0
    <3>2. r[a].thread = r[b].thread
      BY <1>2, <2>2, <2>4, <3>1
    <3>3. a = b
      BY <1>2, <1>5, <3>2 DEF Distinct
    <3> QED BY <1>2, <3>1, <3>3
  <2>5. CASE (i <= Len(s) /\ j > Len(s)) \/ (i > Len(s) /\ j <= Len(s))
    <3>1. i > Len(s) => i - Len(s) \in 1 .. Len(r)
      BY <1>2
    <3>2. j > Len(s) => j - Len(s) \in 1 .. Len(r)
      BY <1>2
    <3> QED BY <1>2, <2>1, <2>2, <2>5, <3>1, <3>2
  <2>6. Len(s) \in Nat /\ i \in Int /\ j \in Int
    BY <1>2
  <2> QED BY <2>3, <2>4, <2>5, <2>6
<1> QED BY <1>1, <1>4, <1>5

LEMMA TailQueue ==
  ASSUME NEW S, NEW s \in Seq(S), s # <<>>
  PROVE  /\ ToSet(s) = {Head(s)} \cup ToSet(Tail(s))
         /\ Distinct(s) => Distinct(Tail(s)) /\ Alone(ToSet(Tail(s)), {Head(s)})
<1>1. PICK u : u = Tail(s)
  OBVIOUS
<1>2. /\ Len(s) \in Nat /\ Len(s) >= 1 /\ DOMAIN s = 1 .. Len(s) /\ DOMAIN u = 1 .. Len(s) - 1
      /\ \A i \in 1 .. Len(s) - 1 : u[i] = s[i + 1]
      /\ Head(s) = s[1]
  BY <1>1
<1>3. \A i \in 1 .. Len(s) - 1 : i + 1 \in 1 .. Len(s) /\ i + 1 # 1
  BY <1>2
<1>4. ToSet(s) = {Head(s)} \cup ToSet(u)
  <2>1. \A i \in 1 .. Len(s) : i = 1 \/ (i - 1 \in 1 .. Len(s) - 1 /\ (i - 1) + 1 = i)
    BY <1>2
  <2>2. \A i \in 1 .. Len(s) : s[i] = Head(s) \/ s[i] \in ToSet(u)
    BY <1>2, <2>1 DEF ToSet
  <2>3. ToSet(u) \subseteq ToSet(s) /\ Head(s) \in ToSet(s)
    BY <1>2, <1>3 DEF ToSet
  <2> QED BY <1>2, <2>2, <2>3 DEF ToSet
<1>5. ASSUME Distinct(s) PROVE Distinct(u) /\ Alone(ToSet(u), {Head(s)})
  <2>1. Distinct(u)
    BY <1>2, <1>3, <1>5 DEF Distinct
  <2>2. \A i \in 1 .. Len(s) - 1 : u[i].thread # Head(s).thread
    <3>1. 1 \in 1 .. Len(s)
      BY <1>2
    <3> QED BY <1>2, <1>3, <1>5, <3>1 DEF Distinct
  <2> QED BY <1>2, <2>1, <2>2 DEF Alone, ToSet
<1> QED BY <1>1, <1>4, <1>5

-----------------------------------------------------------------------------
(* Where the letters are *)

Drafted == {m \in {draft.msg} : at = "marked"}

\* What is still to be processed of todos.
Rest == IF run = "consume" THEN Tail(todos) ELSE todos

\* The letters the interface drafts, and those in its queue, in the runtime's
\* own queue, to be processed, with the adapters and in their pipes.
Joined(d, q, k, w, v, a) == d \cup q \cup k \cup w \cup v \cup a
UnderWay == Joined(Drafted, ToSet(queue), ToSet(self), ToSet(Rest), serving, answers)

OneEach(A) == \A m \in A : \A n \in A : m.thread = n.thread => m = n

\* Each thread has one letter in one place.
Spread(d, q, k, w, v, a) ==
  /\ Alone(d, q \cup k \cup w \cup v \cup a)
  /\ Alone(q, k \cup w \cup v \cup a)
  /\ Alone(k, w \cup v \cup a)
  /\ Alone(w, v \cup a)
  /\ Alone(v, a)
  /\ OneEach(v) /\ OneEach(a)

PlaceInv ==
  /\ Spread(Drafted, ToSet(queue), ToSet(self), ToSet(Rest), serving, answers)
  /\ Distinct(queue) /\ Distinct(self) /\ Distinct(Rest)

\* The threads that have a letter under way, each with the letter's identifier.
KeysOf(M) == {<<m.thread, m.id>> : m \in M}
Keys == KeysOf(UnderWay)

LEMMA UnderWayIsOneEach ==
  ASSUME PlaceInv
  PROVE  OneEach(UnderWay)
<1>1. ASSUME NEW s, Distinct(s) PROVE OneEach(ToSet(s))
  BY <1>1 DEF Distinct, OneEach, ToSet
<1>2. PICK q, k, w : q = ToSet(queue) /\ k = ToSet(self) /\ w = ToSet(Rest)
  OBVIOUS
<1>3. OneEach(q) /\ OneEach(k) /\ OneEach(w) /\ Spread(Drafted, q, k, w, serving, answers)
  BY <1>1, <1>2 DEF PlaceInv
<1>4. OneEach(Drafted)
  BY DEF OneEach, Drafted
<1>5. PICK d : d = Drafted
  OBVIOUS
<1>6. OneEach(Joined(d, q, k, w, serving, answers))
  BY <1>3, <1>4, <1>5 DEF Spread, Alone, OneEach, Joined
<1> QED BY <1>2, <1>5, <1>6 DEF UnderWay

\* Two sets have the same keys if each letter of one has its like in the other.
LEMMA SameKeys ==
  ASSUME NEW M, NEW N,
         \A m \in M : \E n \in N : n.thread = m.thread /\ n.id = m.id,
         \A n \in N : \E m \in M : n.thread = m.thread /\ n.id = m.id
  PROVE  KeysOf(M) = KeysOf(N)
BY DEF KeysOf

\* Steps that move no letter.
LEMMA StillPlaces ==
  ASSUME PlaceInv, UNCHANGED <<Drafted, queue, self, Rest, serving, answers>>
  PROVE  PlaceInv' /\ Keys' = Keys
BY DEF PlaceInv, Keys, UnderWay

LEMMA QuietPlaces ==
  ASSUME PlaceInv,
         \/ Wake \/ FutureGet \/ CliQuit \/ Leave \/ Join \/ Render
         \/ Poll \/ Reset \/ AllReceived \/ Consume \/ TurnEnds \/ DrainUser \/ Stopped
  PROVE  PlaceInv' /\ Keys' = Keys
<1>1. CASE Wake \/ FutureGet \/ CliQuit \/ Leave \/ Join \/ Render
  <2>1. UNCHANGED <<draft, queue, self, todos, run, serving, answers>>
    BY <1>1 DEF Wake, FutureGet, CliQuit, Leave, Join, Render, loop, ui
  <2>2. (at # "marked" /\ at' # "marked") \/ at' = at
    BY <1>1 DEF Wake, Signal, Afterwards, FutureGet, CliQuit, Leave, Join, Render, Running, ui
  <2>3. UNCHANGED <<Drafted, Rest>>
    BY <2>1, <2>2 DEF Drafted, Rest
  <2> QED BY <2>1, <2>3, StillPlaces
<1>2. CASE Poll \/ Reset \/ AllReceived \/ TurnEnds \/ DrainUser \/ Stopped
  <2>1. UNCHANGED <<draft, at, queue, self, todos, serving, answers>>
    BY <1>2 DEF Poll, Reset, AllReceived, TurnEnds, DrainUser, Stopped, ui
  <2>2. run # "consume" /\ run' # "consume"
    BY <1>2 DEF Poll, Reset, AllReceived, TurnEnds, DrainUser, Stopped
  <2>3. UNCHANGED <<Drafted, Rest>>
    BY <2>1, <2>2 DEF Drafted, Rest
  <2> QED BY <2>1, <2>3, StillPlaces
<1>3. CASE Consume
  <2>1. UNCHANGED <<draft, at, queue, self, serving, answers>> /\ Rest' = Rest
    BY <1>3 DEF Consume, ui, Rest
  <2>2. UNCHANGED Drafted
    BY <2>1 DEF Drafted
  <2> QED BY <2>1, <2>2, StillPlaces
<1> QED BY <1>1, <1>2, <1>3

\* A send adds a letter of the thread, which has none yet.
LEMMA BeginPlaces ==
  ASSUME ITypeInv, PlaceInv, at # "marked", NEW t \in Thread, NEW op \in Ops, NEW awaited,
         Begin(t, op, awaited), \A x \in Keys : x[1] \in pending
  PROVE  PlaceInv' /\ Keys' = IF t \in pending THEN Keys ELSE Keys \cup {<<t, sends + 1>>}
<1>0. UNCHANGED <<queue, self, Rest, serving, answers>>
  BY DEF Begin, loop, Rest
<1>1. CASE t \in pending
  <2>1. UNCHANGED Drafted
    BY <1>1 DEF Begin, ui, Drafted
  <2> QED BY <1>0, <1>1, <2>1, StillPlaces
<1>2. CASE t \notin pending
  <2>1. PICK m : m = [thread |-> t, op |-> op, id |-> sends + 1]
    OBVIOUS
  <2>2. at' = "marked" /\ draft' = [msg |-> m, awaited |-> awaited]
    BY <1>2, <2>1 DEF Begin
  <2>3. Drafted = {} /\ Drafted' = {m} /\ m.thread = t /\ m.id = sends + 1
    BY <2>1, <2>2 DEF Drafted
  <2>4. PICK q, k, w : q = ToSet(queue) /\ k = ToSet(self) /\ w = ToSet(Rest)
    OBVIOUS
  <2>5. Spread({}, q, k, w, serving, answers) /\ UnderWay = Joined({}, q, k, w, serving, answers)
    BY <2>3, <2>4 DEF PlaceInv, UnderWay
  <2>6. \A n \in UnderWay : n.thread # t
    <3>1. \A n \in UnderWay : <<n.thread, n.id>> \in Keys
      BY DEF Keys, KeysOf
    <3> QED BY <1>2, <3>1
  <2>7. Spread({m}, q, k, w, serving, answers)
    BY <2>3, <2>5, <2>6 DEF Spread, Alone, Joined
  <2>8. UnderWay' = UnderWay \cup {m}
    BY <1>0, <2>3, <2>4, <2>5 DEF UnderWay, Joined
  <2>9. Keys' = Keys \cup {<<t, sends + 1>>}
    BY <2>3, <2>8 DEF Keys, KeysOf
  <2> QED BY <1>0, <1>2, <2>3, <2>4, <2>7, <2>9 DEF PlaceInv
<1> QED BY <1>1, <1>2

LEMMA PushPlaces ==
  ASSUME ITypeInv, PlaceInv, Push
  PROVE  PlaceInv' /\ Keys' = Keys
<1>0. UNCHANGED <<draft, self, Rest, serving, answers>> /\ at = "marked"
  BY DEF Push, loop, Rest
<1>1. CASE exited
  <2>1. UNCHANGED <<Drafted, queue>>
    BY <1>0, <1>1 DEF Push, Drafted
  <2> QED BY <1>0, <2>1, StillPlaces
<1>2. CASE ~exited
  <2>1. PICK m : m = draft.msg
    OBVIOUS
  <2>2. Drafted = {m} /\ Drafted' = {} /\ queue' = Append(queue, m)
    BY <1>0, <1>2, <2>1 DEF Push, Drafted
  <2>3. PICK q, k, w : q = ToSet(queue) /\ k = ToSet(self) /\ w = ToSet(Rest)
    OBVIOUS
  <2>4. /\ Spread({m}, q, k, w, serving, answers) /\ Distinct(queue)
        /\ UnderWay = Joined({m}, q, k, w, serving, answers)
    BY <2>2, <2>3 DEF PlaceInv, UnderWay
  <2>5. ToSet(queue') = q \cup {m} /\ Distinct(queue')
    <3>1. m \in Sent(sends) /\ queue \in Seq(Sent(sends))
      BY <1>0, <2>1 DEF ITypeInv, UiType, MailType, Sent
    <3>2. Alone(q, {m})
      BY <2>4 DEF Spread, Alone
    <3> QED BY <2>2, <2>3, <2>4, <3>1, <3>2, AppendQueue
  <2>6. Spread({}, q \cup {m}, k, w, serving, answers)
    BY <2>4 DEF Spread, Alone
  <2>7. UnderWay' = UnderWay
    BY <1>0, <2>2, <2>3, <2>4, <2>5 DEF UnderWay, Joined
  <2> QED BY <1>0, <2>2, <2>3, <2>5, <2>6, <2>7 DEF PlaceInv, Keys
<1> QED BY <1>1, <1>2

LEMMA TakeQueuePlaces ==
  ASSUME ITypeInv, PlaceInv, TakeQueue
  PROVE  PlaceInv' /\ Keys' = Keys
<1>0. /\ UNCHANGED <<draft, at, self, serving, answers>>
      /\ todos' = todos \o queue /\ queue' = <<>> /\ Rest = todos /\ Rest' = todos'
  BY DEF TakeQueue, Remaining, ui, Rest
<1>1. UNCHANGED Drafted
  BY <1>0 DEF Drafted
<1>2. PICK d, q, k, w : d = Drafted /\ q = ToSet(queue) /\ k = ToSet(self) /\ w = ToSet(todos)
  OBVIOUS
<1>3. /\ Spread(d, q, k, w, serving, answers) /\ Distinct(queue) /\ Distinct(todos)
      /\ UnderWay = Joined(d, q, k, w, serving, answers)
  BY <1>0, <1>2 DEF PlaceInv, UnderWay
<1>4. ToSet(Rest') = w \cup q /\ Distinct(Rest')
  <2>1. todos \in Seq(Sent(sends)) /\ queue \in Seq(Sent(sends))
    BY DEF ITypeInv, MailType
  <2>2. Alone(w, q)
    BY <1>3 DEF Spread, Alone
  <2> QED BY <1>0, <1>2, <1>3, <2>1, <2>2, ConcatQueue
<1>5. Spread(d, {}, k, w \cup q, serving, answers)
  BY <1>3 DEF Spread, Alone
<1>6. UnderWay' = UnderWay
  BY <1>0, <1>1, <1>2, <1>3, <1>4, EmptyQueue DEF UnderWay, Joined
<1> QED BY <1>0, <1>1, <1>2, <1>3, <1>4, <1>5, <1>6, EmptyQueue DEF PlaceInv, Keys

LEMMA TakeSelfPlaces ==
  ASSUME ITypeInv, PlaceInv, TakeSelf
  PROVE  PlaceInv' /\ Keys' = Keys
<1>0. /\ UNCHANGED <<draft, at, queue, serving, answers>>
      /\ todos' = todos \o self /\ self' = <<>> /\ Rest = todos /\ Rest' = todos'
  BY DEF TakeSelf, ui, Rest
<1>1. UNCHANGED Drafted
  BY <1>0 DEF Drafted
<1>2. PICK d, q, k, w : d = Drafted /\ q = ToSet(queue) /\ k = ToSet(self) /\ w = ToSet(todos)
  OBVIOUS
<1>3. /\ Spread(d, q, k, w, serving, answers) /\ Distinct(self) /\ Distinct(todos)
      /\ Distinct(queue) /\ UnderWay = Joined(d, q, k, w, serving, answers)
  BY <1>0, <1>2 DEF PlaceInv, UnderWay
<1>4. ToSet(Rest') = w \cup k /\ Distinct(Rest')
  <2>1. todos \in Seq(Sent(sends)) /\ self \in Seq(Sent(sends))
    BY DEF ITypeInv, MailType
  <2>2. Alone(w, k)
    BY <1>3 DEF Spread, Alone
  <2> QED BY <1>0, <1>2, <1>3, <2>1, <2>2, ConcatQueue
<1>5. Spread(d, q, {}, w \cup k, serving, answers)
  BY <1>3 DEF Spread, Alone
<1>6. UnderWay' = UnderWay
  BY <1>0, <1>1, <1>2, <1>3, <1>4, EmptyQueue DEF UnderWay, Joined
<1> QED BY <1>0, <1>1, <1>2, <1>3, <1>4, <1>5, <1>6, EmptyQueue DEF PlaceInv, Keys

LEMMA TakeAnswerPlaces ==
  ASSUME ITypeInv, PlaceInv, TakeAnswer
  PROVE  PlaceInv' /\ Keys' = Keys
<1>0. /\ UNCHANGED <<draft, at, queue, self, serving>> /\ Rest = todos /\ Rest' = todos'
  BY DEF TakeAnswer, ui, Rest
<1>7. PICK m \in answers : todos' = Append(todos, m) /\ answers' = answers \ {m}
  BY DEF TakeAnswer
<1>1. UNCHANGED Drafted
  BY <1>0 DEF Drafted
<1>2. PICK d, q, k, w, a : /\ d = Drafted /\ q = ToSet(queue) /\ k = ToSet(self)
                           /\ w = ToSet(todos) /\ a = answers
  OBVIOUS
<1>3. /\ Spread(d, q, k, w, serving, a) /\ Distinct(self) /\ Distinct(todos)
      /\ Distinct(queue) /\ UnderWay = Joined(d, q, k, w, serving, a)
  BY <1>0, <1>2 DEF PlaceInv, UnderWay
<1>4. ToSet(Rest') = w \cup {m} /\ Distinct(Rest')
  <2>1. todos \in Seq(Sent(sends)) /\ m \in Sent(sends)
    BY DEF ITypeInv, MailType
  <2>2. Alone(w, {m})
    BY <1>2, <1>3 DEF Spread, Alone
  <2> QED BY <1>0, <1>2, <1>3, <1>7, <2>1, <2>2, AppendQueue
<1>5. Spread(d, q, k, w \cup {m}, serving, a \ {m})
  BY <1>2, <1>3 DEF Spread, Alone, OneEach
<1>6. UnderWay' = UnderWay
  BY <1>0, <1>1, <1>2, <1>3, <1>4, <1>7 DEF UnderWay, Joined
<1> QED BY <1>0, <1>1, <1>2, <1>3, <1>4, <1>5, <1>6, <1>7 DEF PlaceInv, Keys

\* A message is delivered: its letter stays with the adapter, or its answer in
\* the runtime's own queue; an answer's letter goes.
LEMMA ProcessPlaces ==
  ASSUME ITypeInv, PlaceInv, Process, NEW h, h = Head(todos)
  PROVE  /\ PlaceInv' /\ h \in UnderWay
         /\ Keys' = IF h.op = "answer" THEN {x \in Keys : x[1] # h.thread} ELSE Keys
<1>0. /\ run = "process" /\ todos # <<>> /\ run' = "consume"
      /\ UNCHANGED <<ui, queue, wake, events, todos, answers, exited, mirror>>
      /\ ProcessWork(h) \/ ProcessCommand(h) \/ ProcessExit(h) \/ ProcessAnswer(h)
  BY ProcessFacts
<1>1. Drafted' = Drafted /\ Rest = todos /\ Rest' = Tail(todos)
  BY <1>0 DEF Drafted, Rest, ui
<1>2. PICK d, q, k, w, v, a, o : /\ d = Drafted /\ q = ToSet(queue) /\ k = ToSet(self)
                                 /\ v = serving /\ a = answers /\ w = ToSet(todos)
                                 /\ o = ToSet(Tail(todos))
  OBVIOUS
<1>3. /\ Spread(d, q, k, w, v, a) /\ Distinct(self) /\ Distinct(todos)
      /\ Distinct(queue) /\ UnderWay = Joined(d, q, k, w, v, a)
  BY <1>1, <1>2 DEF PlaceInv, UnderWay
<1>4. w = {h} \cup o /\ Distinct(Tail(todos)) /\ Alone(o, {h})
  <2>1. todos \in Seq(Sent(sends))
    BY DEF ITypeInv, MailType
  <2> QED BY <1>0, <1>2, <1>3, <2>1, TailQueue
<1>5. h \in UnderWay
  BY <1>3, <1>4 DEF Joined
<1>6. h \in Sent(sends) /\ sends \in Nat /\ self \in Seq(Sent(sends))
  BY <1>0, HeadOfTodos DEF ITypeInv, UiType, MailType
<1>7. CASE h.op = "work"
  <2>1. serving' = v \cup {h} /\ self' = self
    BY <1>0, <1>2, <1>7 DEF ProcessWork, ProcessCommand, ProcessExit, ProcessAnswer
  <2>2. Spread(d, q, k, o, v \cup {h}, a)
    BY <1>3, <1>4 DEF Spread, Alone, OneEach
  <2>3. UnderWay' = Joined(d, q, k, o, v \cup {h}, a)
    BY <1>0, <1>1, <1>2, <2>1 DEF UnderWay
  <2>4. UnderWay' = UnderWay
    BY <1>3, <1>4, <2>3 DEF Joined
  <2> QED BY <1>0, <1>1, <1>2, <1>3, <1>4, <1>5, <1>7, <2>1, <2>2, <2>4 DEF PlaceInv, Keys
<1>8. CASE h.op \in {"command", "exit"}
  <2>0. PICK n : n = Answer(h)
    OBVIOUS
  <2>1. serving' = v /\ self' = Append(self, n)
    BY <1>0, <1>2, <1>8, <2>0 DEF ProcessWork, ProcessCommand, ProcessExit, ProcessAnswer
  <2>2. n \in Sent(sends) /\ n.thread = h.thread /\ n.id = h.id
    BY <1>6, <2>0, AnswerType
  <2>3. ToSet(self') = k \cup {n} /\ Distinct(self')
    <3>1. Alone(k, {n})
      BY <1>3, <1>4, <2>2 DEF Spread, Alone
    <3> QED BY <1>2, <1>3, <1>6, <2>1, <2>2, <3>1, AppendQueue
  <2>4. Spread(d, q, k \cup {n}, o, v, a)
    BY <1>3, <1>4, <2>2 DEF Spread, Alone, OneEach
  <2>5. UnderWay' = Joined(d, q, k \cup {n}, o, v, a)
    BY <1>0, <1>1, <1>2, <2>1, <2>3 DEF UnderWay
  <2>6. Keys' = Keys
    <3>1. \A m \in UnderWay : \E l \in UnderWay' : l.thread = m.thread /\ l.id = m.id
      BY <1>3, <1>4, <2>2, <2>5 DEF Joined
    <3>2. \A l \in UnderWay' : \E m \in UnderWay : l.thread = m.thread /\ l.id = m.id
      BY <1>3, <1>4, <2>2, <2>5 DEF Joined
    <3> QED BY <3>1, <3>2 DEF Keys, KeysOf
  <2> QED BY <1>0, <1>1, <1>2, <1>3, <1>4, <1>5, <1>8, <2>1, <2>3, <2>4, <2>6 DEF PlaceInv
<1>9. CASE h.op = "answer"
  <2>1. serving' = v /\ self' = self
    BY <1>0, <1>2, <1>9 DEF ProcessWork, ProcessCommand, ProcessExit, ProcessAnswer
  <2>2. Spread(d, q, k, o, v, a)
    BY <1>3, <1>4 DEF Spread, Alone
  <2>3. UnderWay' = Joined(d, q, k, o, v, a)
    BY <1>0, <1>1, <1>2, <2>1 DEF UnderWay
  <2>4. UnderWay' = {m \in UnderWay : m.thread # h.thread}
    <3>1. \A m \in Joined(d, q, k, o, v, a) : m.thread # h.thread
      BY <1>3, <1>4 DEF Spread, Alone, Joined
    <3> QED BY <1>3, <1>4, <2>3, <3>1 DEF Joined
  <2>5. Keys' = {x \in Keys : x[1] # h.thread}
    BY <2>4 DEF Keys, KeysOf
  <2> QED BY <1>0, <1>1, <1>2, <1>3, <1>4, <1>5, <1>9, <2>1, <2>2, <2>5 DEF PlaceInv
<1>10. h.op \in Ops
  BY <1>6 DEF Sent, Letter
<1> QED BY <1>7, <1>8, <1>9, <1>10 DEF Ops

\* The shutdown takes the runtime's own answers and the adapters' last ones.
LEMMA DrainPlaces ==
  ASSUME ITypeInv, PlaceInv, DrainRuntime \/ DrainAdapter
  PROVE  PlaceInv' /\ Keys' \subseteq Keys
<1>0. /\ UNCHANGED <<draft, at, queue, run, todos, serving>>
      /\ (self' = self \/ self' = <<>>) /\ answers' \subseteq answers
  BY DEF DrainRuntime, DrainAdapter, ui, loop
<1>1. UNCHANGED <<Drafted, Rest>>
  BY <1>0 DEF Drafted, Rest
<1>2. PICK d, q, k, w, v, a : /\ d = Drafted /\ q = ToSet(queue) /\ k = ToSet(self)
                              /\ v = serving /\ a = answers /\ w = ToSet(Rest)
  OBVIOUS
<1>3. /\ Spread(d, q, k, w, v, a) /\ Distinct(self) /\ Distinct(queue) /\ Distinct(Rest)
      /\ UnderWay = Joined(d, q, k, w, v, a)
  BY <1>2 DEF PlaceInv, UnderWay
<1>4. PICK l, b : l = ToSet(self') /\ b = answers'
  OBVIOUS
<1>5. l \subseteq k /\ b \subseteq a /\ Distinct(self')
  BY <1>0, <1>2, <1>3, <1>4, EmptyQueue
<1>6. Spread(d, q, l, w, v, b)
  BY <1>3, <1>5 DEF Spread, Alone, OneEach
<1>7. UnderWay' = Joined(d, q, l, w, v, b)
  BY <1>0, <1>1, <1>2, <1>4 DEF UnderWay
<1>8. UnderWay' \subseteq UnderWay
  BY <1>3, <1>5, <1>7 DEF Joined
<1> QED BY <1>0, <1>1, <1>2, <1>3, <1>4, <1>5, <1>6, <1>8 DEF PlaceInv, Keys, KeysOf

\* An adapter's answer takes the place of the message it answers.
LEMMA AnswersPlaces ==
  ASSUME ITypeInv, PlaceInv, Answers
  PROVE  PlaceInv' /\ Keys' = Keys
<1>0. UNCHANGED <<draft, at, queue, self, run, todos>>
  BY DEF Answers, ui
<1>1. UNCHANGED <<Drafted, Rest>>
  BY <1>0 DEF Drafted, Rest
<1>2. PICK d, q, k, w, v, a : /\ d = Drafted /\ q = ToSet(queue) /\ k = ToSet(self)
                              /\ v = serving /\ a = answers /\ w = ToSet(Rest)
  OBVIOUS
<1>3. /\ Spread(d, q, k, w, v, a) /\ Distinct(self) /\ Distinct(queue) /\ Distinct(Rest)
      /\ UnderWay = Joined(d, q, k, w, v, a)
  BY <1>2 DEF PlaceInv, UnderWay
<1>4. PICK m \in v : serving' = v \ {m} /\ answers' = a \cup {Answer(m)}
  BY <1>2 DEF Answers
<1>5. PICK n : n = Answer(m)
  OBVIOUS
<1>6. n.thread = m.thread /\ n.id = m.id
  <2>1. m \in Sent(sends) /\ sends \in Nat
    BY <1>2 DEF ITypeInv, UiType, MailType
  <2> QED BY <1>5, <2>1, AnswerType
<1>7. Spread(d, q, k, w, v \ {m}, a \cup {n})
  BY <1>3, <1>6 DEF Spread, Alone, OneEach
<1>8. UnderWay' = Joined(d, q, k, w, v \ {m}, a \cup {n})
  BY <1>0, <1>1, <1>2, <1>4, <1>5 DEF UnderWay
<1>9. Keys' = Keys
  <2>1. \A x \in UnderWay : \E y \in UnderWay' : y.thread = x.thread /\ y.id = x.id
    BY <1>3, <1>6, <1>8 DEF Joined
  <2>2. \A y \in UnderWay' : \E x \in UnderWay : y.thread = x.thread /\ y.id = x.id
    BY <1>3, <1>6, <1>8 DEF Joined
  <2> QED BY <2>1, <2>2 DEF Keys, KeysOf
<1> QED BY <1>0, <1>1, <1>2, <1>3, <1>4, <1>5, <1>7, <1>9 DEF PlaceInv

-----------------------------------------------------------------------------
(* What the marks say of the letters *)

\* A thread is pending while it has a letter under way; at the shutdown the
\* letter may go first.
MarkInv ==
  /\ \A x \in Keys : x[1] \in pending
  /\ Flowing => \A t \in pending : \E x \in Keys : x[1] = t
  /\ halted # "answer"

\* A result is wanted by the last sender only, while it waits for it.
DraftInv ==
  /\ \A x \in Keys : x[1] = draft.msg.thread => x[2] = draft.msg.id
  /\ \A t \in wanted : at \in Sending /\ draft.awaited /\ t = draft.msg.thread /\ result = 0
  /\ at \in Sending /\ draft.awaited => result \in {0, draft.msg.id}

CarrierInv == ITypeInv /\ PlaceInv /\ MarkInv /\ DraftInv

LEMMA CarrierInit == IInit => CarrierInv
<1> SUFFICES ASSUME IInit PROVE CarrierInv
  OBVIOUS
<1>1. Drafted = {} /\ queue = <<>> /\ self = <<>> /\ Rest = <<>> /\ serving = {} /\ answers = {}
  BY DEF IInit, Drafted, Rest
<1>2. PlaceInv
  BY <1>1, EmptyQueue DEF PlaceInv, Spread, Alone, OneEach
<1>3. UnderWay = {}
  BY <1>1, EmptyQueue DEF UnderWay, Joined
<1>4. Keys = {}
  BY <1>3 DEF Keys, KeysOf
<1>5. MarkInv /\ DraftInv
  BY <1>4 DEF IInit, MarkInv, DraftInv, Sending
<1> QED BY <1>2, <1>5, ITypeInit DEF CarrierInv

LEMMA BeginMarks ==
  ASSUME CarrierInv, at \in {"choose", "idle"}, NEW t \in Thread, NEW op \in Ops,
         NEW awaited \in BOOLEAN, Begin(t, op, awaited)
  PROVE  PlaceInv' /\ MarkInv' /\ DraftInv'
<1>1. PlaceInv' /\ Keys' = IF t \in pending THEN Keys ELSE Keys \cup {<<t, sends + 1>>}
  BY BeginPlaces DEF CarrierInv, MarkInv
<1>2. run' = run
  BY DEF Begin, loop
<1>3. CASE t \in pending
  <2>1. halted' = "pending" /\ UNCHANGED <<ui, states>>
    BY <1>3 DEF Begin
  <2> QED BY <1>1, <1>2, <1>3, <2>1 DEF CarrierInv, MarkInv, DraftInv, Flowing, ui, states
<1>4. CASE t \notin pending
  <2>1. PICK m : m = [thread |-> t, op |-> op, id |-> sends + 1]
    OBVIOUS
  <2>2. /\ at' = "marked" /\ draft' = [msg |-> m, awaited |-> awaited]
        /\ pending' = pending \cup {t} /\ wanted' = IF awaited THEN wanted \cup {t} ELSE wanted \ {t}
        /\ result' = 0 /\ UNCHANGED halted
    BY <1>4, <2>1 DEF Begin, Marked, FreshPromise
  <2>3. draft'.msg.thread = t /\ draft'.msg.id = sends + 1 /\ draft'.awaited = awaited
    BY <2>1, <2>2
  <2>4. wanted = {}
    BY DEF CarrierInv, DraftInv, Sending
  <2>5. Keys' = Keys \cup {<<t, sends + 1>>} /\ \A x \in Keys : x[1] # t
    BY <1>1, <1>4 DEF CarrierInv, MarkInv
  <2>6. MarkInv'
    <3>1. PICK y : y = <<t, sends + 1>>
      OBVIOUS
    <3>2. y \in Keys' /\ y[1] = t /\ Keys' = Keys \cup {y}
      BY <2>5, <3>1
    <3>3. Flowing' = Flowing
      BY <1>2 DEF Flowing
    <3> QED BY <2>2, <3>2, <3>3 DEF CarrierInv, MarkInv
  <2>7. DraftInv'
    BY <2>2, <2>3, <2>4, <2>5 DEF DraftInv, Sending
  <2> QED BY <1>1, <2>6, <2>7
<1> QED BY <1>3, <1>4

\* The steps of the interface's thread.
LEMMA UiStepMarks ==
  ASSUME CarrierInv, Automatic \/ Chosen
  PROVE  PlaceInv' /\ MarkInv' /\ DraftInv'
<1>0. {"work", "command", "exit"} \subseteq Ops /\ Main \in Thread
  BY InterfaceAssumption DEF Ops
<1>1. CASE ArenaSyscall
  <2>1. at = "choose" /\ arena # <<>> /\ Begin(Head(arena), "command", TRUE) /\ arena \in Seq(Thread)
    BY <1>1 DEF ArenaSyscall, CarrierInv, ITypeInv, UiType
  <2>2. Head(arena) \in Thread
    BY <2>1
  <2> QED BY <1>0, <2>1, <2>2, BeginMarks
<1>2. CASE NullExit \/ CliExit \/ ButtonExit
  <2>1. at \in {"choose", "idle"} /\ Begin(Main, "exit", FALSE)
    BY <1>2 DEF NullExit, CliExit, ButtonExit, Running
  <2> QED BY <1>0, <2>1, BeginMarks
<1>3. ASSUME NEW t \in Thread, CliSend(t) \/ TuiSend(t)
      PROVE  PlaceInv' /\ MarkInv' /\ DraftInv'
  <2>1. at = "choose" /\ \E op \in Ops : Begin(t, op, FALSE)
    BY <1>0, <1>3 DEF CliSend, TuiSend, Running
  <2> QED BY <2>1, BeginMarks
<1>4. CASE Push \/ Wake \/ FutureGet \/ CliQuit \/ Leave \/ Join \/ Render
  <2>1. PlaceInv' /\ Keys' = Keys
    BY <1>4, PushPlaces, QuietPlaces DEF CarrierInv
  <2>2. UNCHANGED <<draft, states, run>>
    BY <1>4 DEF Push, Wake, FutureGet, CliQuit, Leave, Join, Render, loop, ui
  <2>3. MarkInv'
    BY <1>4, <2>1, <2>2
    DEF CarrierInv, MarkInv, Flowing, states, Push, Wake, FutureGet, CliQuit, Leave, Join, Render
  <2>4. DraftInv'
    <3>1. CASE Push \/ Wake \/ Render
      <4>1. at \in Sending => at' \in Sending \/ ~draft.awaited
        BY <3>1 DEF Push, Wake, Signal, Afterwards, Render, ui, Sending
      <4>2. at' \in Sending => at \in Sending
        BY <3>1 DEF Push, Wake, Signal, Render, ui, Sending
      <4> QED BY <2>1, <2>2, <4>1, <4>2 DEF CarrierInv, DraftInv, states
    <3>2. CASE FutureGet \/ CliQuit \/ Leave \/ Join
      <4>1. at' \notin Sending /\ wanted = {}
        BY <3>2 DEF FutureGet, CliQuit, Leave, Join, Running, Sending, CarrierInv, DraftInv
      <4> QED BY <2>1, <2>2, <4>1 DEF CarrierInv, DraftInv, states
    <3> QED BY <1>4, <3>1, <3>2
  <2> QED BY <2>1, <2>3, <2>4
<1> QED BY <1>1, <1>2, <1>3, <1>4 DEF Automatic, Chosen

\* What an answer tells the interface: on_message.
LEMMA ProcessMarks ==
  ASSUME CarrierInv, Process
  PROVE  PlaceInv' /\ MarkInv' /\ DraftInv'
<1>1. PICK h : h = Head(todos)
  OBVIOUS
<1>2. /\ run = "process" /\ run' = "consume" /\ UNCHANGED ui
      /\ ProcessWork(h) \/ ProcessCommand(h) \/ ProcessExit(h) \/ ProcessAnswer(h)
  BY <1>1, ProcessFacts
<1>3. /\ PlaceInv' /\ <<h.thread, h.id>> \in Keys
      /\ Keys' = IF h.op = "answer" THEN {x \in Keys : x[1] # h.thread} ELSE Keys
  BY <1>1, ProcessPlaces DEF CarrierInv, Keys, KeysOf
<1>4. CASE h.op # "answer"
  <2>1. UNCHANGED <<states, halted>>
    BY <1>2, <1>4 DEF ProcessWork, ProcessCommand, ProcessExit, ProcessAnswer
  <2> QED BY <1>2, <1>3, <1>4, <2>1 DEF CarrierInv, MarkInv, DraftInv, Flowing, states, ui
<1>5. CASE h.op = "answer"
  <2>1. h.thread \in pending
    BY <1>3 DEF CarrierInv, MarkInv
  <2>2. /\ pending' = pending \ {h.thread} /\ wanted' = wanted \ {h.thread} /\ halted' = halted
        /\ result' = IF h.thread \in wanted THEN h.id ELSE result
    BY <1>2, <1>5, <2>1
    DEF ProcessWork, ProcessCommand, ProcessExit, ProcessAnswer, Cleared, Fulfil
  <2>3. MarkInv'
    <3>1. Flowing /\ Flowing'
      BY <1>2 DEF Flowing
    <3>2. Keys' = {x \in Keys : x[1] # h.thread}
      BY <1>3, <1>5
    <3> QED BY <2>2, <3>1, <3>2 DEF CarrierInv, MarkInv
  <2>4. DraftInv'
    <3>1. Keys' \subseteq Keys /\ UNCHANGED <<draft, at>>
      BY <1>2, <1>3 DEF ui
    <3>2. CASE h.thread \in wanted
      <4>1. h.thread = draft.msg.thread /\ wanted' = {}
        BY <2>2, <3>2 DEF CarrierInv, DraftInv
      <4>2. h.id = draft.msg.id
        BY <1>3, <4>1 DEF CarrierInv, DraftInv
      <4> QED BY <2>2, <3>1, <3>2, <4>1, <4>2 DEF CarrierInv, DraftInv
    <3>3. CASE h.thread \notin wanted
      BY <2>2, <3>1, <3>3 DEF CarrierInv, DraftInv
    <3> QED BY <3>2, <3>3
  <2> QED BY <1>3, <2>3, <2>4
<1> QED BY <1>4, <1>5

LEMMA OtherMarks ==
  ASSUME CarrierInv,
         \/ Poll \/ TakeQueue \/ Reset \/ TakeSelf \/ TakeAnswer \/ AllReceived \/ Consume
         \/ TurnEnds \/ DrainRuntime \/ DrainUser \/ DrainAdapter \/ Stopped \/ Answers
         \/ UNCHANGED ivars
  PROVE  PlaceInv' /\ MarkInv' /\ DraftInv'
<1>1. UNCHANGED <<ui, states, halted>>
  BY DEF Poll, TakeQueue, Reset, TakeSelf, TakeAnswer, AllReceived, Consume, TurnEnds,
         DrainRuntime, DrainUser, DrainAdapter, Stopped, Answers, ivars
<1>2. CASE DrainRuntime \/ DrainAdapter
  <2>1. PlaceInv' /\ Keys' \subseteq Keys
    BY <1>2, DrainPlaces DEF CarrierInv
  <2>2. ~Flowing'
    BY <1>2 DEF DrainRuntime, DrainAdapter, Flowing, loop
  <2> QED BY <1>1, <2>1, <2>2 DEF CarrierInv, MarkInv, DraftInv, ui, states
<1>3. CASE ~(DrainRuntime \/ DrainAdapter)
  <2>1. PlaceInv' /\ Keys' = Keys
    <3>1. CASE UNCHANGED ivars
      <4>1. UNCHANGED <<Drafted, queue, self, Rest, serving, answers>>
        BY <3>1 DEF ivars, ui, loop, Drafted, Rest
      <4> QED BY <4>1, StillPlaces DEF CarrierInv
    <3> QED BY <1>3, <3>1, TakeQueuePlaces, TakeSelfPlaces, TakeAnswerPlaces, AnswersPlaces, QuietPlaces
            DEF CarrierInv
  <2>2. Flowing' => Flowing
    BY <1>3 DEF Poll, TakeQueue, Reset, TakeSelf, TakeAnswer, AllReceived, Consume, TurnEnds,
                DrainUser, Stopped, Answers, ivars, loop, Flowing
  <2> QED BY <1>1, <2>1, <2>2 DEF CarrierInv, MarkInv, DraftInv, ui, states
<1> QED BY <1>2, <1>3

LEMMA CarrierNext == CarrierInv /\ [INext]_ivars => CarrierInv'
<1> SUFFICES ASSUME CarrierInv, [INext]_ivars PROVE CarrierInv'
  OBVIOUS
<1>1. ITypeInv'
  BY ITypeNext DEF CarrierInv
<1>2. PlaceInv' /\ MarkInv' /\ DraftInv'
  BY UiStepMarks, ProcessMarks, OtherMarks DEF INext, Runs
<1> QED BY <1>1, <1>2 DEF CarrierInv

\* The inductive invariant of the two threads: each thread of the program has
\* at most one letter, in one place, and the interface's marks are those of
\* the threads that have one.
THEOREM CarrierInvariant == ISpec => []CarrierInv
BY CarrierInit, CarrierNext, PTL DEF ISpec

LEMMA CarriersAre ==
  ASSUME NEW t
  PROVE  Carriers(t) = {m \in UnderWay : m.thread = t}
BY DEF Carriers, UnderWay, Joined, Drafted, Rest

\* However the interface, the runtime and the adapters interleave, a thread the
\* interface has marked has exactly one message under way, in one queue, and
\* no other thread has one, so that on_message's CHECK(thread.pending) holds:
\* for any number of threads and messages.
THEOREM OneCarrierCorrect == ISpec => []OneCarrier
<1>1. CarrierInv => OneCarrier
  <2> SUFFICES ASSUME CarrierInv, ~stop PROVE OneCarrier
    BY DEF OneCarrier
  <2>1. OneEach(UnderWay) /\ Flowing
    BY UnderWayIsOneEach DEF CarrierInv, ITypeInv, LoopType
  <2>2. /\ \A m \in UnderWay : m.thread \in pending
        /\ \A t \in pending : \E m \in UnderWay : m.thread = t
    <3>1. \A m \in UnderWay : <<m.thread, m.id>> \in Keys
      BY DEF Keys, KeysOf
    <3>2. \A x \in Keys : \E m \in UnderWay : m.thread = x[1]
      BY DEF Keys, KeysOf
    <3> QED BY <2>1, <3>1, <3>2 DEF CarrierInv, MarkInv
  <2>3. ASSUME NEW t \in pending PROVE \E m \in Carriers(t) : Carriers(t) = {m}
    <3>1. PICK m \in UnderWay : m.thread = t
      BY <2>2
    <3>2. Carriers(t) = {m}
      BY <2>1, <3>1, CarriersAre DEF OneEach
    <3> QED BY <3>2
  <2>4. ASSUME NEW t \in Thread \ pending PROVE Carriers(t) = {}
    BY <2>2, CarriersAre
  <2>5. halted # "answer"
    BY DEF CarrierInv, MarkInv
  <2> QED BY <2>3, <2>4, <2>5 DEF OneCarrier
<1> QED BY <1>1, CarrierInvariant, PTL

\* UI::syscall's future is given the answer to the message its own call sent,
\* and never that to an earlier one.
THEOREM SyscallAnsweredCorrect == ISpec => []SyscallAnswered
<1>1. CarrierInv => SyscallAnswered
  BY DEF CarrierInv, DraftInv, SyscallAnswered, Sending
<1> QED BY <1>1, CarrierInvariant, PTL

-----------------------------------------------------------------------------
(* The states of the program that the mirror passes through *)

\* No identifier above n was seen, and no answer was before its letter's key
\* was gone.
Sound(p, n, K) ==
  /\ \A t \in Thread : ToSet(p.trace[t]) \subseteq 0 .. n
  /\ \A x \in K : x[2] \in ToSet(p.trace[x[1]]) => x[1] \in p.due

\* From p the records rs lead to q, through sound states.
SoundHistory(p, rs, q, n, K) ==
  \E f \in Histories(rs) :
    Replays(f, p, rs) /\ f[Len(rs)] = q /\ \A i \in 0 .. Len(rs) : Sound(f[i], n, K)

LEMMA SeenMore ==
  ASSUME NEW s \in Seq(Nat), NEW i \in Nat
  PROVE  ToSet(Append(s, i)) = ToSet(s) \cup {i}
<1>1. PICK u : u = Append(s, i)
  OBVIOUS
<1>2. /\ u[Len(s) + 1] = i /\ Len(s) \in Nat /\ \A j \in 1 .. Len(s) : u[j] = s[j]
      /\ DOMAIN s = 1 .. Len(s) /\ DOMAIN u = 1 .. Len(s) + 1
  BY <1>1
<1>3. ToSet(u) = ToSet(s) \cup {i}
  BY <1>2 DEF ToSet
<1> QED BY <1>1, <1>3

LEMMA ApplySound ==
  ASSUME NEW n \in Nat, NEW K, K \subseteq Thread \X Nat, NEW q \in ProgramState, Sound(q, n, K),
         NEW r \in Record, r.id <= n, r.op = "return" => \A x \in K : x[1] # r.thread
  PROVE  Sound(Apply(q, r), n, K)
<1>1. PICK o : o = Apply(q, r)
  OBVIOUS
<1>2. /\ o \in ProgramState
      /\ r.op = "commit" => o.due = q.due /\ o.trace = q.trace
      /\ r.op = "call" => o.due = q.due \cup {r.thread}
      /\ r.op = "return" => o.due = q.due \ {r.thread}
      /\ r.op # "commit" => o.trace = [q.trace EXCEPT ![r.thread] = Append(@, r.id)]
  BY <1>1, ApplyFacts
<1>3. /\ q.trace \in [Thread -> Seq(Nat)] /\ r.thread \in Thread /\ r.id \in 0 .. n
      /\ r.op \in {"commit", "call", "return"}
  BY DEF ProgramState, Record
<1>4. CASE r.op = "commit"
  BY <1>1, <1>2, <1>4 DEF Sound
<1>5. CASE r.op # "commit"
  <2>1. o.trace = [q.trace EXCEPT ![r.thread] = Append(@, r.id)]
    BY <1>2, <1>5
  <2>2. \A t \in Thread : t # r.thread => o.trace[t] = q.trace[t]
    BY <1>3, <2>1
  <2>3. ToSet(o.trace[r.thread]) = ToSet(q.trace[r.thread]) \cup {r.id}
    <3>1. o.trace[r.thread] = Append(q.trace[r.thread], r.id) /\ q.trace[r.thread] \in Seq(Nat)
      BY <1>3, <2>1
    <3>2. r.id \in Nat
      BY <1>3
    <3> QED BY <3>1, <3>2, SeenMore
  <2>4. \A t \in Thread : ToSet(o.trace[t]) \subseteq 0 .. n
    <3>1. \A t \in Thread : ToSet(q.trace[t]) \subseteq 0 .. n
      BY DEF Sound
    <3> QED BY <1>3, <2>2, <2>3, <3>1
  <2>5. ASSUME NEW x \in K, x[2] \in ToSet(o.trace[x[1]]) PROVE x[1] \in o.due
    <3>1. CASE x[1] = r.thread
      BY <1>2, <1>3, <1>5, <3>1
    <3>2. CASE x[1] # r.thread
      <4>1. x[1] \in Thread
        OBVIOUS
      <4>2. x[1] \in q.due
        BY <2>2, <2>5, <3>2, <4>1 DEF Sound
      <4> QED BY <1>2, <1>3, <1>5, <3>2, <4>2
    <3> QED BY <3>1, <3>2
  <2> QED BY <1>1, <2>4, <2>5 DEF Sound
<1> QED BY <1>4, <1>5

\* Keys may go, and those of new messages come.
LEMMA KeysSound ==
  ASSUME NEW n \in Nat, NEW k \in Nat, n <= k, NEW K, K \subseteq Thread \X Nat, NEW L,
         \A x \in L : x \in K \/ (x[1] \in Thread /\ x[2] > n /\ x[2] \in Nat),
         NEW p, NEW rs, NEW q, SoundHistory(p, rs, q, n, K)
  PROVE  SoundHistory(p, rs, q, k, L)
<1>1. ASSUME NEW o, Sound(o, n, K) PROVE Sound(o, k, L)
  <2>1. \A t \in Thread : ToSet(o.trace[t]) \subseteq 0 .. n
    BY <1>1 DEF Sound
  <2>2. \A x \in L : x[2] \in ToSet(o.trace[x[1]]) => x \in K
    BY <2>1
  <2>3. 0 .. n \subseteq 0 .. k
    OBVIOUS
  <2> QED BY <1>1, <2>1, <2>2, <2>3 DEF Sound
<1> QED BY <1>1 DEF SoundHistory

LEMMA MoreSound ==
  ASSUME NEW n, NEW K, NEW p \in ProgramState, NEW rs \in Seq(Record), NEW q \in ProgramState,
         NEW r \in Record, SoundHistory(p, rs, q, n, K), Sound(Apply(q, r), n, K)
  PROVE  SoundHistory(p, Append(rs, r), Apply(q, r), n, K)
<1>1. PICK f \in Histories(rs) :
        Replays(f, p, rs) /\ f[Len(rs)] = q /\ \A i \in 0 .. Len(rs) : Sound(f[i], n, K)
  BY DEF SoundHistory
<1>2. PICK m \in Nat : m = Len(rs)
  OBVIOUS
<1>3. PICK o : o = Apply(q, r)
  OBVIOUS
<1>4. PICK u : u = Append(rs, r)
  OBVIOUS
<1>5. Len(u) = m + 1 /\ u[m + 1] = r /\ \A i \in 1 .. m : u[i] = rs[i]
  BY <1>2, <1>4
<1>6. PICK g : g = [i \in 0 .. m + 1 |-> IF i = m + 1 THEN o ELSE f[i]]
  OBVIOUS
<1>7. o \in ProgramState /\ f \in [0 .. m -> ProgramState]
  BY <1>2, <1>3, ApplyFacts DEF Histories
<1>8. g \in Histories(u)
  BY <1>5, <1>6, <1>7 DEF Histories
<1>9. g[m + 1] = o /\ \A i \in 0 .. m : g[i] = f[i]
  BY <1>6
<1>10. Replays(g, p, u)
  <2>1. g[0] = p
    BY <1>1, <1>9 DEF Replays
  <2>2. ASSUME NEW i \in 1 .. m + 1 PROVE g[i] = Apply(g[i - 1], u[i])
    <3>1. CASE i = m + 1
      <4>1. g[i - 1] = q /\ u[i] = r /\ g[i] = o
        BY <1>1, <1>2, <1>5, <1>9, <3>1
      <4> QED BY <1>3, <4>1
    <3>2. CASE i # m + 1
      <4>1. i \in 1 .. m /\ i - 1 \in 0 .. m /\ i \in 0 .. m
        BY <3>2
      <4>2. f[i] = Apply(f[i - 1], rs[i])
        BY <1>1, <1>2, <4>1 DEF Replays
      <4> QED BY <1>5, <1>9, <4>1, <4>2
    <3> QED BY <3>1, <3>2
  <2> QED BY <1>5, <2>1, <2>2 DEF Replays
<1>11. \A i \in 0 .. m + 1 : Sound(g[i], n, K)
  BY <1>1, <1>2, <1>3, <1>9
<1> QED BY <1>3, <1>4, <1>5, <1>8, <1>9, <1>10, <1>11 DEF SoundHistory

\* Where the mirror starts from when it has applied what there is to apply.
LEMMA NoneSound ==
  ASSUME NEW n, NEW K, NEW p \in ProgramState, Sound(p, n, K)
  PROVE  SoundHistory(p, <<>>, p, n, K)
<1>1. PICK f : f = [i \in 0 .. 0 |-> p]
  OBVIOUS
<1>2. f \in Histories(<<>>) /\ f[0] = p
  BY <1>1 DEF Histories
<1> QED BY <1>2 DEF SoundHistory, Replays

LEMMA EndSound ==
  ASSUME NEW n, NEW K, NEW p \in ProgramState, NEW rs \in Seq(Record), NEW q,
         SoundHistory(p, rs, q, n, K)
  PROVE  Replay(p, rs) = q /\ q \in ProgramState /\ Sound(p, n, K) /\ Sound(q, n, K)
<1>1. PICK f \in Histories(rs) :
        Replays(f, p, rs) /\ f[Len(rs)] = q /\ \A i \in 0 .. Len(rs) : Sound(f[i], n, K)
  BY DEF SoundHistory
<1>2. Replay(p, rs) = q
  BY <1>1, ReplayIs
<1>3. Len(rs) \in 0 .. Len(rs) /\ 0 \in 0 .. Len(rs)
  OBVIOUS
<1> QED BY <1>1, <1>2, <1>3 DEF Replays, Histories

\* The last record is left, after the others were applied.
LEMMA LastSound ==
  ASSUME NEW n, NEW K, NEW p \in ProgramState, NEW rs \in Seq(Record), NEW r \in Record, NEW q,
         SoundHistory(p, Append(rs, r), q, n, K)
  PROVE  SoundHistory(p, rs, Replay(p, rs), n, K) /\ q = Apply(Replay(p, rs), r)
<1>1. PICK u : u = Append(rs, r)
  OBVIOUS
<1>2. PICK m \in Nat : m = Len(rs)
  OBVIOUS
<1>3. Len(u) = m + 1 /\ u[m + 1] = r /\ \A i \in 1 .. m : u[i] = rs[i]
  BY <1>1, <1>2
<1>4. PICK f \in [0 .. m + 1 -> ProgramState] :
        Replays(f, p, u) /\ f[m + 1] = q /\ \A i \in 0 .. m + 1 : Sound(f[i], n, K)
  BY <1>1, <1>3 DEF SoundHistory, Histories
<1>5. PICK g : g = [i \in 0 .. m |-> f[i]]
  OBVIOUS
<1>6. g \in Histories(rs) /\ \A i \in 0 .. m : g[i] = f[i]
  BY <1>2, <1>5 DEF Histories
<1>7. Replays(g, p, rs)
  <2>1. g[0] = p
    BY <1>4, <1>6 DEF Replays
  <2>2. ASSUME NEW i \in 1 .. m PROVE g[i] = Apply(g[i - 1], rs[i])
    <3>1. i \in 1 .. m + 1 /\ i - 1 \in 0 .. m /\ i \in 0 .. m
      OBVIOUS
    <3>2. f[i] = Apply(f[i - 1], u[i])
      BY <1>3, <1>4, <3>1 DEF Replays
    <3> QED BY <1>3, <1>6, <3>1, <3>2
  <2> QED BY <1>2, <2>1, <2>2 DEF Replays
<1>8. Replay(p, rs) = g[m] /\ g[m] = f[m]
  BY <1>2, <1>6, <1>7, ReplayIs
<1>9. SoundHistory(p, rs, g[m], n, K)
  <2>1. \A i \in 0 .. m : Sound(g[i], n, K)
    BY <1>4, <1>6
  <2> QED BY <1>2, <1>6, <1>7, <2>1 DEF SoundHistory
<1>10. f[m + 1] = Apply(f[m], r)
  <2>1. m + 1 \in 1 .. m + 1 /\ (m + 1) - 1 = m
    OBVIOUS
  <2> QED BY <1>3, <1>4, <2>1 DEF Replays
<1> QED BY <1>4, <1>8, <1>9, <1>10

-----------------------------------------------------------------------------
(* The mirror *)

Mirrored == kind \in {"tui", "web"}

\* What the mirror has yet to apply to be the runtime's program.
Unseen == IF run = "consume" THEN Append(records, RecordOf(Head(todos))) ELSE records

HistoryInv == Flowing /\ Mirrored => SoundHistory(mirror, Unseen, program, sends, Keys)

MirrorInv == CarrierInv /\ HistoryInv

LEMMA KeyTypes ==
  ASSUME ITypeInv, PlaceInv
  PROVE  Keys \subseteq Thread \X Nat
<1>1. sends \in Nat /\ Sent(sends) \subseteq Letter
  BY DEF ITypeInv, UiType, Sent
<1>2. ToSet(queue) \subseteq Letter /\ ToSet(self) \subseteq Letter
  <2>1. ASSUME NEW s \in Seq(Sent(sends)) PROVE ToSet(s) \subseteq Letter
    <3>1. \A i \in DOMAIN s : s[i] \in Sent(sends)
      BY ElementOfSeq
    <3> QED BY <1>1, <3>1 DEF ToSet
  <2> QED BY <2>1 DEF ITypeInv, MailType
<1>3. ToSet(Rest) \subseteq Letter
  <2>1. Rest \in Seq(Sent(sends))
    <3>1. CASE run = "consume"
      BY <3>1, HeadOfTodos DEF Rest, ITypeInv, LoopType
    <3>2. CASE run # "consume"
      BY <3>2 DEF Rest, ITypeInv, MailType
    <3> QED BY <3>1, <3>2
  <2>2. \A i \in DOMAIN Rest : Rest[i] \in Sent(sends)
    BY <2>1, ElementOfSeq
  <2> QED BY <1>1, <2>2 DEF ToSet
<1>4. Drafted \subseteq Letter /\ serving \subseteq Letter /\ answers \subseteq Letter
  BY <1>1 DEF Drafted, ITypeInv, UiType, MailType
<1>5. UnderWay \subseteq Letter
  BY <1>2, <1>3, <1>4 DEF UnderWay, Joined
<1> QED BY <1>5 DEF Keys, KeysOf, Letter

LEMMA MirrorInit == IInit => MirrorInv
<1> SUFFICES ASSUME IInit PROVE MirrorInv
  OBVIOUS
<1>1. CarrierInv
  BY CarrierInit
<1>2. run = "poll" /\ records = <<>> /\ mirror = Fresh /\ program = Fresh /\ sends = 0
  BY DEF IInit
<1>3. Fresh \in ProgramState
  BY DEF Fresh, ProgramState
<1>4. Sound(Fresh, 0, Keys)
  <2>1. \A t \in Thread : ToSet(Fresh.trace[t]) = {}
    BY EmptyQueue DEF Fresh
  <2>2. Keys \subseteq Thread \X Nat
    BY <1>1, KeyTypes DEF CarrierInv
  <2> QED BY <2>1, <2>2 DEF Sound
<1>5. Unseen = <<>>
  BY <1>2 DEF Unseen
<1>6. SoundHistory(Fresh, <<>>, Fresh, 0, Keys)
  BY <1>3, <1>4, NoneSound
<1> QED BY <1>1, <1>2, <1>5, <1>6 DEF MirrorInv, HistoryInv

\* Steps that neither apply a record nor consume one.
LEMMA SameHistory ==
  ASSUME MirrorInv, UNCHANGED <<kind, Unseen, views>>, Flowing' => Flowing,
         sends' \in Nat, sends <= sends',
         \A x \in Keys' : x \in Keys \/ (x[1] \in Thread /\ x[2] > sends /\ x[2] \in Nat)
  PROVE  HistoryInv'
<1> SUFFICES ASSUME Flowing', Mirrored' PROVE SoundHistory(mirror', Unseen', program', sends', Keys')
  BY DEF HistoryInv
<1>1. SoundHistory(mirror, Unseen, program, sends, Keys)
  BY DEF MirrorInv, HistoryInv, Mirrored
<1>2. UNCHANGED <<mirror, Unseen, program>>
  BY DEF views
<1>3. sends \in Nat /\ Keys \subseteq Thread \X Nat
  BY KeyTypes DEF MirrorInv, CarrierInv, ITypeInv, UiType
<1>4. PICK n, K, L, k : n = sends /\ K = Keys /\ L = Keys' /\ k = sends'
  OBVIOUS
<1>5. PICK p, rs, q : p = mirror /\ rs = Unseen /\ q = program
  OBVIOUS
<1>6. SoundHistory(p, rs, q, k, L)
  BY <1>1, <1>3, <1>4, <1>5, KeysSound
<1> QED BY <1>2, <1>4, <1>5, <1>6

LEMMA BeginHistory ==
  ASSUME MirrorInv, at \in {"choose", "idle"}, NEW t \in Thread, NEW op \in Ops, NEW awaited,
         Begin(t, op, awaited)
  PROVE  HistoryInv'
<1>1. Keys' = IF t \in pending THEN Keys ELSE Keys \cup {<<t, sends + 1>>}
  BY BeginPlaces DEF MirrorInv, CarrierInv, MarkInv
<1>2. sends \in Nat
  BY DEF MirrorInv, CarrierInv, ITypeInv, UiType
<1>3. sends' \in {sends, sends + 1} /\ UNCHANGED <<kind, loop, views>>
  BY DEF Begin, ui
<1>4. UNCHANGED Unseen /\ Flowing' = Flowing
  BY <1>3 DEF loop, views, Unseen, Flowing
<1>5. PICK y : y = <<t, sends + 1>>
  OBVIOUS
<1>6. y[1] = t /\ y[2] = sends + 1 /\ Keys' \subseteq Keys \cup {y}
  BY <1>1, <1>5
<1> QED BY <1>2, <1>3, <1>4, <1>6, SameHistory

\* Observer::process applies what was consumed, but for the message that is
\* being delivered.
LEMMA RenderHistory ==
  ASSUME MirrorInv, Render
  PROVE  HistoryInv'
<1> SUFFICES ASSUME Flowing', Mirrored' PROVE SoundHistory(mirror', Unseen', program', sends', Keys')
  BY DEF HistoryInv
<1>1. /\ mirror' = Replay(mirror, records) /\ records' = <<>>
      /\ UNCHANGED <<kind, sends, run, todos, program>>
  BY DEF Render, ui, loop
<1>2. SoundHistory(mirror, Unseen, program, sends, Keys)
  BY <1>1 DEF MirrorInv, HistoryInv, Mirrored, Flowing
<1>3. mirror \in ProgramState /\ records \in Seq(Record) /\ program \in ProgramState
  BY DEF MirrorInv, CarrierInv, ITypeInv, ViewType
<1>4. Keys' = Keys
  BY QuietPlaces DEF MirrorInv, CarrierInv
<1>5. PICK q : q = Replay(mirror, records)
  OBVIOUS
<1>6. CASE run # "consume"
  <2>1. Unseen = records /\ Unseen' = <<>>
    BY <1>1, <1>6 DEF Unseen
  <2>2. q = program /\ Sound(program, sends, Keys)
    BY <1>2, <1>3, <1>5, <2>1, EndSound
  <2>3. SoundHistory(program, <<>>, program, sends, Keys)
    BY <1>3, <2>2, NoneSound
  <2> QED BY <1>1, <1>4, <1>5, <2>1, <2>2, <2>3
<1>7. CASE run = "consume"
  <2>1. PICK r : r = RecordOf(Head(todos))
    OBVIOUS
  <2>2. r \in Record
    BY <1>7, <2>1, HeadOfTodos DEF MirrorInv, CarrierInv, ITypeInv, LoopType
  <2>3. Unseen = Append(records, r) /\ Unseen' = Append(<<>>, r)
    BY <1>1, <1>7, <2>1 DEF Unseen
  <2>4. SoundHistory(mirror, records, q, sends, Keys) /\ program = Apply(q, r)
    BY <1>2, <1>3, <1>5, <2>2, <2>3, LastSound
  <2>5. q \in ProgramState /\ Sound(q, sends, Keys)
    BY <1>3, <2>4, EndSound
  <2>6. SoundHistory(q, <<>>, q, sends, Keys)
    BY <2>5, NoneSound
  <2>7. Sound(program, sends, Keys)
    <3>1. Append(records, r) \in Seq(Record)
      BY <1>3, <2>2
    <3> QED BY <1>2, <1>3, <2>3, <3>1, EndSound
  <2>8. <<>> \in Seq(Record)
    OBVIOUS
  <2>9. SoundHistory(q, Append(<<>>, r), program, sends, Keys)
    BY <2>2, <2>4, <2>5, <2>6, <2>7, <2>8, MoreSound
  <2> QED BY <1>1, <1>4, <1>5, <2>3, <2>9
<1> QED BY <1>6, <1>7

\* Whether the call is applied before the commit that it asked for, or after.
LEMMA CommitFirst ==
  ASSUME NEW p \in ProgramState, NEW r \in Record, NEW c \in Record, c.op = "commit", r.op = "call"
  PROVE  Apply(Apply(p, r), c) = Apply(Apply(p, c), r)
<1>1. PICK a, b : a = Apply(p, r) /\ b = Apply(p, c)
  OBVIOUS
<1>2. /\ a \in ProgramState /\ a.due = p.due \cup {r.thread} /\ a.agents = p.agents
      /\ a.trace = [p.trace EXCEPT ![r.thread] = Append(@, r.id)]
  BY <1>1, ApplyFacts
<1>3. b \in ProgramState /\ b.due = p.due /\ b.trace = p.trace /\ b.agents = p.agents + 1
  BY <1>1, ApplyFacts
<1>4. PICK x, y : x = Apply(a, c) /\ y = Apply(b, r)
  OBVIOUS
<1>5. x \in ProgramState /\ x.due = a.due /\ x.trace = a.trace /\ x.agents = a.agents + 1
  BY <1>2, <1>4, ApplyFacts
<1>6. /\ y \in ProgramState /\ y.due = b.due \cup {r.thread} /\ y.agents = b.agents
      /\ y.trace = [b.trace EXCEPT ![r.thread] = Append(@, r.id)]
  BY <1>3, <1>4, ApplyFacts
<1>7. x.due = y.due /\ x.trace = y.trace /\ x.agents = y.agents
  BY <1>2, <1>3, <1>5, <1>6
<1>8. x = y
  <2>1. x = [due |-> x.due, trace |-> x.trace, agents |-> x.agents]
    BY <1>5 DEF ProgramState
  <2>2. y = [due |-> y.due, trace |-> y.trace, agents |-> y.agents]
    BY <1>6 DEF ProgramState
  <2> QED BY <1>7, <2>1, <2>2
<1> QED BY <1>1, <1>4, <1>8

\* What is delivered is applied by the runtime, and left for the mirror.
LEMMA ProcessHistory ==
  ASSUME MirrorInv, Process
  PROVE  HistoryInv'
<1> SUFFICES ASSUME Flowing', Mirrored' PROVE SoundHistory(mirror', Unseen', program', sends', Keys')
  BY DEF HistoryInv
<1>1. PICK h, r, c : h = Head(todos) /\ r = RecordOf(h) /\ c = CommitOf(h)
  OBVIOUS
<1>2. /\ run = "process" /\ todos # <<>> /\ run' = "consume"
      /\ UNCHANGED <<kind, sends, todos, mirror>>
      /\ ProcessWork(h) \/ ProcessCommand(h) \/ ProcessExit(h) \/ ProcessAnswer(h)
  BY <1>1, ProcessFacts DEF ui
<1>3. /\ h \in Sent(sends) /\ h \in Letter /\ sends \in Nat
      /\ mirror \in ProgramState /\ records \in Seq(Record) /\ program \in ProgramState
  BY <1>1, <1>2, HeadOfTodos DEF MirrorInv, CarrierInv, ITypeInv, UiType, ViewType
<1>4. /\ r \in Record /\ c \in Record /\ c.op = "commit" /\ r.thread = h.thread /\ r.id <= sends
      /\ r.op = IF h.op = "answer" THEN "return" ELSE "call"
  BY <1>1, <1>3, RecordType, CommitType DEF Sent
<1>5. /\ Keys \subseteq Thread \X Nat
      /\ Keys' = IF h.op = "answer" THEN {x \in Keys : x[1] # h.thread} ELSE Keys
  BY <1>1, KeyTypes, ProcessPlaces DEF MirrorInv, CarrierInv
<1>6. PICK n, K, L : n \in Nat /\ n = sends /\ K = Keys /\ L = Keys'
  BY <1>3
<1>7. L \subseteq K /\ K \subseteq Thread \X Nat /\ (r.op = "return" => \A x \in L : x[1] # r.thread)
  BY <1>4, <1>5, <1>6
<1>8. SoundHistory(mirror, records, program, n, L)
  <2>1. SoundHistory(mirror, records, program, n, K)
    BY <1>2, <1>6 DEF MirrorInv, HistoryInv, Flowing, Mirrored, Unseen
  <2> QED BY <1>6, <1>7, <2>1, KeysSound
<1>9. Sound(program, n, L)
  BY <1>3, <1>8, EndSound
<1>10. Unseen' = Append(records', r)
  BY <1>1, <1>2 DEF Unseen
<1>11. CASE h.op # "command"
  <2>1. records' = records /\ program' = Apply(program, r)
    BY <1>1, <1>2, <1>11 DEF ProcessWork, ProcessCommand, ProcessExit, ProcessAnswer
  <2>2. Sound(Apply(program, r), n, L)
    BY <1>3, <1>4, <1>6, <1>7, <1>9, ApplySound
  <2>3. SoundHistory(mirror, Append(records, r), Apply(program, r), n, L)
    BY <1>3, <1>4, <1>8, <2>2, MoreSound
  <2> QED BY <1>2, <1>6, <1>10, <2>1, <2>3
<1>12. CASE h.op = "command"
  <2>1. /\ records' = Append(records, c)
        /\ program' = Apply(Apply(program, r), c)
    BY <1>1, <1>2, <1>12
    DEF ProcessWork, ProcessCommand, ProcessExit, ProcessAnswer, CommitOf, Consumed, Mirrored
  <2>2. r.op = "call"
    BY <1>4, <1>12
  <2>3. PICK q : q = Apply(program, c)
    OBVIOUS
  <2>4. q \in ProgramState
    BY <1>3, <1>4, <2>3, ApplyFacts
  <2>5. Sound(q, n, L)
    <3>1. c.id <= n
      BY <1>1, <1>3, <1>6 DEF CommitOf, Sent
    <3> QED BY <1>3, <1>4, <1>6, <1>7, <1>9, <2>3, <3>1, ApplySound
  <2>6. SoundHistory(mirror, Append(records, c), q, n, L)
    BY <1>3, <1>4, <1>8, <2>3, <2>5, MoreSound
  <2>7. Sound(Apply(q, r), n, L)
    BY <1>4, <1>6, <1>7, <2>2, <2>4, <2>5, ApplySound
  <2>8. Append(records, c) \in Seq(Record)
    BY <1>3, <1>4
  <2>9. SoundHistory(mirror, Append(Append(records, c), r), Apply(q, r), n, L)
    BY <1>3, <1>4, <2>4, <2>6, <2>7, <2>8, MoreSound
  <2>10. program' = Apply(q, r)
    BY <1>3, <1>4, <2>1, <2>2, <2>3, CommitFirst
  <2> QED BY <1>2, <1>6, <1>10, <2>1, <2>9, <2>10
<1> QED BY <1>11, <1>12

\* The delivered message's record is no longer left out, but consumed.
LEMMA OtherHistory ==
  ASSUME MirrorInv,
         \/ Push \/ Wake \/ FutureGet \/ CliQuit \/ Leave \/ Join
         \/ Poll \/ TakeQueue \/ Reset \/ TakeSelf \/ TakeAnswer \/ AllReceived \/ Consume
         \/ TurnEnds \/ DrainRuntime \/ DrainUser \/ DrainAdapter \/ Stopped \/ Answers
         \/ UNCHANGED ivars
  PROVE  HistoryInv'
<1> SUFFICES ASSUME Flowing', Mirrored' PROVE HistoryInv'
  BY DEF HistoryInv
<1>1. ~(DrainRuntime \/ DrainUser \/ DrainAdapter \/ Stopped)
  BY DEF DrainRuntime, DrainUser, DrainAdapter, Stopped, Flowing, loop
<1>2. UNCHANGED <<kind, sends, program, mirror>> /\ Flowing
  BY <1>1 DEF Push, Wake, FutureGet, CliQuit, Leave, Join, Poll, TakeQueue, Reset, TakeSelf,
    TakeAnswer, AllReceived, Consume, TurnEnds, Answers, ivars, ui, loop, views, Flowing
<1>3. Keys' = Keys
  <2>1. CASE UNCHANGED ivars
    <3>1. UNCHANGED <<Drafted, queue, self, Rest, serving, answers>>
      BY <2>1 DEF ivars, ui, loop, Drafted, Rest
    <3> QED BY <3>1, StillPlaces DEF MirrorInv, CarrierInv
  <2> QED BY <1>1, <2>1, PushPlaces, TakeQueuePlaces, TakeSelfPlaces, TakeAnswerPlaces,
             AnswersPlaces, QuietPlaces DEF MirrorInv, CarrierInv
<1>4. Unseen' = Unseen
  <2>1. CASE Consume
    BY <1>2, <2>1 DEF Consume, Unseen, Consumed, Mirrored
  <2>2. CASE Poll \/ TakeQueue \/ Reset \/ TakeSelf \/ TakeAnswer \/ AllReceived \/ TurnEnds
    BY <2>2 DEF Poll, TakeQueue, Reset, TakeSelf, TakeAnswer, AllReceived, TurnEnds, Unseen, views
  <2>3. CASE \/ Push \/ Wake \/ FutureGet \/ CliQuit \/ Leave \/ Join \/ Answers \/ UNCHANGED ivars
    BY <2>3 DEF Push, Wake, FutureGet, CliQuit, Leave, Join, Answers, ivars, loop, views, Unseen
  <2> QED BY <1>1, <2>1, <2>2, <2>3
<1> QED BY <1>2, <1>3, <1>4 DEF MirrorInv, HistoryInv, Mirrored

LEMMA SendHistory ==
  ASSUME MirrorInv,
         ArenaSyscall \/ NullExit \/ CliExit \/ ButtonExit \/ \E t \in Thread : CliSend(t) \/ TuiSend(t)
  PROVE  HistoryInv'
<1>0. {"work", "command", "exit"} \subseteq Ops /\ Main \in Thread
  BY InterfaceAssumption DEF Ops
<1>1. CASE ArenaSyscall
  <2>1. at = "choose" /\ arena # <<>> /\ Begin(Head(arena), "command", TRUE) /\ arena \in Seq(Thread)
    BY <1>1 DEF ArenaSyscall, MirrorInv, CarrierInv, ITypeInv, UiType
  <2>2. Head(arena) \in Thread
    BY <2>1
  <2> QED BY <1>0, <2>1, <2>2, BeginHistory
<1>2. CASE NullExit \/ CliExit \/ ButtonExit
  <2>1. at \in {"choose", "idle"} /\ Begin(Main, "exit", FALSE)
    BY <1>2 DEF NullExit, CliExit, ButtonExit, Running
  <2> QED BY <1>0, <2>1, BeginHistory
<1>3. ASSUME NEW t \in Thread, CliSend(t) \/ TuiSend(t) PROVE HistoryInv'
  <2>1. at = "choose" /\ \E op \in Ops : Begin(t, op, FALSE)
    BY <1>0, <1>3 DEF CliSend, TuiSend, Running
  <2> QED BY <2>1, BeginHistory
<1> QED BY <1>1, <1>2, <1>3

LEMMA MirrorNext == MirrorInv /\ [INext]_ivars => MirrorInv'
<1> SUFFICES ASSUME MirrorInv, [INext]_ivars PROVE MirrorInv'
  OBVIOUS
<1>1. CarrierInv'
  BY CarrierNext DEF MirrorInv
<1>2. HistoryInv'
  <2>1. CASE Automatic \/ Chosen
    BY <2>1, SendHistory, OtherHistory, RenderHistory DEF Automatic, Chosen
  <2>2. CASE Runs
    BY <2>2, ProcessHistory, OtherHistory DEF Runs
  <2> QED BY <2>1, <2>2, OtherHistory DEF INext
<1> QED BY <1>1, <1>2 DEF MirrorInv

\* Every state of the program that the mirror has still to pass through, up to
\* the runtime's own, holds an answer due on each thread whose message it has
\* seen and that is under way.
THEOREM MirrorInvariant == ISpec => []MirrorInv
BY MirrorInit, MirrorNext, PTL DEF ISpec

\* The observer's Program, once it has applied what it was given, is the
\* runtime's, although a command's commit is consumed before its call and the
\* delivered message last: for any number of threads, messages and frames.
THEOREM MirrorReplaysCorrect == ISpec => []MirrorReplays
<1>1. MirrorInv => MirrorReplays
  <2> SUFFICES ASSUME MirrorInv, Mirrored, Flowing PROVE Replay(mirror, Unseen) = program
    BY DEF MirrorReplays, Mirrored, Flowing, Unseen
  <2>1. Unseen \in Seq(Record) /\ mirror \in ProgramState
    <3>1. records \in Seq(Record) /\ mirror \in ProgramState
      BY DEF MirrorInv, CarrierInv, ITypeInv, ViewType
    <3>2. run = "consume" => RecordOf(Head(todos)) \in Record
      BY HeadOfTodos DEF MirrorInv, CarrierInv, ITypeInv, LoopType
    <3> QED BY <3>1, <3>2 DEF Unseen
  <2>2. SoundHistory(mirror, Unseen, program, sends, Keys)
    BY DEF MirrorInv, HistoryInv
  <2> QED BY <2>1, <2>2, EndSound
<1> QED BY <1>1, MirrorInvariant, PTL

\* The mirror, however late it is, never shows a thread's answer before the
\* interface may send on that thread again, so that what MessageEditor sends
\* meets UI::send's CHECK.
THEOREM ShownAnsweredCorrect == ISpec => []ShownAnswered
<1>1. MirrorInv => ShownAnswered
  <2> SUFFICES ASSUME MirrorInv, Mirrored, ~stop, NEW t \in pending \ mirror.due
               PROVE  \E m \in Carriers(t) : m.id \notin ToSet(mirror.trace[t])
    BY DEF ShownAnswered, Mirrored
  <2>1. Flowing
    BY DEF MirrorInv, CarrierInv, ITypeInv, LoopType
  <2>2. PICK x \in Keys : x[1] = t
    BY <2>1 DEF MirrorInv, CarrierInv, MarkInv
  <2>3. PICK m \in UnderWay : x = <<m.thread, m.id>>
    BY DEF Keys, KeysOf
  <2>4. Sound(mirror, sends, Keys)
    <3>1. SoundHistory(mirror, Unseen, program, sends, Keys)
      BY <2>1 DEF MirrorInv, HistoryInv
    <3>2. PICK f \in Histories(Unseen) :
            f[0] = mirror /\ \A i \in 0 .. Len(Unseen) : Sound(f[i], sends, Keys)
      BY <3>1 DEF SoundHistory, Replays
    <3>3. 0 \in 0 .. Len(Unseen)
      <4>1. records \in Seq(Record)
        BY DEF MirrorInv, CarrierInv, ITypeInv, ViewType
      <4>2. run = "consume" => RecordOf(Head(todos)) \in Record
        BY HeadOfTodos DEF MirrorInv, CarrierInv, ITypeInv, LoopType
      <4>3. Unseen \in Seq(Record)
        BY <4>1, <4>2 DEF Unseen
      <4> QED BY <4>3
    <3> QED BY <3>2, <3>3
  <2>5. m.id \notin ToSet(mirror.trace[t])
    BY <2>2, <2>3, <2>4 DEF Sound
  <2>6. m \in Carriers(t)
    BY <2>2, <2>3, CarriersAre
  <2> QED BY <2>5, <2>6
<1> QED BY <1>1, MirrorInvariant, PTL
=============================================================================
