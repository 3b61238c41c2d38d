---------------------------- MODULE ProgramProofs ----------------------------
(***************************************************************************)
(* Proofs about Program, for every arena, any set of threads and agents    *)
(* and any number of messages.                                             *)
(***************************************************************************)
EXTENDS Program, FiniteSetTheorems, SequenceTheorems, TLAPS

\* Appending to a sequence.
LEMMA Pushed ==
  ASSUME NEW S, NEW s \in Seq(S), NEW e \in S
  PROVE  /\ Append(s, e) \in Seq(S)
         /\ Len(Append(s, e)) = Len(s) + 1
         /\ \A i \in 1 .. Len(s) : Append(s, e)[i] = s[i]
         /\ Append(s, e)[Len(s) + 1] = e
  OBVIOUS

\* Cutting a sequence to its first d elements.
LEMMA Cut ==
  ASSUME NEW S, NEW s \in Seq(S), NEW d \in 0 .. Len(s)
  PROVE  /\ SubSeq(s, 1, d) \in Seq(S)
         /\ Len(SubSeq(s, 1, d)) = d
         /\ \A i \in 1 .. d : SubSeq(s, 1, d)[i] = s[i]
  OBVIOUS

-----------------------------------------------------------------------------
(* The steps of the specification, one by one *)

LEMMA UserExists == user \in Agent /\ runtime \in Agent /\ MainThread \in Thread
  BY ArenaAssumption

LEMMA TopType ==
  ASSUME TypeOK, NEW t \in Thread, stack[t] # <<>>
  PROVE  Len(stack[t]) \in 1 .. Len(stack[t]) /\ Top(t) \in Frame
<1>1. stack[t] \in Seq(Frame)
  BY DEF TypeOK
<1>2. Len(stack[t]) \in 1 .. Len(stack[t])
  BY <1>1
<1>. QED
  BY <1>1, <1>2 DEF Top

LEMMA NextIds ==
  ASSUME TypeOK, NEW n \in Nat
  PROVE  NextId(n) \in Nat /\ NextId(n) >= lastId /\ (n > 0 => NextId(n) > lastId)
  BY DEF TypeOK, NextId

\* The records of a command: its message and one for each agent created.
LEMMA CommandIds ==
  ASSUME TypeOK, NEW a, NEW m, NEW new, NEW f, CallRuntime(a, m, new, f)
  PROVE  /\ 1 + Cardinality(new) \in Nat
         /\ lastId' \in Nat /\ lastId' >= NextId(1)
<1>1. Cardinality(new) \in Nat
  BY FS_CardinalityType DEF CallRuntime
<1>. QED
  BY <1>1 DEF CallRuntime, NextId, TypeOK

\* What an agent posts is a message.
LEMMA PostsAreMessages ==
  ASSUME TypeOK, NEW t \in Thread, NEW a \in Agent, NEW m \in Posts(a, t)
  PROVE  m \in Message /\ m.thread = t
<1>1. NoId \in Nat /\ lastId + 1 \in Nat /\ TopIds(t) \subseteq Nat
  <2>1. lastId + 1 \in Nat /\ NoId \in Nat
    BY DEF TypeOK, NoId
  <2>2. ASSUME stack[t] # <<>>  PROVE Top(t).id \in Nat
    BY <2>2, TopType DEF Frame
  <2>. QED  BY <2>1, <2>2 DEF TopIds
<1>2. [agent |-> user, clone |-> FALSE] \in Address /\ NoAddress \in Address
  BY UserExists DEF Address
<1>3. \A id \in Nat, s \in SUBSET Tag :
        Reply(t, id, s) \in Message /\ Reply(t, id, s).thread = t
  BY <1>2 DEF Reply, Message, NoId
<1>4. \A id \in Nat, addr \in Address, s \in SUBSET Tag :
        Request(t, id, addr, s) \in Message /\ Request(t, id, addr, s).thread = t
  BY DEF Request, Message, NoId
<1>5. CASE a = Holder(t)
  <2>1. \/ \E id \in Nat, s \in SUBSET Tag : m = Reply(t, id, s)
        \/ \E id \in Nat, addr \in Address, s \in SUBSET Tag : m = Request(t, id, addr, s)
    BY <1>1, <1>2, <1>5 DEF Posts
  <2>. QED  BY <2>1, <1>3, <1>4
<1>6. CASE a # Holder(t)
  <2>1. m = Request(t, NoId, [agent |-> user, clone |-> FALSE], {})
    BY <1>6 DEF Posts
  <2>. QED  BY <2>1, <1>1, <1>2, <1>4
<1>. QED
  BY <1>5, <1>6

LEMMA Steps ==
  ASSUME TypeOK, Next
  PROVE  \/ \E a \in Agent, b \in Agent, m \in Message :
              /\ MayPost(a, m.thread)
              /\ Return(a, m, b) \/ Call(a, m, b) \/ CallClone(a, m, b) \/ Reject(a, m, b)
         \/ \E a \in Agent, m \in Message : Data(a, m)
         \/ \E a \in Agent, b \in Agent : Died(a, b)
         \/ \E a \in Agent, m \in Message, new \in SUBSET Agent :
              \E f \in [new -> SUBSET Flag] : CallRuntime(a, m, new, f)
<1>0. CASE \E t \in Thread : \E a \in agents :
             \E m \in Posts(a, t), new \in SUBSET (Agent \ agents) :
               \E f \in [new -> SUBSET Flag] : Command(a, m, new, f)
  BY <1>0, PostsAreMessages DEF Command, TypeOK
<1>1. CASE \E t \in Thread : \E a \in agents : \E m \in Posts(a, t), b \in Agent : Route(a, m, b)
  BY <1>1, PostsAreMessages DEF Route, TypeOK
<1>2. CASE \E t \in Thread, a \in agents : Note(a, DataMessage(t))
  <2>1. \A t \in Thread : DataMessage(t) \in Message
    BY DEF DataMessage, Message, NoId, Address
  <2>. QED  BY <1>2, <2>1 DEF Note, TypeOK
<1>3. CASE \E a, b \in agents : Died(a, b)
  BY <1>3 DEF TypeOK
<1>. QED
  BY <1>0, <1>1, <1>2, <1>3 DEF Next

LEMMA PendingType ==
  ASSUME TypeOK, NEW t, NEW a, NEW b
  PROVE  PendingAfter(t, a, b) \in [Thread -> BOOLEAN]
<1>. DEFINE e == IF a = user /\ b # user THEN TRUE
                 ELSE IF b = user THEN FALSE ELSE pending[t]
<1>1. CASE t \notin Thread
  BY <1>1 DEF PendingAfter, TypeOK
<1>2. CASE t \in Thread
  <2>1. pending[t] \in BOOLEAN  BY <1>2 DEF TypeOK
  <2>2. e \in BOOLEAN  BY <2>1
  <2>3. pending \in [Thread -> BOOLEAN]  BY DEF TypeOK
  <2>4. [pending EXCEPT ![t] = e] \in [Thread -> BOOLEAN]
    <3>. HIDE DEF e
    <3>. QED BY <2>2, <2>3, Zenon
  <2>. QED  BY <2>4 DEF PendingAfter
<1>. QED
  BY <1>1, <1>2

\* apply's three ways to change a thread, for types.
LEMMA CallTypes ==
  ASSUME TypeOK, NEW t \in Thread, NEW a \in Agent, NEW b \in Agent,
         NEW s \in SUBSET Tag, NEW id \in Nat, ApplyCall(t, a, b, s, id)
  PROVE  /\ stack' \in [Thread -> Seq(Frame)]
         /\ obligation' \in [Agent -> Int]
         /\ tags' \in [Agent -> SUBSET Tag]
         /\ pending' \in [Thread -> BOOLEAN]
<1>1. [id |-> id, from |-> a, to |-> b] \in Frame
  BY DEF Frame
<1>2. Append(stack[t], [id |-> id, from |-> a, to |-> b]) \in Seq(Frame)
  BY <1>1, Pushed DEF TypeOK
<1>3. pending' \in [Thread -> BOOLEAN]
  BY PendingType DEF ApplyCall
<1>4. stack' \in [Thread -> Seq(Frame)]
  BY <1>2 DEF ApplyCall, TypeOK
<1>5. obligation' \in [Agent -> Int]
  BY DEF ApplyCall, TypeOK
<1>6. tags' \in [Agent -> SUBSET Tag]
  BY DEF ApplyCall, TypeOK, TagsAfter
<1>. QED
  BY <1>3, <1>4, <1>5, <1>6 DEF ApplyCall

LEMMA ReturnTypes ==
  ASSUME TypeOK, NEW t \in Thread, NEW a \in Agent, NEW b \in Agent,
         NEW s \in SUBSET Tag, stack[t] # <<>>, ApplyReturn(t, a, b, s)
  PROVE  /\ stack' \in [Thread -> Seq(Frame)]
         /\ obligation' \in [Agent -> Int]
         /\ tags' \in [Agent -> SUBSET Tag]
         /\ pending' \in [Thread -> BOOLEAN]
         /\ lastId' \in Nat
<1>1. stack[t] \in Seq(Frame) /\ Len(stack[t]) - 1 \in 0 .. Len(stack[t])
  BY DEF TypeOK
<1>2. SubSeq(stack[t], 1, Len(stack[t]) - 1) \in Seq(Frame)
  BY <1>1, Cut
<1>3. pending' \in [Thread -> BOOLEAN]
  BY PendingType DEF ApplyReturn
<1>4. lastId' \in Nat
  BY NextIds DEF ApplyReturn
<1>. QED
  BY <1>2, <1>3, <1>4 DEF ApplyReturn, TypeOK, TagsAfter

LEMMA ReleasedFinite ==
  ASSUME TypeOK, NEW t \in Thread, NEW d \in 0 .. Len(stack[t]), NEW b
  PROVE  IsFiniteSet(Released(t, d, b)) /\ Cardinality(Released(t, d, b)) \in Nat
<1>1. d + 1 \in Int /\ Len(stack[t]) \in Int
  BY DEF TypeOK
<1>2. IsFiniteSet(d + 1 .. Len(stack[t]))
  BY <1>1, FS_Interval
<1>3. Released(t, d, b) \subseteq d + 1 .. Len(stack[t])
  BY DEF Released
<1>. QED
  BY <1>2, <1>3, FS_Subset, FS_CardinalityType

LEMMA RewindTypes ==
  ASSUME TypeOK, NEW t \in Thread, NEW a \in Agent, NEW b \in Agent,
         ApplyRewind(t, a, b)
  PROVE  TypeOK'
<1>1. PICK d \in 0 .. Len(stack[t]) :
        /\ stack' = [stack EXCEPT ![t] = SubSeq(@, 1, d)]
        /\ obligation' = [c \in Agent |-> obligation[c] - Cardinality(Released(t, d, c))]
        /\ pending' = PendingAfter(t, a, b)
        /\ lastId' = NextId(1)
        /\ UNCHANGED <<agents, home, flags, tags>>
  BY DEF ApplyRewind
<1>2. SubSeq(stack[t], 1, d) \in Seq(Frame)
  BY Cut DEF TypeOK
<1>3. obligation' \in [Agent -> Int]
  BY <1>1, ReleasedFinite DEF TypeOK
<1>4. pending' \in [Thread -> BOOLEAN]
  BY <1>1, PendingType
<1>5. stack' \in [Thread -> Seq(Frame)]
  BY <1>1, <1>2 DEF TypeOK
<1>6. lastId' \in Nat
  BY <1>1, NextIds
<1>7. /\ agents' \subseteq Agent /\ home' \in [Agent -> Home]
      /\ flags' \in [Agent -> SUBSET Flag] /\ tags' \in [Agent -> SUBSET Tag]
  BY <1>1 DEF TypeOK
<1>. QED
  BY <1>3, <1>4, <1>5, <1>6, <1>7 DEF TypeOK

-----------------------------------------------------------------------------
(* Type correctness *)

LEMMA CreateTypes ==
  ASSUME TypeOK, NEW new, NEW h \in Home, NEW f \in [new -> SUBSET Flag],
         ApplyCreate(new, h, f)
  PROVE  /\ agents' \subseteq Agent
         /\ home' \in [Agent -> Home]
         /\ flags' \in [Agent -> SUBSET Flag]
  BY DEF ApplyCreate, TypeOK

LEMMA MessageParts ==
  ASSUME TypeOK, NEW m \in Message, NEW a \in Agent
  PROVE  /\ m.thread \in Thread
         /\ HomeOf(m.thread) \in Home
         /\ Offered(a, m) \in SUBSET Tag
         /\ m.to # NoAddress => m.to.agent \in Agent
  BY DEF Message, HomeOf, Home, Offered, TypeOK, Address

\* The holder whose answer is accepted has a frame to answer.
LEMMA ReturnsHaveFrames ==
  ASSUME NEW a, NEW m, IsReturn(a, m)
  PROVE  stack[m.thread] # <<>>
  BY DEF IsReturn, TopIs

\* The agent a thread expects an answer from is an agent.
LEMMA HolderType ==
  ASSUME TypeOK, NEW t \in Thread
  PROVE  Holder(t) \in Agent
  BY UserExists, TopType DEF Holder, Frame

LEMMA TypeStep ==
  ASSUME TypeOK, Next
  PROVE  TypeOK'
<1>1. ASSUME NEW a \in Agent, NEW b \in Agent, NEW m \in Message, Return(a, m, b)
      PROVE  TypeOK'
  <2>1. stack[m.thread] # <<>>
    BY <1>1, ReturnsHaveFrames DEF Return
  <2>2. /\ ApplyReturn(m.thread, a, b, Offered(a, m))
        /\ UNCHANGED <<agents, home, flags>>
    BY <1>1 DEF Return
  <2>3. /\ stack' \in [Thread -> Seq(Frame)] /\ obligation' \in [Agent -> Int]
        /\ tags' \in [Agent -> SUBSET Tag] /\ pending' \in [Thread -> BOOLEAN]
        /\ lastId' \in Nat
    BY <2>1, <2>2, MessageParts, ReturnTypes
  <2>. QED  BY <2>2, <2>3 DEF TypeOK
<1>2. ASSUME NEW a \in Agent, NEW b \in Agent, NEW m \in Message, Call(a, m, b)
      PROVE  TypeOK'
  <2>1. NextId(1) \in Nat
    BY NextIds
  <2>2. /\ ApplyCall(m.thread, a, b, Offered(a, m), NextId(1))
        /\ lastId' = NextId(1) /\ UNCHANGED <<agents, home, flags>>
    BY <1>2 DEF Call
  <2>3. /\ stack' \in [Thread -> Seq(Frame)] /\ obligation' \in [Agent -> Int]
        /\ tags' \in [Agent -> SUBSET Tag] /\ pending' \in [Thread -> BOOLEAN]
    BY <2>1, <2>2, MessageParts, CallTypes
  <2>. QED  BY <2>1, <2>2, <2>3 DEF TypeOK
<1>3. ASSUME NEW a \in Agent, NEW b \in Agent, NEW m \in Message, CallClone(a, m, b)
      PROVE  TypeOK'
  <2>. DEFINE f == [c \in {b} |-> flags[m.to.agent] \ {"CLONE"}]
  <2>1. NextId(2) \in Nat
    BY NextIds
  <2>2. /\ ApplyCall(m.thread, a, b, Offered(a, m), NextId(2))
        /\ ApplyCreate({b}, HomeOf(m.thread), f)
        /\ lastId' = NextId(2)
    BY <1>3 DEF CallClone
  <2>3. flags[m.to.agent] \ {"CLONE"} \in SUBSET Flag
    BY <1>3, MessageParts DEF CallClone, IsCall, Resolves, TypeOK
  <2>4. f \in [{b} -> SUBSET Flag]
    BY <2>3
  <2>. HIDE DEF f
  <2>5. /\ stack' \in [Thread -> Seq(Frame)] /\ obligation' \in [Agent -> Int]
        /\ tags' \in [Agent -> SUBSET Tag] /\ pending' \in [Thread -> BOOLEAN]
    BY <2>1, <2>2, MessageParts, CallTypes
  <2>6. /\ agents' \subseteq Agent /\ home' \in [Agent -> Home]
        /\ flags' \in [Agent -> SUBSET Flag]
    BY <2>2, <2>4, MessageParts, CreateTypes
  <2>. QED  BY <2>1, <2>2, <2>5, <2>6 DEF TypeOK
<1>4. ASSUME NEW a \in Agent, NEW b \in Agent, NEW m \in Message, Reject(a, m, b)
      PROVE  TypeOK'
  BY <1>4, MessageParts, HolderType, RewindTypes DEF Reject
<1>5. ASSUME NEW a \in Agent, NEW m \in Message, Data(a, m)
      PROVE  TypeOK'
  <2>1. lastId' \in Nat
    BY <1>5, NextIds DEF Data
  <2>. QED  BY <1>5, <2>1 DEF Data, TypeOK
<1>6. ASSUME NEW a \in Agent, NEW b \in Agent, Died(a, b)
      PROVE  TypeOK'
  <2>1. HomeThread(a) \in Thread
    BY UserExists DEF HomeThread, TypeOK, Home
  <2>. QED  BY <1>6, <2>1, RewindTypes DEF Died
<1>7. ASSUME NEW a \in Agent, NEW m \in Message, NEW new \in SUBSET Agent,
             NEW f \in [new -> SUBSET Flag], CallRuntime(a, m, new, f)
      PROVE  TypeOK'
  <2>1. NextId(1) \in Nat /\ lastId' \in Nat
    BY <1>7, NextIds, CommandIds
  <2>2. /\ ApplyCall(m.thread, a, runtime, Offered(a, m), NextId(1))
        /\ ApplyCreate(new, HomeOf(m.thread), f)
    BY <1>7 DEF CallRuntime
  <2>3. /\ stack' \in [Thread -> Seq(Frame)] /\ obligation' \in [Agent -> Int]
        /\ tags' \in [Agent -> SUBSET Tag] /\ pending' \in [Thread -> BOOLEAN]
    BY <2>1, <2>2, MessageParts, CallTypes, UserExists
  <2>4. /\ agents' \subseteq Agent /\ home' \in [Agent -> Home]
        /\ flags' \in [Agent -> SUBSET Flag]
    BY <2>2, MessageParts, CreateTypes
  <2>. QED  BY <2>1, <2>3, <2>4 DEF TypeOK
<1>. QED
  BY Steps, <1>1, <1>2, <1>3, <1>4, <1>5, <1>6, <1>7

LEMMA TypeInit ==
  ASSUME Init
  PROVE  TypeOK
  BY ArenaAssumption DEF Init, TypeOK, Founders, Home, Flag

\* Every variable of the program keeps its type, the stacks included.
THEOREM TypeCorrect == Spec => []TypeOK
<1>1. TypeOK /\ UNCHANGED vars => TypeOK'
  BY DEF TypeOK, vars
<1>. QED
  BY TypeInit, TypeStep, <1>1, PTL DEF Spec

-----------------------------------------------------------------------------
(* What a step does to the stacks: it pushes a frame on one thread, cuts one  *)
(* thread to a prefix, or leaves them alone.                                  *)

Push(t, e) == stack' = [stack EXCEPT ![t] = Append(@, e)]
Trim(t, d) == stack' = [stack EXCEPT ![t] = SubSeq(@, 1, d)]

\* A frame is pushed for a call of the holder, to an agent in scope, under an
\* identifier above every earlier one.
CallPush(t) ==
  \E b \in Agent, id \in Nat :
    /\ Push(t, [id |-> id, from |-> Holder(t), to |-> b])
    /\ b \in agents' /\ home'[b] \in {Global, HomeOf(t)}
    /\ id > lastId /\ lastId' \in Nat /\ lastId' >= id

LEMMA PushFacts ==
  ASSUME TypeOK, NEW t \in Thread, NEW e \in Frame, Push(t, e)
  PROVE  /\ Len(stack'[t]) = Len(stack[t]) + 1
         /\ stack'[t][Len(stack[t]) + 1] = e
         /\ \A i \in 1 .. Len(stack[t]) : stack'[t][i] = stack[t][i]
         /\ \A u \in Thread \ {t} : stack'[u] = stack[u]
         /\ Len(stack[t]) \in Nat
<1>1. stack[t] \in Seq(Frame) /\ stack'[t] = Append(stack[t], e)
  BY DEF TypeOK, Push
<1>2. \A u \in Thread \ {t} : stack'[u] = stack[u]
  BY DEF TypeOK, Push
<1>. QED
  BY <1>1, <1>2, Pushed

LEMMA TrimFacts ==
  ASSUME TypeOK, NEW t \in Thread, NEW d \in 0 .. Len(stack[t]), Trim(t, d)
  PROVE  /\ Len(stack'[t]) = d
         /\ \A i \in 1 .. d : stack'[t][i] = stack[t][i]
         /\ \A u \in Thread \ {t} : stack'[u] = stack[u]
         /\ Len(stack[t]) \in Nat
<1>1. stack[t] \in Seq(Frame) /\ stack'[t] = SubSeq(stack[t], 1, d)
  BY DEF TypeOK, Trim
<1>2. \A u \in Thread \ {t} : stack'[u] = stack[u]
  BY DEF TypeOK, Trim
<1>. QED
  BY <1>1, <1>2, Cut

\* The parts of a call: the message of the holder a to b.
Called(t, a, b, s) ==
  \E id \in Nat :
    /\ ApplyCall(t, a, b, s, id)
    /\ a = Holder(t)
    /\ b \in agents' /\ home'[b] \in {Global, HomeOf(t)}
    /\ id > lastId /\ lastId' \in Nat /\ lastId' >= id

\* The callee is an agent in scope, a clone made in scope, or the runtime.
LEMMA CallParts ==
  ASSUME TypeOK, NEW a \in Agent, NEW m \in Message
  PROVE  /\ \A b \in Agent : Call(a, m, b) \/ CallClone(a, m, b) =>
              Called(m.thread, a, b, Offered(a, m))
         /\ \A new \in SUBSET Agent : \A f : CallRuntime(a, m, new, f) =>
              Called(m.thread, a, runtime, Offered(a, m))
<1>0. /\ NextId(1) \in Nat /\ NextId(1) > lastId /\ NextId(1) >= NextId(1)
      /\ NextId(2) \in Nat /\ NextId(2) > lastId /\ NextId(2) >= NextId(2)
  BY NextIds
<1>1. ASSUME NEW b \in Agent, Call(a, m, b)
      PROVE  Called(m.thread, a, b, Offered(a, m))
  <2>1. /\ ApplyCall(m.thread, a, b, Offered(a, m), NextId(1)) /\ lastId' = NextId(1)
        /\ UNCHANGED <<agents, home>> /\ a = Holder(m.thread)
        /\ Visible(m.thread, b)
    BY <1>1 DEF Call, IsCall, Resolves
  <2>. QED  BY <1>0, <2>1 DEF Called, Visible
<1>2. ASSUME NEW b \in Agent, CallClone(a, m, b)
      PROVE  Called(m.thread, a, b, Offered(a, m))
  <2>1. /\ ApplyCall(m.thread, a, b, Offered(a, m), NextId(2)) /\ lastId' = NextId(2)
        /\ ApplyCreate({b}, HomeOf(m.thread), [c \in {b} |-> flags[m.to.agent] \ {"CLONE"}])
        /\ a = Holder(m.thread)
    BY <1>2 DEF CallClone, IsCall
  <2>2. b \in agents' /\ home'[b] = HomeOf(m.thread)
    BY <2>1 DEF ApplyCreate
  <2>. QED  BY <1>0, <2>1, <2>2 DEF Called
<1>3. ASSUME NEW new \in SUBSET Agent, NEW f, CallRuntime(a, m, new, f)
      PROVE  Called(m.thread, a, runtime, Offered(a, m))
  <2>1. /\ ApplyCall(m.thread, a, runtime, Offered(a, m), NextId(1))
        /\ ApplyCreate(new, HomeOf(m.thread), f)
        /\ a = Holder(m.thread) /\ Visible(m.thread, runtime)
    BY <1>3 DEF CallRuntime, IsCall, Resolves
  <2>2. runtime \in agents' /\ home'[runtime] \in {Global, HomeOf(m.thread)}
    BY <2>1, UserExists DEF ApplyCreate, Visible
  <2>3. lastId' \in Nat /\ lastId' >= NextId(1)
    BY <1>3, CommandIds
  <2>. QED  BY <1>0, <2>1, <2>2, <2>3 DEF Called
<1>. QED
  BY <1>1, <1>2, <1>3

LEMMA Effects ==
  ASSUME TypeOK, Next
  PROVE  \/ \E t \in Thread : CallPush(t)
         \/ /\ \/ \E t \in Thread : \E d \in 0 .. Len(stack[t]) : Trim(t, d)
               \/ UNCHANGED stack
            /\ lastId' \in Nat /\ lastId' >= lastId
<1>1. ASSUME NEW a \in Agent, NEW b \in Agent, NEW m \in Message, Return(a, m, b)
      PROVE  /\ \E d \in 0 .. Len(stack[m.thread]) : Trim(m.thread, d)
             /\ lastId' = NextId(1)
  <2>1. stack[m.thread] # <<>> /\ ApplyReturn(m.thread, a, b, Offered(a, m))
    BY <1>1, ReturnsHaveFrames DEF Return
  <2>2. Len(stack[m.thread]) - 1 \in 0 .. Len(stack[m.thread])
    BY <2>1, MessageParts, TopType
  <2>. QED  BY <2>1, <2>2 DEF ApplyReturn, Trim
<1>2. ASSUME NEW t \in Thread, NEW a \in Agent, NEW b \in Agent, NEW s, Called(t, a, b, s)
      PROVE  CallPush(t)
  BY <1>2 DEF Called, ApplyCall, Push, CallPush
<1>3. ASSUME NEW t \in Thread, NEW a \in Agent, NEW b \in Agent, ApplyRewind(t, a, b)
      PROVE  /\ \E d \in 0 .. Len(stack[t]) : Trim(t, d)
             /\ lastId' = NextId(1)
  BY <1>3 DEF ApplyRewind, Trim
<1>4. \A a \in Agent, b \in Agent, m \in Message :
        Call(a, m, b) \/ CallClone(a, m, b) => \E t \in Thread : CallPush(t)
  BY <1>2, CallParts, MessageParts
<1>5. \A a \in Agent, m \in Message, new \in SUBSET Agent : \A f :
        CallRuntime(a, m, new, f) => \E t \in Thread : CallPush(t)
  BY <1>2, CallParts, MessageParts, UserExists
<1>6. \A a \in Agent, b \in Agent, m \in Message : Reject(a, m, b) =>
        ApplyRewind(m.thread, Holder(m.thread), b) /\ m.thread \in Thread
  BY MessageParts DEF Reject
<1>7. \A a \in Agent, b \in Agent : Died(a, b) =>
        ApplyRewind(HomeThread(a), a, b) /\ HomeThread(a) \in Thread
  BY UserExists DEF Died, HomeThread, TypeOK, Home
<1>8. \A a \in Agent, m \in Message : Data(a, m) => UNCHANGED stack /\ lastId' = NextId(1)
  BY DEF Data
<1>9. NextId(1) \in Nat /\ NextId(1) >= lastId
  BY NextIds
<1>. QED
  BY Steps, MessageParts, HolderType, <1>1, <1>3, <1>4, <1>5, <1>6, <1>7, <1>8, <1>9

-----------------------------------------------------------------------------
(* The chain of calls, the identifiers of its frames and their scope *)

\* An agent, once created, keeps its domain and its flags.
LEMMA AgentsStay ==
  ASSUME TypeOK, Next
  PROVE  /\ agents \subseteq agents'
         /\ \A a \in agents : home'[a] = home[a] /\ flags'[a] = flags[a]
<1>. DEFINE Kept == /\ agents \subseteq agents'
                    /\ \A a \in agents : home'[a] = home[a] /\ flags'[a] = flags[a]
<1>1. \A new, h, f : ApplyCreate(new, h, f) => Kept
  BY DEF ApplyCreate, TypeOK
<1>2. UNCHANGED <<agents, home, flags>> => Kept
  OBVIOUS
<1>. HIDE DEF Kept
<1>3. \A t, a, b : ApplyRewind(t, a, b) => Kept
  BY <1>2 DEF ApplyRewind
<1>4. \A a, b, m : Return(a, m, b) \/ Call(a, m, b) => Kept
  BY <1>2 DEF Return, Call
<1>5. \A a, b, m : CallClone(a, m, b) => Kept
  BY <1>1 DEF CallClone
<1>6. \A a, b, m : Reject(a, m, b) => Kept
  BY <1>3 DEF Reject
<1>7. \A a, m : Data(a, m) => Kept
  BY <1>2 DEF Data
<1>8. \A a, b : Died(a, b) => Kept
  BY <1>3 DEF Died
<1>9. \A a, m, new, f : CallRuntime(a, m, new, f) => Kept
  BY <1>1 DEF CallRuntime
<1>10. Kept
  BY Steps, <1>4, <1>5, <1>6, <1>7, <1>8, <1>9, Zenon
<1>. QED
  BY <1>10 DEF Kept

\* Pushing a call of the holder makes the callee the holder; the frame below
\* was sent to the caller.
LEMMA ChainStep ==
  ASSUME TypeOK, CallChain, Next
  PROVE  CallChain'
<1>1. ASSUME NEW t \in Thread, CallPush(t)  PROVE CallChain'
  <2>1. PICK b \in Agent, id \in Nat : Push(t, [id |-> id, from |-> Holder(t), to |-> b])
    BY <1>1 DEF CallPush
  <2>. DEFINE e == [id |-> id, from |-> Holder(t), to |-> b]
  <2>2. e \in Frame /\ e.from = Holder(t)
    BY HolderType DEF Frame
  <2>. HIDE DEF e
  <2>3. Push(t, e)
    BY <2>1 DEF e
  <2>4. SUFFICES ASSUME NEW u \in Thread, NEW i \in 1 .. Len(stack'[u])
                 PROVE  stack'[u][i].from = IF i = 1 THEN user ELSE stack'[u][i - 1].to
    BY DEF CallChain
  <2>5. CASE u # t
    BY <2>2, <2>3, <2>4, <2>5, PushFacts DEF CallChain
  <2>6. CASE u = t /\ i \in 1 .. Len(stack[t])
    <3>1. stack'[u][i] = stack[t][i] /\ (i # 1 => stack'[u][i - 1] = stack[t][i - 1])
      BY <2>2, <2>3, <2>6, PushFacts
    <3>. QED  BY <2>6, <3>1 DEF CallChain
  <2>7. CASE u = t /\ i = Len(stack[t]) + 1
    <3>1. stack'[u][i].from = Holder(t)
      BY <2>2, <2>3, <2>7, PushFacts
    <3>2. CASE stack[t] = <<>>
      BY <2>7, <3>1, <3>2 DEF Holder
    <3>3. CASE stack[t] # <<>>
      <4>1. i # 1 /\ i - 1 = Len(stack[t]) /\ i - 1 \in 1 .. Len(stack[t])
        BY <2>7, <3>3, TopType
      <4>2. stack'[u][i - 1] = Top(t)
        BY <2>2, <2>3, <2>7, <4>1, PushFacts DEF Top
      <4>. QED  BY <3>1, <3>3, <4>1, <4>2 DEF Holder
    <3>. QED  BY <3>2, <3>3
  <2>8. u = t => i \in 1 .. Len(stack[t]) \/ i = Len(stack[t]) + 1
    BY <2>2, <2>3, <2>4, PushFacts
  <2>. QED  BY <2>5, <2>6, <2>7, <2>8
<1>2. ASSUME NEW t \in Thread, NEW d \in 0 .. Len(stack[t]), Trim(t, d)  PROVE CallChain'
  <2>1. SUFFICES ASSUME NEW u \in Thread, NEW i \in 1 .. Len(stack'[u])
                 PROVE  stack'[u][i].from = IF i = 1 THEN user ELSE stack'[u][i - 1].to
    BY DEF CallChain
  <2>2. /\ i \in 1 .. Len(stack[u]) /\ stack'[u][i] = stack[u][i]
        /\ i # 1 => stack'[u][i - 1] = stack[u][i - 1]
    BY <1>2, <2>1, TrimFacts
  <2>. QED  BY <2>2 DEF CallChain
<1>3. ASSUME UNCHANGED stack  PROVE CallChain'
  BY <1>3 DEF CallChain
<1>. QED
  BY Effects, <1>1, <1>2, <1>3

LEMMA IdsStep ==
  ASSUME TypeOK, UniqueIds, Next
  PROVE  UniqueIds'
<1>0. lastId \in Nat
  BY DEF TypeOK
<1>1. ASSUME NEW t \in Thread, CallPush(t)  PROVE UniqueIds'
  <2>1. PICK b \in Agent, id \in Nat :
          /\ Push(t, [id |-> id, from |-> Holder(t), to |-> b])
          /\ id > lastId /\ lastId' \in Nat /\ lastId' >= id
    BY <1>1 DEF CallPush
  <2>. DEFINE e == [id |-> id, from |-> Holder(t), to |-> b]
               New(u, i) == u = t /\ i = Len(stack[t]) + 1
  <2>2. e \in Frame /\ e.id = id
    BY HolderType DEF Frame
  <2>. HIDE DEF e
  <2>3. Push(t, e)
    BY <2>1 DEF e
  <2>4. ASSUME NEW u \in Thread, NEW i \in 1 .. Len(stack'[u])
        PROVE  \/ New(u, i) /\ stack'[u][i].id = id
               \/ i \in 1 .. Len(stack[u]) /\ stack'[u][i] = stack[u][i]
    BY <2>1, <2>2, <2>3, PushFacts
  <2>5. ASSUME NEW u \in Thread, NEW i \in 1 .. Len(stack'[u])
        PROVE  \/ New(u, i) /\ stack'[u][i].id = id
               \/ /\ i \in 1 .. Len(stack[u]) /\ stack'[u][i] = stack[u][i]
                  /\ stack'[u][i].id \in 1 .. lastId
    BY <2>4 DEF UniqueIds
  <2>6. SUFFICES ASSUME NEW u \in Thread, NEW i \in 1 .. Len(stack'[u])
                 PROVE  /\ stack'[u][i].id \in 1 .. lastId'
                        /\ \A v \in Thread : \A j \in 1 .. Len(stack'[v]) :
                             stack'[u][i].id = stack'[v][j].id => u = v /\ i = j
    BY DEF UniqueIds
  <2>7. stack'[u][i].id \in 1 .. lastId'
    BY <1>0, <2>1, <2>5
  <2>8. ASSUME NEW v \in Thread, NEW j \in 1 .. Len(stack'[v]),
               stack'[u][i].id = stack'[v][j].id
        PROVE  u = v /\ i = j
    <3>1. CASE New(u, i)
      BY <1>0, <2>1, <2>5, <2>8, <3>1, PushFacts, <2>2, <2>3
    <3>2. CASE New(v, j)
      <4>1. stack'[v][j].id = id /\ id > lastId
        BY <2>1, <2>2, <2>3, <3>2, PushFacts
      <4>2. \/ New(u, i)
            \/ stack'[u][i].id \in 1 .. lastId
        BY <2>5
      <4>. QED  BY <1>0, <2>8, <3>2, <4>1, <4>2
    <3>3. CASE /\ i \in 1 .. Len(stack[u]) /\ stack'[u][i] = stack[u][i]
               /\ j \in 1 .. Len(stack[v]) /\ stack'[v][j] = stack[v][j]
      BY <2>8, <3>3 DEF UniqueIds
    <3>. QED  BY <2>4, <3>1, <3>2, <3>3
  <2>. QED  BY <2>7, <2>8
<1>2. ASSUME \A u \in Thread : \A i \in 1 .. Len(stack'[u]) :
               i \in 1 .. Len(stack[u]) /\ stack'[u][i] = stack[u][i],
             lastId' \in Nat, lastId' >= lastId
      PROVE  UniqueIds'
  <2>1. SUFFICES ASSUME NEW u \in Thread, NEW i \in 1 .. Len(stack'[u])
                 PROVE  /\ stack'[u][i].id \in 1 .. lastId'
                        /\ \A v \in Thread : \A j \in 1 .. Len(stack'[v]) :
                             stack'[u][i].id = stack'[v][j].id => u = v /\ i = j
    BY DEF UniqueIds
  <2>2. stack'[u][i].id \in 1 .. lastId
    BY <1>2 DEF UniqueIds
  <2>3. ASSUME NEW v \in Thread, NEW j \in 1 .. Len(stack'[v]),
               stack'[u][i].id = stack'[v][j].id
        PROVE  u = v /\ i = j
    <3>1. /\ i \in 1 .. Len(stack[u]) /\ stack'[u][i] = stack[u][i]
          /\ j \in 1 .. Len(stack[v]) /\ stack'[v][j] = stack[v][j]
      BY <1>2
    <3>. QED  BY <2>3, <3>1 DEF UniqueIds
  <2>. QED  BY <1>0, <1>2, <2>2, <2>3
<1>3. ASSUME NEW t \in Thread, NEW d \in 0 .. Len(stack[t]), Trim(t, d)
      PROVE  \A u \in Thread : \A i \in 1 .. Len(stack'[u]) :
               i \in 1 .. Len(stack[u]) /\ stack'[u][i] = stack[u][i]
  BY <1>3, TrimFacts
<1>. QED
  BY Effects, <1>1, <1>2, <1>3

LEMMA ScopeStep ==
  ASSUME TypeOK, HolderInScope, Next
  PROVE  HolderInScope'
<1>0. ASSUME NEW t \in Thread, NEW i \in 1 .. Len(stack[t])
      PROVE  stack[t][i].to \in agents' /\ home'[stack[t][i].to] \in {Global, HomeOf(t)}
  <2>1. stack[t][i].to \in agents /\ home[stack[t][i].to] \in {Global, HomeOf(t)}
    BY DEF HolderInScope
  <2>. QED  BY <2>1, AgentsStay
<1>1. ASSUME NEW t \in Thread, CallPush(t)  PROVE HolderInScope'
  <2>1. PICK b \in Agent, id \in Nat :
          /\ Push(t, [id |-> id, from |-> Holder(t), to |-> b])
          /\ b \in agents' /\ home'[b] \in {Global, HomeOf(t)}
    BY <1>1 DEF CallPush
  <2>. DEFINE e == [id |-> id, from |-> Holder(t), to |-> b]
  <2>2. e \in Frame /\ e.to = b
    BY HolderType DEF Frame
  <2>. HIDE DEF e
  <2>3. Push(t, e)
    BY <2>1 DEF e
  <2>4. SUFFICES ASSUME NEW u \in Thread, NEW i \in 1 .. Len(stack'[u])
                 PROVE  /\ stack'[u][i].to \in agents'
                        /\ home'[stack'[u][i].to] \in {Global, HomeOf(u)}
    BY DEF HolderInScope, HomeOf
  <2>5. \/ u = t /\ stack'[u][i].to = b
        \/ i \in 1 .. Len(stack[u]) /\ stack'[u][i] = stack[u][i]
    BY <2>2, <2>3, PushFacts
  <2>. QED  BY <1>0, <2>1, <2>5
<1>2. ASSUME \A u \in Thread : \A i \in 1 .. Len(stack'[u]) :
               i \in 1 .. Len(stack[u]) /\ stack'[u][i] = stack[u][i]
      PROVE  HolderInScope'
  <2>1. SUFFICES ASSUME NEW u \in Thread, NEW i \in 1 .. Len(stack'[u])
                 PROVE  /\ stack'[u][i].to \in agents'
                        /\ home'[stack'[u][i].to] \in {Global, HomeOf(u)}
    BY DEF HolderInScope, HomeOf
  <2>. QED  BY <1>0, <1>2
<1>3. ASSUME NEW t \in Thread, NEW d \in 0 .. Len(stack[t]), Trim(t, d)
      PROVE  \A u \in Thread : \A i \in 1 .. Len(stack'[u]) :
               i \in 1 .. Len(stack[u]) /\ stack'[u][i] = stack[u][i]
  BY <1>3, TrimFacts
<1>. QED
  BY Effects, <1>1, <1>2, <1>3

-----------------------------------------------------------------------------
(* Obligations: the count of an agent is the number of frames sent to it *)

CountUp(e) == obligation' = [obligation EXCEPT ![e.to] = @ + 1]
CountDown(t, d) ==
  obligation' = [c \in Agent |-> obligation[c] - Cardinality(Released(t, d, c))]

\* A RETURN releases the one frame on top.
LEMMA ReturnReleases ==
  ASSUME TypeOK, NEW a \in Agent, NEW b \in Agent, NEW m \in Message, Return(a, m, b)
  PROVE  \E t \in Thread : \E d \in 0 .. Len(stack[t]) : Trim(t, d) /\ CountDown(t, d)
<1>. DEFINE t == m.thread
            d == Len(stack[t]) - 1
<1>1. /\ stack[t] # <<>> /\ a = Holder(t) /\ t \in Thread
      /\ ApplyReturn(t, a, b, Offered(a, m))
  BY MessageParts, ReturnsHaveFrames DEF Return, IsReturn
<1>2. Len(stack[t]) \in Nat \ {0} /\ d \in 0 .. Len(stack[t]) /\ d + 1 = Len(stack[t])
  BY <1>1, TopType
<1>3. a = stack[t][Len(stack[t])].to
  BY <1>1 DEF Holder, Top
<1>4. \A c \in Agent : Released(t, d, c) = IF c = a THEN {d + 1} ELSE {}
  BY <1>2, <1>3 DEF Released
<1>5. \A c \in Agent : Cardinality(Released(t, d, c)) = IF c = a THEN 1 ELSE 0
  BY <1>4, FS_Singleton, FS_EmptySet
<1>6. obligation' = [obligation EXCEPT ![a] = obligation[a] - 1] /\ Trim(t, d)
  BY <1>1 DEF ApplyReturn, Trim
<1>. HIDE DEF d, t
<1>7. obligation \in [Agent -> Int]
  BY DEF TypeOK
<1>8. CountDown(t, d)
  <2>1. \A c \in Agent : obligation'[c] = IF c = a THEN obligation[c] - 1 ELSE obligation[c]
    BY <1>6, <1>7
  <2>2. \A c \in Agent : obligation'[c] = obligation[c] - Cardinality(Released(t, d, c))
    BY <1>5, <1>7, <2>1
  <2>3. obligation' = [c \in Agent |-> obligation'[c]]
    BY <1>6, <1>7
  <2>. QED  BY <2>2, <2>3 DEF CountDown
<1>. QED
  BY <1>1, <1>2, <1>6, <1>8

LEMMA CountEffects ==
  ASSUME TypeOK, Next
  PROVE  \/ \E t \in Thread, e \in Frame : Push(t, e) /\ CountUp(e)
         \/ \E t \in Thread : \E d \in 0 .. Len(stack[t]) : Trim(t, d) /\ CountDown(t, d)
         \/ UNCHANGED <<stack, obligation>>
<1>. DEFINE Up == \E t \in Thread, e \in Frame : Push(t, e) /\ CountUp(e)
            Down == \E t \in Thread : \E d \in 0 .. Len(stack[t]) : Trim(t, d) /\ CountDown(t, d)
            Same == UNCHANGED <<stack, obligation>>
<1>1. ASSUME NEW t \in Thread, NEW a \in Agent, NEW b \in Agent, NEW s, Called(t, a, b, s)
      PROVE  Up
  <2>0. PICK id \in Nat : ApplyCall(t, a, b, s, id)
    BY <1>1 DEF Called
  <2>. DEFINE e == [id |-> id, from |-> a, to |-> b]
  <2>1. e \in Frame /\ e.to = b
    BY DEF Frame
  <2>2. Push(t, e)
    BY <2>0 DEF ApplyCall, Push
  <2>3. obligation' = [obligation EXCEPT ![b] = @ + 1]
    BY <2>0 DEF ApplyCall
  <2>. HIDE DEF e
  <2>4. CountUp(e)
    BY <2>1, <2>3 DEF CountUp
  <2>. QED  BY <2>1, <2>2, <2>4
<1>2. ASSUME NEW t \in Thread, NEW a, NEW b, ApplyRewind(t, a, b)  PROVE Down
  BY <1>2 DEF ApplyRewind, Trim, CountDown
<1>3. \A a \in Agent, b \in Agent, m \in Message : Return(a, m, b) => Down
  BY ReturnReleases
<1>. HIDE DEF Up, Down
<1>4. \A a \in Agent, b \in Agent, m \in Message : Call(a, m, b) \/ CallClone(a, m, b) => Up
  BY <1>1, CallParts, MessageParts
<1>5. \A a \in Agent, b \in Agent, m \in Message : Reject(a, m, b) => Down
  BY <1>2, MessageParts DEF Reject
<1>6. \A a \in Agent, b \in Agent : Died(a, b) => Down
  <2>1. \A a \in Agent : HomeThread(a) \in Thread
    BY UserExists DEF HomeThread, TypeOK, Home
  <2>. QED  BY <1>2, <2>1 DEF Died
<1>7. \A a, m : Data(a, m) => Same
  BY DEF Data
<1>8. \A a \in Agent, m \in Message, new \in SUBSET Agent : \A f :
        CallRuntime(a, m, new, f) => Up
  BY <1>1, CallParts, MessageParts, UserExists
<1>. HIDE DEF Same
<1>9. Up \/ Down \/ Same
  BY Steps, <1>3, <1>4, <1>5, <1>6, <1>7, <1>8, Zenon
<1>. QED
  BY <1>9 DEF Up, Down, Same

LEMMA FramesOfIs ==
  ASSUME NEW a, NEW x
  PROVE  x \in FramesOf(a) <=>
           \E t \in Thread : \E i \in 1 .. Len(stack[t]) : x = <<t, i>> /\ stack[t][i].to = a
  BY DEF FramesOf

LEMMA AccountingStep ==
  ASSUME TypeOK, Accounting, Next
  PROVE  Accounting'
<1>0. \A a \in Agent : obligation[a] \in Int /\ obligation[a] = Cardinality(FramesOf(a))
                       /\ IsFiniteSet(FramesOf(a))
  BY DEF TypeOK, Accounting
<1>1. ASSUME NEW t \in Thread, NEW e \in Frame, Push(t, e), CountUp(e),
             NEW a \in Agent
      PROVE  IsFiniteSet(FramesOf(a)') /\ obligation'[a] = Cardinality(FramesOf(a)')
  <2>. DEFINE x == <<t, Len(stack[t]) + 1>>
  <2>0. /\ Len(stack'[t]) = Len(stack[t]) + 1 /\ Len(stack[t]) \in Nat
        /\ stack'[t][Len(stack[t]) + 1] = e
        /\ \A i \in 1 .. Len(stack[t]) : stack'[t][i] = stack[t][i]
        /\ \A u \in Thread \ {t} : stack'[u] = stack[u]
    BY <1>1, PushFacts
  <2>1. x \notin FramesOf(a)
    BY <2>0, FramesOfIs
  <2>2. \A y : y \in FramesOf(a)' <=>
          \E u \in Thread : \E i \in 1 .. Len(stack'[u]) : y = <<u, i>> /\ stack'[u][i].to = a
    BY DEF FramesOf
  <2>3. \A y : y \in FramesOf(a)' <=> y \in FramesOf(a) \/ (a = e.to /\ y = x)
    <3>1. ASSUME NEW y, y \in FramesOf(a)'
          PROVE  y \in FramesOf(a) \/ (a = e.to /\ y = x)
      <4>0. PICK u \in Thread : \E i \in 1 .. Len(stack'[u]) : y = <<u, i>> /\ stack'[u][i].to = a
        BY <2>2, <3>1
      <4>1. PICK i \in 1 .. Len(stack'[u]) : y = <<u, i>> /\ stack'[u][i].to = a
        BY <4>0
      <4>2. \/ i \in 1 .. Len(stack[u]) /\ stack'[u][i] = stack[u][i]
            \/ u = t /\ i = Len(stack[t]) + 1 /\ stack'[u][i] = e
        BY <2>0
      <4>. QED  BY <4>1, <4>2, FramesOfIs
    <3>2. ASSUME NEW y, y \in FramesOf(a)  PROVE y \in FramesOf(a)'
      <4>0. PICK u \in Thread : \E i \in 1 .. Len(stack[u]) : y = <<u, i>> /\ stack[u][i].to = a
        BY <3>2, FramesOfIs
      <4>1. PICK i \in 1 .. Len(stack[u]) : y = <<u, i>> /\ stack[u][i].to = a
        BY <4>0
      <4>2. i \in 1 .. Len(stack'[u]) /\ stack'[u][i] = stack[u][i]
        BY <2>0
      <4>. QED  BY <4>1, <4>2, <2>2
    <3>3. a = e.to => x \in FramesOf(a)'
      BY <2>0, <2>2
    <3>. QED  BY <3>1, <3>2, <3>3
  <2>. HIDE DEF x
  <2>4. FramesOf(a)' = IF a = e.to THEN FramesOf(a) \cup {x} ELSE FramesOf(a)
    BY <2>3
  <2>5. obligation'[a] = IF a = e.to THEN obligation[a] + 1 ELSE obligation[a]
    BY <1>1 DEF CountUp, TypeOK, Frame
  <2>6. /\ IsFiniteSet(FramesOf(a) \cup {x})
        /\ Cardinality(FramesOf(a) \cup {x}) = Cardinality(FramesOf(a)) + 1
    BY <1>0, <2>1, FS_AddElement
  <2>. QED  BY <1>0, <2>4, <2>5, <2>6
<1>2. ASSUME NEW t \in Thread, NEW d \in 0 .. Len(stack[t]), Trim(t, d), CountDown(t, d),
             NEW a \in Agent
      PROVE  IsFiniteSet(FramesOf(a)') /\ obligation'[a] = Cardinality(FramesOf(a)')
  <2>. DEFINE R == {t} \X Released(t, d, a)
  <2>0. /\ Len(stack'[t]) = d /\ Len(stack[t]) \in Nat
        /\ \A i \in 1 .. d : stack'[t][i] = stack[t][i]
        /\ \A u \in Thread \ {t} : stack'[u] = stack[u]
    BY <1>2, TrimFacts
  <2>1. IsFiniteSet(R) /\ Cardinality(R) = Cardinality(Released(t, d, a))
    <3>1. IsFiniteSet(Released(t, d, a)) /\ Cardinality(Released(t, d, a)) \in Nat
      BY ReleasedFinite
    <3>2. IsFiniteSet({t}) /\ Cardinality({t}) = 1
      BY FS_Singleton
    <3>. QED  BY <3>1, <3>2, FS_Product
  <2>2. \A y : y \in R <=> \E i \in d + 1 .. Len(stack[t]) : y = <<t, i>> /\ stack[t][i].to = a
    BY DEF Released
  <2>3. \A y : y \in FramesOf(a)' <=>
          \E u \in Thread : \E i \in 1 .. Len(stack'[u]) : y = <<u, i>> /\ stack'[u][i].to = a
    BY DEF FramesOf
  <2>. HIDE DEF R
  <2>4. \A y : y \in FramesOf(a)' <=> y \in FramesOf(a) /\ y \notin R
    <3>1. ASSUME NEW y, y \in FramesOf(a)'  PROVE y \in FramesOf(a) /\ y \notin R
      <4>0. PICK u \in Thread : \E i \in 1 .. Len(stack'[u]) : y = <<u, i>> /\ stack'[u][i].to = a
        BY <2>3, <3>1
      <4>1. PICK i \in 1 .. Len(stack'[u]) : y = <<u, i>> /\ stack'[u][i].to = a
        BY <4>0
      <4>2. i \in 1 .. Len(stack[u]) /\ stack'[u][i] = stack[u][i] /\ (u = t => i <= d)
        BY <2>0
      <4>3. y \in FramesOf(a)
        BY <4>1, <4>2, FramesOfIs
      <4>4. y \notin R
        BY <2>2, <4>1, <4>2
      <4>. QED  BY <4>3, <4>4
    <3>2. ASSUME NEW y, y \in FramesOf(a), y \notin R  PROVE y \in FramesOf(a)'
      <4>0. PICK u \in Thread : \E i \in 1 .. Len(stack[u]) : y = <<u, i>> /\ stack[u][i].to = a
        BY <3>2, FramesOfIs
      <4>1. PICK i \in 1 .. Len(stack[u]) : y = <<u, i>> /\ stack[u][i].to = a
        BY <4>0
      <4>2. u = t => i \in 1 .. d
        BY <2>0, <2>2, <3>2, <4>1
      <4>3. i \in 1 .. Len(stack'[u]) /\ stack'[u][i] = stack[u][i]
        BY <2>0, <4>2
      <4>. QED  BY <2>3, <4>1, <4>3
    <3>. QED  BY <3>1, <3>2
  <2>5. FramesOf(a)' = FramesOf(a) \ R
    BY <2>4
  <2>6. R \subseteq FramesOf(a)
    <3>1. ASSUME NEW y \in R  PROVE y \in FramesOf(a)
      <4>1. PICK i \in d + 1 .. Len(stack[t]) : y = <<t, i>> /\ stack[t][i].to = a
        BY <2>2
      <4>. QED  BY <2>0, <4>1, FramesOfIs
    <3>. QED  BY <3>1
  <2>7. FramesOf(a) \cap R = R
    BY <2>6
  <2>8. /\ IsFiniteSet(FramesOf(a) \ R)
        /\ Cardinality(FramesOf(a) \ R) = Cardinality(FramesOf(a)) - Cardinality(R)
    <3>1. IsFiniteSet(FramesOf(a))
      BY <1>0
    <3>2. /\ IsFiniteSet(FramesOf(a) \ R)
          /\ Cardinality(FramesOf(a) \ R)
               = Cardinality(FramesOf(a)) - Cardinality(FramesOf(a) \cap R)
      BY ONLY <3>1, FS_Difference, Zenon
    <3>. QED  BY <2>7, <3>2
  <2>9. obligation'[a] = obligation[a] - Cardinality(Released(t, d, a))
    <3>1. obligation' = [c \in Agent |-> obligation[c] - Cardinality(Released(t, d, c))]
      BY <1>2 DEF CountDown
    <3>. QED  BY <3>1, Zenon
  <2>. QED  BY <1>0, <2>1, <2>5, <2>8, <2>9
<1>3. ASSUME UNCHANGED <<stack, obligation>>  PROVE Accounting'
  BY <1>3 DEF Accounting, FramesOf
<1>. QED
  BY CountEffects, <1>1, <1>2, <1>3 DEF Accounting

-----------------------------------------------------------------------------
(* Who is waited for: the hand-over of a thread and Thread::pending *)

\* Cutting thread t to d frames hands it to the caller of the first frame cut.
LEMMA HolderAfterTrim ==
  ASSUME TypeOK, CallChain, NEW t \in Thread, NEW d \in 0 .. Len(stack[t]), Trim(t, d),
         d < Len(stack[t])
  PROVE  /\ Holder(t)' = stack[t][d + 1].from
         /\ \A u \in Thread \ {t} : Holder(u)' = Holder(u)
<1>1. /\ Len(stack'[t]) = d /\ Len(stack[t]) \in Nat
      /\ \A i \in 1 .. d : stack'[t][i] = stack[t][i]
      /\ \A u \in Thread \ {t} : stack'[u] = stack[u]
  BY TrimFacts
<1>2. \A u \in Thread \ {t} : Holder(u)' = Holder(u)
  BY <1>1 DEF Holder, Top
<1>3. stack[t][d + 1].from = IF d + 1 = 1 THEN user ELSE stack[t][d].to
  BY <1>1 DEF CallChain
<1>4. stack' \in [Thread -> Seq(Frame)]
  BY Cut DEF Trim, TypeOK
<1>5. CASE d = 0
  <2>1. stack'[t] = <<>>
    BY <1>1, <1>4, <1>5
  <2>. QED  BY <1>2, <1>3, <1>5, <2>1 DEF Holder
<1>6. CASE d # 0
  <2>1. stack'[t] # <<>> /\ stack'[t][Len(stack'[t])] = stack[t][d]
    BY <1>1, <1>6
  <2>. QED  BY <1>1, <1>2, <1>3, <1>6, <2>1 DEF Holder, Top
<1>. QED
  BY <1>5, <1>6

LEMMA HolderAfterPush ==
  ASSUME TypeOK, NEW t \in Thread, NEW e \in Frame, Push(t, e)
  PROVE  /\ Holder(t)' = e.to
         /\ \A u \in Thread \ {t} : Holder(u)' = Holder(u)
<1>1. /\ Len(stack'[t]) = Len(stack[t]) + 1 /\ Len(stack[t]) \in Nat
      /\ stack'[t][Len(stack[t]) + 1] = e
      /\ \A u \in Thread \ {t} : stack'[u] = stack[u]
  BY PushFacts
<1>2. stack'[t] # <<>>
  BY <1>1
<1>. QED
  BY <1>1, <1>2 DEF Holder, Top

\* A message from a to b on thread t: the holder hands the thread over, a
\* rewind stops at a caller that catches it or at the user, or the death of an
\* agent that catches its own rewind, or of one nobody waits for, changes nothing.
Hands(t, a, b) ==
  /\ \A u \in Thread \ {t} : Holder(u)' = Holder(u)
  /\ \/ Holder(t)' = b /\ a = Holder(t)
     \/ Holder(t)' = b /\ (b = user \/ (b \in agents /\ "CATCH" \in flags[b]))
     \/ Holder(t)' = Holder(t) /\ a # user /\ b # user

LEMMA RewindHands ==
  ASSUME TypeOK, CallChain, HolderInScope, NEW t \in Thread, NEW a, NEW b,
         ApplyRewind(t, a, b), a = Holder(t) \/ a # user
  PROVE  Hands(t, a, b)
<1>1. PICK d \in 0 .. Len(stack[t]) :
        Unwinds(t, a, d) /\ b = RewindTarget(t, a, d) /\ Trim(t, d)
  BY DEF ApplyRewind, Trim
<1>2. Len(stack[t]) \in Nat
  BY DEF TypeOK
<1>3. CASE d = Len(stack[t])
  <2>1. /\ Len(stack'[t]) = d
        /\ \A i \in 1 .. d : stack'[t][i] = stack[t][i]
        /\ \A u \in Thread \ {t} : stack'[u] = stack[u]
    BY <1>1, TrimFacts
  <2>2. stack'[t] = <<>> <=> stack[t] = <<>>
    BY <1>3, <2>1 DEF TypeOK
  <2>3. \A u \in Thread : Holder(u)' = Holder(u)
    BY <1>3, <2>1, <2>2, TopType DEF Holder, Top
  <2>4. b = a
    BY <1>1, <1>3 DEF RewindTarget
  <2>. QED  BY <2>3, <2>4 DEF Hands
<1>4. CASE d < Len(stack[t])
  <2>1. b = stack[t][d + 1].from
    BY <1>1, <1>2, <1>4 DEF RewindTarget
  <2>2. /\ Holder(t)' = b
        /\ \A u \in Thread \ {t} : Holder(u)' = Holder(u)
    BY <1>1, <1>4, <2>1, HolderAfterTrim
  <2>3. d = 0 \/ "CATCH" \in flags[b]
    BY <1>1, <1>4, <1>2, <2>1 DEF Unwinds, TypeOK
  <2>4. d = 0 => b = user
    BY <1>2, <1>4, <2>1 DEF CallChain
  <2>5. d # 0 => b \in agents
    BY <1>2, <1>4, <2>1 DEF CallChain, HolderInScope
  <2>6. b = user \/ (b \in agents /\ "CATCH" \in flags[b])
    BY <2>3, <2>4, <2>5
  <2>. QED  BY <2>2, <2>6 DEF Hands
<1>. QED
  BY <1>2, <1>3, <1>4

LEMMA HandOver ==
  ASSUME TypeOK, CallChain, HolderInScope, Next
  PROVE  \/ \E t \in Thread : \E a, b : Hands(t, a, b) /\ pending' = PendingAfter(t, a, b)
         \/ UNCHANGED <<stack, pending>>
<1>. DEFINE Over == \E t \in Thread : \E a, b : Hands(t, a, b) /\ pending' = PendingAfter(t, a, b)
            Same == UNCHANGED <<stack, pending>>
<1>1. ASSUME NEW t \in Thread, NEW a, NEW b \in Agent, NEW s, Called(t, a, b, s)
      PROVE  Over
  <2>0. PICK id \in Nat : ApplyCall(t, a, b, s, id) /\ a = Holder(t)
    BY <1>1 DEF Called
  <2>. DEFINE e == [id |-> id, from |-> a, to |-> b]
  <2>1. e \in Frame /\ e.to = b
    BY <2>0, HolderType DEF Frame
  <2>2. Push(t, e)
    BY <2>0 DEF ApplyCall, Push
  <2>. HIDE DEF e
  <2>3. Hands(t, a, b)
    BY <2>0, <2>1, <2>2, HolderAfterPush DEF Hands
  <2>. QED  BY <2>0, <2>3 DEF ApplyCall
<1>2. ASSUME NEW a \in Agent, NEW b \in Agent, NEW m \in Message, Return(a, m, b)
      PROVE  Over
  <2>. DEFINE t == m.thread
              d == Len(stack[t]) - 1
  <2>1. /\ stack[t] # <<>> /\ a = Holder(t) /\ t \in Thread
        /\ ApplyReturn(t, a, b, Offered(a, m))
    BY <1>2, MessageParts, ReturnsHaveFrames DEF Return, IsReturn
  <2>2. d \in 0 .. Len(stack[t]) /\ d + 1 = Len(stack[t]) /\ d < Len(stack[t])
    BY <2>1, TopType
  <2>3. Trim(t, d) /\ b = stack[t][d + 1].from /\ pending' = PendingAfter(t, a, b)
    BY <2>1, <2>2 DEF ApplyReturn, Trim, Top
  <2>. HIDE DEF d, t
  <2>4. Hands(t, a, b)
    BY <2>1, <2>2, <2>3, HolderAfterTrim DEF Hands
  <2>. QED  BY <2>1, <2>3, <2>4
<1>3. \A t \in Thread : \A a, b : ApplyRewind(t, a, b) /\ (a = Holder(t) \/ a # user) => Over
  BY RewindHands DEF ApplyRewind
<1>. HIDE DEF Over
<1>4. \A a \in Agent, b \in Agent, m \in Message : Return(a, m, b) => Over
  BY <1>2
<1>5. \A a \in Agent, b \in Agent, m \in Message : Call(a, m, b) \/ CallClone(a, m, b) => Over
  BY <1>1, CallParts, MessageParts
<1>6. \A a \in Agent, b \in Agent, m \in Message : Reject(a, m, b) => Over
  BY <1>3, MessageParts DEF Reject
<1>7. \A a \in Agent, b \in Agent : Died(a, b) => Over
  <2>1. \A a \in Agent : HomeThread(a) \in Thread
    BY UserExists DEF HomeThread, TypeOK, Home
  <2>. QED  BY <1>3, <2>1 DEF Died
<1>8. \A a, m : Data(a, m) => Same
  BY DEF Data
<1>9. \A a \in Agent, m \in Message, new \in SUBSET Agent : \A f :
        CallRuntime(a, m, new, f) => Over
  BY <1>1, CallParts, MessageParts, UserExists
<1>. HIDE DEF Same
<1>10. Over \/ Same
  BY Steps, <1>4, <1>5, <1>6, <1>7, <1>8, <1>9, Zenon
<1>. QED
  BY <1>10 DEF Over, Same

\* What PendingAfter leaves on the thread and on the others.
LEMMA PendingParts ==
  ASSUME TypeOK, NEW t \in Thread, NEW a, NEW b, pending' = PendingAfter(t, a, b)
  PROVE  /\ \A u \in Thread \ {t} : pending'[u] <=> pending[u]
         /\ b = user => ~pending'[t]
         /\ a = user /\ b # user => pending'[t]
         /\ a # user /\ b # user => (pending'[t] <=> pending[t])
<1>1. pending \in [Thread -> BOOLEAN]
  BY DEF TypeOK
<1>2. CASE b = user
  <2>1. pending' = [pending EXCEPT ![t] = FALSE]
    BY <1>2 DEF PendingAfter
  <2>. QED  BY <1>1, <1>2, <2>1, Zenon
<1>3. CASE a = user /\ b # user
  <2>1. pending' = [pending EXCEPT ![t] = TRUE]
    BY <1>3 DEF PendingAfter
  <2>. QED  BY <1>1, <1>3, <2>1, Zenon
<1>4. CASE a # user /\ b # user
  <2>1. pending' = [pending EXCEPT ![t] = @]
    BY <1>4 DEF PendingAfter
  <2>2. pending' = pending
    BY <1>1, <2>1, Zenon
  <2>. QED  BY <1>4, <2>2, Zenon
<1>. QED
  BY <1>2, <1>3, <1>4

LEMMA PendingStep ==
  ASSUME TypeOK, CallChain, HolderInScope, PendingOnlyAway, Next
  PROVE  PendingOnlyAway'
<1>1. CASE UNCHANGED <<stack, pending>>
  BY <1>1 DEF PendingOnlyAway, Holder, Top
<1>2. ASSUME NEW t \in Thread, NEW a, NEW b, Hands(t, a, b), pending' = PendingAfter(t, a, b)
      PROVE  PendingOnlyAway'
  <2>1. SUFFICES ASSUME NEW u \in Thread, pending'[u]  PROVE Holder(u)' # user
    BY DEF PendingOnlyAway
  <2>2. /\ \A v \in Thread \ {t} : pending'[v] <=> pending[v]
        /\ b = user => ~pending'[t]
        /\ a # user /\ b # user => (pending'[t] <=> pending[t])
    BY <1>2, PendingParts
  <2>3. pending[u] => Holder(u) # user
    BY DEF PendingOnlyAway
  <2>4. CASE u # t
    BY <1>2, <2>1, <2>2, <2>3, <2>4, Zenon DEF Hands
  <2>5. CASE u = t
    <3>1. b # user
      BY <2>1, <2>2, <2>5, Zenon
    <3>. QED  BY <1>2, <2>1, <2>2, <2>3, <2>5, <3>1, Zenon DEF Hands
  <2>. QED  BY <2>4, <2>5
<1>. QED
  BY HandOver, <1>1, <1>2

\* Only the user catches.
SoleCatcher == \A a \in agents : "CATCH" \in flags[a] => a = user

LEMMA AwayStep ==
  ASSUME TypeOK, CallChain, HolderInScope, PendingWhenAway, Next
  PROVE  PendingWhenAway'
<1>1. SUFFICES ASSUME SoleCatcher', NEW u \in Thread, Holder(u)' # user
               PROVE  pending'[u]
  BY DEF PendingWhenAway, SoleCatcher
<1>2. SoleCatcher
  BY <1>1, AgentsStay DEF SoleCatcher
<1>3. \A v \in Thread : Holder(v) # user => pending[v]
  BY <1>2 DEF PendingWhenAway, SoleCatcher
<1>4. CASE UNCHANGED <<stack, pending>>
  BY <1>1, <1>3, <1>4 DEF Holder, Top
<1>5. ASSUME NEW t \in Thread, NEW a, NEW b, Hands(t, a, b), pending' = PendingAfter(t, a, b)
      PROVE  pending'[u]
  <2>1. /\ \A v \in Thread \ {t} : pending'[v] <=> pending[v]
        /\ a = user /\ b # user => pending'[t]
        /\ a # user /\ b # user => (pending'[t] <=> pending[t])
    BY <1>5, PendingParts
  <2>2. CASE u # t
    BY <1>1, <1>3, <1>5, <2>1, <2>2, Zenon DEF Hands
  <2>3. CASE u = t /\ Holder(t)' = b /\ a = Holder(t)
    BY <1>1, <1>3, <2>1, <2>3, Zenon
  <2>4. CASE u = t /\ Holder(t)' = Holder(t) /\ a # user /\ b # user
    BY <1>1, <1>3, <2>1, <2>4, Zenon
  <2>5. CASE u = t /\ Holder(t)' = b /\ (b = user \/ (b \in agents /\ "CATCH" \in flags[b]))
    BY <1>1, <1>2, <2>5 DEF SoleCatcher
  <2>. QED  BY <1>5, <2>2, <2>3, <2>4, <2>5 DEF Hands
<1>. QED
  BY HandOver, <1>4, <1>5

-----------------------------------------------------------------------------
(* Tags *)

LEMMA TagsStep ==
  ASSUME TypeOK, TagsComeFromUser, Next
  PROVE  TagsComeFromUser'
<1>1. ASSUME NEW a \in Agent, NEW b \in Agent, NEW m \in Message,
             tags' = TagsAfter(a, b, Offered(a, m))
      PROVE  TagsComeFromUser'
  <2>. DEFINE s == Offered(a, m)
  <2>1. \A c \in Agent : tags'[c] = IF c \in {a, b} THEN tags[c] \cup s ELSE tags[c]
    BY <1>1 DEF TagsAfter
  <2>2. \A c \in Agent : tags[c] \subseteq tags[user]
    BY DEF TagsComeFromUser
  <2>3. CASE a = user
    <3>1. tags'[user] = tags[user] \cup s
      BY <2>1, <2>3, UserExists
    <3>. QED  BY <2>1, <2>2, <3>1 DEF TagsComeFromUser
  <2>4. CASE a # user
    <3>1. s \subseteq tags[user]
      BY <2>2, <2>4 DEF Offered
    <3>. HIDE DEF s
    <3>2. tags[user] \subseteq tags'[user]
      BY <2>1, UserExists
    <3>. QED  BY <2>1, <2>2, <3>1, <3>2 DEF TagsComeFromUser
  <2>. QED  BY <2>3, <2>4
<1>2. ASSUME UNCHANGED tags  PROVE TagsComeFromUser'
  BY <1>2 DEF TagsComeFromUser
<1>3. \A a \in Agent, b \in Agent, m \in Message :
        Return(a, m, b) \/ Call(a, m, b) \/ CallClone(a, m, b) => TagsComeFromUser'
  BY <1>1 DEF Return, Call, CallClone, ApplyReturn, ApplyCall
<1>4. \A t, a, b : ApplyRewind(t, a, b) => UNCHANGED tags
  BY DEF ApplyRewind
<1>5. /\ \A a, b, m : Reject(a, m, b) => UNCHANGED tags
      /\ \A a, b : Died(a, b) => UNCHANGED tags
      /\ \A a, m : Data(a, m) => UNCHANGED tags
  BY <1>4 DEF Reject, Died, Data
<1>6. \A a \in Agent, m \in Message, new \in SUBSET Agent : \A f :
        CallRuntime(a, m, new, f) => TagsComeFromUser'
  BY <1>1, UserExists DEF CallRuntime, ApplyCall
<1>. HIDE DEF TagsComeFromUser
<1>. QED
  BY Steps, <1>2, <1>3, <1>5, <1>6

-----------------------------------------------------------------------------
(* The invariants of the program *)

\* The inductive invariant: a hand-over returns the thread to the caller named
\* in the frame, so pending needs the chain of calls and the agents in scope.
IInv ==
  /\ TypeOK
  /\ CallChain
  /\ UniqueIds
  /\ HolderInScope
  /\ Accounting
  /\ PendingOnlyAway
  /\ PendingWhenAway
  /\ TagsComeFromUser

LEMMA IInvInit ==
  ASSUME Init
  PROVE  IInv
<1>1. /\ stack = [t \in Thread |-> <<>>]
      /\ pending = [t \in Thread |-> FALSE]
      /\ obligation = [a \in Agent |-> 0]
      /\ tags = [a \in Agent |-> {}]
  BY DEF Init
<1>2. \A t \in Thread : stack[t] = <<>> /\ Len(stack[t]) = 0 /\ Holder(t) = user /\ ~pending[t]
  BY <1>1 DEF Holder
<1>3. CallChain /\ UniqueIds /\ HolderInScope
  BY <1>2 DEF CallChain, UniqueIds, HolderInScope
<1>4. Accounting
  <2>1. \A a : FramesOf(a) = {}
    BY <1>2 DEF FramesOf
  <2>. QED  BY <1>1, <2>1, FS_EmptySet DEF Accounting
<1>5. PendingOnlyAway /\ PendingWhenAway
  BY <1>2 DEF PendingOnlyAway, PendingWhenAway
<1>6. TagsComeFromUser
  BY <1>1 DEF TagsComeFromUser
<1>. QED
  BY <1>3, <1>4, <1>5, <1>6, TypeInit DEF IInv

LEMMA IInvStutter ==
  ASSUME IInv, UNCHANGED vars
  PROVE  IInv'
<1>1. UNCHANGED <<agents, home, flags, tags, obligation, stack, pending, lastId>>
  BY DEF vars
<1>2. \A t : Holder(t)' = Holder(t)
  BY <1>1 DEF Holder, Top
<1>3. \A a : FramesOf(a)' = FramesOf(a)
  BY <1>1 DEF FramesOf
<1>4. TypeOK' /\ CallChain' /\ UniqueIds'
  <2>1. TypeOK'  BY <1>1 DEF IInv, TypeOK
  <2>2. CallChain'  BY <1>1 DEF IInv, CallChain
  <2>3. UniqueIds'  BY <1>1 DEF IInv, UniqueIds
  <2>. QED  BY <2>1, <2>2, <2>3
<1>5. HolderInScope' /\ TagsComeFromUser'
  BY <1>1 DEF IInv, HolderInScope, TagsComeFromUser, HomeOf
<1>6. Accounting'
  BY <1>1, <1>3 DEF IInv, Accounting
<1>7. PendingOnlyAway' /\ PendingWhenAway'
  BY <1>1, <1>2 DEF IInv, PendingOnlyAway, PendingWhenAway
<1>. QED
  BY <1>4, <1>5, <1>6, <1>7 DEF IInv

LEMMA IInvStep ==
  ASSUME IInv, Next
  PROVE  IInv'
  BY TypeStep, ChainStep, IdsStep, ScopeStep, AccountingStep, PendingStep, AwayStep, TagsStep
     DEF IInv

THEOREM Invariant == Spec => []IInv
<1>1. IInv /\ [Next]_vars => IInv'
  BY IInvStep, IInvStutter
<1>. QED
  BY IInvInit, <1>1, PTL DEF Spec

\* Agent::obligation_count is always the number of unanswered calls.
THEOREM AccountingCorrect == Spec => []Accounting
<1>1. IInv => Accounting
  BY DEF IInv
<1>. QED
  BY Invariant, <1>1, PTL

\* The frames of a thread are always one chain of calls from the user.
THEOREM CallChainCorrect == Spec => []CallChain
<1>1. IInv => CallChain
  BY DEF IInv
<1>. QED
  BY Invariant, <1>1, PTL

\* An In-Reply-To names at most one call in the whole program.
THEOREM UniqueIdsCorrect == Spec => []UniqueIds
<1>1. IInv => UniqueIds
  BY DEF IInv
<1>. QED
  BY Invariant, <1>1, PTL

\* Calls of a thread are served by its own and by global agents only.
THEOREM HolderInScopeCorrect == Spec => []HolderInScope
<1>1. IInv => HolderInScope
  BY DEF IInv
<1>. QED
  BY Invariant, <1>1, PTL

\* Every frame can be answered, by the agent it waits for and by it alone.
THEOREM FramesSoundCorrect == Spec => []FramesSound
<1>1. IInv => FramesSound
  BY DEF IInv, FramesSound
<1>. QED
  BY Invariant, <1>1, PTL

\* The user waits only for others, and for them whenever nobody else catches.
THEOREM PendingCorrect == Spec => []PendingAgrees
<1>1. IInv => PendingAgrees
  BY DEF IInv, PendingAgrees
<1>. QED
  BY Invariant, <1>1, PTL

\* Every tag an agent carries was proposed by the user.
THEOREM TagsCorrect == Spec => []TagsComeFromUser
<1>1. IInv => TagsComeFromUser
  BY DEF IInv
<1>. QED
  BY Invariant, <1>1, PTL

-----------------------------------------------------------------------------
(* Rewinds *)

\* Only a rewind removes more than the top frame, and it stops at the first
\* caller with the CATCH flag.
LEMMA CatchStep ==
  ASSUME TypeOK, Next, NEW t \in Thread, NEW i \in 1 .. Len(stack[t]),
         Len(stack'[t]) < i - 1
  PROVE  "CATCH" \notin flags[stack[t][i].from]
<1>. DEFINE Goal == "CATCH" \notin flags[stack[t][i].from]
<1>0. Len(stack[t]) \in Nat
  BY DEF TypeOK
<1>1. UNCHANGED stack => Goal
  BY <1>0
<1>2. ASSUME NEW u \in Thread, NEW e \in Frame, Push(u, e)  PROVE Goal
  <2>1. Len(stack'[t]) >= Len(stack[t])
    BY <1>0, <1>2, PushFacts
  <2>. QED  BY <1>0, <1>2, <2>1, PushFacts
<1>3. ASSUME NEW u \in Thread, NEW a, NEW b, ApplyRewind(u, a, b)  PROVE Goal
  <2>1. PICK d \in 0 .. Len(stack[u]) : Unwinds(u, a, d) /\ Trim(u, d)
    BY <1>3 DEF ApplyRewind, Trim
  <2>2. u = t
    BY <1>0, <2>1, TrimFacts
  <2>3. d < i - 1
    BY <2>1, <2>2, TrimFacts
  <2>4. d # Len(stack[t]) /\ i \in d + 2 .. Len(stack[t])
    BY <1>0, <2>2, <2>3
  <2>. QED  BY <2>1, <2>2, <2>4 DEF Unwinds
<1>4. ASSUME NEW a \in Agent, NEW b \in Agent, NEW m \in Message, Return(a, m, b)
      PROVE  Goal
  <2>. DEFINE u == m.thread
              d == Len(stack[u]) - 1
  <2>1. u \in Thread /\ stack[u] # <<>> /\ Trim(u, d)
    BY <1>4, MessageParts, ReturnsHaveFrames DEF Return, ApplyReturn, Trim
  <2>2. d \in 0 .. Len(stack[u])
    BY <2>1, TopType
  <2>. HIDE DEF u, d
  <2>3. CASE t = u
    <3>1. Len(stack'[t]) = d
      BY <2>1, <2>2, <2>3, TrimFacts
    <3>. QED  BY <1>0, <2>3, <3>1 DEF d
  <2>4. CASE t # u
    <3>1. stack'[t] = stack[t]
      BY <2>1, <2>2, <2>4, TrimFacts
    <3>. QED  BY <1>0, <3>1
  <2>. QED  BY <2>3, <2>4
<1>. HIDE DEF Goal
<1>5. /\ \A a \in Agent, b \in Agent, m \in Message :
           Call(a, m, b) \/ CallClone(a, m, b) => Goal
      /\ \A a \in Agent, m \in Message, new \in SUBSET Agent : \A f :
           CallRuntime(a, m, new, f) => Goal
  <2>1. \A a \in Agent, b \in Agent, id \in Nat :
          [id |-> id, from |-> a, to |-> b] \in Frame
    BY DEF Frame
  <2>2. \A u \in Thread, a \in Agent, b \in Agent : \A s : Called(u, a, b, s) => Goal
    BY <1>2, <2>1 DEF Called, ApplyCall, Push
  <2>. QED  BY <2>2, CallParts, MessageParts, UserExists
<1>6. \A a \in Agent, b \in Agent, m \in Message : Reject(a, m, b) => Goal
  BY <1>3, MessageParts DEF Reject
<1>7. \A a \in Agent, b \in Agent : Died(a, b) => Goal
  <2>1. \A a \in Agent : HomeThread(a) \in Thread
    BY UserExists DEF HomeThread, TypeOK, Home
  <2>. QED  BY <1>3, <2>1 DEF Died
<1>8. \A a, m : Data(a, m) => Goal
  BY <1>1 DEF Data
<1>9. Goal
  BY Steps, <1>4, <1>5, <1>6, <1>7, <1>8
<1>. QED
  BY <1>9 DEF Goal

\* No rewind takes with it the frames below one sent by a caller that catches.
THEOREM CatchStopsCorrect == Spec => CatchStops
<1>. DEFINE Stops ==
       \A t \in Thread : \A i \in 1 .. Len(stack[t]) :
         (Len(stack'[t]) < i - 1) => "CATCH" \notin flags[stack[t][i].from]
<1>1. IInv /\ [Next]_vars => [Stops]_vars
  BY CatchStep DEF IInv
<1>2. CatchStops <=> [][Stops]_vars
  BY DEF CatchStops
<1>. HIDE DEF Stops
<1>. QED
  BY Invariant, <1>1, <1>2, PTL DEF Spec

-----------------------------------------------------------------------------
(* Every thread is a continuation: Program implements Continuation *)

Owners == [t \in Thread |-> Holder(t)]
CallersOf(t) == [i \in 1 .. Len(stack[t]) |-> stack[t][i].from]
Callers == [t \in Thread |-> CallersOf(t)]

\* A function on 1 .. n is a sequence of length n.
LEMMA FunctionIsSeq ==
  ASSUME NEW S, NEW n \in Nat, NEW f \in [1 .. n -> S]
  PROVE  f \in Seq(S) /\ Len(f) = n
  OBVIOUS

LEMMA CallersType ==
  ASSUME TypeOK, NEW t \in Thread
  PROVE  CallersOf(t) \in Seq(Agent) /\ Len(CallersOf(t)) = Len(stack[t])
<1>0. stack[t] \in Seq(Frame) /\ \A e \in Frame : e.from \in Agent
  BY DEF TypeOK, Frame
<1>1. Len(stack[t]) \in Nat /\ \A i \in 1 .. Len(stack[t]) : stack[t][i].from \in Agent
  BY <1>0
<1>2. CallersOf(t) \in [1 .. Len(stack[t]) -> Agent]
  BY <1>1 DEF CallersOf
<1>. QED
  BY <1>1, <1>2, FunctionIsSeq

LEMMA CallersAfterPush ==
  ASSUME TypeOK, TypeOK', NEW t \in Thread, NEW e \in Frame, Push(t, e)
  PROVE  /\ CallersOf(t)' = Append(CallersOf(t), e.from)
         /\ \A u \in Thread \ {t} : CallersOf(u)' = CallersOf(u)
<1>1. /\ Len(stack'[t]) = Len(stack[t]) + 1 /\ Len(stack[t]) \in Nat
      /\ stack'[t][Len(stack[t]) + 1] = e
      /\ \A i \in 1 .. Len(stack[t]) : stack'[t][i] = stack[t][i]
      /\ \A u \in Thread \ {t} : stack'[u] = stack[u]
  BY PushFacts
<1>2. CallersOf(t)' = [i \in 1 .. Len(stack[t]) + 1 |-> stack'[t][i].from]
  BY <1>1 DEF CallersOf
<1>3. CallersOf(t)' \in Seq(Agent) /\ Len(CallersOf(t)') = Len(stack[t]) + 1
  <2>0. stack'[t] \in Seq(Frame) /\ \A f \in Frame : f.from \in Agent
    BY DEF TypeOK, Frame
  <2>1. \A i \in 1 .. Len(stack'[t]) : stack'[t][i].from \in Agent
    BY <2>0
  <2>2. CallersOf(t)' \in [1 .. Len(stack[t]) + 1 -> Agent]
    BY <1>1, <1>2, <2>1
  <2>. QED  BY <1>1, <2>2, FunctionIsSeq
<1>4. e.from \in Agent
  BY DEF Frame
<1>. DEFINE c == CallersOf(t)
            x == e.from
<1>5. /\ c \in Seq(Agent) /\ Len(c) = Len(stack[t])
      /\ \A i \in 1 .. Len(stack[t]) : c[i] = stack[t][i].from
  BY CallersType DEF CallersOf
<1>6. \A i \in 1 .. Len(stack[t]) + 1 :
        CallersOf(t)'[i] = IF i = Len(stack[t]) + 1 THEN x ELSE c[i]
  BY <1>1, <1>2, <1>5
<1>. HIDE DEF c, x
<1>7. /\ Append(c, x) \in Seq(Agent) /\ Len(Append(c, x)) = Len(stack[t]) + 1
      /\ \A i \in 1 .. Len(stack[t]) + 1 :
           Append(c, x)[i] = IF i = Len(stack[t]) + 1 THEN x ELSE c[i]
  BY <1>1, <1>4, <1>5, Pushed DEF x
<1>8. CallersOf(t)' = Append(c, x)
  BY <1>3, <1>6, <1>7, SeqEqual
<1>9. \A u \in Thread \ {t} : CallersOf(u)' = CallersOf(u)
  BY <1>1 DEF CallersOf
<1>. QED
  BY <1>8, <1>9 DEF c, x

LEMMA CallersAfterTrim ==
  ASSUME TypeOK, TypeOK', NEW t \in Thread, NEW d \in 0 .. Len(stack[t]), Trim(t, d)
  PROVE  /\ CallersOf(t)' = SubSeq(CallersOf(t), 1, d)
         /\ \A u \in Thread \ {t} : CallersOf(u)' = CallersOf(u)
<1>1. /\ Len(stack'[t]) = d /\ Len(stack[t]) \in Nat
      /\ \A i \in 1 .. d : stack'[t][i] = stack[t][i]
      /\ \A u \in Thread \ {t} : stack'[u] = stack[u]
  BY TrimFacts
<1>2. CallersOf(t)' = [i \in 1 .. d |-> stack'[t][i].from]
  BY <1>1 DEF CallersOf
<1>3. CallersOf(t)' \in Seq(Agent) /\ Len(CallersOf(t)') = d
  <2>0. stack'[t] \in Seq(Frame) /\ \A f \in Frame : f.from \in Agent
    BY DEF TypeOK, Frame
  <2>1. \A i \in 1 .. Len(stack'[t]) : stack'[t][i].from \in Agent
    BY <2>0
  <2>2. CallersOf(t)' \in [1 .. d -> Agent]
    BY <1>1, <1>2, <2>1
  <2>. QED  BY <1>1, <2>2, FunctionIsSeq
<1>. DEFINE c == CallersOf(t)
<1>4. /\ c \in Seq(Agent) /\ Len(c) = Len(stack[t])
      /\ \A i \in 1 .. Len(stack[t]) : c[i] = stack[t][i].from
  BY CallersType DEF CallersOf
<1>5. \A i \in 1 .. d : CallersOf(t)'[i] = c[i]
  BY <1>1, <1>2, <1>4
<1>. HIDE DEF c
<1>6. /\ SubSeq(c, 1, d) \in Seq(Agent) /\ Len(SubSeq(c, 1, d)) = d
      /\ \A i \in 1 .. d : SubSeq(c, 1, d)[i] = c[i]
  BY <1>4, Cut
<1>7. CallersOf(t)' = SubSeq(c, 1, d)
  BY <1>3, <1>5, <1>6, SeqEqual
<1>8. \A u \in Thread \ {t} : CallersOf(u)' = CallersOf(u)
  BY <1>1 DEF CallersOf
<1>. QED
  BY <1>7, <1>8 DEF c

LEMMA OwnerStep ==
  ASSUME TypeOK, TypeOK', CallChain, Next
  PROVE  \/ \E t \in Thread : \E b \in Agent :
              /\ Owners' = [Owners EXCEPT ![t] = b]
              /\ Callers' = [Callers EXCEPT ![t] = Append(@, Owners[t])]
         \/ \E t \in Thread : \E d \in 0 .. Len(Callers[t]) :
              /\ d < Len(Callers[t])
              /\ Owners' = [Owners EXCEPT ![t] = Callers[t][d + 1]]
              /\ Callers' = [Callers EXCEPT ![t] = SubSeq(@, 1, d)]
         \/ UNCHANGED <<Owners, Callers>>
<1>1. ASSUME NEW t \in Thread, CallPush(t)
      PROVE  \E b \in Agent :
               /\ Owners' = [Owners EXCEPT ![t] = b]
               /\ Callers' = [Callers EXCEPT ![t] = Append(@, Owners[t])]
  <2>1. PICK b \in Agent, id \in Nat : Push(t, [id |-> id, from |-> Holder(t), to |-> b])
    BY <1>1 DEF CallPush
  <2>. DEFINE e == [id |-> id, from |-> Holder(t), to |-> b]
  <2>2. e \in Frame /\ e.to = b /\ e.from = Holder(t)
    BY HolderType DEF Frame
  <2>. HIDE DEF e
  <2>3. Push(t, e)
    BY <2>1 DEF e
  <2>4. /\ Holder(t)' = b
        /\ \A u \in Thread \ {t} : Holder(u)' = Holder(u)
    BY <2>2, <2>3, HolderAfterPush
  <2>5. /\ CallersOf(t)' = Append(CallersOf(t), Holder(t))
        /\ \A u \in Thread \ {t} : CallersOf(u)' = CallersOf(u)
    BY <2>2, <2>3, CallersAfterPush
  <2>6. Owners' = [Owners EXCEPT ![t] = b]
    BY <2>4 DEF Owners
  <2>7. Callers' = [Callers EXCEPT ![t] = Append(@, Owners[t])]
    BY <2>5 DEF Owners, Callers
  <2>. QED  BY <2>6, <2>7
<1>2. ASSUME NEW t \in Thread, NEW d \in 0 .. Len(stack[t]), Trim(t, d), d < Len(stack[t])
      PROVE  \E k \in 0 .. Len(Callers[t]) :
               /\ k < Len(Callers[t])
               /\ Owners' = [Owners EXCEPT ![t] = Callers[t][k + 1]]
               /\ Callers' = [Callers EXCEPT ![t] = SubSeq(@, 1, k)]
  <2>1. Callers[t] = CallersOf(t) /\ Len(Callers[t]) = Len(stack[t]) /\ Len(stack[t]) \in Nat
    BY CallersType DEF Callers, TypeOK
  <2>2. /\ Holder(t)' = stack[t][d + 1].from
        /\ \A u \in Thread \ {t} : Holder(u)' = Holder(u)
    BY <1>2, HolderAfterTrim
  <2>3. Callers[t][d + 1] = stack[t][d + 1].from
    BY <1>2, <2>1 DEF CallersOf
  <2>4. /\ CallersOf(t)' = SubSeq(CallersOf(t), 1, d)
        /\ \A u \in Thread \ {t} : CallersOf(u)' = CallersOf(u)
    BY <1>2, CallersAfterTrim
  <2>5. Owners' = [Owners EXCEPT ![t] = Callers[t][d + 1]]
    BY <2>2, <2>3 DEF Owners
  <2>6. Callers' = [Callers EXCEPT ![t] = SubSeq(@, 1, d)]
    BY <2>4 DEF Callers
  <2>. QED  BY <1>2, <2>1, <2>5, <2>6
<1>3. ASSUME NEW t \in Thread, NEW d \in 0 .. Len(stack[t]), Trim(t, d), d = Len(stack[t])
      PROVE  UNCHANGED stack
  <2>1. stack[t] \in Seq(Frame) /\ stack \in [Thread -> Seq(Frame)]
    BY DEF TypeOK
  <2>2. SubSeq(stack[t], 1, d) = stack[t]
    BY <1>3, <2>1, SubSeqFull
  <2>. QED  BY <1>3, <2>1, <2>2 DEF Trim
<1>4. UNCHANGED stack => UNCHANGED <<Owners, Callers>>
  BY DEF Owners, Callers, CallersOf, Holder, Top
<1>5. \A t \in Thread : \A d \in 0 .. Len(stack[t]) : d < Len(stack[t]) \/ d = Len(stack[t])
  BY DEF TypeOK
<1>. QED
  BY Effects, <1>1, <1>2, <1>3, <1>4, <1>5

\* Program implements Continuation: whatever the agents post and whichever
\* adapters die, a thread changes only by its owner yielding to another agent
\* or by control going back to one of the agents that wait on it.
THEOREM OneOwnerCorrect == Spec => OneOwner
<1>1. Init => Owner!CInit
  <2>1. ASSUME Init, NEW t \in Thread
        PROVE  stack[t] = <<>> /\ Holder(t) = user /\ CallersOf(t) = <<>>
    BY <2>1 DEF Init, Holder, CallersOf
  <2>. QED  BY <2>1 DEF Owner!CInit, CallersOf
<1>2. IInv /\ IInv' /\ [Next]_vars => [Owner!CNext]_(Owner!cvars)
  <2>. SUFFICES ASSUME IInv, IInv', [Next]_vars
                PROVE  [Owner!CNext]_(Owner!cvars)
    OBVIOUS
  <2>1. CASE Next
    <3>1. TypeOK /\ TypeOK' /\ CallChain
      BY DEF IInv
    <3>. QED
      BY <2>1, <3>1, OwnerStep
         DEF Owners, Callers, CallersOf, Owner!CNext, Owner!Yield, Owner!GiveBack, Owner!cvars
  <2>2. CASE UNCHANGED vars
    BY <2>2 DEF vars, Owner!cvars, Holder, Top
  <2>. QED  BY <2>1, <2>2
<1>. QED
  BY Invariant, <1>1, <1>2, PTL DEF Spec, OneOwner, Owner!CSpec

=============================================================================
