------------------------------- MODULE Program -------------------------------
(***************************************************************************)
(* The routing core of the runtime: Program::preprocess followed by        *)
(* Journal::append and Program::apply, for every message an agent posts.   *)
(*                                                                         *)
(* A thread is a stack of call frames.  The agent the top frame was sent   *)
(* to holds the thread and is the only one whose next message is accepted; *)
(* with no frame the user holds it.  An accepted message pushes a frame    *)
(* (CALL), pops it (RETURN) or is private to its sender (DATA).  Any other *)
(* message, and the death of an adapter, is turned into a REWIND, which    *)
(* unwinds the thread to the nearest caller that has the CATCH flag.       *)
(*                                                                         *)
(* What an agent posts is not restricted: adapters are separate programs,  *)
(* so every well-formed message of every agent is an input, including the  *)
(* late, duplicated and misaddressed ones.                                 *)
(*                                                                         *)
(* Left to other modules: agent memories and the journal's records, the    *)
(* drivers that carry messages, names and nested domains.  A thread is     *)
(* identified with its root domain, the domain in which its agents live.   *)
(***************************************************************************)
EXTENDS Integers, Sequences, FiniteSets

CONSTANTS
  Agent,        \* identities agents may take, the ones created later included
  Thread,       \* threads
  MainThread,   \* thread 0, whose root is the global domain
  Global,       \* the home of the agents of the global domain
  Tag,          \* message tags
  NoAddress,    \* an address that resolves to nothing, or to a clone that
                \* cannot be made
  user,         \* the user's agent, holder of every thread with no frame
  runtime,      \* the agent that serves the runtime's own commands
  ArenaHome,    \* home of each agent present when the program starts
  ArenaFlags,   \* and its flags
  MaxMessages   \* bound: journal records of a behaviour

Home == {Global} \cup (Thread \ {MainThread})
Flag == {"CATCH", "CLONE"}

ASSUME ArenaAssumption ==
  /\ MainThread \in Thread
  /\ Global \notin Thread
  /\ DOMAIN ArenaHome \subseteq Agent
  /\ \A a \in DOMAIN ArenaHome : ArenaHome[a] \in Home
  /\ DOMAIN ArenaFlags = DOMAIN ArenaHome
  /\ \A a \in DOMAIN ArenaFlags : ArenaFlags[a] \subseteq Flag
  /\ user \in DOMAIN ArenaHome /\ ArenaHome[user] = Global
  /\ runtime \in DOMAIN ArenaHome /\ ArenaHome[runtime] = Global
  /\ user # runtime
  /\ "CATCH" \in ArenaFlags[user] /\ "CLONE" \notin ArenaFlags[user]
  /\ "CLONE" \notin ArenaFlags[runtime]
  /\ NoAddress \notin [agent : Agent, clone : BOOLEAN]
  /\ MaxMessages \in Nat

VARIABLES
  agents,      \* the agents that exist
  home,        \* the domain each agent was created in
  flags,       \* AGENT_FLAG_CATCH, AGENT_FLAG_CLONE
  tags,        \* tags each agent has been in contact with
  obligation,  \* Agent::obligation_count
  stack,       \* Thread::stack
  pending,     \* Thread::pending
  lastId       \* AccessID of the last journal record

vars == <<agents, home, flags, tags, obligation, stack, pending, lastId>>

-----------------------------------------------------------------------------
(* Messages *)

NoId == 0   \* NO_ACCESS_ID

Frame == [id : Nat, from : Agent, to : Agent]

\* An address names an agent, with or without the clone prefix.
Address == [agent : Agent, clone : BOOLEAN] \cup {NoAddress}

Message == [thread : Thread, data : BOOLEAN, inReplyTo : Nat,
            inResponseTo : Nat, to : Address, tags : SUBSET Tag]

DataMessage(t) ==
  [thread |-> t, data |-> TRUE, inReplyTo |-> NoId, inResponseTo |-> NoId,
   to |-> NoAddress, tags |-> {}]

Reply(t, id, s) ==
  [thread |-> t, data |-> FALSE, inReplyTo |-> id, inResponseTo |-> NoId,
   to |-> NoAddress, tags |-> s]

Request(t, id, addr, s) ==
  [thread |-> t, data |-> FALSE, inReplyTo |-> NoId, inResponseTo |-> id,
   to |-> addr, tags |-> s]

-----------------------------------------------------------------------------
(* The state of a thread *)

Top(t) == stack[t][Len(stack[t])]

\* The agent preprocess expects the next message from.
Holder(t) == IF stack[t] = <<>> THEN user ELSE Top(t).to

TopIs(t, id) == stack[t] # <<>> /\ Top(t).id = id

\* Where the agents created by a message of thread t live.
HomeOfThread(t) == t   \* mutated: the main thread has a domain of its own
HomeOf(t) == IF t = MainThread THEN Global ELSE t

\* The domain lookup of resolve(): members of the thread's domain, then of
\* the global domain.
VisibleAnywhere(t, a) == a \in agents   \* mutated: every domain is searched
Visible(t, a) == a \in agents /\ home[a] \in {Global, HomeOf(t)}

\* "In this version only global agents are allowed to message across thread":
\* a message that breaks this rule ends the program.
MayPost(a, t) == a \in agents /\ home[a] \in {Global, HomeOf(t)}

\* resolve() turns a call of an agent with the CLONE flag into a clone.
Clones(addr) == addr.clone \/ "CLONE" \in flags[addr.agent]

Resolves(t, addr) == addr # NoAddress /\ Visible(t, addr.agent)

-----------------------------------------------------------------------------
(* What preprocess decides about message m of agent a *)

IsData(a, m) == a = Holder(m.thread) /\ m.data

IsReturn(a, m) ==
  /\ a = Holder(m.thread) /\ ~m.data
  /\ m.inReplyTo # NoId /\ TopIs(m.thread, m.inReplyTo)

\* mutated: the sender of a request is not compared with the holder
IsCallAnySender(a, m) ==
  /\ ~m.data /\ m.inReplyTo = NoId
  /\ m.inResponseTo = NoId \/ TopIs(m.thread, m.inResponseTo)
  /\ Resolves(m.thread, m.to)

IsCall(a, m) ==
  /\ a = Holder(m.thread) /\ ~m.data
  /\ m.inReplyTo = NoId
  /\ m.inResponseTo = NoId \/ TopIs(m.thread, m.inResponseTo)
  /\ Resolves(m.thread, m.to)

IsError(a, m) == ~IsData(a, m) /\ ~IsReturn(a, m) /\ ~IsCall(a, m)

\* Only the user proposes tags; every other sender offers those it carries.
OfferedAny(a, m) == tags[a] \cup m.tags   \* mutated: every sender proposes
Offered(a, m) == IF a = user THEN tags[a] \cup m.tags ELSE tags[a]

-----------------------------------------------------------------------------
(* Program::apply *)

HasRoom(n) == lastId + n <= MaxMessages

\* The identifier of the n-th record of a handler.
NextId(n) == lastId + n

\* Thread::pending after a message from a to b.
PendingAfterKeep(t, a, b) ==   \* mutated: a message to the user is ignored
  [pending EXCEPT ![t] = IF a = user /\ b # user THEN TRUE ELSE @]
PendingAfter(t, a, b) ==
  [pending EXCEPT ![t] = IF a = user /\ b # user THEN TRUE
                         ELSE IF b = user THEN FALSE ELSE @]

TagsAfter(a, b, s) ==
  [c \in Agent |-> IF c \in {a, b} THEN tags[c] \cup s ELSE tags[c]]

\* CALL: a message with identifier id and tags s from a to b.
ApplyCall(t, a, b, s, id) ==
  /\ stack' = [stack EXCEPT ![t] = Append(@, [id |-> id, from |-> a, to |-> b])]
  /\ obligation' = [obligation EXCEPT ![b] = @ + 1]
  /\ tags' = TagsAfter(a, b, s)
  /\ pending' = PendingAfter(t, a, b)

\* RETURN: the holder a answers the caller b of the top frame.
ApplyReturn(t, a, b, s) ==
  /\ b = Top(t).from
  /\ stack' = [stack EXCEPT ![t] = SubSeq(@, 1, Len(@) - 1)]
  /\ obligation' = [obligation EXCEPT ![a] = @ - 1]
  /\ tags' = TagsAfter(a, b, s)
  /\ pending' = PendingAfter(t, a, b)
  /\ lastId' = NextId(1)

\* The loop of REWIND, started by a, ends with d frames left on thread t.
UnwindsToBottom(t, a, d) == d = 0   \* mutated: CATCH is ignored

Unwinds(t, a, d) ==
  \/ /\ "CATCH" \in flags[a] \/ stack[t] = <<>>
     /\ d = Len(stack[t])
  \/ /\ "CATCH" \notin flags[a]
     /\ d < Len(stack[t])
     /\ d = 0 \/ "CATCH" \in flags[stack[t][d + 1].from]
     /\ \A i \in d + 2 .. Len(stack[t]) : "CATCH" \notin flags[stack[t][i].from]

RewindTarget(t, a, d) == IF d = Len(stack[t]) THEN a ELSE stack[t][d + 1].from

ReleasedFrom(t, d, b) ==   \* mutated: the caller's count is decremented
  {i \in d + 1 .. Len(stack[t]) : stack[t][i].from = b}

\* The frames above depth d of thread t that were waiting for agent b.
Released(t, d, b) == {i \in d + 1 .. Len(stack[t]) : stack[t][i].to = b}

\* REWIND, raised by a on thread t; b is told.
ApplyRewind(t, a, b) ==
  \E d \in 0 .. Len(stack[t]) :
    /\ Unwinds(t, a, d)
    /\ b = RewindTarget(t, a, d)
    /\ stack' = [stack EXCEPT ![t] = SubSeq(@, 1, d)]
    /\ obligation' = [c \in Agent |-> obligation[c] - Cardinality(Released(t, d, c))]
    /\ pending' = PendingAfter(t, a, b)
    /\ lastId' = NextId(1)
    /\ UNCHANGED <<agents, home, flags, tags>>

\* commit "create_agent" for each agent of new, in domain h, with flags f.
ApplyCreate(new, h, f) ==
  /\ new \subseteq Agent \ agents
  /\ agents' = agents \cup new
  /\ home' = [a \in Agent |-> IF a \in new THEN h ELSE home[a]]
  /\ flags' = [a \in Agent |-> IF a \in new THEN f[a] ELSE flags[a]]

-----------------------------------------------------------------------------
(* The handlers: one journal record, and one more for every agent created *)

Data(a, m) ==
  /\ IsData(a, m) /\ HasRoom(1)
  /\ lastId' = NextId(1)
  /\ UNCHANGED <<agents, home, flags, tags, obligation, stack, pending>>

Return(a, m, b) ==
  /\ IsReturn(a, m) /\ HasRoom(1)
  /\ ApplyReturn(m.thread, a, b, Offered(a, m))
  /\ UNCHANGED <<agents, home, flags>>

Call(a, m, b) ==
  /\ IsCall(a, m) /\ ~Clones(m.to) /\ b # runtime /\ HasRoom(1)
  /\ b = m.to.agent
  /\ ApplyCall(m.thread, a, b, Offered(a, m), NextId(1))
  /\ lastId' = NextId(1)
  /\ UNCHANGED <<agents, home, flags>>

\* A call of the runtime, which executes the command before the next message
\* is looked at.  create_agents creates the agents new, in the domain of the
\* thread, with flags f; every other command creates none.
CallRuntime(a, m, new, f) ==
  /\ IsCall(a, m) /\ ~Clones(m.to) /\ m.to.agent = runtime
  /\ IsFiniteSet(new)
  /\ ApplyCreate(new, HomeOf(m.thread), f)
  /\ HasRoom(1 + Cardinality(new))
  /\ ApplyCall(m.thread, a, runtime, Offered(a, m), NextId(1))
  /\ lastId' = NextId(1 + Cardinality(new))

CallClone(a, m, b) ==
  /\ IsCall(a, m) /\ Clones(m.to) /\ HasRoom(2)
  /\ ApplyCreate({b}, HomeOf(m.thread), [c \in {b} |-> flags[m.to.agent] \ {"CLONE"}])
  /\ ApplyCall(m.thread, a, b, Offered(a, m), NextId(2))
  /\ lastId' = NextId(2)

Reject(a, m, b) ==
  /\ IsError(a, m) /\ HasRoom(1)
  /\ ApplyRewind(m.thread, Holder(m.thread), b)

\* An agent posts m, and the runtime processes it; b is the agent it goes to.
Route(a, m, b) ==
  /\ MayPost(a, m.thread)
  /\ Return(a, m, b) \/ Call(a, m, b) \/ CallClone(a, m, b) \/ Reject(a, m, b)

Command(a, m, new, f) == MayPost(a, m.thread) /\ CallRuntime(a, m, new, f)

Note(a, m) == MayPost(a, m.thread) /\ Data(a, m)

\* makeRewindMessage: the adapter of a died; the thread of its home domain is
\* rewound in its name.
HomeThread(a) == IF home[a] = Global THEN MainThread ELSE home[a]

Died(a, b) ==
  /\ a \in agents \ {user, runtime} /\ HasRoom(1)
  /\ ApplyRewind(HomeThread(a), a, b)

-----------------------------------------------------------------------------
(* The specification *)

Founders == DOMAIN ArenaHome

\* The state initArena leaves: the arena's agents and no call under way.
Init ==
  /\ agents = Founders
  /\ home = [a \in Agent |-> IF a \in Founders THEN ArenaHome[a] ELSE Global]
  /\ flags = [a \in Agent |-> IF a \in Founders THEN ArenaFlags[a] ELSE {}]
  /\ tags = [a \in Agent |-> {}]
  /\ obligation = [a \in Agent |-> 0]
  /\ stack = [t \in Thread |-> <<>>]
  /\ pending = [t \in Thread |-> FALSE]
  /\ lastId = 0

\* The top frame's identifier, if there is a frame.
TopIds(t) == IF stack[t] = <<>> THEN {} ELSE {Top(t).id}

\* What an agent can post on thread t.  A message whose identifier is not the
\* top frame's is judged by that alone, and so is a message of an agent that
\* does not hold the thread: one of each stands for all.
Posts(a, t) ==
  IF a = Holder(t)
  THEN {Reply(t, id, s) : id \in TopIds(t), s \in SUBSET Tag} \cup
       {Request(t, id, addr, s) :
          id \in {NoId} \cup TopIds(t), addr \in Address, s \in SUBSET Tag} \cup
       {Reply(t, lastId + 1, {}),
        Request(t, lastId + 1, [agent |-> user, clone |-> FALSE], {})}
  ELSE {Request(t, NoId, [agent |-> user, clone |-> FALSE], {})}

Next ==
  /\ HasRoom(1)
  /\ \/ \E t \in Thread : \E a \in agents : \E m \in Posts(a, t), b \in Agent : Route(a, m, b)
     \/ \E t \in Thread : \E a \in agents :
          \E m \in Posts(a, t), new \in SUBSET (Agent \ agents) :
            \E f \in [new -> SUBSET Flag] : Command(a, m, new, f)
     \/ \E t \in Thread, a \in agents : Note(a, DataMessage(t))
     \/ \E a, b \in agents : Died(a, b)

Spec == Init /\ [][Next]_vars

-----------------------------------------------------------------------------
(* Properties *)

\* Types of the program's state.
TypeOK ==
  /\ agents \subseteq Agent
  /\ home \in [Agent -> Home]
  /\ flags \in [Agent -> SUBSET Flag]
  /\ tags \in [Agent -> SUBSET Tag]
  /\ obligation \in [Agent -> Int]
  /\ stack \in [Thread -> Seq(Frame)]
  /\ pending \in [Thread -> BOOLEAN]
  /\ lastId \in Nat

\* The frames of a thread form one chain of calls that starts at the user:
\* whoever called was the one being waited for.  apply() relies on it when a
\* RETURN or REWIND hands the thread to the caller named in the popped frame.
CallChain ==
  \A t \in Thread : \A i \in 1 .. Len(stack[t]) :
    stack[t][i].from = IF i = 1 THEN user ELSE stack[t][i - 1].to

FramesOf(a) ==
  UNION {{t} \X {i \in 1 .. Len(stack[t]) : stack[t][i].to = a} : t \in Thread}

\* Agent::obligation_count is the number of calls, over all threads, that the
\* agent has not answered: the count run() waits on before stopping a driver.
Accounting ==
  \A a \in Agent :
    IsFiniteSet(FramesOf(a)) /\ obligation[a] = Cardinality(FramesOf(a))

\* Thread::pending is set only while somebody other than the user holds the
\* thread: the user is never told to wait for itself.
PendingOnlyAway == \A t \in Thread : pending[t] => Holder(t) # user

\* ... and whenever somebody other than the user holds it, as long as no agent
\* but the user catches rewinds ("whether user must wait for reply").
PendingWhenAway ==
  \A t \in Thread :
    /\ \A a \in agents : "CATCH" \in flags[a] => a = user
    /\ Holder(t) # user
    => pending[t]

\* Thread::pending tells the user's interface whether to wait: it is kept from
\* the ends of single messages, and agrees with the stack all the same.
PendingAgrees == PendingOnlyAway /\ PendingWhenAway

\* A frame carries the identifier of a journal record and no two frames of the
\* program share one: an In-Reply-To names at most one call, of one thread.
UniqueIds ==
  \A t \in Thread : \A i \in 1 .. Len(stack[t]) :
    /\ stack[t][i].id \in 1 .. lastId
    /\ \A u \in Thread : \A j \in 1 .. Len(stack[u]) :
         stack[t][i].id = stack[u][j].id => t = u /\ i = j

\* Only agents of the global domain and of a thread's own domain serve calls
\* of the thread: preprocess's CHECK(from->domain == ctx.from.domain) and its
\* "only global agents are allowed to message across thread" cannot fail for
\* the holder's answer.
HolderInScope ==
  \A t \in Thread : \A i \in 1 .. Len(stack[t]) :
    /\ stack[t][i].to \in agents
    /\ home[stack[t][i].to] \in {Global, HomeOf(t)}

\* A frame can always be answered, by the agent it waits for and by it alone:
\* that agent exists and may write on the thread, the frame's identifier is no
\* other call's, and whoever is given the thread then was being waited for.
FramesSound == CallChain /\ UniqueIds /\ HolderInScope

\* A tag an agent carries was proposed by the user: no exchange between
\* agents, clone or rewind makes one up.
TagsComeFromUser == \A a \in Agent : tags[a] \subseteq tags[user]

\* A step that removes frames below the top stops at the first caller that
\* has the CATCH flag: no frame below a frame such a caller sent is lost with it.
CatchStops ==
  [][\A t \in Thread : \A i \in 1 .. Len(stack[t]) :
       (Len(stack'[t]) < i - 1) => "CATCH" \notin flags[stack[t][i].from]]_vars

\* Every thread behaves as doc/ACTOR.md's Continuation: the frames' callee is
\* the continuation owner and their callers are the agents that yielded to it.
Owner ==
  INSTANCE Continuation WITH
    owner <- [t \in Thread |-> Holder(t)],
    callers <- [t \in Thread |-> [i \in 1 .. Len(stack[t]) |-> stack[t][i].from]]

OneOwner == Owner!CSpec
=============================================================================
