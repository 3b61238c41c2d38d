------------------------------- MODULE Runtime -------------------------------
(***************************************************************************)
(* Runtime::run around the routing core (module Program): the event loop,  *)
(* the drivers that carry messages to and from adapter processes, what     *)
(* LinearService does inside each adapter, the user's interface, adapter   *)
(* crashes and the shutdown sequence.                                      *)
(*                                                                         *)
(* One turn of the loop polls the drivers, receives from each ready one    *)
(* into `todos', and then takes the todos one by one: preprocess, append,  *)
(* apply, and deliver to the agent the message goes to.  The shutdown      *)
(* sequence uses the same steps without the delivery.                      *)
(*                                                                         *)
(* Pipes are unbounded here, LoopDriver's queue is ready exactly when it   *)
(* is not empty (module Interface has its wake-up), and the user sends on  *)
(* a thread only while no answer is due on it.                             *)
(***************************************************************************)
EXTENDS Program, SequencesExt

CONSTANTS
  AgentOrder,   \* the agents by AgentID
  Unserved,     \* the agents whose service is the empty string
  Contacts,     \* for each thread, the agents the user writes to on it
  Peers,        \* for each agent, the agents its adapter calls
  Noting,       \* the agents whose adapter emits agent:data
  Fragile,      \* the agents whose adapter may crash or fail to start
  Nobody,       \* the From of a message without one
  MaxRequests,  \* bound: messages of the user
  MaxCalls,     \* bound: calls made by adapters
  MaxCrashes    \* bound: adapters that crash or fail to start

VARIABLES
  proc,       \* AgentState::driver and the process behind it
  inbox,      \* messages in the pipe to the adapter
  outbox,     \* messages in the pipe from the adapter, or in LoopDriver::pending
  service,    \* LinearService::stack of each adapter process
  heirs,      \* processes that inherited the read end of an open driver's pipe
  stale,      \* processes that keep a closed driver's pipe in the epoll set
  events,     \* the events of the last poll still to be received
  todos,      \* the received messages still to be processed
  uiPending,  \* UI::State::pending
  stopping,   \* Runtime::stop_requested
  phase,      \* where run() is
  draining,   \* index into AgentOrder of the agent being shut down
  requests, calls, crashes   \* counters for the bounds

program == vars
fds == <<heirs, stale>>
counters == <<requests, calls, crashes>>
rvars == <<program, proc, inbox, outbox, service, fds, events, todos, uiPending,
           stopping, phase, draining, counters>>

ASSUME RuntimeAssumption ==
  /\ AgentOrder \in Seq(Agent) /\ IsInjective(AgentOrder) /\ ToSet(AgentOrder) = Agent
  /\ {Unserved, Noting, Fragile} \subseteq SUBSET Agent
  /\ Contacts \in [Thread -> SUBSET Agent] /\ Peers \in [Agent -> SUBSET Agent]
  /\ Nobody \notin Agent
  /\ MaxRequests \in Nat /\ MaxCalls \in Nat /\ MaxCrashes \in Nat

Loops == {user, runtime}   \* the agents behind a LoopDriver
Adapters == Agent \ Loops

\* What an adapter is sent: a routed message, its identifier assigned.
Delivery == [thread : Thread, id : Nat, from : Agent \cup {Nobody}, reply : BOOLEAN]

\* An entry of LinearService::stack: a call being served, or one it made.
Entry == [incoming : BOOLEAN, thread : Thread, id : Nat, peer : Agent \cup {Nobody}]

\* A received message and its sender, or the news that the sender has died.
Todo == [agent : Agent, msg : Message, died : BOOLEAN]

\* A message to b that is not a clone.
To(b) == [agent |-> b, clone |-> FALSE]

-----------------------------------------------------------------------------
(* The user's interface *)

\* UI::send, on a thread with no answer due.  Once the user's driver is shut
\* down the interface has been told to leave.
UserSend(t, b) ==
  /\ requests < MaxRequests /\ proc[user] = "up"
  /\ ~uiPending[t]
  /\ uiPending' = [uiPending EXCEPT ![t] = TRUE]
  /\ outbox' = [outbox EXCEPT ![user] = Append(@, Request(t, NoId, To(b), {}))]
  /\ requests' = requests + 1
  /\ UNCHANGED <<program, proc, inbox, service, fds, events, todos, stopping, phase,
                 draining, calls, crashes>>

-----------------------------------------------------------------------------
(* Adapter processes: Server::run around LinearService::on_message *)

\* The process of a exits: the pipes it inherited are closed.
Exit(a) ==
  /\ proc' = [proc EXCEPT ![a] = "dead"]
  /\ inbox' = [inbox EXCEPT ![a] = <<>>]
  /\ heirs' = [c \in Agent |-> heirs[c] \ {a}]
  /\ stale' = [c \in Agent |-> stale[c] \ {a}]

\* The checks on_message makes on a reply.
Expected(a, d) ==
  /\ service[a] # <<>> /\ ~Last(service[a]).incoming
  /\ Last(service[a]).peer = d.from

\* mutated: the entry of the call that was answered stays
ServingKept(a, d) ==
  IF d.reply THEN service[a]
  ELSE Append(service[a], [incoming |-> TRUE, thread |-> d.thread,
                           id |-> d.id, peer |-> d.from])

\* The stack while the adapter serves d.
Serving(a, d) ==
  IF d.reply THEN Front(service[a])
  ELSE Append(service[a], [incoming |-> TRUE, thread |-> d.thread,
                           id |-> d.id, peer |-> d.from])

\* The agent:data records of a round; the routed message follows them.
Notes(a, t) == IF a \in Noting THEN <<DataMessage(t)>> ELSE <<>>

\* The adapter answers the call it serves.
AdapterReply(a) ==
  /\ proc[a] = "up" /\ inbox[a] # <<>>
  /\ LET d == Head(inbox[a])
         s == Serving(a, d)
         e == Last(s)
     IN /\ d.reply => Expected(a, d)
        /\ s # <<>> /\ e.incoming
        /\ service' = [service EXCEPT ![a] = Front(s)]
        /\ outbox' = [outbox EXCEPT ![a] =
                        @ \o Notes(a, e.thread) \o <<Reply(e.thread, e.id, {})>>]
  /\ inbox' = [inbox EXCEPT ![a] = Tail(@)]
  /\ UNCHANGED <<program, proc, fds, events, todos, uiPending, stopping, phase,
                 draining, counters>>

\* It calls b, other than its caller, in order to answer.
AdapterCall(a, b) ==
  /\ proc[a] = "up" /\ inbox[a] # <<>> /\ calls < MaxCalls
  /\ LET d == Head(inbox[a])
         s == Serving(a, d)
         e == Last(s)
     IN /\ d.reply => Expected(a, d)
        /\ s # <<>> /\ e.incoming /\ e.peer # b
        /\ service' = [service EXCEPT ![a] =
             Append(s, [incoming |-> FALSE, thread |-> e.thread,
                        id |-> NoId, peer |-> b])]
        /\ outbox' = [outbox EXCEPT ![a] =
                        @ \o Notes(a, e.thread) \o
                        <<Request(e.thread, e.id, To(b), {})>>]
  /\ inbox' = [inbox EXCEPT ![a] = Tail(@)]
  /\ calls' = calls + 1
  /\ UNCHANGED <<program, proc, fds, events, todos, uiPending, stopping, phase,
                 draining, requests, crashes>>

\* A CHECK of on_message fails and the process exits.
AdapterCheck(a) ==
  /\ proc[a] = "up" /\ inbox[a] # <<>>
  /\ LET d == Head(inbox[a])
     IN \/ d.reply /\ ~Expected(a, d)
        \/ d.reply /\ Expected(a, d)
           /\ (Len(service[a]) = 1 \/ ~Last(Front(service[a])).incoming)
  /\ Exit(a)
  /\ UNCHANGED <<program, outbox, service, events, todos, uiPending, stopping, phase,
                 draining, counters>>

Crash(a) ==
  /\ proc[a] = "up" /\ a \in Fragile /\ crashes < MaxCrashes
  /\ Exit(a)
  /\ crashes' = crashes + 1
  /\ UNCHANGED <<program, outbox, service, events, todos, uiPending, stopping, phase,
                 draining, requests, calls>>

-----------------------------------------------------------------------------
(* Polling *)

Readable(a) == outbox[a] # <<>> \/ proc[a] = "dead"

\* What epoll_wait returns: the open drivers that can be read, and the closed
\* ones it still watches.
Ready ==
  {<<a, "open">> : a \in {b \in Agent : proc[b] # "none" /\ Readable(b)}} \cup
  {<<a, "stale">> : a \in {b \in Agent : stale[b] # {}}}

ReceivedUnnamed(a) ==   \* mutated: the REWIND of a dead agent lacks the agent
  IF a \in Loops THEN [i \in 1 .. Len(outbox[a]) |->
                         [agent |-> a, msg |-> outbox[a][i], died |-> FALSE]]
  ELSE IF outbox[a] # <<>> THEN <<[agent |-> a, msg |-> Head(outbox[a]), died |-> FALSE]>>
  ELSE <<[agent |-> Nobody, msg |-> DataMessage(MainThread), died |-> TRUE]>>

\* Driver::recv: LoopDriver hands over its queue, ShellDriver one message; at
\* the end of file the driver is dropped and a REWIND takes its place.
Received(a) ==
  IF a \in Loops THEN [i \in 1 .. Len(outbox[a]) |->
                         [agent |-> a, msg |-> outbox[a][i], died |-> FALSE]]
  ELSE IF outbox[a] # <<>> THEN <<[agent |-> a, msg |-> Head(outbox[a]), died |-> FALSE]>>
  ELSE <<[agent |-> a, msg |-> DataMessage(MainThread), died |-> TRUE]>>

RemainingAll(a) == outbox[a]   \* mutated: what was read is not removed
Remaining(a) == IF a \in Loops \/ outbox[a] = <<>> THEN <<>> ELSE Tail(outbox[a])

Polling == phase = "run" /\ ~stopping

Poll ==
  /\ Polling /\ todos = <<>> /\ events = {} /\ Ready # {}
  /\ events' = Ready
  /\ UNCHANGED <<program, proc, inbox, outbox, service, fds, todos, uiPending,
                 stopping, phase, draining, counters>>

\* An event is looked at by its agent alone, and in any order.
Receive(e) ==
  LET from == e[1]
  IN /\ Polling /\ e \in events
     /\ proc[from] # "none" /\ Readable(from)
     /\ events' = events \ {e}
     /\ todos' = todos \o Received(from)
     /\ outbox' = [outbox EXCEPT ![from] = Remaining(from)]
     /\ IF outbox[from] = <<>>
        THEN /\ proc' = [proc EXCEPT ![from] = "none"]
             /\ stale' = [stale EXCEPT ![from] = @ \cup heirs[from]]
             /\ heirs' = [heirs EXCEPT ![from] = {}]
        ELSE UNCHANGED <<proc, fds>>
     /\ UNCHANGED <<program, inbox, service, uiPending, stopping, phase, draining,
                    counters>>

\* An event of a driver that is gone: CHECK(state.driver).
PollCheck ==
  /\ Polling
  /\ \E e \in events : proc[e[1]] = "none"
  /\ phase' = "poll_check"
  /\ UNCHANGED <<program, proc, inbox, outbox, service, fds, todos, events,
                 uiPending, stopping, draining, counters>>

-----------------------------------------------------------------------------
(* Delivery: what run() does with the agent apply() returns *)

\* UI::on_message, which expects an answer to be due on the thread.
ToUser(d) ==
  /\ IF uiPending[d.thread]
     THEN uiPending' = [uiPending EXCEPT ![d.thread] = FALSE] /\ phase' = phase
     ELSE phase' = "ui_check" /\ uiPending' = uiPending
  /\ UNCHANGED <<proc, inbox, outbox, service, fds, stopping, crashes>>

\* The runtime serves the command and queues its answer at once; "exit" asks
\* run() to stop.
ToRuntime(d) ==
  /\ outbox' = [outbox EXCEPT ![runtime] = Append(@, Reply(d.thread, d.id, {}))]
  /\ stopping' \in {stopping, TRUE}
  /\ UNCHANGED <<proc, inbox, service, fds, uiPending, phase, crashes>>

\* ShellDriver's constructor forks the adapter, which inherits the pipes of
\* the drivers that are open, and waits for its hello.
Start(b, d) ==
  /\ proc[b] = "none" /\ b \notin Unserved
  /\ proc' = [proc EXCEPT ![b] = "up"]
  /\ inbox' = [inbox EXCEPT ![b] = <<d>>]
  /\ service' = [service EXCEPT ![b] = <<>>]
  /\ heirs' = [c \in Agent |-> IF c = b THEN {}
                               ELSE IF c \in Adapters /\ proc[c] # "none"
                                    THEN heirs[c] \cup {b} ELSE heirs[c]]
  /\ UNCHANGED <<outbox, stale, uiPending, stopping, phase, crashes>>

\* No hello: the exception leaves run().
FailToStart(b) ==
  /\ proc[b] = "none" /\ b \in Fragile \ Unserved /\ crashes < MaxCrashes
  /\ phase' = "no_hello" /\ crashes' = crashes + 1
  /\ UNCHANGED <<proc, inbox, outbox, service, fds, uiPending, stopping>>

\* An agent without a service: run() returns.
GiveUp(b) ==
  /\ proc[b] = "none" /\ b \in Unserved
  /\ phase' = "returned"
  /\ UNCHANGED <<proc, inbox, outbox, service, fds, uiPending, stopping, crashes>>

\* A write to a process that has exited ends the program (SIGPIPE).
Send(b, d) ==
  /\ proc[b] # "none"
  /\ IF proc[b] = "up"
     THEN inbox' = [inbox EXCEPT ![b] = Append(@, d)] /\ phase' = phase
     ELSE phase' = "broken_pipe" /\ inbox' = inbox
  /\ UNCHANGED <<proc, outbox, service, fds, uiPending, stopping, crashes>>

Deliver(b, d) ==
  \/ b = user /\ ToUser(d)
  \/ b = runtime /\ ToRuntime(d)
  \/ b \in Adapters /\ (Start(b, d) \/ FailToStart(b) \/ GiveUp(b) \/ Send(b, d))

Undelivered ==
  UNCHANGED <<proc, inbox, outbox, service, fds, uiPending, stopping, phase, crashes>>

\* mutated: the identifier is the one of the record before
DeliveredStale(a, m, id) ==
  [thread |-> m.thread, id |-> id - 1, from |-> a, reply |-> m.inReplyTo # NoId]

\* The delivery of message m of agent a, journaled as id.
Delivered(a, m, id) ==
  [thread |-> m.thread, id |-> id, from |-> a, reply |-> m.inReplyTo # NoId]

-----------------------------------------------------------------------------
(* Processing the next todo; routed messages are delivered in phase "run" *)

Next1 == Head(todos)

NextTodo ==
  /\ events = {} /\ todos # <<>> /\ phase \in {"run", "drain"}
  /\ todos' = Tail(todos)
  /\ UNCHANGED <<events, draining, requests, calls>>

ProcessNote ==
  /\ NextTodo /\ ~Next1.died
  /\ Note(Next1.agent, Next1.msg)
  /\ Undelivered

ProcessRouted(b) ==
  /\ NextTodo /\ ~Next1.died
  /\ Route(Next1.agent, Next1.msg, b)
  /\ IF phase = "run"
     THEN Deliver(b, Delivered(Next1.agent, Next1.msg, lastId'))
     ELSE Undelivered

ProcessCommand(new, f) ==
  /\ NextTodo /\ ~Next1.died
  /\ Command(Next1.agent, Next1.msg, new, f)
  /\ IF phase = "run"
     THEN Deliver(runtime, Delivered(Next1.agent, Next1.msg, lastId + 1))
     ELSE new = {} /\ Undelivered

\* The REWIND of a dead agent carries neither From nor In-Reply-To.
ProcessDeath(b) ==
  /\ NextTodo /\ Next1.died
  /\ Died(Next1.agent, b)
  /\ Deliver(b, [thread |-> HomeThread(Next1.agent), id |-> lastId',
                 from |-> Nobody, reply |-> FALSE])

Process ==
  \/ ProcessNote
  \/ \E b \in Agent : ProcessRouted(b) \/ ProcessDeath(b)
  \/ \E new \in SUBSET (Agent \ agents) :
       \E f \in [new -> SUBSET Flag] : ProcessCommand(new, f)

-----------------------------------------------------------------------------
(* Shutdown: each agent in turn, first what it owes, then its driver *)

drainvars == <<program, service, fds, events, uiPending, stopping, counters>>

BeginShutdown ==
  /\ phase = "run" /\ stopping /\ todos = <<>>
  /\ phase' = "drain" /\ draining' = 1
  /\ UNCHANGED <<drainvars, proc, inbox, outbox, todos>>

Draining == AgentOrder[draining]

InDrain == phase = "drain" /\ todos = <<>> /\ draining \in 1 .. Len(AgentOrder)

\* recv() on an agent that owes answers: LoopDriver's never waits, and
\* ShellDriver's waits for a message.
OwesAny(a) == obligation[a] >= 0   \* mutated: waits for one answer more
Owes(a) == obligation[a] > 0

\* mutated: an obligation is met by every record, agent:data included
DrainReceiveRaw ==
  /\ InDrain /\ Owes(Draining) /\ outbox[Draining] # <<>> /\ proc[Draining] # "none"
  /\ obligation' = [obligation EXCEPT ![Draining] = @ - 1]
  /\ outbox' = [outbox EXCEPT ![Draining] = Remaining(Draining)]
  /\ UNCHANGED <<agents, home, flags, tags, stack, pending, lastId, service, fds,
                 events, uiPending, stopping, counters, todos, proc, inbox, phase, draining>>

DrainReceive ==
  /\ InDrain /\ Owes(Draining) /\ outbox[Draining] # <<>> /\ proc[Draining] # "none"
  /\ todos' = Received(Draining)
  /\ outbox' = [outbox EXCEPT ![Draining] = Remaining(Draining)]
  /\ UNCHANGED <<drainvars, proc, inbox, phase, draining>>

\* CHECK(state.driver), or an end of file nobody catches.
DrainCheck ==
  /\ InDrain /\ Owes(Draining)
  /\ proc[Draining] = "none" \/ (proc[Draining] = "dead" /\ outbox[Draining] = <<>>)
  /\ phase' = "drain_check"
  /\ UNCHANGED <<drainvars, proc, inbox, outbox, todos, draining>>

\* Driver::shutdown: "bye", and wait for the process.
DrainNext ==
  /\ InDrain /\ ~Owes(Draining)
  /\ IF proc[Draining] = "dead"
     THEN phase' = "broken_pipe" /\ UNCHANGED <<proc, inbox, draining>>
     ELSE /\ proc' = [proc EXCEPT ![Draining] = "none"]
          /\ inbox' = [inbox EXCEPT ![Draining] = <<>>]
          /\ draining' = draining + 1
          /\ phase' = IF draining = Len(AgentOrder) THEN "stopped" ELSE phase
  /\ UNCHANGED <<drainvars, outbox, todos>>

-----------------------------------------------------------------------------
(* The specification *)

RInit ==
  /\ Init
  /\ proc = [a \in Agent |-> IF a \in Loops THEN "up" ELSE "none"]
  /\ inbox = [a \in Agent |-> <<>>]
  /\ outbox = [a \in Agent |-> <<>>]
  /\ service = [a \in Agent |-> <<>>]
  /\ heirs = [a \in Agent |-> {}]
  /\ stale = [a \in Agent |-> {}]
  /\ events = {} /\ todos = <<>>
  /\ uiPending = [t \in Thread |-> FALSE]
  /\ stopping = FALSE
  /\ phase = "run"
  /\ draining = 0
  /\ requests = 0 /\ calls = 0 /\ crashes = 0

Failures == {"ui_check", "poll_check", "drain_check", "no_hello", "broken_pipe"}

Alive == phase \notin Failures \cup {"stopped"}

Adapter(a) == AdapterReply(a) \/ AdapterCheck(a) \/ \E b \in Peers[a] : AdapterCall(a, b)

Loop ==
  Poll \/ (\E e \in events : Receive(e)) \/ PollCheck \/ Process \/
  BeginShutdown \/ DrainReceive \/ DrainCheck \/ DrainNext

RNext ==
  /\ Alive
  /\ \/ \E t \in Thread : \E b \in Contacts[t] : UserSend(t, b)
     \/ \E a \in Adapters : Adapter(a) \/ Crash(a)
     \/ Loop

RSpec == RInit /\ [][RNext]_rvars

\* The loop runs as long as it has something to do, and an adapter that was
\* sent a message serves it.  Nothing makes the user send or an adapter crash.
Fairness ==
  /\ WF_rvars(Alive /\ Loop)
  /\ \A a \in Adapters : WF_rvars(Alive /\ Adapter(a))

FairSpec == RSpec /\ Fairness

-----------------------------------------------------------------------------
(* Properties *)

RTypeOK ==
  /\ proc \in [Agent -> {"none", "up", "dead"}]
  /\ inbox \in [Agent -> Seq(Delivery)]
  /\ outbox \in [Agent -> Seq(Message)]
  /\ service \in [Agent -> Seq(Entry)]
  /\ heirs \in [Agent -> SUBSET Agent] /\ stale \in [Agent -> SUBSET Agent]
  /\ events \subseteq Agent \X {"open", "stale"}
  /\ todos \in Seq(Todo)
  /\ uiPending \in [Thread -> BOOLEAN]
  /\ stopping \in BOOLEAN
  /\ phase \in {"run", "drain", "stopped", "returned"} \cup Failures
  /\ draining \in Nat
  /\ requests \in Nat /\ calls \in Nat /\ crashes \in Nat

\* Whatever crashes, however the loop interleaves with the processes, the
\* durable state moves only as the routing core prescribes: its theorems hold
\* of the whole system.
ProgramSpec == Spec

\* Without a crash no assertion of the program fails, no exception leaves
\* run() and nothing is written to a process that is gone.
NoCheckFails == crashes = 0 => phase \notin Failures

\* With crashes too, a received message is of a thread its sender may write on:
\* "only global agents are allowed to message across thread" and the CHECK that
\* follows it in preprocess, which would end the program, always hold.
SendersMayWrite ==
  \A i \in 1 .. Len(todos) :
    ~todos[i].died => MayPost(todos[i].agent, todos[i].msg.thread)

\* An arena in which an adapter that calls others is reached from one thread
\* only, as LinearService keeps one stack for all threads.  reach[t] is what can
\* be called on thread t: agents that exist, are in the thread's scope and are no
\* templates of clones, and not the user, who may also write to agents out of
\* scope, which is refused.
Separates(reach) ==
  /\ \A t \in Thread : \A b \in Contacts[t] :
       b \in reach[t] \/ (b \in Founders /\ ArenaHome[b] \notin {Global, HomeOf(t)})
  /\ \A t \in Thread : \A a \in reach[t] :
       /\ a # user /\ ArenaHome[a] \in {Global, HomeOf(t)} /\ "CLONE" \notin ArenaFlags[a]
       /\ a \in Adapters => Peers[a] \subseteq reach[t]
  /\ \A t, u \in Thread : \A a \in reach[t] \cap reach[u] \cap Adapters :
       Peers[a] # {} => t = u

Separate == \E reach \in [Thread -> SUBSET Founders] : Separates(reach)

\* The routed messages of thread t under way, from any queue to any other.
Routed(q, t) == {i \in 1 .. Len(q) : q[i].thread = t}

UnderWay(t) ==
  (UNION {{a} \X {"in"} \X Routed(inbox[a], t) : a \in Agent}) \cup
  (UNION {{a} \X {"out"} \X {i \in Routed(outbox[a], t) : ~outbox[a][i].data} : a \in Agent}) \cup
  ({user} \X {"todo"} \X {i \in 1 .. Len(todos) :
                            todos[i].msg.thread = t /\ ~todos[i].msg.data})

\* Without a crash a thread is one token: while an answer is due exactly one
\* routed message of the thread exists, in a pipe, in LoopDriver's queue or
\* among the todos, and otherwise none.  None is lost, none is duplicated.
OneMessage ==
  (phase = "run" /\ crashes = 0) =>
    \A t \in Thread : Cardinality(UnderWay(t)) = (IF uiPending[t] THEN 1 ELSE 0)

\* The user's message of thread t has been enqueued and not yet applied.
Submitted(t) ==
  \/ \E i \in 1 .. Len(outbox[user]) : outbox[user][i].thread = t
  \/ \E i \in 1 .. Len(todos) : todos[i].agent = user /\ todos[i].msg.thread = t

\* The two records of "the user must wait" agree: UI::State::pending, of the
\* process, is the program's Thread::pending, but for a message on its way.
UiAgrees ==
  (phase = "run" /\ crashes = 0) =>
    \A t \in Thread : /\ uiPending[t] <=> pending[t] \/ Submitted(t)
                      /\ ~(pending[t] /\ Submitted(t))

\* While run() runs and before the first crash a thread is one token, and both
\* records of who has it agree: a message that is lost or taken twice shows in one
\* of them.
OneToken == OneMessage /\ UiAgrees

\* What an adapter believes it is serving, the program waits for, while run() runs
\* and before the first crash: each call that its LinearService stack holds as one
\* it serves is a frame to it, from the peer it will answer.
ServesFrames ==
  (phase = "run" /\ crashes = 0) =>
    \A a \in Adapters : \A k \in 1 .. Len(service[a]) :
      LET e == service[a][k]
      IN e.incoming =>
           \E i \in 1 .. Len(stack[e.thread]) :
             stack[e.thread][i] = [id |-> e.id, from |-> e.peer, to |-> a]

\* Without a crash every message of the user is answered, unless the user
\* asks for the shutdown or writes to an agent that has no service.
Answered ==
  [](crashes = 0) =>
    \A t \in Thread : uiPending[t] ~> (~uiPending[t] \/ stopping \/ phase = "returned")

\* A thread on which an adapter waits for another one.
Nested == \E t \in Thread : Len(stack[t]) > 1

\* A shutdown that ends leaves no call open, with or without crashes, whatever
\* agent:data the last rounds brought: the journal can be resumed.
StoppedClean ==
  phase = "stopped" =>
    /\ \A t \in Thread : stack[t] = <<>> /\ ~pending[t]
    /\ \A a \in Agent : obligation[a] = 0

\* The shutdown ends, pending requests of the user included, as long as no
\* adapter is waiting for another agent's answer.
ShutdownEnds ==
  [](crashes = 0 /\ ~Nested) => (stopping ~> (phase \in {"stopped", "returned"}))

-----------------------------------------------------------------------------
(* What comments, assertions and tests of the repository say, and the code    *)
(* does not keep                                                               *)

\* "construct response messages to waiting parties" (run(), of an adapter that
\* died): once its death is processed nobody waits for the dead agent.
DeathReleases ==
  [][(todos # <<>> /\ Next1.died /\ todos' = Tail(todos)) =>
       \A t \in Thread : \A i \in 1 .. Len(stack'[t]) :
         stack'[t][i].to # Next1.agent]_rvars

\* UI::on_message's CHECK(thread.pending): the user is sent a message of a
\* thread only while an answer is due on it, as long as nothing crashes.
UiCheckHolds == crashes = 0 => phase # "ui_check"

\* CHECK(state.driver): an event always belongs to a driver.
PollCheckHolds == phase # "poll_check"

\* The program exits cleanly when it is asked to while a request is pending.
ExitEnds == [](crashes = 0) => (stopping ~> phase = "stopped")
=============================================================================
