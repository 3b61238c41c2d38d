------------------------------ MODULE Interface ------------------------------
(***************************************************************************)
(* The two threads of the runtime's process: the interface's, which sends  *)
(* through LoopDriver's queue and event counter, and the runtime's, which  *)
(* polls, answers the interface and feeds the observer's mirror.           *)
(*                                                                         *)
(* A lock's region is one step; what either thread does between two of     *)
(* them may be interleaved.  Routing is that of module Program, cut down   *)
(* to what the interface sees: whether an answer is due on a thread, its   *)
(* trace, and how many agents there are.  Adapters answer, sooner or later.*)
(***************************************************************************)
EXTENDS Integers, Sequences, SequencesExt

CONSTANTS
  Thread, Main,   \* the threads, and thread 0
  Kinds,          \* the interfaces: "null", "cli", "tui", "web"
  Arena,          \* the threads initArena's commands are sent on
  MaxSends        \* bound: messages of the interface, but for exits

ASSUME InterfaceAssumption ==
  /\ Main \in Thread /\ Arena \in Seq(Thread) /\ MaxSends \in Nat
  /\ Kinds \subseteq {"null", "cli", "tui", "web"}
  /\ {"user", "runtime"} \cap Thread = {}

VARIABLES
  kind,      \* which interface runs
  at,        \* where its thread is
  arena,     \* the arena's commands still to be answered
  draft,     \* the message being sent, and whether its sender awaits the answer
  pending,   \* threads whose UI::State is pending
  wanted,    \* threads whose UI::State wants its result
  result,    \* the promise, by the identifier of the message it answers; or 0
  sends,     \* how many messages were sent
  queue,     \* LoopDriver::pending of the user's driver
  wake,      \* whether its event counter is above 0
  self,      \* the queue of the runtime's own driver
  run,       \* where Runtime::run is
  events, todos,
  serving,   \* messages the adapters work on
  answers,   \* answers in the adapters' pipes
  stop,      \* Runtime::stop_requested
  exited,    \* whether the interface's on_exit was called
  program,   \* the runtime's Program
  records,   \* Observer::pendings
  mirror,    \* the observer's Program
  halted     \* the CHECK that ended the program, if one did

ui == <<kind, at, arena, draft, sends>>
states == <<pending, wanted, result>>
loop == <<run, events, todos, serving, answers, stop, exited>>
views == <<program, records, mirror>>
ivars == <<ui, states, queue, wake, self, loop, views, halted>>

Ops == {"work", "command", "exit", "answer"}
Letter == [thread : Thread, op : Ops, id : Nat]
Record == [thread : Thread, op : {"call", "return", "commit"}, id : Nat]

-----------------------------------------------------------------------------
(* Program::apply, as far as the interface sees it *)

Apply(p, r) ==
  CASE r.op = "commit" -> [p EXCEPT !.agents = @ + 1]
    [] r.op = "call" -> [p EXCEPT !.due = @ \cup {r.thread}, !.trace[r.thread] = Append(@, r.id)]
    [] r.op = "return" -> [p EXCEPT !.due = @ \ {r.thread}, !.trace[r.thread] = Append(@, r.id)]

RecordOf(m) ==
  [thread |-> m.thread, id |-> m.id, op |-> IF m.op = "answer" THEN "return" ELSE "call"]

Answer(m) == [m EXCEPT !.op = "answer"]

\* One record after another, as Observer::process applies them.
Replay(p, rs) ==
  LET state[i \in 0 .. Len(rs)] == IF i = 0 THEN p ELSE Apply(state[i - 1], rs[i])
  IN state[Len(rs)]

-----------------------------------------------------------------------------
(* The interface's thread: UI::send and UI::syscall *)

OldPromise == result   \* mutated: the promise of the last syscall is kept
FreshPromise == 0

MarkedNone(t) == pending   \* mutated: the thread is not marked
Marked(t) == pending \cup {t}

\* Under UI::mutex: the CHECK, and the marks.
Begin(t, op, awaited) ==
  /\ IF t \in pending
     THEN halted' = "pending" /\ UNCHANGED <<ui, states>>
     ELSE /\ at' = "marked"
          /\ draft' = [msg |-> [thread |-> t, op |-> op, id |-> sends + 1],
                       awaited |-> awaited]
          /\ sends' = sends + 1
          /\ pending' = Marked(t)
          /\ wanted' = IF awaited THEN wanted \cup {t} ELSE wanted \ {t}
          /\ result' = FreshPromise
          /\ UNCHANGED <<kind, arena, halted>>
  /\ UNCHANGED <<queue, wake, self, loop, views>>

\* enqueueUser, and LoopDriver::enqueue under its mutex.
Push ==
  /\ at = "marked"
  /\ IF exited
     THEN halted' = "no_driver" /\ UNCHANGED <<at, queue>>
     ELSE at' = "pushed" /\ queue' = Append(queue, draft.msg) /\ UNCHANGED halted
  /\ UNCHANGED <<kind, arena, draft, sends, states, wake, self, loop, views>>

\* Where the sender goes from there.
Afterwards ==
  IF draft.awaited THEN "future"
  ELSE IF kind = "null" THEN "latch"
  ELSE IF kind = "cli" /\ draft.msg.op = "exit" THEN "left"
  ELSE "choose"

\* The write to the event counter.
Signal == at = "pushed" /\ wake' = TRUE

Wake ==
  /\ Signal
  /\ at' = Afterwards
  /\ UNCHANGED <<kind, arena, draft, sends, states, queue, self, loop, views, halted>>

-----------------------------------------------------------------------------
(* What each interface does *)

Bounded == sends < Len(Arena) + MaxSends

\* initArena: one command after another, each awaited.
ArenaSyscall ==
  /\ at = "choose" /\ arena # <<>>
  /\ Begin(Head(arena), "command", TRUE)

FutureGet ==
  /\ at = "future" /\ result # 0
  /\ at' = "choose" /\ arena' = Tail(arena)
  /\ UNCHANGED <<kind, draft, sends, states, queue, wake, self, loop, views, halted>>

Running(k) == kind = k /\ at = "choose" /\ arena = <<>>

NullExit == Running("null") /\ Begin(Main, "exit", FALSE)

\* A line typed for thread t, sent whether or not an answer is due.
CliSend(t) == Running("cli") /\ Bounded /\ \E op \in {"work", "command"} : Begin(t, op, FALSE)

\* "/x", or the end of the input: waitUntilIdle(0), then the exit.
CliQuit ==
  /\ Running("cli") /\ at' = "idle"
  /\ UNCHANGED <<kind, arena, draft, sends, states, queue, wake, self, loop, views, halted>>
CliExit == at = "idle" /\ Main \notin pending /\ Begin(Main, "exit", FALSE)

\* A thread tab's Send button or F12: what is looked at is the mirror's thread.
TuiSend(t) ==
  /\ Running("tui") /\ Bounded /\ t \notin mirror.due
  /\ \E op \in {"work", "command"} : Begin(t, op, FALSE)

\* The terminal's Exit button and the web's /api/exit.
ButtonExit == (Running("tui") \/ Running("web")) /\ Begin(Main, "exit", FALSE)

\* A frame is rendered, or the dump requested: Observer::process.
Render ==
  /\ Running("tui") \/ Running("web")
  /\ mirror' = Replay(mirror, records)
  /\ records' = <<>>
  /\ UNCHANGED <<ui, states, queue, wake, self, loop, program, halted>>

\* on_exit ends the interface's loop, and opens Null's latch.
Leave ==
  /\ exited
  /\ \/ at = "latch"
     \/ Running("tui") \/ Running("web")
  /\ at' = "left"
  /\ UNCHANGED <<kind, arena, draft, sends, states, queue, wake, self, loop, views, halted>>

Join ==
  /\ at = "left" /\ run = "stopped"
  /\ at' = "joined"
  /\ UNCHANGED <<kind, arena, draft, sends, states, queue, wake, self, loop, views, halted>>

\* The steps the interface takes by itself, and those its user decides on.
Automatic ==
  Push \/ Wake \/ ArenaSyscall \/ FutureGet \/ NullExit \/ CliExit \/ Leave \/ Join
Chosen ==
  \/ \E t \in Thread : CliSend(t) \/ TuiSend(t)
  \/ CliQuit \/ ButtonExit \/ Render

-----------------------------------------------------------------------------
(* The runtime's thread *)

Ready ==
  {e \in {"user"} : wake} \cup {e \in {"runtime"} : self # <<>>} \cup
  {m.thread : m \in answers}

Poll ==
  /\ run = "poll" /\ Ready # {}
  /\ events' = Ready /\ run' = "receive"
  /\ UNCHANGED <<ui, states, queue, wake, self, todos, serving, answers, stop, exited, views, halted>>

RemainingAll == queue   \* mutated: the queue is copied, not swapped
Remaining == <<>>

\* LoopDriver::recv: the queue is taken under the lock...
TakeQueue ==
  /\ run = "receive" /\ "user" \in events
  /\ todos' = todos \o queue /\ queue' = Remaining /\ run' = "reset"
  /\ UNCHANGED <<ui, states, wake, self, events, serving, answers, stop, exited, views, halted>>

\* ... and the event counter read, which resets it, after the lock's release.
Reset ==
  /\ run = "reset"
  /\ wake' = FALSE /\ events' = events \ {"user"} /\ run' = "receive"
  /\ UNCHANGED <<ui, states, queue, self, todos, serving, answers, stop, exited, views, halted>>

\* Only the runtime's thread uses the runtime's own driver.
TakeSelf ==
  /\ run = "receive" /\ "runtime" \in events
  /\ todos' = todos \o self /\ self' = <<>> /\ events' = events \ {"runtime"}
  /\ UNCHANGED <<ui, states, queue, wake, run, serving, answers, stop, exited, views, halted>>

TakeAnswer ==
  /\ run = "receive"
  /\ \E m \in answers :
       /\ m.thread \in events
       /\ todos' = Append(todos, m) /\ answers' = answers \ {m}
       /\ events' = events \ {m.thread}
  /\ UNCHANGED <<ui, states, queue, wake, self, run, serving, stop, exited, views, halted>>

AllReceived ==
  /\ run = "receive" /\ events = {}
  /\ run' = "process"
  /\ UNCHANGED <<ui, states, queue, wake, self, events, todos, serving, answers, stop, exited,
                 views, halted>>

ConsumedRouted(r) ==   \* mutated: commits are not consumed
  IF kind \in {"tui", "web"} /\ r.op # "commit" THEN Append(records, r) ELSE records

\* The observer is given a record, if the interface has one.
Consumed(r) == IF kind \in {"tui", "web"} THEN Append(records, r) ELSE records

ProcessWork(m) ==
  /\ m.op = "work"
  /\ program' = Apply(program, RecordOf(m))
  /\ serving' = serving \cup {m}
  /\ UNCHANGED <<states, self, stop, records, halted>>

\* The command's commit is consumed before the call that asked for it.
ProcessCommand(m) ==
  LET commit == [thread |-> m.thread, id |-> m.id, op |-> "commit"]
  IN /\ m.op = "command"
     /\ program' = Apply(Apply(program, RecordOf(m)), commit)
     /\ records' = Consumed(commit)
     /\ self' = Append(self, Answer(m))
     /\ UNCHANGED <<states, serving, stop, halted>>

ProcessExit(m) ==
  /\ m.op = "exit"
  /\ program' = Apply(program, RecordOf(m))
  /\ stop' = TRUE
  /\ self' = Append(self, Answer(m))
  /\ UNCHANGED <<states, serving, records, halted>>

\* The promise of the thread's waiter, if it has one.
Fulfil(t, id) == IF t \in wanted THEN id ELSE result

ClearedIfWanted(t) == pending \ ({t} \cap wanted)   \* mutated: syscalls only
Cleared(t) == pending \ {t}

\* UI::on_message, under UI::mutex.
ProcessAnswer(m) ==
  /\ m.op = "answer"
  /\ program' = Apply(program, RecordOf(m))
  /\ IF m.thread \in pending
     THEN /\ pending' = Cleared(m.thread) /\ wanted' = wanted \ {m.thread}
          /\ result' = Fulfil(m.thread, m.id)
          /\ UNCHANGED halted
     ELSE halted' = "answer" /\ UNCHANGED states
  /\ UNCHANGED <<serving, self, stop, records>>

Process ==
  /\ run = "process" /\ todos # <<>>
  /\ LET m == Head(todos)
     IN ProcessWork(m) \/ ProcessCommand(m) \/ ProcessExit(m) \/ ProcessAnswer(m)
  /\ run' = "consume"
  /\ UNCHANGED <<ui, queue, wake, events, todos, answers, exited, mirror>>

\* The delivered message itself is consumed last.
Consume ==
  /\ run = "consume"
  /\ records' = Consumed(RecordOf(Head(todos)))
  /\ todos' = Tail(todos) /\ run' = "process"
  /\ UNCHANGED <<ui, states, queue, wake, self, events, serving, answers, stop, exited,
                 program, mirror, halted>>

TurnEnds ==
  /\ run = "process" /\ todos = <<>>
  /\ run' = IF stop THEN "drain" ELSE "poll"
  /\ UNCHANGED <<ui, states, queue, wake, self, events, todos, serving, answers, stop, exited,
                 views, halted>>

\* The shutdown: the runtime's own answers are applied, the interface is told
\* to leave and its driver dropped, and then the adapters are waited for.
DrainRuntime ==
  /\ run = "drain" /\ self # <<>>
  /\ program' = Replay(program, [i \in DOMAIN self |-> RecordOf(self[i])])
  /\ self' = <<>>
  /\ UNCHANGED <<ui, states, queue, wake, loop, records, mirror, halted>>

DrainUser ==
  /\ run = "drain" /\ self = <<>> /\ ~exited
  /\ exited' = TRUE
  /\ UNCHANGED <<ui, states, queue, wake, self, run, events, todos, serving, answers, stop,
                 views, halted>>

DrainAdapter ==
  /\ run = "drain" /\ exited
  /\ \E m \in answers :
       /\ answers' = answers \ {m}
       /\ program' = Apply(program, RecordOf(m))
  /\ UNCHANGED <<ui, states, queue, wake, self, run, events, todos, serving, stop, exited,
                 records, mirror, halted>>

QuietUi == pending = {}   \* mutated: the interface's threads are waited for
Quiet == serving \cup answers = {}

Stopped ==
  /\ run = "drain" /\ exited /\ Quiet
  /\ run' = "stopped"
  /\ UNCHANGED <<ui, states, queue, wake, self, events, todos, serving, answers, stop, exited,
                 views, halted>>

Runs ==
  \/ Poll \/ TakeQueue \/ Reset \/ TakeSelf \/ TakeAnswer \/ AllReceived
  \/ Process \/ Consume \/ TurnEnds
  \/ DrainRuntime \/ DrainUser \/ DrainAdapter \/ Stopped

\* An adapter answers.
Answers ==
  /\ \E m \in serving : serving' = serving \ {m} /\ answers' = answers \cup {Answer(m)}
  /\ UNCHANGED <<ui, states, queue, wake, self, run, events, todos, stop, exited, views, halted>>

-----------------------------------------------------------------------------
(* The specification *)

Fresh == [due |-> {}, trace |-> [t \in Thread |-> <<>>], agents |-> 0]

IInit ==
  /\ kind \in Kinds /\ at = "choose" /\ arena = Arena
  /\ draft = [msg |-> [thread |-> Main, op |-> "exit", id |-> 0], awaited |-> FALSE]
  /\ sends = 0 /\ pending = {} /\ wanted = {} /\ result = 0
  /\ queue = <<>> /\ wake = FALSE /\ self = <<>>
  /\ run = "poll" /\ events = {} /\ todos = <<>> /\ serving = {} /\ answers = {}
  /\ stop = FALSE /\ exited = FALSE
  /\ program = Fresh /\ records = <<>> /\ mirror = Fresh
  /\ halted = "no"

INext == halted = "no" /\ (Automatic \/ Chosen \/ Runs \/ Answers)

\* Both threads go on while they can, and the adapters answer; the user need
\* not do anything, and the screen need not be drawn.
ISpec ==
  /\ IInit /\ [][INext]_ivars
  /\ WF_ivars(halted = "no" /\ Automatic)
  /\ WF_ivars(halted = "no" /\ Runs)
  /\ WF_ivars(halted = "no" /\ Answers)

-----------------------------------------------------------------------------
(* Properties *)

ITypeOK ==
  /\ kind \in Kinds /\ arena \in Seq(Thread) /\ sends \in Nat
  /\ at \in {"choose", "marked", "pushed", "future", "idle", "latch", "left", "joined"}
  /\ draft \in [msg : Letter, awaited : BOOLEAN]
  /\ pending \subseteq Thread /\ wanted \subseteq pending /\ result \in 0 .. sends
  /\ {queue, self, todos} \subseteq Seq(Letter) /\ wake \in BOOLEAN
  /\ run \in {"poll", "receive", "reset", "process", "consume", "drain", "stopped"}
  /\ events \subseteq {"user", "runtime"} \cup Thread
  /\ serving \cup answers \subseteq Letter
  /\ {stop, exited} \subseteq BOOLEAN
  /\ {program, mirror} \subseteq
       [due : SUBSET Thread, trace : [Thread -> Seq(Nat)], agents : Nat]
  /\ records \in Seq(Record)
  /\ halted \in {"no", "pending", "answer", "no_driver"}

\* The messages of thread t under way, the one being delivered left out.
Carriers(t) ==
  {m \in ToSet(queue) \cup ToSet(self) \cup serving \cup answers \cup
         ToSet(IF run = "consume" THEN Tail(todos) ELSE todos) : m.thread = t} \cup
  {m \in {draft.msg} : at = "marked" /\ m.thread = t}

\* However the two threads interleave, a thread the interface has marked has
\* exactly one message under way, from UI::send to UI::on_message, and no other
\* thread has one: on_message's CHECK(thread.pending) holds.
OneCarrier ==
  ~stop => /\ \A t \in Thread : IF t \in pending THEN \E m \in Carriers(t) : Carriers(t) = {m} ELSE Carriers(t) = {}
           /\ halted # "answer"

\* The observer's Program, once it has applied what was consumed, is the
\* runtime's, although a commit is consumed before the call that caused it.
MirrorReplays ==
  kind \in {"tui", "web"} /\ run \notin {"drain", "stopped"} =>
    Replay(mirror, IF run = "consume" THEN Append(records, RecordOf(Head(todos))) ELSE records)
      = program

\* The mirror never shows an answer before the interface may send again: where
\* the mirror has seen the last message sent on a thread and no answer due on
\* it, UI::send's CHECK holds.
ShownAnswered ==
  kind \in {"tui", "web"} /\ ~stop =>
    \A t \in pending \ mirror.due : \E m \in Carriers(t) : m.id \notin ToSet(mirror.trace[t])

\* A future is given the answer to the message its own call sent.
SyscallAnswered == at \in {"marked", "pushed", "future"} /\ draft.awaited =>
                     result \in {0, draft.msg.id}

\* The commands of initArena are all answered, whichever interface follows.
ArenaDone == <>(arena = <<>>)

\* The null interface ends: main's two threads join.
NullEnds == kind = "null" ~> at = "joined"

\* A stop that was accepted ends the runtime's loop.
StopEnds == stop ~> (run = "stopped" \/ halted # "no")

\* Neither of the process's threads is left waiting for the other: not in the
\* arena, not at the null interface's end, and not after a stop.
EveryoneEnds == ArenaDone /\ NullEnds /\ StopEnds

-----------------------------------------------------------------------------
(* What the comments say, and the code does not keep *)

\* "LoopDriver is a local API to send messages to the runtime": a message put
\* in the queue is received, unless the program ends first.
QueueReceived == queue # <<>> ~> (queue = <<>> \/ stop \/ halted # "no")
=============================================================================
