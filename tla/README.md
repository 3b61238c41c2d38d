# Postline: a verification project

Postline is a runtime for conversations between a user, language-model agents
and tools.  One process, the *runtime*, owns all durable state and routes every
message; each agent is served by an *adapter*, a separate process connected by
two pipes; a *user interface* runs in a second thread of the runtime's process.
Every message the runtime accepts is appended to a *journal*, and the program's
state is a function of the journal.

This directory holds TLA+ models of that machinery, the TLC configurations that
check them on small instances and TLAPS proofs of what holds for every instance.
Source paths are relative to the repository; "`program.cpp`" is
`src/program.cpp`, headers are in `include/postline/`.

## 1. Inventory

| Part | State | Operations | Interacts with |
|---|---|---|---|
| **Program** (`program.cpp`, `program.h`) | agents with flags, tags, memory and `obligation_count`; domains; snapshots; threads with a stack of frames and `pending` | `preprocess` (judge a message: DATA, RETURN, CALL or REWIND), `apply`, `commit` (create agents, domains, snapshots, threads), `makeRewindMessage` | called by Runtime for each message, by the journal's replay, by the Observer |
| **Runtime loop** (`runtime.cpp`, `runtime.h`, `poller.h`) | driver of each agent, poller, `stop_requested` | `run` (poll, receive, process, deliver, shut down), the runtime's own commands | Program, Journal, drivers, UI, Observer |
| **Drivers** (`driver.h`) | pipes and process of an adapter; `LoopDriver`'s queue, mutex and eventfd | start, send, recv, shutdown, enqueue | Runtime's thread; the UI's thread enqueues |
| **Adapter side** (`server.h`, `service.h`) | `LinearService::stack` of calls served and made | `on_message`, memory replay | through pipes |
| **Python adapters** (`python/postline/llm_agent.py`, clients of model providers) | `LLMAgent.stack`: whom a conversation returns to, whom it waits for, what is pending | `on_call`, `on_memory` | LinearService, a model |
| **C++ adapters** (`src/adapters`) | login: a pseudo terminal and its shell (`pty.h`), a transcript; shell: the processes and pipes of a command | `call`, `on_exit` | LinearService, the operating system |
| **Journal** (`journal.h`) | a chain of segment files, the append offset | open (new segment, discover chain, replay), `append`, `read` | Runtime |
| **User interface service** (`ui.h`, `ui.cpp`, `cli.cpp`, `web.cpp`, `main.cpp`) | `pending` and promise of each thread | `send`, `syscall`, `waitUntilIdle`, `on_message` | `LoopDriver`, across two threads |
| **Observer** (`observer.h`, `observer.cpp`) | a second Program, a queue of records | `consume` (runtime's thread), `process` (UI's) | Runtime, TUI |
| **TUI** (`src/tui`) | tabs, panes and focus, lists with a cursor and a viewport, unread marks, the reader's message, the editor, the log | frames (`syncObserver`, `drainLogs`), key and mouse handlers, Send | UI, Observer |
| **Message format** (`common.cpp`, `common.h`, `protocol.h`) | none | framing, headers, access identifiers | everything |
| **Parser** (`parser.cpp`), **python tools** (`python/shell/apply_patch.py`...) | none | pure algorithms | adapters, CLI |

What is hard here, and what makes each part correct:

* *Program.*  Adapters are separate programs: what one posts may be late,
  duplicated, addressed to anybody or about another thread.  Whatever arrives, a
  thread must stay one chain of calls with one owner, obligation counts must
  match the frames, a reply must match exactly one call, rewinding must stop at
  the first caller that catches.
* *Runtime loop.*  Adapters answer, crash and are started while messages wait in
  pipes, queues and the `todos` of the current turn.  No message may be lost or
  duplicated, no assertion of the program may fail because of an order of
  events, the loop and an adapter must not wait for each other's full pipes, every request must be answered, and a shutdown must leave no call open.
* *UI.*  Its own record of "an answer is due" must agree with the program's,
  although the two are kept in different threads from different messages.
* *Journal.*  A crash at any point must leave a journal that replays to the state
  the program had (`GENESIS.md`).
* *TUI.*  It acts on a copy of the threads that lags behind, and events reach
  panes between two frames, drawn or not.  A frame must show what is selected, a
  message must not count as read unseen, and a reply must be for the call it was
  composed for, or be refused.
* *Adapters.*  login guesses from silence that a line was worked off, while its
  shell prints and dies; shell reads two pipes one after the other.  Every call
  must be answered, with all that happened.  LLMAgent and LinearService both
  keep a stack of the conversation; they must mean the same.
* *Memory.*  An adapter that is started is told its agent's past from links and
  anchors, whoever it was cloned from and whenever.
* *Domains and snapshots.*  Commits "should never fail" (`protocol.h:65`), since
  they are journaled before they are executed.

`PROJECT.json` lists the hazards one by one, each at its line, with the
properties that cover it.

## 2. Modules

```
Continuation        abstract: one continuation owner per thread (doc/ACTOR.md)
     ^  refinement (OneOwner)
Program             the routing core             <- MCProgram   <- ProgramProofs
     ^  EXTENDS, and refinement (RuntimeImplementsProgram)
Runtime             loop, adapters, shutdown     <- MCRuntime   <- RuntimeProofs

Structure           domains, snapshots, commits  <- StructureProofs
     ^  EXTENDS
Navigator           the addresses a tab offers   <- MCStructure (SnapshotCommit.cfg)
Interface           the process's two threads    <- MCInterface <- InterfaceProofs

TailList            the list widget, as a record (no state of its own)
     ^  EXTENDS
LogPane             the log of the Global tab  ---+        <- ScreenProofs
Tui                 tabs, panes, reader, Send  ---+
Login, Shell        two adapters               ---+-- Edges     <- AdapterProofs
Memory              links, anchors, replay     ---+     ^
Conversation        an adapter's two stacks    ---+     |
Pipes               pipes that are full        ---+   MCEdges

Log                 abstract: an append-only log that outlives the program
     ^  refinement (DurableLog)
Journal             segments, replay, crashes    <- JournalProofs
Store               Navigator or Journal         <- MCStore

Induction           lemmas on recursive functions, for the proofs of Journal,
                    Interface, Tui, Login, Memory and Conversation
```

The state these modules share is cut differently in each: Program has flat
domains and every kind of message, Structure the tree of domains and only
well-formed calls, Interface only whether an answer is due, Journal only the
sequence of records, Tui one user and one agent on each thread, Memory no
threads, Conversation and Pipes one thread.  The modules under Edges share no
state: a behaviour of Edges is one of one part, chosen in the initial state.  The
same holds of Structure and Journal under Store: what a commit does to the tree
and where its record is written are checked apart.

### Program

State: `agents`, `home`, `flags`, `tags`, `obligation` (the fields of `Agent`),
`stack` and `pending` (of `Thread`), `lastId` (the journal's last access
identifier).  Each action is one journal record from beginning to end:
`preprocess`, `append`, `apply`, in that order.

| Action | Code |
|---|---|
| `Note` / `Data` | an `agent:data` record: `preprocess` 430-446, `apply` 594-601 |
| `Return` | an `In-Reply-To` that names the top frame: 458-472, 602-607 |
| `Call` | a message to an agent: 473-521, 608-616 |
| `CallRuntime` (`Command`) | a call of the runtime, whose command is executed before the next message: `cmd_create_agents` and the commands that change nothing |
| `CallClone` | a call of a clone address or of an agent with the CLONE flag: the clone is created first, by a record of its own |
| `Reject` | every other message: REWIND of the thread, 395, 555, 617-627 |
| `Died` | `makeRewindMessage`: REWIND of the home thread of an adapter that died |

A thread is identified with its root domain: the domain of thread 0 is the
global one, each other thread has a domain of its own.  Names are identities, so
"resolves" is membership in the thread's domain or in the global one.  `Posts`
lists what an agent may post: each class of message `preprocess` distinguishes,
from the holder of the thread and from everybody else, with right and wrong
identifiers.  `MayPost` is the check that ends the program (402-407); a message
that fails it has no action, and `SendersMayWrite` of module Runtime shows that
no adapter built on `LinearService` sends one.

`Continuation` is what `doc/ACTOR.md` promises: one owner per thread, which
yields to another agent or gives control back to one of the callers that wait.
`OneOwner` is the refinement, with the callee of the top frame as owner.

### Runtime

Extends Program with `proc`, `inbox`, `outbox`, `service` (the adapter process,
its pipes and its `LinearService::stack`), `heirs` and `stale` (which processes
inherited the read end of a driver's pipe, and which closed drivers the poller
therefore still watches), `events`, `todos`, `uiPending`, `stopping`, `phase`
and `draining`.

| Action | Code |
|---|---|
| `UserSend` | `UI::send` / `syscall` and `LoopDriver::enqueue` |
| `AdapterReply`, `AdapterCall`, `AdapterCheck` | one round of `Server::run` and `LinearService::on_message`: it answers its caller, calls another agent, or fails one of its CHECKs and exits |
| `Crash` | the adapter process exits by itself |
| `Poll`, `Receive`, `PollCheck` | `runtime.cpp` 337-369: the events of one `epoll_wait`, looked at one by one in any order |
| `ProcessNote`, `ProcessRouted`, `ProcessCommand`, `ProcessDeath` | 371-416: one todo from `preprocess` to the delivery |
| `BeginShutdown`, `DrainReceive`, `DrainCheck`, `DrainNext` | 419-459 |

Delivery (`Deliver`) covers each outcome: the UI's `on_message`, the runtime's
own service (which may set `stop_requested`), starting an adapter (`Start`), an
adapter that exits before its hello (`FailToStart`), an agent without a service
(`GiveUp`: `run` returns) and a write to a process that is gone (`Send` to a
dead adapter: SIGPIPE).  The failures are values of `phase`, each of which stops
the system: `ui_check`, `poll_check`, `drain_check`, `no_hello`, `broken_pipe`.

Abstractions: pipes are unbounded (module Pipes has bounded ones); `LoopDriver`'s queue is ready exactly when it
is not empty; a stale registration of the poller is counted once per agent;
adapters are built on `LinearService` (the C++ ones are; `llm_agent.py` keeps a
similar stack), do not call their own caller except to answer it, and do not use
clone addresses; the user sends on a thread only while no answer is due on it,
as the CLI's and Null's callers do with `waitUntilIdle` or a single message.

### Structure

State: `agents` (name and home domain), `domains`, `snapshots`, `roots` and
`stacks` of the threads, and `halted`, the commit whose CHECK failed.

| Action | Code |
|---|---|
| `CallAgent`, `CallClone`, `CallDomain`, `CallSnapshot` | the four outcomes of `resolve` in `preprocess`, with the commit each one journals |
| `CreateAgents`, `CreateDomain`, `CreateSnapshot` (in `Command`) | the runtime's commands, executed when the runtime is called, in the domain of the caller |
| `CommitAgents`, `CommitDomain`, `CommitSnapshot`, `CommitInstance` | `Program::commit`, one operator per record, CHECKs included; `create_thread` is part of `CommitDomain` |
| `Return`, `Rewind` | the stack, shortened |

The order of a hash table's members is any order (`Orders`), as it decides which
identifiers the members of an instance get.  A created agent's flags and tags are
left to Program and its memory to module Memory; only the user catches here.

### Navigator

Extends Structure with what a thread's tab reads off it: `TreeEntries`
(`thread_nav.cpp`: the tree of domains, which shows a detached domain but goes
into none) and `Offered` (`buildThreadAddressAgents` and
`MessageEditor::syncAddresses`: to whom a message may be addressed), with
`Answered`, the comparison by name that makes a message an answer
(`thread_tab.cpp:195-205`).  It adds no state and no step.

### Interface

State: the interface's thread (`at`, `draft`, `arena`), UI::State (`pending`,
`wanted`, `result`), LoopDriver (`queue`, and `wake` for the event counter), the
runtime's thread (`run`, `events`, `todos`, `stop`), and the two copies of
Program with the records between them (`program`, `records`, `mirror`).

| Action | Code |
|---|---|
| `Begin`, `Push`, `Wake`, `FutureGet` | `UI::send` / `UI::syscall` and `LoopDriver::enqueue`, cut where a lock is released |
| `ArenaSyscall`, `NullExit`, `CliSend`, `CliQuit`, `CliExit`, `TuiSend`, `ButtonExit`, `Render`, `Leave`, `Join` | `initArena` and the loops of the four interfaces |
| `TakeQueue`, `Reset` | the two halves of `LoopDriver::recv` |
| `Poll`, `TakeSelf`, `TakeAnswer`, `AllReceived`, `Process`, `Consume`, `TurnEnds`, `Drain...`, `Stopped` | `Runtime::run`, with the delivery (`UI::on_message`) and the observer's `consume` as separate steps |

The adapters are one operator, `Answers`: each message is answered once.

### Journal

State: the segment `files`, the work directory's link `latest`, and for each
program what it is doing, its chain and the records it has applied (`procs`).
Starting is cut at each point a kill can tell apart: the name is chosen, the
segment created, the chain replayed, the link moved.  `AppendRecord` and
`ApplyRecord` are the two halves of every record; `CrashInRoot` and
`CrashInWrite` leave a file without a root and a torn record.  What records mean
is left out: the state is a function of them (`Program::apply` reads nothing
else), so equal sequences are equal states.  Numbers of files stand for names,
and a program with `--resume` may start from any file.

### TailList, LogPane

`TailList` is `ftx_list.hpp`: a list is a record (first and last retained item,
cursor, whether the tail is followed, first visible row, height, the rows of the
last frame) and each operator what a handler leaves of it.  `Extended` is
`push_back` with the trimming of the head, `Drawn` is `OnRender` with
`NormalizeSelection` and `UpdateViewport`, `Pressed`, `Wheeled` and `Clicked`
the three event handlers.

`LogPane` is the list over the runtime's log.  `AppendLog` comes from any thread;
`LogFrame` is a frame (`drainLogs`, and the list drawn if its tab is shown);
`LogKey`, `LogWheel`, `LogClick` are events, which reach it only then.

### Tui

State: the runtime's threads (`actual`), the observer's (`mirrored`) and the
records between them (`feed`), the message the user has under way (`outgoing`),
the tabs, the list of threads, which tab is `active`, and whether the top `bar`
has the focus.

| Action | Code |
|---|---|
| `ThreadCreated`, `Delivered`, `AgentWorks`, `UserHears` | the records the runtime applies to a thread, by the rules of module Program |
| `Frame` | one frame: `syncObserver` (apply the records, `observeNewMessages`, mark what is selected read), then the tab that is shown, in which `reloadCurrentMessage` runs |
| `SelectTab`, `LeaveBar`, `ThreadListKey` | the tab bar and the Global tab |
| `TraceKey`, `ReaderKey`, `Type`, `CyclePane`, `ClickPane`, `Maximize` | a thread's panes, their focus, and the maximised reader or editor |
| `SendButton`, `SendKey` | `MessageEditor::sendCurrentMessage`, `ThreadTab`'s `on_send` and `UI::send` with its CHECK |

Events come between frames in any number, to panes that exist, drawn or not; a
click goes by the boxes of an earlier frame.  The text of a message, the
statistics and the sizes of the panes are left out.

### Login, Shell

`Login` is `login.cpp` on `pty.h`: the shell and what it leaves running on the
terminal print and die at any time (`Shows`, `HangUp`, `Die`); `Begin` is a call,
`Read`, `ReadEnds` and `Silence` the three ways round `read_until_quiet`,
`TypeLine` a line typed, `ReadReturns` what follows a read.  The adapter learns
of a death by `poll` and, in another step, by `waitpid`.

`Shell` is `shell.cpp`: the command, the process that feeds it and the adapter
are three processes with three bounded pipes.  A command is the sequence of what
it does with them; with an empty body it reads the adapter's own input
(`ReadsMail`), where the runtime's messages come.

### Memory

State: for each agent its link (parent, anchor) and memory, the templates of
snapshots, the number of records.  `Exchanged` and `Recorded` are what `apply`
adds; `Create`, `CreateTemplate` and `Instantiate` are the three ways to be made
from another agent (`Agent::snapshot`, `Domain::snapshot`,
`createDomain`).  `Replayed` is `Runtime::updateMemory`.  `born` is history the
program does not keep: what the parent remembered then, for the property to
compare with.

### Conversation

State: a thread's stack (`line`), the messages the adapter has yet to serve
(`inbox`), `LinearService::stack` (`serving`) and `LLMAgent.stack` (`talk`) of one
adapter, Self.

| Action | Code |
|---|---|
| `OnCall`, `ListModels`, `Fails` | what the adapter does with the oldest message in its inbox, up to the record the runtime makes of its answer (`Posted`) |
| `Dies` | the adapter's own death: the thread is rewound and a new process started (`Replaced`) |
| `OtherCalls`, `OtherAnswers` | what the holder of the thread does, if it is not Self |
| `OtherErrs` | any other adapter's message that `preprocess` rejects: late, or about another call |
| `OtherDies` | the death of any other adapter, at work or idle |

An error and a death rewind the thread whoever holds it, Self too, which then
answers a call that is over.  The answer is `Rejected`: an error of the holder's,
or of nobody's where the user has the thread.  What the model asks for is any of
`Plans`, sequences of addresses in which `""` stands for a message without To.
That one is an answer for LinearService, which fills in the peer and pops
(`service.h:118-129`), and an outgoing message for LLMAgent, which waits for an
answer from nobody (`llm_agent.py:82-85`).  `Alias` is an address that reaches an
agent of another name.  The user is the one who catches.  `crossed`, `cut` and
`fault` are history the adapter does not keep.

### Pipes

State: what the runtime's loop is doing (`step`, `peer`, `unsent`, `ready`,
`taken`), the stack of the one thread it serves (`chain`), its `drivers`, and of
each adapter the two pipes (`inward`, `outward`), what it is doing, what it has
still to write and the calls it has entered.  A message is one or more parts;
`WritesPart` and `AdapterWrites` are the `write`s of `write_all`, `Receives` and
`AdapterReads` the `read`s of `read_all`, so that either side can stop in the
middle of a message while the other fills or empties the pipe.  `SendTo` starts
the adapter if it has no driver, and then `updateMemory` writes to it as well;
`Drains`, `SaysBye` and `NextAgent` are the shutdown, down to the `waitpid` of
`ShellDriver::shutdown`.  The user's queue is not a pipe.  Abstractions: the user
sends and exits while the loop polls; an adapter's greeting is read when it is
started; the adapters have the memory flag, do not catch and are in the domain of
the thread.

## 3. Runs

| Run | Instance | What it shows |
|---|---|---|
| `program` | `MCProgram.cfg`: two threads, an agent of each domain, one identity for an agent created or cloned at run time with any flags, one tag, 5 records | the seven properties of Program, `OneOwner` among them, whatever the agents post |
| `runtime` | `MCRuntime.cfg`: two threads, adapters `a` (global), `b` (of thread `t2`) and `c` (called by both), an unserved agent, 3 requests, 1 nested call, 1 crash or failed start | the eight properties of Runtime, two of them liveness |
| `store` | `MCStore.cfg`, one part at a time. Structure: 5 agents and the members of snapshots' domains on top, 3 domains, 2 threads, 1 snapshot, frames two deep. Journal: 4 segments, 3 records, one program at a time, killed anywhere | the types of both, the three properties of Structure, `TabResolves` of Navigator, and the three of Journal, the refinement of Log among them |
| `interface` | `MCInterface.cfg`: each of the four interfaces, an arena of two commands, 3 messages and an exit on two threads | the six properties of Interface; `EveryoneEnds` is liveness |
| `edges` | `MCEdges.cfg`, one part at a time. Screen: 2 tabs, traces of 3 messages, 4 inputs. Log: 3 entries kept of 6, heights 1 and 2. Login: 3 calls, 3 characters printed. Shell: 2 commands of 3 or 4 steps, pipes of 2. Memory: 3 agents, 1 template, 5 records. Agent: the user, another agent and one that an alias reaches, 6 plans, 4 calls, 4 deep. Pipes: 2 adapters, pipes of 2 parts, messages of 1 and 3, 3 calls, 1 death | the ten properties of the modules below Edges |
| `orphaned_call` | same arena; the system's own `DeathReleases` is violated | finding 1 |
| `shared_adapter` | both threads write to `a` | finding 2, `UiCheckHolds` |
| `stale_event` | same arena | finding 3, `PollCheckHolds` |
| `nested_exit` | `t1` only asks for the exit | finding 4, `ExitEnds` |
| `snapshot_commit` | Structure as in `store`, with one chosen name less | finding 5, `CommitsSucceed` |
| `lost_wakeup` | the instance of `interface`, 2 messages | finding 6, `QueueReceived` |
| `unset_reader` | the instance of `edges` | finding 7, `ReaderHasMessage` |

*Bounds.*  Five records are enough for a nested call (two frames), its answer or
its rejection and a message after that, with a clone or a creation (which takes
a record of its own) in between; two threads for a message about the wrong
thread.  In `runtime` three requests let one thread be used again while the
other one is served, one nested call puts two frames on one stack and two
entries on one service stack, and one crash can happen at each point.
`MaxMessages = 30` is never reached there: what bounds the run is the number of
requests, calls and crashes.
In `store` three domains make a nested one and one created from a snapshot,
in either order, with a detached one; the names an agent may be given are the two
that a snapshot needs its members to have, and the name a domain may be given is
the one the next instance would get.  In `interface` three messages let two be
under way on different threads while a third is enqueued in the middle of
`recv`.  In `edges` four inputs select a message, maximise a pane, leave the tab
and come back, or send twice, while messages come in; with two rows and three
messages the viewport moves, and with a log of three of six entries a cursor can
be trimmed by one entry or by more at once.  In Login three calls start a
terminal, find it dead and start another; in Shell a pipe that holds two parts is
filled by a command of three, on either output, before or after the other one is
closed.  In Memory three agents make a clone of a clone, and the five records are
those commits and what happens between them.  In the conversations four calls
let the adapter be called again by an agent it has called, on behalf of the user or
not, be called after a rewind has made what it is at work on late, or ask the user
in a conversation that is left when a rewind ends the user's next call (`cut`); the
plans have each kind of address, an answer with and without To, and two or three
messages at once.  In Pipes a message of three
parts does not fit into a pipe of two, memory fills one, and three calls with one
death let an adapter write for a call that a rewind has ended.  In the journal
four segments are a chain, a fork of it and a segment a crash left unfinished.  One program at a time is a real restriction: with two on
one directory (`MaxRunning = 2`) `ChainIsLog` is violated, as the hazards say.

*Fairness.*  `Loop` is weakly fair: the runtime's thread runs until `run`
returns, and `epoll_wait` blocks only when nothing is ready, in which case no
action of `Loop` is enabled.  `Adapter(a)` is weakly fair for each adapter: an
adapter that was sent a message handles it; adapters that never answer are a
matter of the adapter, not of this code.  In Interface `Automatic`
(what the interface's thread does without its user: finishing a send, the arena,
leaving) and `Runs` are weakly fair since each is a running thread, and `Answers`
since adapters answer.  In Login and Shell the adapter's own steps are weakly
fair (`AdapterSteps` in Edges): `poll` times out, the processes of a command
run on when they can, and every step leaves less to print or to read, so that
one formula for all of them is enough.  The same holds of the loop's and the
adapters' steps in Pipes: what is blocked on a pipe is not enabled.  Nothing makes the user send or ask for
the exit, an adapter crash or a process be started.  The liveness properties
assume, in their own statement, that no crash happens (`[](crashes = 0) => ...`).

*Deadlock* is not checked: a program whose user sends nothing more rests, and so
does a part of `edges` that reached its bounds.

### Findings

1. **A call of another thread is orphaned** (`orphaned_call`).  When a global
   adapter dies while it serves a call of thread 2, `makeRewindMessage` rewinds
   thread 0, the thread of the domain the agent *lives* in.  The caller on thread
   2 is never told, and the user cannot use the thread again.
2. **One stack for all threads** (`shared_adapter`).  `LinearService` keeps a
   single stack.  If a global adapter waits for another one for thread 1 and is
   called on thread 2, the next message is judged against the wrong entry; the
   adapter's message is then rejected by `preprocess`, and the rewinds reach the
   user twice, which the UI asserts cannot happen.
3. **A closed driver is polled again** (`stale_event`).  `ShellDriver`'s pipes
   are inherited by every adapter forked later, so closing the read end does not
   end the poller's registration; the event comes back for an agent whose driver
   was dropped and `CHECK(state.driver)` fails.
4. **An exit with a nested call never ends** (`nested_exit`).  The shutdown waits
   for agents that owe an answer but delivers nothing, so an adapter that waits
   for another one's answer is waited for in vain.  With no nested call the
   shutdown does end, pending requests included (`ShutdownEnds`).
5. **A snapshot that cannot be called** (`snapshot_commit`).  A domain made by
   `create_domain` has the global user and runtime as entry agents.  A snapshot of
   it records their names, and the commit that creates a domain from the snapshot
   looks for members with these names, finds none and fails its CHECK, after it was
   journaled: each resume fails there again.  A domain called `domain-N` beforehand
   has the same effect.
6. **A lost wake-up** (`lost_wakeup`).  `LoopDriver::recv` takes the queue under
   the lock and resets the event counter after it.  A message enqueued and
   signalled in between is left in the queue with nobody to wake the runtime.
7. **A reader without a message** (`unset_reader`).  `tui/DESIGN.md:195-197` says
   that the reader is given a default-constructed Message where none is selected.
   `reloadCurrentMessage` returns before that where the identifier has not changed,
   and a new tab's is that of no message already: until something is selected in it,
   its reader draws what `ThreadTab::current_message`, initialised nowhere
   (`thread_tab.h:37`), points at.  `Frame` of module Tui has the choice
   (`Undefined`), and `ReaderShowsSelection` says how far it goes: such a reader is
   drawn only where nothing is selected.

### Observations without a run

These were met while modelling the parts above.  Where a property has to make an
exception of one, the property names it.

* A second Send before the first one's record was rendered ends the program at
  `UI::send`'s CHECK, since Send looks at the mirror (`SendCurrent` says the
  window is no larger); the Exit button looks at nothing.
* A message selected while the editor is maximised over the reader counts as read,
  and hidden panes take keys and clicks (`ReadWhenShown`).
* A list whose cursor's entry is trimmed neither follows the tail nor has a cursor
  (`CursorLost`).
* What a terminal prints between `poll`'s timeout and `waitpid` is dropped with the
  terminal (`pty.h:224`), and the first read of a terminal ignores that its
  shell exited (`login.cpp:129-136`); `stop` assumes the shell dies of its hang-up.
* A command that fills the pipe of stderr before it closes stdout never ends
  (`shell.cpp:123`), and one without a body reads the messages of its own adapter
  (`shell.cpp:83`); `AdaptersAnswer` has both as exceptions.  A message without a
  Subject is answered and then run (`shell.cpp:150-157`).
* An answer from a clone, a domain or a snapshot fails `CHECK(e.peer_address ==
  from)` of the adapter that called it by its address: `On-Behalf-Of`, which
  should say for whom it answers (`service.h:64`), is set nowhere.
* An adapter whose call was ended by a rewind still writes its answer.  If that
  fills its pipe while the loop writes to it, both wait for ever
  (`driver.h:127`); a shutdown that gets to it says Bye and hangs in `waitpid`
  (`driver.h:119`).  If the answer gets through while the user waits for nothing,
  the rewind it causes fails `UI::on_message`'s CHECK (`ui.h:114`).  A shutdown
  also waits for ever for an adapter whose answer depends on a message it does
  not deliver.  `LoopGoesOn` has the cases in which the loop waits as its
  exceptions, and shows that full pipes do no other harm.
* LLMAgent takes a call from the agent it waits for to be the answer
  (`llm_agent.py:63`), while LinearService takes it for a call: what the model
  then means for an answer is sent as a call.  A rewind that ends some of an
  agent's calls and leaves others does the same, since neither stack is told of
  it.  `AccountsAgree` shows that nothing else does, but for the next case.
* An answer without To, the ordinary one of `doc/PYTHON.md:167,184-186`, ends the
  call for LinearService and leaves the conversation open for LLMAgent, which goes
  on waiting for an agent of no name and keeps the frame in its stack for good.
  `AccountsAgree` counts such conversations as over.
* The death of an adapter while the user has the thread is a message to the user,
  who waits for nothing: `UI::on_message`'s CHECK (`ui.h:114`) ends the program
  unless his next message is under way.
* A program killed in the middle of a record leaves it torn at the end of the last
  segment, and every later start from that directory fails to replay it.
  `LatestReplays` has the torn last record as its exception.
* `parseEmail` compares where it means to assign (`header["type"] == "email"`,
  `parser.cpp:221`).

## 4. Proofs

`ProgramProofs`, `RuntimeProofs`, `StructureProofs`, `ScreenProofs`,
`AdapterProofs`, `InterfaceProofs`, `JournalProofs` and the lemmas of `Induction`
are checked by TLAPS to the last leaf.  The first two assume `ArenaAssumption` and `RuntimeAssumption`:
any set of agents and threads, any arena whose user is in the global domain,
catches and is not a clone template; an address that resolves to nothing is the
address of no agent.  Three theorems of Runtime have one hypothesis more, stated
in them and explained below.  The third module assumes `StructureAssumption`: the
names the program makes up are names, and the bounds are numbers, of any size; so
do the others of their modules' assumptions.

*Program.*  `IInv` is the conjunction of `TypeOK` and of what makes each property
inductive: frames chain from the user (`CallChain`), callees exist and are
in scope (`HolderInScope`), identifiers increase along a stack and are unique
over all stacks (so that a new record's identifier is unused), and `Accounting`
with the set of frames of an agent finite over a possibly infinite set of
threads.  `Accounting` needs cardinality lemmas: a CALL adds one element to the
frames of the callee, a RETURN removes the top one, a REWIND removes `Released`.
From `IInv` follow `TypeCorrect`, `AccountingCorrect`, `CallChainCorrect`,
`UniqueIdsCorrect`, `HolderInScopeCorrect`, their conjunction
`FramesSoundCorrect`, `PendingCorrect`, `TagsCorrect`;
`CatchStopsCorrect` is the action property; `OneOwnerCorrect` shows each step of
`Next` is a step of `Continuation` or a stutter.

*Runtime.*  `RuntimeImplementsProgram` shows `RSpec => ProgramSpec`: the
theorems above hold of the whole system, crashes and shutdown included.  Its
invariant `RInv` carries the types of the queues, since `preprocess` is given
what a queue held.  `SendersMayWriteCorrect` needs more: every message in a
pipe, every entry of a service stack and every todo is of a thread its adapter
may write on.  This `Scoped` invariant is inductive because a message is
delivered to an agent in the scope of its thread and `LinearService` copies the
thread of the call it serves.

What a shutdown leaves (`StoppedCleanCorrect`) depends on the order of its
turns.  `ShutdownInv` says that during the shutdown only the agent whose turn it
is is listened to, and that a call of an agent that was shut down lies above a
call of one that was not (`Beneath`), which made it: the shutdown cannot pass that
one before the call is gone.  When all have passed there is no call left.  The
case that needs care is the user, who may be called and never answers: a turn of
the user's with a call of the user open does not end.

`OneTokenCorrect`, `ServesFramesCorrect` and `NoCheckFailsCorrect` say what holds
as long as nothing crashes, and share an invariant, `TokenInv`.  None of the three is
inductive: that an answer finds its call on the stack of its adapter depends on
where the answer is, and that there is one only on what every queue holds.
`TokenInv` says of each thread that it is at rest (`Idle`), or that its one routed
message was posted by the holder (`Posting`: in its pipe or among the todos, behind
all else of the thread), is on its way to the holder (`Carrying`), or was recorded
by the shutdown and not delivered (`Dropped`).  In each case the frames determine
the stack of every `LinearService` to the last entry (`Serves`, `Waits`: a call, and
the call it waits for), and so which message can come next.  `FramesOK` says whose
frames there may be and which of them have a running adapter, `Calm` that no
process is dead and that each event has something to receive.

The three theorems assume `Separate`: what can be called on two threads (by the
user, or in turn by the adapters called) has no agent in common that calls
others itself.  This is not for the proof: without it they are false, since
`LinearService` keeps one stack for all threads (finding 2, run `shared_adapter`).
Global adapters that call nobody may be shared by any number of threads, and an
adapter of a domain is of one thread by its scope.  An `ASSUME` of MCRuntime has
TLC evaluate it: it holds of the arenas of all the runs but that one.  No such
hypothesis is made of `StoppedCleanCorrect` or `SendersMayWriteCorrect`.

*Structure.*  `SInv` has two halves.  `Entities` is about the tree: each domain is
the root of its thread or shares its parent's, and the agent a call of a domain
reaches lives in that domain or the global one.  `Scoped` says that a frame's
callee lives in the frame's domain or the global one, and that this domain is of
the frame's thread.  There is one exception, which `FramesInThread` alone does
not show and is why it is not inductive: a detached domain belongs to another
thread than the holder who calls it, but its entry is the runtime, which is
global and calls nobody.  Nothing is ever removed, so `Growth` shows once what an
addition preserves, and each commit is shown to be one.  A snapshot's domain
needs its members numbered by an enumeration of a finite set (`OrderCovers`).
From `SInv` follow the four properties of the run.

`TabResolves` needs three more facts, each kept by every commit (`TabInv`): no two
agents of a domain have one name, a domain's parent is older than it and its caller
known, and a caller speaks from its home domain or is global, while the user is
called in its caller's domain.  The tree of a tab is a recursion over depth;
`TreeShown` argues by a least counterexample: no depth leaves the thread, and as
parents are older every domain of it is below one the tree shows.  That the
three hard-coded names differ (program.h:27-29) is assumed.

*LogPane.*  Neither property is inductive: what a frame draws depends on a cursor
and a viewport that trimming may have left outside of the list.  `LPInv` says
where they may be (`Placed`): a list that follows its tail has no cursor, and
neither the cursor nor the first row is ever past the last item, though both may
be before the first one.  Each operator of TailList has a lemma that says what it
returns for any such list (`TopFits`, `DrawnShows`, `PressedHandled`...); a frame
then shows the cursor whatever was trimmed before it (`FrameShowsCursorCorrect`),
and the list is left with neither tail nor cursor in one way only
(`CursorLostCorrect`), for any limit and any heights.

*Tui.*  The conjuncts of `TInv` are about the tabs and about the messages.  A tab
has observed exactly what the observer's thread has (`TabsObserve`), so that what is
new to a tab is what the frame applies; `SyncedShape` and `DrawnTabShape` say what the
frame then does to the unread messages and to the reader (that a list that is drawn
leaves its cursor where it was, or finds it gone, is `DrawnPosition`), and no input
touches what is unread (`UserStepKeeps`).  A reader that was never given a message
counts none as its own (`Blank`), so that one is drawn only where the cursor is on
none.  From these `ReaderShowsSelectionCorrect`
and `ReadWhenShownCorrect` follow.

`SendCurrent` compares what the user saw with what the runtime has by then.
`ThreadsMirrored` says that the records that wait make the observer's threads the
runtime's (`Processed`, a recursion over the records, unfolded at its end by
`ProcessedNext`).  `Reflects` says when a thread may be taken for its mirror: a
mirror that waits for no answer and has as many of the user's messages as the
thread is the thread itself, since only a message of the user's makes an answer due
and only then does anything else come to the thread.  `Arrives` says that all the user sent is
on the thread only if an answer is due, while his message is under way.  So a
message that is sent with no answer due and nothing unseen before it finds the
thread it was written for, and a second one can be sent only where the first is not
shown yet (`SentAgainThread`), which is the case that ends the program (section 3).

`ScreenTypes` adds to `TInv` what the types need (`ScreenTypeCorrect`).  Threads
only grow, and the observer's are never ahead of the runtime's (`ThreadsBounded`), so
that a list a frame makes longer keeps its cursor, viewport and rows on items it has
(`WellPlaced`, which every operator of TailList keeps: `LeavesPlaced`,
`DrawnPlaced`).  The Global tab lists exactly the threads that have a tab, which is
why Return on one of them shows a tab there is (`MenuTyped`), and what a tab shows
and has unread is of the messages it observed (`TabWithin`).

*Adapters.*  `DoomedCall` strengthens `DeathReported` by what holds while the call
is served: the shell stays dead, so that the read which ends the call finds it so.
`OutputKept` strengthens `WholeOutput` by where written bytes may be: in the pipe
or collected, and the pipe is empty once its reader saw the end with the command
gone.  `ScriptInv` strengthens `ScriptFollowed` by what is left to type: with what
was said it is the script, it ends in the end of a line, so that a line can be
typed (`ScriptTyped`), and what `IsPrefix` matched of it moves from one to the
other (`MovesSaid`); what `strip_ansi` leaves is text, whatever was printed
(`StripAnsiType`, by least counterexample).  A step of Edges is a step of each part
or leaves it alone (`PartSteps`), so that the three invariants give
`AnswersCompleteCorrect`, the property of the run, for any messages, commands and
sizes.

`AccountsAgree` relates two stacks, and neither determines the other without the
thread.  `TrackedAs` says how LinearService's stack and the messages that wait for
the adapter go with the thread, in two cases.  `Followed`: each call on the thread
has one entry if the adapter made it and one if it is to the adapter, in the order of
the thread, above those of calls that a rewind ended; what is being delivered has
its entry not yet, or still (`Delivers`).  Then the message that is due is about the
last call of the thread (`ServedFits`), and what is posted in answer to it is taken by
the runtime (`PostedInTime`).  `Adrift`: the thread was rewound under what the
adapter is at work on.  Then no call of the adapter's is left on the thread, or only
one that was made to it since and waits behind (`CalledAgain`), the message is older
than that, and the runtime rejects what is posted for it (`PostedLate`); the stack
grows and shrinks with it all the same, and a call that comes later is `Followed`
above what it leaves.  Errors and deaths pass from the first case to either
(`UnwoundKeeps`): they end all of the entries' calls or none, unless `cut` records
it.  `Agreed` adds that LLMAgent's conversations, flattened, are LinearService's
stack; on_call keeps it for a call and an answer, whether it closes the conversation,
writes on or leaves it open for want of a To (`OpenedFits`, `ConversedAgrees`): a
conversation that waits for an agent of no name counts as over, and no message is
from one but the notice of the adapter's own death, which is then `crossed`.  The
assumption names the two placeholders that are no addresses, for no agent and for a
header that is missing.  The invariant is `ConversationTypes`, below, and `AgreeInv`.

*Memory.*  `MInv` says what the links keep: what an agent was born with is what
its parent was born with and then the parent's memory up to the anchor of the link
(`Inherits`), the same of each member of a template (`TemplatesFit`); a parent is
older than its child, memories are in the order of the records and no anchor is in
the future.  A new record is therefore past every anchor, so that it changes no
`UpTo` (`UpToAppend`), and an agent that is made now is linked to all its
parent remembers (`MadeFromFits`).  `updateMemory` follows the links from the
oldest ancestor; by least counterexample over them, the pieces read up to a parent
are what the child was born with, before any end (`RecountedIsBorn`), since
`Before` of two lists in a row is that of each (`BeforeConcat`).
`ReplayIsHistoryCorrect` follows for any number of agents, templates and records.

*Edges.*  `EdgesTypeCorrect` is the type invariant of every part at once, each from
an invariant of its own (`PartSteps`).  Those of Login, Memory and LogPane are the
ones above, with the types they do not need (`LoginTypes`, `MemoryTypes`); Shell's
is inductive as it is; Conversation's is not: LinearService returns from the top of
its stack, so the call at the bottom must be one that is served (`StackSound`), the
thread is one chain of calls and what waits for the adapter was sent before
(`ThreadSound`).

Pipes needs a count.  An adapter's call is asked for when it is written and made
when the loop applies it, and in between its parts are in the adapter's hands, in
its pipe and among the todos; a rewind, a restart or a death may lose it anywhere.
That no more calls are made than were asked for (`asked <= spent`, so that
identifiers stay within `MaxAsked`) has to hold of all these together, over any
number of adapters and without a sum: `CallsTyped` says that there are numbers that
rise from the calls the loop has to those asked for, by at least each adapter's
`Load` at that adapter (`LeavesRoom`).  A step changes one adapter's load and moves
the numbers on one side of it (`RoomStill`), and the bound follows from the first
and the last of them (`RoomBetween`, `CallsBound`).  The rest of `PipeTypes` says
that the loop writes or waits only for an adapter it has and with something left to
write, that an adapter at work serves a call, and that no pipe is over its size.

*Interface.*  `PlaceInv` says of the letters of a thread that there is one, in
one place: the interface's hands, the queue, what the runtime took of it, its
answers, an adapter or the todos.  `MarkInv` and `DraftInv` say what the marks,
the promise and the draft are then, so that `CarrierInv` gives `OneCarrier` and
`SyscallAnswered`.  For the mirror, `HistoryInv` is not about
the state the observer shows but about every state it will pass through on the
records it has still to apply (`SoundHistory`): in each, the traces hold only
identifiers that were issued, and a thread whose letter under way is in its trace
is due (`Sound`).  A record may be put at the end of that history, and a command's
commit before its call, since the two commute (`CommitFirst`); the end of the
history is the program.  From `MirrorInv` follow `MirrorReplays` and
`ShownAnswered`, for any arena, threads and number of messages.

*Journal.*  `JTypeInv` makes the segments a forest: a segment's predecessor is an
older file, so that `ChainTo`, which follows it down to the first, is a sequence
of files that ends in its argument (`ChainNext`), unchanged by what is added to
other files (`ChainSame`).  `JTypeCorrect` holds for any number of programs.  The
other three theorems assume `MaxRunning = 1`, as they are false of two programs on
one directory (see the hazards).  `JSafe` then says that the program that runs
appends to the last segment, which no other continues and of which it wrote every
record (`LastIsOwn`), how the link relates to that segment (`LinkIsOwn`), and that
its state is what the segment's chain replays to (`LogIsOwn`; `ReplayWritten`: a
record adds one entry at the end of that).  `DurableLogCorrect` shows each step of
the journal, seen through the link of the work directory, to be a step of `Log` or
none.

*Induction.*  The induction theorems of the library take an operator, which the
prover cannot instantiate.  `LeastNat` proves that a set of numbers that is not
empty has a least one, from which `RecursionExists` and `RecursionUnique` follow:
a recursive function over `0 .. n` equals the body it is defined by.  `ChainTo`,
`Replay`, `Processed`, `Before`, `Links`, `StripAnsi` and the community module's `FlattenSeq`
are unfolded with them, once each.

*Only model-checked*: liveness, which the prover does not reach.  Every invariant
and action property of the passing runs is proved; the violations that the other
runs show are counterexamples and need no proof.

## 5. Not modelled, and the plan

Left, in order:

1. **Resuming**: Runtime started from a program with calls in flight, and
   Interface from a journal that stops in the middle of the arena.
2. **Patch** (`apply_patch.py`) and the parser: pure algorithms against a
   reference.  The parser is used by the Python module only.

Not modelled: the legacy shutdown records `apply` skips while it replays, the
web interface's server, the echo, error, chaos and benchmark adapters beyond
what Runtime's `Adapter` does, the text of the editor and the prompts.

Out of scope: rendering and layout, banners and paths, cost accounting, network
clients of the python adapters, sockets, the obsolete C++ patch tool.
