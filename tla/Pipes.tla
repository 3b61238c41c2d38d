------------------------------- MODULE Pipes -------------------------------
(***************************************************************************)
(* The pipes between the runtime's loop and its adapters, which hold no    *)
(* more than they hold: the loop writes a message whole before it does     *)
(* anything else, and so does an adapter.                                  *)
(*                                                                         *)
(* A message is its parts, PipeSize of which fill a pipe.  The loop serves *)
(* one thread, on which the user calls the adapters, and they call each    *)
(* other; they are in its domain, have the memory flag and do not catch.   *)
(***************************************************************************)
EXTENDS Integers, Sequences

CONSTANTS
  PeerCount,           \* the adapters are 1 .. PeerCount, in the order of their identifiers
  PipeSize,            \* parts that a pipe holds
  Lengths,             \* parts that a message may have
  MaxAsked, MaxDeaths  \* bounds: calls, and adapters that die

Peers == 1 .. PeerCount

ASSUME PipesAssumption ==
  /\ {PeerCount, PipeSize} \subseteq Nat \ {0}
  /\ Lengths \subseteq Nat \ {0}
  /\ {MaxAsked, MaxDeaths} \subseteq Nat

VARIABLES
  chain,    \* Thread::stack
  step,     \* what the loop is doing, or how it ended
  peer,     \* the adapter it does that with, or 0
  unsent,   \* what it has still to write to it
  ready,    \* the events of this turn it has not looked at
  taken,    \* the todos of this turn
  drivers,  \* the adapters that have a driver
  inward, outward,   \* what is in the pipes to and from each adapter
  doing,    \* what each adapter is doing
  writing,  \* what it has still to write
  entered,  \* the calls on its LinearService's stack
  asked,    \* the identifier of the last call
  spent, deaths      \* counters of the bounds: calls asked for, adapters that died

pvars == <<chain, step, peer, unsent, ready, taken, drivers, inward, outward,
           doing, writing, entered, asked, spent, deaths>>
adapterVars == <<outward, doing, writing, entered>>

-----------------------------------------------------------------------------
(* Messages *)

\* Message::write
Parts(kind, id, to, n) ==
  [i \in 1 .. n |-> [kind |-> kind, id |-> id, to |-> to, last |-> i = n]]

Remembered == Parts("memory", 0, 0, 2)
Bye == Parts("bye", 0, 0, 1)

-----------------------------------------------------------------------------
(* The loop *)

\* Poller::wait
Polls ==
  LET events == {a \in drivers : outward[a] # <<>> \/ doing[a] = "gone"}
  IN /\ step = "poll" /\ events # {}
     /\ step' = "receive" /\ ready' = events
     /\ UNCHANGED <<chain, peer, unsent, taken, drivers, inward, adapterVars, asked, spent, deaths>>

\* Message::read of a's next message, part by part, and what is done with it
\* or with the end of a's output.
TakesPart(a) ==
  /\ outward[a] # <<>> /\ ~Head(outward[a]).last
  /\ outward' = [outward EXCEPT ![a] = Tail(@)]
  /\ peer' = a
  /\ UNCHANGED <<chain, step, unsent, ready, taken, drivers, inward, doing, writing, entered,
                 asked, spent, deaths>>

Received(a, todo) == taken' = Append(taken, todo) /\ ready' = ready \ {a} /\ peer' = 0

Receives(a) ==
  /\ step = "receive" /\ a \in ready /\ peer \in {0, a}
  /\ \/ TakesPart(a)
     \/ /\ outward[a] # <<>> /\ Head(outward[a]).last
        /\ Received(a, [kind |-> Head(outward[a]).kind, id |-> Head(outward[a]).id,
                        to |-> Head(outward[a]).to, from |-> a])
        /\ outward' = [outward EXCEPT ![a] = Tail(@)]
        /\ UNCHANGED <<chain, step, unsent, drivers, inward, doing, writing, entered, asked, spent, deaths>>
     \/ /\ outward[a] = <<>> /\ doing[a] = "gone"
        /\ Received(a, [kind |-> "death", id |-> 0, to |-> 0, from |-> a])
        /\ drivers' = drivers \ {a}
        /\ UNCHANGED <<chain, step, unsent, inward, adapterVars, asked, spent, deaths>>

AllReceived ==
  /\ step = "receive" /\ ready = {}
  /\ step' = "process"
  /\ UNCHANGED <<chain, peer, unsent, ready, taken, drivers, inward, adapterVars, asked, spent, deaths>>

Serves(a) == chain # <<>> /\ chain[Len(chain)].to = a
Current(m) == Serves(m.from) /\ chain[Len(chain)].id = m.id

\* The stack after a message: what is not for the call that is served, or comes
\* from another agent, rewinds to the user, who catches.
Stack(m) ==
  CASE m.kind = "data" /\ Serves(m.from) -> chain
    [] m.kind = "answer" /\ Current(m) -> SubSeq(chain, 1, Len(chain) - 1)
    [] m.kind = "call" /\ Current(m) -> Append(chain, [to |-> m.to, id |-> asked + 1])
    [] OTHER -> <<>>

Asks(m) == m.kind = "call" /\ Current(m)

\* A message is sent to adapter a, which is started if it has no driver, and
\* then told what it remembers.
SendTo(a, message) ==
  /\ step' = "write" /\ peer' = a /\ drivers' = drivers \cup {a}
  /\ IF a \in drivers
     THEN unsent' = message /\ UNCHANGED <<inward, adapterVars>>
     ELSE /\ unsent' = Remembered \o message
          /\ inward' = [inward EXCEPT ![a] = <<>>] /\ outward' = [outward EXCEPT ![a] = <<>>]
          /\ doing' = [doing EXCEPT ![a] = "read"] /\ writing' = [writing EXCEPT ![a] = <<>>]
          /\ entered' = [entered EXCEPT ![a] = <<>>]

\* The adapter a message goes to, or 0 where the user has the thread again.  A
\* death of which nobody was asked anything goes to the dead adapter itself.
Receiver(m) ==
  CASE Stack(m) # <<>> /\ m.kind # "data" -> Stack(m)[Len(Stack(m))].to
    [] chain = <<>> /\ m.kind = "death" -> m.from
    [] OTHER -> 0

Delivery(m, n) ==
  Parts(IF m.kind = "answer" THEN "reply" ELSE "call",
        IF Stack(m) = <<>> THEN 0 ELSE Stack(m)[Len(Stack(m))].id, 0, n)

AppliesTo(m) ==
  /\ chain' = Stack(m)
  /\ asked' = IF Asks(m) THEN asked + 1 ELSE asked

\* UI::on_message ends the program where the user waits for nothing.
Processes ==
  /\ step = "process" /\ taken # <<>> /\ taken' = Tail(taken)
  /\ LET m == Head(taken)
     IN /\ AppliesTo(m)
        /\ IF Receiver(m) # 0 THEN \E n \in Lengths : SendTo(Receiver(m), Delivery(m, n))
           ELSE /\ step' = IF chain = <<>> THEN "broken" ELSE step
                /\ UNCHANGED <<peer, unsent, drivers, inward, adapterVars>>
  /\ UNCHANGED <<ready, spent, deaths>>

TurnOver ==
  /\ step = "process" /\ taken = <<>>
  /\ step' = "poll"
  /\ UNCHANGED <<chain, peer, unsent, ready, taken, drivers, inward, adapterVars, asked, spent, deaths>>

\* UI::send, whose queue is no pipe.
UserAsks(a, n) ==
  /\ step = "poll" /\ chain = <<>> /\ spent < MaxAsked
  /\ asked' = asked + 1 /\ spent' = spent + 1
  /\ chain' = <<[to |-> a, id |-> asked']>>
  /\ SendTo(a, Parts("call", asked', 0, n))
  /\ UNCHANGED <<ready, taken, deaths>>

\* write_all, and SIGPIPE where nobody is left to read.
WritesPart ==
  /\ step = "write"
  /\ IF doing[peer] = "gone"
     THEN step' = "broken" /\ UNCHANGED <<peer, unsent, inward>>
     ELSE /\ Len(inward[peer]) < PipeSize
          /\ inward' = [inward EXCEPT ![peer] = Append(@, Head(unsent))]
          /\ unsent' = Tail(unsent)
          /\ IF unsent' # <<>> THEN UNCHANGED <<step, peer>>
             ELSE IF Head(unsent).kind = "bye" THEN step' = "wait" /\ peer' = peer
             ELSE step' = "process" /\ peer' = 0
  /\ UNCHANGED <<chain, ready, taken, drivers, adapterVars, asked, spent, deaths>>

-----------------------------------------------------------------------------
(* The shutdown *)

UserExits ==
  /\ step = "poll" /\ step' = "drain" /\ peer' = 1
  /\ UNCHANGED <<chain, unsent, ready, taken, drivers, inward, adapterVars, asked, spent, deaths>>

OwesNever(a) == FALSE   \* mutated: the bye comes before the answers
Owes(a) == \E i \in DOMAIN chain : chain[i].to = a   \* Agent::obligation_count

\* What an agent owes is received and applied, and delivered to nobody.
Drains ==
  /\ step = "drain" /\ peer \in drivers /\ Owes(peer)
  /\ \/ TakesPart(peer)
     \/ /\ outward[peer] # <<>> /\ Head(outward[peer]).last
        /\ AppliesTo([kind |-> Head(outward[peer]).kind, id |-> Head(outward[peer]).id,
                      to |-> Head(outward[peer]).to, from |-> peer])
        /\ outward' = [outward EXCEPT ![peer] = Tail(@)]
        /\ UNCHANGED <<step, peer, unsent, ready, taken, drivers, inward, doing, writing, entered, spent, deaths>>

\* CHECK(state.driver), and the end of its output, which is caught nowhere.
DrainFails ==
  /\ step = "drain" /\ peer \in Peers /\ Owes(peer)
  /\ peer \notin drivers \/ (outward[peer] = <<>> /\ doing[peer] = "gone")
  /\ step' = "broken"
  /\ UNCHANGED <<chain, peer, unsent, ready, taken, drivers, inward, adapterVars, asked, spent, deaths>>

\* ShellDriver::shutdown
SaysBye ==
  /\ step = "drain" /\ peer \in drivers /\ ~Owes(peer)
  /\ step' = "write" /\ unsent' = Bye
  /\ UNCHANGED <<chain, peer, ready, taken, drivers, inward, adapterVars, asked, spent, deaths>>

\* waitpid has returned, or there was no driver.
NextAgent ==
  /\ \/ step = "wait" /\ doing[peer] = "gone"
     \/ step = "drain" /\ peer \in Peers \ drivers /\ ~Owes(peer)
  /\ IF peer = PeerCount THEN step' = "ended" /\ peer' = 0 ELSE step' = "drain" /\ peer' = peer + 1
  /\ drivers' = drivers \ {peer}
  /\ UNCHANGED <<chain, unsent, ready, taken, inward, adapterVars, asked, spent, deaths>>

-----------------------------------------------------------------------------
(* An adapter *)

\* Server::run; the CHECKs of LinearService end an adapter that is answered and
\* was started after it asked.
AdapterReads(a) ==
  /\ doing[a] = "read" /\ inward[a] # <<>>
  /\ inward' = [inward EXCEPT ![a] = Tail(@)]
  /\ LET p == Head(inward[a])
     IN /\ doing' = [doing EXCEPT ![a] =
             IF ~p.last \/ p.kind = "memory" THEN "read"
             ELSE IF p.kind = "bye" \/ (p.kind = "reply" /\ entered[a] = <<>>) THEN "gone"
             ELSE "work"]
        /\ entered' = IF p.last /\ p.kind = "call" THEN [entered EXCEPT ![a] = Append(@, p.id)]
                      ELSE entered
  /\ UNCHANGED <<chain, step, peer, unsent, ready, taken, drivers, outward, writing, asked, spent, deaths>>

\* on_message returns a batch: data or none, and an answer or a call.
AdapterWorks(a, n, x) ==
  LET id == entered[a][Len(entered[a])]
  IN /\ doing[a] = "work" /\ x # a
     /\ IF x = 0 THEN spent' = spent ELSE spent < MaxAsked /\ spent' = spent + 1
     /\ doing' = [doing EXCEPT ![a] = "write"]
     /\ writing' = [writing EXCEPT ![a] = Parts("data", id, 0, n) \o
                      IF x = 0 THEN Parts("answer", id, 0, 1) ELSE Parts("call", id, x, 1)]
     /\ entered' = IF x = 0 THEN [entered EXCEPT ![a] = SubSeq(@, 1, Len(@) - 1)] ELSE entered
     /\ UNCHANGED <<chain, step, peer, unsent, ready, taken, drivers, inward, outward, asked, deaths>>

AdapterWrites(a) ==
  /\ doing[a] = "write" /\ Len(outward[a]) < PipeSize
  /\ outward' = [outward EXCEPT ![a] = Append(@, Head(writing[a]))]
  /\ writing' = [writing EXCEPT ![a] = Tail(@)]
  /\ doing' = IF Len(writing[a]) = 1 THEN [doing EXCEPT ![a] = "read"] ELSE doing
  /\ UNCHANGED <<chain, step, peer, unsent, ready, taken, drivers, inward, entered, asked, spent, deaths>>

AdapterDies(a) ==
  /\ a \in drivers /\ doing[a] # "gone" /\ deaths < MaxDeaths
  /\ doing' = [doing EXCEPT ![a] = "gone"] /\ deaths' = deaths + 1
  /\ UNCHANGED <<chain, step, peer, unsent, ready, taken, drivers, inward, outward, writing,
                 entered, asked, spent>>

-----------------------------------------------------------------------------
(* The specification *)

PInit ==
  /\ chain = <<>> /\ step = "poll" /\ peer = 0 /\ unsent = <<>> /\ ready = {} /\ taken = <<>>
  /\ drivers = {} /\ inward = [a \in Peers |-> <<>>] /\ outward = inward
  /\ doing = [a \in Peers |-> "gone"] /\ writing = inward /\ entered = inward
  /\ asked = 0 /\ spent = 0 /\ deaths = 0

LoopSteps ==
  \/ Polls \/ AllReceived \/ Processes \/ TurnOver \/ WritesPart
  \/ Drains \/ DrainFails \/ SaysBye \/ NextAgent
  \/ \E a \in Peers : Receives(a)

PeerSteps(a) ==
  \/ AdapterReads(a) \/ AdapterWrites(a)
  \/ \E n \in Lengths \cup {0}, x \in Peers \cup {0} : AdapterWorks(a, n, x)

PipeSteps == LoopSteps \/ \E a \in Peers : PeerSteps(a)

PNext ==
  \/ PipeSteps \/ UserExits
  \/ \E a \in Peers : AdapterDies(a) \/ \E n \in Lengths : UserAsks(a, n)

\* The loop and the adapters go on when they can; each step leaves less to do.
PSpec == PInit /\ [][PNext]_pvars /\ WF_pvars(PipeSteps)

-----------------------------------------------------------------------------
(* Properties *)

APart == [kind : {"memory", "bye", "call", "reply", "data", "answer"}, id : 0 .. MaxAsked,
          to : 0 .. PeerCount, last : BOOLEAN]

PTypeOK ==
  /\ chain \in Seq([to : Peers, id : 1 .. MaxAsked])
  /\ step \in {"poll", "receive", "process", "write", "drain", "wait", "ended", "broken"}
  /\ peer \in 0 .. PeerCount /\ unsent \in Seq(APart) /\ {ready, drivers} \subseteq SUBSET Peers
  /\ taken \in Seq([kind : {"call", "data", "answer", "death"}, id : 0 .. MaxAsked,
                    to : 0 .. PeerCount, from : Peers])
  /\ \A a \in Peers : /\ {inward[a], outward[a], writing[a]} \subseteq Seq(APart)
                      /\ Len(inward[a]) <= PipeSize /\ Len(outward[a]) <= PipeSize
                      /\ entered[a] \in Seq(0 .. MaxAsked)
  /\ doing \in [Peers -> {"read", "work", "write", "gone"}]
  /\ asked \in 0 .. spent /\ spent \in 0 .. MaxAsked /\ deaths \in 0 .. MaxDeaths

\* The adapter's call is not on the stack any more: a rewind ended it.
Abandoned(a) == \A i \in DOMAIN chain : chain[i].id # Head(writing[a]).id

\* The adapter the loop writes to, or waits for, waits for the loop to read.
WriteBoth ==
  /\ step \in {"write", "wait"} /\ doing[peer] = "write" /\ Len(outward[peer]) = PipeSize
  /\ step = "write" => Len(inward[peer]) = PipeSize
  /\ Abandoned(peer)

\* The shutdown waits for an adapter that has read and written everything: it
\* waits for another one's answer, or for a message of which the shutdown has
\* delivered nothing.
WaitsInVain ==
  /\ step = "drain" /\ peer \in drivers /\ Owes(peer)
  /\ doing[peer] = "read" /\ inward[peer] = <<>> /\ outward[peer] = <<>>

\* The loop comes back to its poll, however little the pipes hold and whatever
\* is written: it waits for ever only for an adapter that still writes what a
\* call gave that a rewind has ended since, or, in a shutdown, for one that
\* waits itself for what the shutdown delivers to nobody.
LoopGoesOn == step # "poll" ~> step \in {"poll", "ended", "broken"} \/ WriteBoth \/ WaitsInVain
=============================================================================
