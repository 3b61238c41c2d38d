-------------------------------- MODULE Shell --------------------------------
(***************************************************************************)
(* The shell adapter: one command at a time, its body fed to it by a       *)
(* process of its own, its two outputs read one after the other.           *)
(*                                                                         *)
(* A command is what it does with its pipes, in order, a pipe's worth of   *)
(* bytes being cut in Capacity parts; then it closes them and is gone.     *)
(* With an empty body it has no pipe to read from: what it reads is the    *)
(* adapter's own input, where the runtime's next messages come.            *)
(***************************************************************************)
EXTENDS Integers, Sequences

CONSTANTS
  Commands,  \* the commands, as sequences of Effects
  Sizes,     \* sizes of a message's body
  Capacity,  \* of a pipe
  MaxCommands, MaxMail   \* bounds: calls, messages the runtime sends meanwhile

Effects == {"out", "err", "in"}

ASSUME ShellAssumption ==
  /\ Commands \subseteq Seq(Effects)
  /\ Sizes \subseteq Nat
  /\ {Capacity, MaxCommands, MaxMail} \subseteq Nat /\ Capacity > 0

VARIABLES
  stage,    \* "idle", what run_command waits for, or "failed"
  todo,     \* what the command has still to do
  running,  \* whether it has its pipes open
  unfed,    \* what the writer has still to write
  pipe,     \* what is in each pipe
  own,      \* whether the command's input is the adapter's
  mail,     \* messages in the adapter's input
  wrote, collected,   \* what the command wrote, and the adapter read
  commands  \* how many there were

shvars == <<stage, todo, running, unfed, pipe, own, mail, wrote, collected, commands>>

Busy == {"stdout", "stderr", "wait"}
NothingYet == [out |-> 0, err |-> 0]

-----------------------------------------------------------------------------
(* The command and the writer *)

\* An effect on a pipe happens when there is room, or something to read, or
\* the end of what the writer had.
Done(e) ==
  /\ running /\ todo # <<>> /\ Head(todo) = e
  /\ todo' = Tail(todo)
  /\ UNCHANGED <<stage, running, own, collected, commands>>

Writes(e) ==
  /\ pipe[e] < Capacity
  /\ Done(e)
  /\ pipe' = [pipe EXCEPT ![e] = @ + 1] /\ wrote' = [wrote EXCEPT ![e] = @ + 1]
  /\ UNCHANGED <<unfed, mail>>

ReadsBody ==
  /\ ~own /\ (pipe.in > 0 \/ unfed = 0)
  /\ Done("in")
  /\ pipe' = IF pipe.in > 0 THEN [pipe EXCEPT !.in = @ - 1] ELSE pipe
  /\ UNCHANGED <<unfed, mail, wrote>>

\* The message is lost to the adapter.
ReadsMail ==
  /\ own /\ mail > 0
  /\ Done("in")
  /\ mail' = mail - 1
  /\ UNCHANGED <<unfed, pipe, wrote>>

Exits ==
  /\ running /\ todo = <<>>
  /\ running' = FALSE
  /\ UNCHANGED <<stage, todo, unfed, pipe, own, mail, wrote, collected, commands>>

\* write_all_to_fd, and its end when nobody reads.
Feeds ==
  /\ unfed > 0 /\ (~running \/ pipe.in < Capacity)
  /\ IF running
     THEN unfed' = unfed - 1 /\ pipe' = [pipe EXCEPT !.in = @ + 1]
     ELSE unfed' = 0 /\ pipe' = pipe
  /\ UNCHANGED <<stage, todo, running, own, mail, wrote, collected, commands>>

-----------------------------------------------------------------------------
(* The adapter *)

\* A call with a Subject, or without one, which call falls through: what it
\* makes of the end of the header, or on_message of the two messages, ends it.
RunCommand(steps, size) ==
  /\ stage = "idle" /\ commands < MaxCommands
  /\ commands' = commands + 1
  /\ \/ /\ stage' = "stdout" /\ todo' = steps /\ running' = TRUE
        /\ unfed' = size /\ own' = (size = 0)
        /\ pipe' = [in |-> 0, out |-> 0, err |-> 0]
        /\ wrote' = NothingYet /\ collected' = NothingYet
        /\ UNCHANGED mail
     \/ stage' = "failed" /\ UNCHANGED <<todo, running, unfed, pipe, own, mail, wrote, collected>>

EndOnce(e) == pipe[e] = 0   \* mutated: a read that finds nothing is the end

\* The end of a pipe: it is empty, and nobody may write to it.
End(e) == pipe[e] = 0 /\ ~running

\* read_all_from_fd
Collects(e, while, then) ==
  /\ stage = while
  /\ IF End(e)
     THEN stage' = then /\ UNCHANGED <<pipe, collected>>
     ELSE /\ pipe[e] > 0
          /\ pipe' = [pipe EXCEPT ![e] = 0]
          /\ collected' = [collected EXCEPT ![e] = @ + pipe[e]]
          /\ stage' = stage
  /\ UNCHANGED <<todo, running, unfed, own, mail, wrote, commands>>

\* The two waitpids, and the answer.
Replies ==
  /\ stage = "wait" /\ ~running /\ unfed = 0
  /\ stage' = "idle"
  /\ UNCHANGED <<todo, running, unfed, pipe, own, mail, wrote, collected, commands>>

\* The runtime has a call or its bye for the adapter.
MailComes ==
  /\ mail < MaxMail /\ mail' = mail + 1
  /\ UNCHANGED <<stage, todo, running, unfed, pipe, own, wrote, collected, commands>>

-----------------------------------------------------------------------------
(* The specification *)

ShInit ==
  /\ stage = "idle" /\ todo = <<>> /\ running = FALSE /\ unfed = 0 /\ own = FALSE
  /\ pipe = [in |-> 0, out |-> 0, err |-> 0] /\ mail = 0
  /\ wrote = NothingYet /\ collected = NothingYet /\ commands = 0

ShellSteps ==
  \/ Writes("out") \/ Writes("err") \/ ReadsBody \/ ReadsMail \/ Exits \/ Feeds
  \/ Collects("out", "stdout", "stderr") \/ Collects("err", "stderr", "wait") \/ Replies

ShNext ==
  \/ ShellSteps \/ MailComes
  \/ \E steps \in Commands, size \in Sizes : RunCommand(steps, size)

\* Three processes that go on when they can; each step leaves less to do.
ShSpec == ShInit /\ [][ShNext]_shvars /\ WF_shvars(ShellSteps)

-----------------------------------------------------------------------------
(* Properties *)

ShTypeOK ==
  /\ stage \in Busy \cup {"idle", "failed"}
  /\ todo \in Seq(Effects) /\ {running, own} \subseteq BOOLEAN
  /\ unfed \in Nat /\ pipe \in [in : 0 .. Capacity, out : 0 .. Capacity, err : 0 .. Capacity]
  /\ mail \in 0 .. MaxMail /\ {wrote, collected} \subseteq [out : Nat, err : Nat]
  /\ commands \in 0 .. MaxCommands

\* Nothing that a command wrote before it ended is missing from its answer.
WholeOutput == stage = "wait" => collected = wrote

\* The command waits for room on stderr, and the adapter for the end of stdout.
StderrFull == stage = "stdout" /\ pipe.err = Capacity /\ todo # <<>> /\ Head(todo) = "err"

\* A command without a body waits for a message to the adapter.
Starved == own /\ mail = 0 /\ todo # <<>> /\ Head(todo) = "in"

\* A command that ends is answered, unless it fills stderr before it closes
\* stdout, or reads input it was not given.
CommandAnswered == stage \in Busy ~> stage = "idle" \/ StderrFull \/ Starved
=============================================================================
