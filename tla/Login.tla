-------------------------------- MODULE Login --------------------------------
(***************************************************************************)
(* The login adapter: a shell on a pseudo terminal, one line of a message  *)
(* typed after another for as long as what the terminal shows is what the  *)
(* message has next.                                                       *)
(*                                                                         *)
(* The shell, and what it leaves running on the terminal, print and die    *)
(* when they like.  The adapter learns of it by polling, and then by       *)
(* waiting for the child, which is another step.                           *)
(*                                                                         *)
(* Left out: which user's home the shell starts in, the log file, the last *)
(* 50 lines of the transcript that are sent, and a terminal that takes no  *)
(* input for five seconds, which ends the adapter.                         *)
(***************************************************************************)
EXTENDS Integers, Sequences, SequencesExt

CONSTANTS
  Bodies,   \* bodies of the messages it is called with
  Printed,  \* characters the terminal may show
  MaxCalls, MaxPrinted   \* bounds: calls, characters ever printed

\* "nl" ends a line, and "csi" begins an escape sequence that a letter ends.
Char == {"nl", "a", "b", "csi"}

ASSUME LoginAssumption ==
  /\ Bodies \subseteq Seq({"nl", "a", "b"})
  /\ Printed \subseteq Char
  /\ {MaxCalls, MaxPrinted} \subseteq Nat

VARIABLES
  child,     \* the shell: "none", "running" or "dead"
  held,      \* whether some process has the terminal open
  out,       \* what was printed and not read
  printed,   \* how many characters were
  terminal,  \* terminal_: "none", "known", or "reaped" when its child_pid_ is -1
  at,        \* where Login::call is, or the read it waits in
  delta,     \* TerminalContext::delta
  input,     \* input_buffer
  said,      \* transcript_, from when the call came
  script,    \* what the call has typed, or <<>> for one that starts a terminal
  doomed,    \* whether the call came to a shell that had died
  answer,    \* Subject of the last answer
  calls      \* how many there were

shell == <<child, held, out, printed>>
call == <<delta, input, said, script, doomed, answer, calls>>
lgvars == <<shell, terminal, at, call>>

Calling == {"line", "read", "quiet", "eof"}

-----------------------------------------------------------------------------
(* The processes on the terminal *)

Shows(c) ==
  /\ held /\ printed < MaxPrinted
  /\ out' = Append(out, c) /\ printed' = printed + 1
  /\ UNCHANGED <<child, held, terminal, at, call>>

\* The last of them closes it, by dying or otherwise.
HangUp ==
  /\ held /\ held' = FALSE
  /\ UNCHANGED <<child, out, printed, terminal, at, call>>

Die ==
  /\ child = "running" /\ child' = "dead"
  /\ UNCHANGED <<held, out, printed, terminal, at, call>>

-----------------------------------------------------------------------------
(* PtyDriver *)

\* A letter ends an escape sequence, and so does the bracket of another one.
StripOne(acc, c) ==
  [within |-> IF acc.within THEN c = "nl" ELSE c = "csi",
   text |-> IF acc.within \/ c = "csi" THEN acc.text ELSE Append(acc.text, c)]

\* strip_ansi, of what one read returned: the rest of a sequence that the read
\* cut in two is text.
StripAnsi(s) ==
  LET stripped[i \in 0 .. Len(s)] ==
        IF i = 0 THEN [within |-> FALSE, text |-> <<>>] ELSE StripOne(stripped[i - 1], s[i])
  IN stripped[Len(s)].text

\* start: the terminal is new, and its only process is the shell.
Started ==
  /\ terminal' = "known"
  /\ child' = "running" /\ held' = TRUE /\ out' = <<>> /\ printed' = printed

\* stop, by which the shell is hung up and waited for.
Stopped ==
  /\ terminal' = "none"
  /\ child' = "none" /\ held' = FALSE /\ out' = <<>> /\ printed' = printed

\* read_until_quiet: what there is, again and again.
Read ==
  /\ at = "read" /\ out # <<>>
  /\ delta' = delta \o out /\ out' = <<>>
  /\ UNCHANGED <<child, held, printed, terminal, at, input, said, script, doomed, answer, calls>>

\* No process has the terminal any more.
ReadEnds ==
  /\ at = "read" /\ out = <<>> /\ ~held
  /\ at' = "eof"
  /\ UNCHANGED <<shell, terminal, call>>

\* The poll times out.
Silence ==
  /\ at = "read" /\ out = <<>> /\ held
  /\ at' = "quiet"
  /\ UNCHANGED <<shell, terminal, call>>

ExitedIfWaited == terminal = "known" /\ child = "dead"   \* mutated: a reaped child has not exited

\* check_child_exited: one that was waited for before has.
ChildExited == terminal = "reaped" \/ child = "dead"

-----------------------------------------------------------------------------
(* Login *)

TerminatedAsIs(body) == body   \* mutated: the last line may lack its end

Terminated(body) ==
  IF body = <<>> \/ Last(body) # "nl" THEN Append(body, "nl") ELSE body

\* The first message starts the terminal, and its body is not typed.
Begin(body) ==
  /\ at = "idle" /\ calls < MaxCalls
  /\ calls' = calls + 1 /\ delta' = <<>> /\ said' = <<>>
  /\ doomed' = (child = "dead")
  /\ IF terminal = "none"
     THEN Started /\ at' = "read" /\ script' = <<>> /\ input' = <<>>
     ELSE /\ at' = "line" /\ script' = Terminated(body) /\ input' = Terminated(body)
          /\ UNCHANGED <<shell, terminal>>
  /\ UNCHANGED answer

\* The end of the first line.
LineEnd == SelectInSeq(input, LAMBDA c : c = "nl")

\* A line is typed; without one there would be no answer, which on_message
\* checks there is.
TypeLine ==
  /\ at = "line"
  /\ at' = IF LineEnd = 0 THEN "failed" ELSE "read"
  /\ said' = said \o SubSeq(input, 1, LineEnd)
  /\ input' = SubSeq(input, LineEnd + 1, Len(input))
  /\ delta' = <<>>
  /\ UNCHANGED <<shell, terminal, script, doomed, answer, calls>>

Answers(subject, text) ==
  /\ at' = "idle" /\ answer' = subject /\ said' = said \o text
  /\ UNCHANGED <<delta, script, doomed, calls>>

MatchesAlways(shown) == TRUE   \* mutated: what is shown is not compared

Matches(shown) == IsPrefix(shown, input)

\* What was read is shown; what the body has of it is not typed again.
Goes(shown, rest) ==
  IF Matches(shown) /\ rest # <<>>
  THEN /\ at' = "line" /\ input' = rest /\ said' = said \o shown
       /\ UNCHANGED <<delta, script, doomed, answer, calls>>
  ELSE Answers("terminal", shown) /\ UNCHANGED input

\* The read returns, after a look at the child.  A child that is gone is not
\* noticed by the call that started the terminal.
ReadReturns ==
  LET shown == StripAnsi(delta)
      exited == at = "eof" \/ ChildExited
  IN /\ at \in {"quiet", "eof"}
     /\ IF script # <<>> /\ exited
        THEN Stopped /\ Answers("exit", Append(shown, "gone")) /\ UNCHANGED input
        ELSE /\ terminal' = IF ChildExited THEN "reaped" ELSE terminal
             /\ UNCHANGED shell
             /\ IF script = <<>>
                THEN Answers("login", shown) /\ UNCHANGED input
                ELSE Goes(shown, SubSeq(input, Len(shown) + 1, Len(input)))

\* on_exit, at the runtime's bye.
OnExit ==
  /\ at = "idle" /\ at' = "ended"
  /\ Stopped /\ UNCHANGED call

-----------------------------------------------------------------------------
(* The specification *)

LgInit ==
  /\ child = "none" /\ held = FALSE /\ out = <<>> /\ printed = 0
  /\ terminal = "none" /\ at = "idle" /\ delta = <<>> /\ input = <<>>
  /\ said = <<>> /\ script = <<>> /\ doomed = FALSE /\ answer = "none" /\ calls = 0

LoginSteps == Read \/ ReadEnds \/ Silence \/ ReadReturns \/ TypeLine

LgNext ==
  \/ LoginSteps \/ OnExit \/ HangUp \/ Die
  \/ \E body \in Bodies : Begin(body)
  \/ \E c \in Printed : Shows(c)

\* The adapter's own steps, none of which waits for the shell: a poll times
\* out, and what the terminal prints is bounded.
LgSpec == LgInit /\ [][LgNext]_lgvars /\ WF_lgvars(LoginSteps)

-----------------------------------------------------------------------------
(* Properties *)

Text == {"nl", "a", "b"}

LgTypeOK ==
  /\ child \in {"none", "running", "dead"} /\ held \in BOOLEAN
  /\ {out, delta} \subseteq Seq(Printed) /\ printed \in 0 .. MaxPrinted
  /\ terminal \in {"none", "known", "reaped"}
  /\ at \in Calling \cup {"idle", "ended"}
  /\ {input, script} \subseteq Seq(Text) /\ said \in Seq(Text \cup {"gone"})
  /\ doomed \in BOOLEAN /\ answer \in {"none", "login", "terminal", "exit"}
  /\ calls \in 0 .. MaxCalls

\* Whatever was printed, and whenever: what a call typed and was shown, up to
\* the last line it typed, is the beginning of the message it was given, and
\* all of it while lines are left to type.
ScriptFollowed ==
  script # <<>> =>
    IF at \in Calling THEN said \o input = script
    ELSE \E n \in DOMAIN script :
           /\ script[n] = "nl"
           /\ said = SubSeq(script, 1, n) \o StripAnsi(delta) \o
                     IF answer = "exit" THEN <<"gone">> ELSE <<>>

\* A call that comes when the shell has died, noticed or not, with something
\* left on the terminal or not, is answered by "exit", and the next one starts
\* a new shell.
DeathReported ==
  at = "idle" /\ doomed => answer = "exit" /\ terminal = "none"

\* Every call is answered once.
CallAnswered == at \in Calling ~> at = "idle"
=============================================================================
