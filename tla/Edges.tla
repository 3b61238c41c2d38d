------------------------------- MODULE Edges -------------------------------
(***************************************************************************)
(* What is at the edges of the runtime, one of them at a time: the         *)
(* terminal's screen, its log, two adapters, what an adapter is told of    *)
(* its agent's past, a model's conversations, and the pipes to adapters.   *)
(* They share no state, so that a behaviour of the whole is one of the     *)
(* part chosen in the initial state.                                       *)
(***************************************************************************)
EXTENDS Tui, LogPane, Login, Shell, Memory, Conversation, Pipes

VARIABLE part

edges == <<part, tvars, lpvars, lgvars, shvars, mvars, cvars, pvars>>

Init ==
  /\ part \in {"screen", "log", "login", "shell", "memory", "agent", "pipes"}
  /\ TInit /\ LPInit /\ LgInit /\ ShInit /\ MInit /\ CvInit /\ PInit

OnScreen == part = "screen" /\ TNext /\ UNCHANGED <<part, lpvars, lgvars, shvars, mvars, cvars, pvars>>
OnLog == part = "log" /\ LPNext /\ UNCHANGED <<part, tvars, lgvars, shvars, mvars, cvars, pvars>>
OnLogin == part = "login" /\ LgNext /\ UNCHANGED <<part, tvars, lpvars, shvars, mvars, cvars, pvars>>
OnShell == part = "shell" /\ ShNext /\ UNCHANGED <<part, tvars, lpvars, lgvars, mvars, cvars, pvars>>
OnMemory == part = "memory" /\ MNext /\ UNCHANGED <<part, tvars, lpvars, lgvars, shvars, cvars, pvars>>
OnAgent == part = "agent" /\ CvNext /\ UNCHANGED <<part, tvars, lpvars, lgvars, shvars, mvars, pvars>>
OnPipes ==
  part = "pipes" /\ PNext /\ UNCHANGED <<part, tvars, lpvars, lgvars, shvars, mvars, cvars>>

Next == OnScreen \/ OnLog \/ OnLogin \/ OnShell \/ OnMemory \/ OnAgent \/ OnPipes

\* The adapters' own steps and the loop's, as in LgSpec, ShSpec and PSpec.
AdapterSteps ==
  \/ part = "login" /\ LoginSteps /\ UNCHANGED <<part, tvars, lpvars, shvars, mvars, cvars, pvars>>
  \/ part = "shell" /\ ShellSteps /\ UNCHANGED <<part, tvars, lpvars, lgvars, mvars, cvars, pvars>>
  \/ part = "pipes" /\ PipeSteps /\ UNCHANGED <<part, tvars, lpvars, lgvars, shvars, mvars, cvars>>

Spec == Init /\ [][Next]_edges /\ WF_edges(AdapterSteps)

-----------------------------------------------------------------------------

\* The state of each part has its type.
EdgesTypeOK == TTypeOK /\ LPTypeOK /\ LgTypeOK /\ ShTypeOK /\ MTypeOK /\ CvTypeOK /\ PTypeOK

\* What an adapter answers is all that happened: the lines it typed, in the
\* order of the script, the death of its shell, and what a command printed.
AnswersComplete == ScriptFollowed /\ DeathReported /\ WholeOutput

\* Every call of either adapter is answered, but for the commands that fill
\* stderr before they close stdout or read input they were not given; and the
\* loop is held up by the pipes in two named cases only.
AdaptersAnswer == CallAnswered /\ CommandAnswered /\ LoopGoesOn
=============================================================================
