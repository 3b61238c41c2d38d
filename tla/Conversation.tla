---------------------------- MODULE Conversation ----------------------------
(***************************************************************************)
(* An adapter written with LLMAgent, on a thread it shares with the user   *)
(* and other agents.                                                       *)
(*                                                                         *)
(* It keeps account of its conversations twice: LinearService has a stack  *)
(* of the calls it serves and makes, by which it makes a message an answer *)
(* or a call, and LLMAgent a stack of its own, by which it decides whom to *)
(* write to.  One goes by In-Reply-To, the other by the sender's name.     *)
(* Neither is told when the runtime rewinds the thread, which it does at   *)
(* an error and at the death of any adapter, at work or not: what Self is  *)
(* at work on is then late, and the runtime rejects its answer.            *)
(*                                                                         *)
(* The others, and the model behind this one, write to whomever they like. *)
(* An address may be another agent's than the one that has it for a name:  *)
(* a clone answers for its original, and an entry agent for its domain.    *)
(* A header that is missing reads as the empty string.                     *)
(***************************************************************************)
EXTENDS Integers, Sequences, SequencesExt

CONSTANTS
  User, Self, Others,   \* the agents of the thread
  Alias, Clone,         \* an address, and the agent it reaches
  Nowhere,              \* an address that reaches none
  Plans,                \* what generate returns: whom to write to, or "" for no To
  MaxFrames, MaxLetters \* bounds: depth of the thread's stack, calls

Speaker == Others \cup {User, Self, Clone}
Addressed == Others \cup {User, Self, Alias, Nowhere}

ASSUME ConversationAssumption ==
  /\ {Alias, Nowhere, "none", ""} \cap Speaker = {} /\ Self # User
  /\ {"none", ""} \cap Addressed = {}
  /\ Plans \subseteq Seq(Addressed \cup {""}) \ {<<>>}
  /\ {MaxFrames, MaxLetters} \subseteq Nat

VARIABLES
  line,     \* Thread::stack
  inbox,    \* the messages that Self has yet to serve, the oldest one first
  serving,  \* LinearService::stack
  talk,     \* LLMAgent's stack
  letters,  \* the identifier of the last call
  crossed,  \* whether Self took a call for an answer or the reverse
  cut,      \* whether a rewind ended some of Self's calls, or its process, and left others
  fault     \* why a CHECK of LinearService failed last

cvars == <<line, inbox, serving, talk, letters, crossed, cut, fault>>

-----------------------------------------------------------------------------
(* The thread *)

Speaks == IF line = <<>> THEN User ELSE Last(line).to

Reached(x) == IF x = Alias THEN Clone ELSE x

Letter(to, from, reply, id) ==
  IF to = Self THEN <<[from |-> from, reply |-> reply, id |-> id]>> ELSE <<>>

\* CALL; due is the inbox that Self has left.
Called(from, x, due) ==
  /\ Len(line) < MaxFrames /\ letters < MaxLetters
  /\ letters' = letters + 1
  /\ line' = Append(line, [from |-> from, to |-> Reached(x), id |-> letters'])
  /\ inbox' = due \o Letter(Reached(x), from, FALSE, letters')
  /\ cut' = cut

\* RETURN
Returned(due) ==
  /\ line' = Front(line)
  /\ inbox' = due \o Letter(Last(line).from, Last(line).to, TRUE, Last(line).id)
  /\ letters' = letters /\ cut' = cut

OfSelf(frames) == \E i \in DOMAIN frames : Self \in {frames[i].from, frames[i].to}

\* REWIND down to the first d frames.
Unwound(d, due) ==
  /\ line' = SubSeq(line, 1, d)
  /\ cut' = (cut \/ (OfSelf(line') /\ OfSelf(SubSeq(line, d + 1, Len(line)))))
  /\ inbox' = due /\ letters' = letters

\* The frames below the last call of the user, who catches.
Below ==
  LET n == SelectLastInSeq(line, LAMBDA f : f.from = User)
  IN IF n = 0 THEN 0 ELSE n - 1

\* A message the runtime rejects is taken for an error of the thread's holder.
Rejected(due) == Unwound(IF Speaks = User THEN Len(line) ELSE Below, due)

\* What another agent does with the thread.
OtherCalls(a, x) ==
  /\ a = Speaks /\ a # Self
  /\ IF x = Nowhere THEN Rejected(inbox) ELSE Called(a, x, inbox)
  /\ UNCHANGED <<serving, talk, crossed, fault>>

OtherAnswers(a) ==
  /\ a = Speaks /\ a # Self /\ line # <<>>
  /\ Returned(inbox)
  /\ UNCHANGED <<serving, talk, crossed, fault>>

\* An adapter writes late, or about another call.
OtherErrs(a) ==
  /\ a \notin {Self, User}
  /\ Rejected(inbox)
  /\ UNCHANGED <<serving, talk, crossed, fault>>

\* An adapter dies, whoever holds the thread.
OtherDies(a) ==
  /\ a \notin {Self, User}
  /\ Unwound(Below, inbox)
  /\ UNCHANGED <<serving, talk, crossed, fault>>

-----------------------------------------------------------------------------
(* LinearService *)

Incoming(l) == [incoming |-> TRUE, peer |-> l.from, id |-> l.id]
Outgoing(x) == [incoming |-> FALSE, peer |-> x, id |-> 0]

\* The CHECKs on an answer.
Expects(l) ==
  serving # <<>> /\ ~Last(serving).incoming /\ Last(serving).peer = l.from

\* The stack while a message is served.
Served(l) == IF l.reply THEN Front(serving) ELSE Append(serving, Incoming(l))

\* The message that on_call leaves, for x or for the one served, is made an
\* answer or a call; the runtime rejects it if Self no longer has the thread
\* for the call it is about, or if it is for nobody.
Posted(l, x) ==
  LET e == Last(Served(l))
      to == IF x = "" THEN e.peer ELSE x
      current == Speaks = Self /\ Last(line).id = e.id
  IN /\ serving' = IF to = e.peer THEN Front(Served(l)) ELSE Append(Served(l), Outgoing(to))
     /\ CASE to = e.peer /\ current -> Returned(Tail(inbox))
          [] to # e.peer /\ current /\ to # Nowhere -> Called(Self, to, Tail(inbox))
          [] OTHER -> Rejected(Tail(inbox))

Ground == [returnTo |-> "none", expect |-> "none", pending |-> <<>>]

\* The notice of its own death, which a new process gets where there is no
\* call to end: it has no sender.
Notice == [from |-> "", reply |-> FALSE, id |-> 0]

\* The process is gone, and a new one will be started.
Replaced ==
  /\ line' = SubSeq(line, 1, Below)
  /\ cut' = (cut \/ OfSelf(line'))
  /\ inbox' = IF line = <<>> THEN <<Notice>> ELSE <<>>
  /\ letters' = letters
  /\ serving' = <<>> /\ talk' = <<Ground>>
  /\ crossed' = crossed

-----------------------------------------------------------------------------
(* LLMAgent *)

\* "we are waiting reply from From"
Awaited(l) == l.from = Last(talk).expect

Opened(l) ==
  IF Awaited(l) THEN [talk EXCEPT ![Len(talk)].expect = "none"]
  ELSE Append(talk, [returnTo |-> l.from, expect |-> "none", pending |-> <<>>])

ClosedNever(frames) == frames   \* mutated: the conversation stays open

\* "stack rewind": several answers that are due together are sent as one.
Closed(frames) == Front(frames)

\* on_call, by which the model is asked if it left nothing to send; the first
\* message that is no answer is sent, and the answer after all of these.  One
\* without To is taken for no answer, and from then on for what it waits for.
Conversed(l, plan) ==
  LET top == [Last(Opened(l)) EXCEPT !.pending = IF @ = <<>> THEN plan ELSE @]
      i == SelectInSeq(top.pending, LAMBDA x : x # top.returnTo)
  IN IF i = 0 THEN talk' = Closed(Opened(l)) /\ Posted(l, top.returnTo)
     ELSE /\ talk' = Append(Front(Opened(l)),
                            [top EXCEPT !.expect = top.pending[i], !.pending = RemoveAt(@, i)])
          /\ Posted(l, top.pending[i])

OnCall(l, plan) ==
  /\ l.reply => Expects(l)
  /\ Conversed(l, plan)
  /\ crossed' = (crossed \/ Awaited(l) # l.reply)
  /\ fault' = fault

\* "/list_models" is answered without a look at the stack.
ListModels(l) ==
  /\ l.reply => Expects(l)
  /\ Posted(l, "")
  /\ crossed' = (crossed \/ l.reply)
  /\ UNCHANGED <<talk, fault>>

Fails(l) ==
  /\ l.reply /\ ~Expects(l)
  /\ fault' = IF serving # <<>> /\ Reached(Last(serving).peer) = l.from THEN "alias" ELSE "check"
  /\ Replaced

Dies == Replaced /\ fault' = fault

-----------------------------------------------------------------------------
(* The specification *)

\* The thread may have been at work before: any adapter may be running.
CvInit ==
  /\ line = <<>> /\ inbox = <<>> /\ serving = <<>> /\ talk = <<Ground>>
  /\ letters = 0 /\ crossed = FALSE /\ cut = FALSE /\ fault = "none"

CvNext ==
  \/ \E a \in Speaker :
       \/ OtherAnswers(a) \/ OtherErrs(a) \/ OtherDies(a)
       \/ \E x \in Addressed \cup {Clone} : OtherCalls(a, x)
  \/ Dies
  \/ /\ inbox # <<>>
     /\ LET l == Head(inbox)
        IN Fails(l) \/ ListModels(l) \/ \E plan \in Plans : OnCall(l, plan)

CvSpec == CvInit /\ [][CvNext]_cvars

-----------------------------------------------------------------------------
(* Properties *)

Mention == Addressed \cup Speaker \cup {"none", ""}

CvTypeOK ==
  /\ line \in Seq([from : Speaker, to : Speaker, id : 1 .. MaxLetters])
  /\ inbox \in Seq([from : Speaker \cup {""}, reply : BOOLEAN, id : 0 .. MaxLetters])
  /\ serving \in Seq([incoming : BOOLEAN, peer : Mention, id : 0 .. MaxLetters])
  /\ talk \in Seq([returnTo : Mention, expect : Mention, pending : Seq(Addressed \cup {""})])
  /\ letters \in 0 .. MaxLetters /\ {crossed, cut} \subseteq BOOLEAN
  /\ fault \in {"none", "alias", "check"}

\* What LinearService's stack should be, for a conversation of LLMAgent's: it
\* is over where LLMAgent waits for the answer to a message without To.
AsServed(f) ==
  IF f.expect = "" THEN <<>>
  ELSE <<[incoming |-> TRUE, peer |-> f.returnTo]>> \o
       IF f.expect = "none" THEN <<>> ELSE <<[incoming |-> FALSE, peer |-> f.expect]>>

\* However deaths and errors rewind the thread under it, and whatever they make
\* late: until it takes a call for an answer or an answer for a call, or a
\* rewind ends some of its calls and leaves others, the two accounts an adapter
\* keeps of its conversations are the same, so that what the model means for an
\* answer is one, but for the conversations that LLMAgent leaves open because
\* their answer had no To; and it fails a CHECK only for having called an agent
\* by another address than its name.
AccountsAgree ==
  crossed \/ cut \/
  /\ fault # "check"
  /\ FlattenSeq([i \in 1 .. Len(talk) - 1 |-> AsServed(talk[i + 1])]) =
     [i \in DOMAIN serving |-> [incoming |-> serving[i].incoming, peer |-> serving[i].peer]]
=============================================================================
