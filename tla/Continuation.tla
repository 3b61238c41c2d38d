---------------------------- MODULE Continuation ----------------------------
(***************************************************************************)
(* What a thread promises its agents (doc/ACTOR.md, "Thread"): a thread    *)
(* has one continuation owner at a time, the only agent that can produce   *)
(* its next message, and everyone who yielded it is waiting in the order   *)
(* in which they did.  The owner yields to another agent, or control goes  *)
(* back to one of the waiting callers, all the later ones given up.        *)
(***************************************************************************)
EXTENDS Naturals, Sequences

CONSTANTS Agent, Thread, user

VARIABLES owner,    \* the continuation owner of each thread
          callers   \* the agents waiting on each thread, the latest last

cvars == <<owner, callers>>

CInit ==
  /\ owner = [t \in Thread |-> user]
  /\ callers = [t \in Thread |-> <<>>]

Yield(t, b) ==
  /\ owner' = [owner EXCEPT ![t] = b]
  /\ callers' = [callers EXCEPT ![t] = Append(@, owner[t])]

GiveBack(t, d) ==
  /\ d < Len(callers[t])
  /\ owner' = [owner EXCEPT ![t] = callers[t][d + 1]]
  /\ callers' = [callers EXCEPT ![t] = SubSeq(@, 1, d)]

CNext ==
  \E t \in Thread :
    \/ \E b \in Agent : Yield(t, b)
    \/ \E d \in 0 .. Len(callers[t]) : GiveBack(t, d)

CSpec == CInit /\ [][CNext]_cvars
=============================================================================
