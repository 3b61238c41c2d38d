-------------------------------- MODULE Memory --------------------------------
(***************************************************************************)
(* The agents' memories: which records each agent remembers, whom it was   *)
(* made from, and what its adapter is told of it all when it is started.   *)
(*                                                                         *)
(* An agent made from another one remembers what that one did until then.  *)
(* Nothing is copied: the agent has a link, to its parent and to the last  *)
(* record the parent then remembered, and updateMemory reads the records   *)
(* along the links.  Who may send, and what becomes of a message, is in    *)
(* module Program; a rewind is remembered like a message.                  *)
(***************************************************************************)
EXTENDS Integers, Sequences, SequencesExt

CONSTANTS MaxAgents, MaxTemplates, MaxRecords   \* bounds

ASSUME MemoryAssumption == {MaxAgents, MaxTemplates, MaxRecords} \subseteq Nat

VARIABLES
  agents,     \* Program::agents: link.parent, link.anchor, memory; and what
              \* the agent was born with, which the program does not keep
  templates,  \* members of Program::snapshots
  records     \* the identifier of the last record

mvars == <<agents, templates, records>>

Agent == 1 .. Len(agents)

\* NOT_AN_AGENT and NO_ACCESS_ID.
Nobody == 0
Nothing == 0

-----------------------------------------------------------------------------
(* Links *)

\* What agent a remembers, by what happened.
History(a) == agents[a].born \o agents[a].memory

AnchorOfLink(a) == agents[a].anchor   \* mutated: where the agent itself began

\* Agent::anchor
Anchor(a) == IF agents[a].memory = <<>> THEN agents[a].anchor ELSE Last(agents[a].memory).id

\* Agent::snapshot, and regularizeAgentParams for "from".
MadeFrom(a) == [parent |-> a, anchor |-> Anchor(a), born |-> History(a)]

NewAgent(link) ==
  [parent |-> link.parent, anchor |-> link.anchor, born |-> link.born, memory |-> <<>>]

\* updateMemory's links, from the oldest ancestor to the agent itself.
Links(a) ==
  LET links[b \in 0 .. Len(agents)] ==
        IF b = 0 \/ agents[b].parent = Nobody THEN <<>>
        ELSE Append(links[agents[b].parent],
                    [agent |-> agents[b].parent, anchor |-> agents[b].anchor])
  IN Append(links[a], [agent |-> a, anchor |-> Anchor(a)])

\* The records up to the first one past the anchor.
UpTo(memory, anchor) ==
  LET past == {i \in DOMAIN memory : memory[i].id > anchor}
  IN IF past = {} THEN memory ELSE SubSeq(memory, 1, Min(past) - 1)

\* Those before the end, wherever they are.
Before(memory, end) ==
  LET before[i \in 0 .. Len(memory)] ==
        IF i = 0 THEN <<>>
        ELSE IF memory[i].id < end THEN Append(before[i - 1], memory[i]) ELSE before[i - 1]
  IN before[Len(memory)]

\* What updateMemory sends to the adapter of a, before the message end.
Replayed(a, end) ==
  FlattenSeq([i \in 1 .. Len(Links(a)) |->
    Before(UpTo(agents[Links(a)[i].agent].memory, Links(a)[i].anchor), end)])

-----------------------------------------------------------------------------
(* Records *)

\* apply of a message or a rewind: both ends remember it, its receiver marked.
Exchanged(from, to) ==
  LET id == records + 1
      noted == [agents EXCEPT ![from].memory = Append(@, [id |-> id, receiving |-> FALSE])]
  IN /\ records < MaxRecords /\ records' = id
     /\ agents' = [noted EXCEPT ![to].memory = Append(@, [id |-> id, receiving |-> TRUE])]
     /\ UNCHANGED templates

\* apply of agent:data: only its producer remembers it.
Recorded(from) ==
  /\ records < MaxRecords /\ records' = records + 1
  /\ agents' = [agents EXCEPT ![from].memory = Append(@, [id |-> records + 1, receiving |-> FALSE])]
  /\ UNCHANGED templates

\* The record of a commit is nobody's.
Commit == records < MaxRecords /\ records' = records + 1

\* create_agent, for a clone or for "from".
Create(a) ==
  /\ Commit /\ Len(agents) < MaxAgents
  /\ agents' = Append(agents, NewAgent(MadeFrom(a)))
  /\ UNCHANGED templates

\* create_snapshot, for one of its members.
CreateTemplate(a) ==
  /\ Commit /\ Len(templates) < MaxTemplates
  /\ templates' = Append(templates, MadeFrom(a))
  /\ UNCHANGED agents

\* create_domain_snapshot, some time later.
Instantiate(i) ==
  /\ Commit /\ Len(agents) < MaxAgents
  /\ agents' = Append(agents, NewAgent(templates[i]))
  /\ UNCHANGED templates

MInit ==
  /\ agents = <<NewAgent([parent |-> Nobody, anchor |-> Nothing, born |-> <<>>])>>
  /\ templates = <<>> /\ records = 0

MNext ==
  \/ \E from \in Agent : Recorded(from) \/ \E to \in Agent : Exchanged(from, to)
  \/ \E a \in Agent : Create(a) \/ CreateTemplate(a)
  \/ \E i \in 1 .. Len(templates) : Instantiate(i)

MSpec == MInit /\ [][MNext]_mvars

-----------------------------------------------------------------------------
(* Properties *)

Memories == Seq([id : 1 .. MaxRecords, receiving : BOOLEAN])

MTypeOK ==
  /\ agents \in Seq([parent : 0 .. Len(agents), anchor : 0 .. MaxRecords,
                     born : Memories, memory : Memories])
  /\ templates \in Seq([parent : Agent, anchor : 0 .. MaxRecords, born : Memories])
  /\ records \in 0 .. MaxRecords

\* Whenever an adapter is started, for the first time, after a death or in a
\* resumed program, what it is replayed is what its agent and those it comes
\* from did, up to the moment each was parted from, in order, and nothing that
\* they did since.
ReplayIsHistory ==
  \A a \in Agent : \A end \in 1 .. records + 1 :
    Replayed(a, end) = Before(History(a), end)
=============================================================================
