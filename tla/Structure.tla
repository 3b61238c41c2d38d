------------------------------ MODULE Structure ------------------------------
(***************************************************************************)
(* The tree of domains: create_agents, create_domain and create_snapshot,  *)
(* the runtime:commit records they journal, name resolution, and calls of  *)
(* domains, of snapshots and of clones.                                    *)
(*                                                                         *)
(* Calls are made and answered by whoever holds a thread, and a rewind may *)
(* take any thread back to the user; module Program has the rules they     *)
(* follow.  What matters here is the domain each call takes place in: an   *)
(* address is looked up there, and the runtime's commands act on it.       *)
(*                                                                         *)
(* A CHECK of a commit that fails ends the program, its record journaled.  *)
(***************************************************************************)
EXTENDS Integers, Sequences, FiniteSets

CONSTANTS
  Name,             \* names of agents, domains and snapshots
  ZeroName, RuntimeName, UserName,   \* the hard-coded agents' names
  AutoName(_),      \* "domain-N"
  CloneName(_, _),  \* "<name>_<N>"
  NoName,           \* the name of the global domain, which nobody looks up
  AgentNames, DomainNames, SnapshotNames,   \* bound: the names chosen for each
  MaxAgents, MaxDomains, MaxThreads, MaxSnapshots, MaxDepth   \* bounds; the members of a
                    \* domain created from a snapshot come on top of MaxAgents

ASSUME StructureAssumption ==
  /\ {ZeroName, RuntimeName, UserName} \subseteq Name
  /\ ZeroName # RuntimeName /\ RuntimeName # UserName /\ UserName # ZeroName
  /\ AgentNames \cup DomainNames \cup SnapshotNames \subseteq Name
  /\ NoName \notin Name
  /\ {MaxAgents, MaxDomains, MaxThreads, MaxSnapshots, MaxDepth} \subseteq Nat
  /\ \A n \in 1 .. MaxDomains : AutoName(n) \in Name
  /\ \A x \in Name, n \in 1 .. MaxAgents : CloneName(x, n) \in Name

VARIABLES
  agents,     \* Program::agents: name and home domain
  domains,    \* Program::domains
  snapshots,  \* Program::snapshots, by name
  roots,      \* the root domain of each thread
  stacks,     \* the frames of each thread
  halted      \* the commit whose CHECK failed, if one did

svars == <<agents, domains, snapshots, roots, stacks, halted>>

\* The entities Program's constructor makes.
Global == 1
Zero == 1
Runtime == 2
User == 3

AgentId == 1 .. Len(agents)
DomainId == 1 .. Len(domains)
ThreadId == 1 .. Len(roots)

-----------------------------------------------------------------------------
(* Lookup *)

\* Domain::getMember and Domain::getChild, as sets of at most one element.
MemberAnywhere(d, x) == {a \in AgentId : agents[a].name = x}   \* mutated: any domain
Member(d, x) == {a \in AgentId : agents[a].domain = d /\ agents[a].name = x}
Child(d, x) == {c \in DomainId : domains[c].parent = d /\ domains[c].name = x}

\* The layers of Program::resolve, from domain d.
AgentsAt(d, x) == IF Member(d, x) # {} THEN Member(d, x) ELSE Member(Global, x)
DomainsAt(d, x) == IF AgentsAt(d, x) = {} THEN Child(d, x) ELSE {}
SnapshotAt(d, x) == AgentsAt(d, x) \cup Child(d, x) = {} /\ x \in DOMAIN snapshots

\* The agent that holds thread t, in the domain it speaks from.
Holder(t) ==
  IF stacks[t] = <<>> THEN [agent |-> domains[roots[t]].from, domain |-> roots[t]]
  ELSE stacks[t][Len(stacks[t])].to

-----------------------------------------------------------------------------
(* Commits.  Each succeeds or fails its CHECK. *)

NewAgents(d, names) == [i \in 1 .. Len(names) |-> [name |-> names[i], domain |-> d]]

\* createAgent, once per name.
CommitAgents(d, names) ==
  IF \A i \in 1 .. Len(names) :
       Member(d, names[i]) = {} /\ \A j \in 1 .. i - 1 : names[j] # names[i]
  THEN agents' = agents \o NewAgents(d, names) /\ halted' = halted
  ELSE agents' = agents /\ halted' = "create_agent"

\* createDomain: "thread(parent_ ? parent_->thread : nullptr)".
NewDomainGlobal(d, x) ==   \* mutated: every domain belongs to the main thread
  [name |-> x, parent |-> d, thread |-> domains[Global].thread, detached |-> FALSE,
   from |-> User, to |-> Runtime]
NewDomain(d, x) ==
  [name |-> x, parent |-> d, thread |-> domains[d].thread, detached |-> FALSE,
   from |-> User, to |-> Runtime]

\* create_domain, and create_thread for one that is detached.
CommitDomain(d, x, detach) ==
  IF Child(d, x) # {}
  THEN halted' = "create_domain" /\ UNCHANGED <<domains, roots>>
  ELSE IF detach
  THEN /\ domains' = Append(domains, [NewDomain(d, x) EXCEPT !.thread = Len(roots) + 1,
                                                             !.detached = TRUE])
       /\ roots' = Append(roots, Len(domains) + 1)
       /\ halted' = halted
  ELSE domains' = Append(domains, NewDomain(d, x)) /\ UNCHANGED <<roots, halted>>

\* The template of domain c: its members and the names of its entry agents.
Template(c) ==
  [members |-> {agents[a].name : a \in {b \in AgentId : agents[b].domain = c}},
   from |-> agents[domains[c].from].name, to |-> agents[domains[c].to].name]

CommitSnapshot(x, c) ==
  IF x \in DOMAIN snapshots
  THEN halted' = "create_snapshot" /\ snapshots' = snapshots
  ELSE /\ snapshots' = [y \in DOMAIN snapshots \cup {x} |->
                          IF y = x THEN Template(c) ELSE snapshots[y]]
       /\ halted' = halted

\* The order in which a hash table yields the names of S.
Orders(S) == {names \in [1 .. Cardinality(S) -> S] :
                \A i, j \in 1 .. Cardinality(S) : names[i] = names[j] => i = j}

\* create_domain_snapshot: a domain, its members, and then its entry.
InstanceFails(d, s) ==
  \/ Child(d, AutoName(Len(domains))) # {}
  \/ {s.from, s.to} \ s.members # {}

\* The agent called x among those to be created with the names.
NewId(names, x) == Len(agents) + CHOOSE i \in 1 .. Len(names) : names[i] = x

CommitInstance(d, s, names) ==
  /\ domains' = Append(domains,
       [NewDomain(d, AutoName(Len(domains))) EXCEPT !.from = NewId(names, s.from),
                                                    !.to = NewId(names, s.to)])
  /\ agents' = agents \o NewAgents(Len(domains) + 1, names)

-----------------------------------------------------------------------------
(* The runtime's commands, given from domain d; an error changes nothing *)

ReusedNames(d, names) == TRUE   \* mutated: names are not looked up
NewNames(d, names) ==
  \A i \in 1 .. Len(names) :
    Member(d, names[i]) = {} /\ \A j \in 1 .. i - 1 : names[j] # names[i]

CreateAgents(d, names) ==
  /\ Len(agents) + Len(names) <= MaxAgents
  /\ NewNames(d, names)
  /\ CommitAgents(d, names)
  /\ UNCHANGED <<domains, snapshots, roots>>

CreateDomain(d, x, detach) ==
  /\ Len(domains) < MaxDomains /\ (detach => Len(roots) < MaxThreads)
  /\ Child(d, x) = {}
  /\ CommitDomain(d, x, detach)
  /\ UNCHANGED <<agents, snapshots>>

CreateSnapshot(d, x, y) ==
  /\ Cardinality(DOMAIN snapshots) < MaxSnapshots
  /\ x \notin DOMAIN snapshots
  /\ \E c \in Child(d, y) : CommitSnapshot(x, c)
  /\ UNCHANGED <<agents, domains, roots>>

Command(d) ==
  \/ \E n \in 1 .. 2 : \E names \in [1 .. n -> AgentNames] : CreateAgents(d, names)
  \/ \E x \in DomainNames \cup {AutoName(Len(domains))}, detach \in BOOLEAN :
       CreateDomain(d, x, detach)
  \/ \E x \in SnapshotNames, y \in Name : CreateSnapshot(d, x, y)
  \/ UNCHANGED <<agents, domains, snapshots, roots, halted>>

-----------------------------------------------------------------------------
(* Messages *)

\* The stacks after the holder of thread t calls a in domain d.
Pushed(t, a, d) ==
  [stacks EXCEPT ![t] =
     Append(@, [from |-> Holder(t), to |-> [agent |-> a, domain |-> d]])]

StacksKept(s) == s   \* mutated: a new thread has no stack

\* A thread that a command creates starts with no frame.
StacksAfter(s) == [t \in 1 .. Len(roots') |-> IF t \in ThreadId THEN s[t] ELSE <<>>]

\* The holder of t calls a in d; the runtime executes a command at once.
Invoke(t, a, d) ==
  /\ IF a = Runtime THEN Command(Holder(t).domain)
     ELSE UNCHANGED <<agents, domains, snapshots, roots, halted>>
  /\ stacks' = StacksAfter(Pushed(t, a, d))

\* Who may call: the runtime only answers.
Calls(t) == Holder(t).agent # Runtime /\ Len(stacks[t]) < MaxDepth

CallAgent(t, x) ==
  /\ Calls(t)
  /\ \E a \in AgentsAt(Holder(t).domain, x) : Invoke(t, a, Holder(t).domain)

\* "*x": create_agent under a new name, unless the name is taken.
CallClone(t, x) ==
  /\ Calls(t) /\ Len(agents) < MaxAgents
  /\ LET d == Holder(t).domain
         y == CloneName(x, Len(agents))
     IN /\ AgentsAt(d, x) # {} /\ Member(d, y) = {}
        /\ CommitAgents(d, <<y>>)
        /\ stacks' = Pushed(t, Len(agents) + 1, d)
  /\ UNCHANGED <<domains, snapshots, roots>>

CallDomain(t, x) ==
  /\ Calls(t)
  /\ \E c \in DomainsAt(Holder(t).domain, x) : Invoke(t, domains[c].to, c)

CallSnapshot(t, x) ==
  /\ Calls(t) /\ Len(domains) < MaxDomains
  /\ SnapshotAt(Holder(t).domain, x)
  /\ LET d == Holder(t).domain
         s == snapshots[x]
     IN IF InstanceFails(d, s)
        THEN /\ halted' = "create_domain_snapshot"
             /\ UNCHANGED <<agents, domains, stacks>>
        ELSE \E names \in Orders(s.members) :
               /\ CommitInstance(d, s, names)
               /\ stacks' = Pushed(t, NewId(names, s.to), Len(domains) + 1)
               /\ halted' = halted
  /\ UNCHANGED <<snapshots, roots>>

Return(t) ==
  /\ stacks[t] # <<>>
  /\ stacks' = [stacks EXCEPT ![t] = SubSeq(@, 1, Len(@) - 1)]
  /\ UNCHANGED <<agents, domains, snapshots, roots, halted>>

\* A rejected message, or the death of an adapter: back to the last call the
\* user made, who alone catches.
Rewind(t) ==
  /\ Holder(t).agent # User
  /\ \E n \in 1 .. Len(stacks[t]) :
       /\ stacks[t][n].from.agent = User
       /\ \A m \in n + 1 .. Len(stacks[t]) : stacks[t][m].from.agent # User
       /\ stacks' = [stacks EXCEPT ![t] = SubSeq(@, 1, n - 1)]
  /\ UNCHANGED <<agents, domains, snapshots, roots, halted>>

-----------------------------------------------------------------------------
(* The specification *)

SInit ==
  /\ agents = <<[name |-> ZeroName, domain |-> Global],
                [name |-> RuntimeName, domain |-> Global],
                [name |-> UserName, domain |-> Global]>>
  /\ domains = <<[name |-> NoName, parent |-> 0, thread |-> 1, detached |-> TRUE,
                  from |-> User, to |-> Zero]>>
  /\ snapshots = [x \in {} |-> Template(Global)]
  /\ roots = <<Global>>
  /\ stacks = <<<<>>>>
  /\ halted = "no"

SNext ==
  /\ halted = "no"
  /\ \E t \in ThreadId :
       \/ \E x \in Name : CallAgent(t, x) \/ CallClone(t, x) \/ CallDomain(t, x) \/
                          CallSnapshot(t, x)
       \/ Return(t)
       \/ Rewind(t)

SSpec == SInit /\ [][SNext]_svars

-----------------------------------------------------------------------------
(* Properties *)

Endpoint == [agent : AgentId, domain : DomainId]
Frame == [from : Endpoint, to : Endpoint]

\* Types: every reference is to an entity that exists.
STypeOK ==
  /\ agents \in Seq([name : Name, domain : DomainId])
  /\ domains \in Seq([name : Name \cup {NoName}, parent : 0 .. Len(domains),
                      thread : ThreadId, detached : BOOLEAN, from : AgentId, to : AgentId])
  /\ DOMAIN snapshots \subseteq Name
  /\ \A x \in DOMAIN snapshots :
       snapshots[x] \in [members : SUBSET Name, from : Name, to : Name]
  /\ roots \in Seq(DomainId)
  /\ stacks \in [ThreadId -> Seq(Frame)]
  /\ halted \in {"no", "create_agent", "create_domain", "create_snapshot",
                 "create_domain_snapshot"}

\* "Each domain belongs to exactly one thread.  Detached domains create new
\* threads": a domain is the root of its thread if it is detached, and of its
\* parent's thread otherwise, whatever was created in which order.
DomainThreads ==
  /\ \A c \in DomainId :
       IF domains[c].detached THEN roots[domains[c].thread] = c
       ELSE domains[c].parent \in DomainId /\ domains[c].thread = domains[domains[c].parent].thread
  /\ \A t \in ThreadId : domains[roots[t]].detached /\ domains[roots[t]].thread = t

\* An agent that serves a call lives in the global domain, or in the domain the
\* call takes place in, and that one is of the call's thread.  preprocess's
\* CHECKs on an answer then hold, and makeRewindMessage, which looks up the
\* thread of a dead agent's home domain, finds the thread it was serving.
FramesInThread ==
  \A t \in ThreadId : \A i \in 1 .. Len(stacks[t]) :
    LET to == stacks[t][i].to
        h == agents[to.agent].domain
    IN h # Global => h = to.domain /\ domains[h].thread = t

\* The checks made before a record is journaled cover the CHECKs made when it
\* is applied, but for the domains created from a snapshot.
OtherCommitsSucceed == halted \in {"no", "create_domain_snapshot"}

-----------------------------------------------------------------------------
(* What a comment says, and the code does not keep *)

\* "They are processed by Runtime::commit and should never fail."
CommitsSucceed == halted = "no"
=============================================================================
