------------------------------ MODULE Navigator ------------------------------
(***************************************************************************)
(* What a thread's tab takes from the structure: the tree of its domains,  *)
(* and the agents a message may be addressed to.  Both are read off the    *)
(* observer's threads before each frame; module Interface has how those    *)
(* follow the runtime's.                                                   *)
(***************************************************************************)
EXTENDS Structure

\* currentThreadDomain
CurrentDomain(t) ==
  IF stacks[t] = <<>> THEN roots[t] ELSE stacks[t][Len(stacks[t])].to.domain

-----------------------------------------------------------------------------
(* Navigation *)

PrunedNowhere(c, root) == FALSE   \* mutated: the domains of other threads are gone into

\* A detached domain is shown, but not what is below it.
Pruned(c, root) == c # root /\ domains[c].detached

ChildrenOf(c) == {e \in DomainId : domains[e].parent = c}

\* buildThreadTreeEntries: appendTreeEntries, one depth after another.
TreeEntries(t) ==
  LET tree[depth \in 0 .. Len(domains)] ==
        IF depth = 0 THEN {roots[t]}
        ELSE tree[depth - 1] \cup
             UNION {ChildrenOf(c) : c \in {e \in tree[depth - 1] : ~Pruned(e, roots[t])}}
  IN tree[Len(domains)]

-----------------------------------------------------------------------------
(* The composer *)

\* buildThreadAddressAgents
AddressAgents(t) == {a \in AgentId : agents[a].domain = CurrentDomain(t)}

KeptRuntime(t) == AddressAgents(t) \cup {Runtime}   \* mutated: the runtime comes first

\* syncAddresses: the runtime is there too, unless an agent has its name.
Offered(t) ==
  AddressAgents(t) \cup
  IF \E a \in AddressAgents(t) : agents[a].name = RuntimeName THEN {} ELSE {Runtime}

\* The agent that a message to the offered agent a would be an answer to, if
\* any: the message is addressed, and compared with the asker, by name.
Answered(t, a) ==
  IF stacks[t] = <<>> THEN {}
  ELSE LET f == stacks[t][Len(stacks[t])]
       IN {b \in {f.from.agent} : f.to.agent = User /\ agents[b].name = agents[a].name}

-----------------------------------------------------------------------------
(* Properties *)

\* The tree of a thread's tab shows every domain of the thread, and the roots
\* of the threads created from them, and goes into none of another thread.
TreeIsThread ==
  \A t \in ThreadId :
    TreeEntries(t) =
      {c \in DomainId :
         \/ domains[c].thread = t
         \/ domains[c].detached /\ c # Global /\ domains[domains[c].parent].thread = t}

\* While the user holds a thread, a call of an agent the composer offers there
\* reaches that agent, however often its name is used elsewhere.  It is an
\* answer to another one only if that is a global agent it has the name of.
OffersResolve ==
  \A t \in ThreadId : Holder(t).agent = User =>
    \A a \in Offered(t) :
      /\ AgentsAt(Holder(t).domain, agents[a].name) = {a}
      /\ \A b \in Answered(t, a) \ {a} :
           agents[b].domain = Global /\ agents[a].domain = CurrentDomain(t)

\* Neither the tree nor the composer is taken in by a name or a domain of
\* another thread.
TabResolves == TreeIsThread /\ OffersResolve
=============================================================================
