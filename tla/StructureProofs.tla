--------------------------- MODULE StructureProofs ---------------------------
(***************************************************************************)
(* Proofs about Structure, for any names and any number of agents, domains,*)
(* threads and snapshots.  The entities are only ever added to: the proofs *)
(* show what an addition preserves (Growth), that every command and commit *)
(* is one, and then what a call adds to the stacks.  What a thread's tab   *)
(* shows of it (module Navigator) needs more of names, parents and callers,*)
(* which the second half keeps.                                            *)
(***************************************************************************)
EXTENDS Navigator, Induction, FiniteSetTheorems, SequenceTheorems, TLAPS

AgentRecord == [name : Name, domain : DomainId]
DomainRecord == [name : Name \cup {NoName}, parent : 0 .. Len(domains), thread : ThreadId,
                 detached : BOOLEAN, from : AgentId, to : AgentId]
TemplateRecord == [members : SUBSET Name, from : Name, to : Name]

\* The conjuncts of STypeOK about agents, domains, snapshots and roots.
EntityTypes ==
  /\ agents \in Seq(AgentRecord)
  /\ domains \in Seq(DomainRecord)
  /\ DOMAIN snapshots \subseteq Name
  /\ \A x \in DOMAIN snapshots : snapshots[x] \in TemplateRecord
  /\ roots \in Seq(DomainId)

\* The order of a snapshot's members is an enumeration of them.
FiniteTemplates == \A x \in DOMAIN snapshots : IsFiniteSet(snapshots[x].members)

\* What the constructor makes stays.
HardCoded ==
  /\ Len(agents) >= 3 /\ Len(domains) >= 1 /\ Len(roots) >= 1
  /\ agents[Runtime].domain = Global
  /\ domains[Global].parent = 0

\* The agent a call of domain c reaches.
EntryOf(c) ==
  /\ agents[domains[c].to].domain \in {Global, c}
  /\ domains[c].detached => domains[c].to = Runtime \/ c = Global

RootOf(c) ==
  IF domains[c].detached THEN roots[domains[c].thread] = c
  ELSE domains[c].parent \in DomainId /\ domains[c].thread = domains[domains[c].parent].thread

RootedThread(t) == domains[roots[t]].detached /\ domains[roots[t]].thread = t

\* The part of the invariant about the entities.
Entities ==
  /\ EntityTypes
  /\ FiniteTemplates
  /\ HardCoded
  /\ \A c \in DomainId : EntryOf(c) /\ RootOf(c)
  /\ \A t \in ThreadId : RootedThread(t)

\* Where a call on thread t may be served: only the runtime is called in a
\* domain of another thread, since it is the entry of a detached domain.
Fits(t, to) ==
  /\ agents[to.agent].domain \in {Global, to.domain}
  /\ to.agent # Runtime => domains[to.domain].thread = t

Scoped(s) ==
  /\ s \in [ThreadId -> Seq(Frame)]
  /\ \A t \in ThreadId : \A i \in 1 .. Len(s[t]) : Fits(t, s[t][i].to)

SInv == Entities /\ Scoped(stacks) /\ OtherCommitsSucceed

\* Each entity stays what it was, and the new ones have their types.
Grown ==
  /\ agents' \in Seq(AgentRecord') /\ Len(agents') >= Len(agents)
  /\ \A a \in AgentId : agents'[a] = agents[a]
  /\ domains' \in Seq(DomainRecord') /\ Len(domains') >= Len(domains)
  /\ \A c \in DomainId : domains'[c] = domains[c]
  /\ roots' \in Seq(DomainId') /\ Len(roots') >= Len(roots)
  /\ \A t \in ThreadId : roots'[t] = roots[t]

-----------------------------------------------------------------------------
(* Sequences *)

LEMMA Widened ==
  ASSUME NEW S, NEW T, S \subseteq T, NEW s \in Seq(S)
  PROVE  s \in Seq(T)
  OBVIOUS

LEMMA Appended ==
  ASSUME NEW S, NEW s \in Seq(S), NEW e \in S
  PROVE  /\ Append(s, e) \in Seq(S)
         /\ Len(Append(s, e)) = Len(s) + 1
         /\ \A i \in 1 .. Len(s) : Append(s, e)[i] = s[i]
         /\ Append(s, e)[Len(s) + 1] = e
  OBVIOUS

LEMMA Joined ==
  ASSUME NEW S, NEW s \in Seq(S), NEW r \in Seq(S)
  PROVE  /\ s \o r \in Seq(S)
         /\ Len(s \o r) = Len(s) + Len(r)
         /\ \A i \in 1 .. Len(s) : (s \o r)[i] = s[i]
         /\ \A i \in 1 .. Len(r) : (s \o r)[Len(s) + i] = r[i]
  OBVIOUS

LEMMA Shortened ==
  ASSUME NEW S, NEW s \in Seq(S), NEW d \in 0 .. Len(s)
  PROVE  /\ SubSeq(s, 1, d) \in Seq(S)
         /\ Len(SubSeq(s, 1, d)) = d
         /\ \A i \in 1 .. d : SubSeq(s, 1, d)[i] = s[i]
  OBVIOUS

-----------------------------------------------------------------------------
(* Additions *)

LEMMA AgentFields ==
  ASSUME EntityTypes, NEW a \in AgentId
  PROVE  agents[a] \in AgentRecord
  BY DEF EntityTypes, AgentId

LEMMA DomainFields ==
  ASSUME EntityTypes, NEW c \in DomainId
  PROVE  domains[c] \in DomainRecord
  BY DEF EntityTypes, DomainId

LEMMA RootFields ==
  ASSUME EntityTypes, NEW t \in ThreadId
  PROVE  roots[t] \in DomainId
  BY DEF EntityTypes, ThreadId

\* The sizes are numbers, and the entities of a state are among those of the next.
LEMMA Sizes ==
  ASSUME EntityTypes
  PROVE  Len(agents) \in Nat /\ Len(domains) \in Nat /\ Len(roots) \in Nat
  BY DEF EntityTypes

LEMMA MoreEntities ==
  ASSUME EntityTypes, Len(agents') \in Nat, Len(domains') \in Nat, Len(roots') \in Nat,
         Len(agents') >= Len(agents), Len(domains') >= Len(domains), Len(roots') >= Len(roots)
  PROVE  /\ AgentId \subseteq AgentId' /\ DomainId \subseteq DomainId'
         /\ ThreadId \subseteq ThreadId'
         /\ AgentRecord \subseteq AgentRecord' /\ DomainRecord \subseteq DomainRecord'
<1>1. /\ AgentId \subseteq AgentId' /\ DomainId \subseteq DomainId'
      /\ ThreadId \subseteq ThreadId' /\ 0 .. Len(domains) \subseteq 0 .. Len(domains')
  BY Sizes DEF AgentId, DomainId, ThreadId
<1>. QED
  BY <1>1 DEF AgentRecord, DomainRecord

\* An addition keeps the entities' invariant if what is added satisfies it.
LEMMA Growth ==
  ASSUME Entities, Grown,
         DOMAIN snapshots' \subseteq Name,
         \A x \in DOMAIN snapshots' : /\ snapshots'[x] \in TemplateRecord
                                      /\ IsFiniteSet(snapshots'[x].members),
         \A c \in DomainId' \ DomainId : EntryOf(c)' /\ RootOf(c)',
         \A t \in ThreadId' \ ThreadId : RootedThread(t)'
  PROVE  Entities'
<1>. EntityTypes /\ HardCoded
  BY DEF Entities
<1>1. Len(agents') \in Nat /\ Len(domains') \in Nat /\ Len(roots') \in Nat
  BY DEF Grown
<1>2. /\ AgentId \subseteq AgentId' /\ DomainId \subseteq DomainId'
      /\ ThreadId \subseteq ThreadId'
  BY <1>1, MoreEntities DEF Grown
<1>3. EntityTypes'
  BY DEF Grown, EntityTypes, TemplateRecord
<1>4. FiniteTemplates'
  BY DEF FiniteTemplates
<1>5. HardCoded'
  <2>1. Runtime \in AgentId /\ Global \in DomainId
    BY Sizes DEF HardCoded, AgentId, DomainId, Runtime, Global
  <2>2. agents'[Runtime] = agents[Runtime] /\ domains'[Global] = domains[Global]
    BY <2>1 DEF Grown
  <2>3. Len(agents') >= 3 /\ Len(domains') >= 1 /\ Len(roots') >= 1
    BY <1>1, Sizes DEF Grown, HardCoded
  <2>. QED  BY <2>2, <2>3 DEF HardCoded, Runtime, Global
<1>6. ASSUME NEW c \in DomainId  PROVE EntryOf(c)' /\ RootOf(c)'
  <2>1. domains'[c] = domains[c] /\ domains[c] \in DomainRecord /\ EntryOf(c) /\ RootOf(c)
    BY DomainFields DEF Grown, Entities
  <2>2. EntryOf(c)'
    BY <2>1 DEF EntryOf, Grown, DomainRecord
  <2>3. RootOf(c)'
    BY <2>1, <1>2 DEF RootOf, Grown, DomainRecord
  <2>. QED  BY <2>2, <2>3
<1>7. ASSUME NEW t \in ThreadId  PROVE RootedThread(t)'
  <2>1. roots'[t] = roots[t] /\ roots[t] \in DomainId /\ RootedThread(t)
    BY RootFields DEF Grown, Entities
  <2>. QED  BY <2>1 DEF RootedThread, Grown
<1>. QED
  BY <1>3, <1>4, <1>5, <1>6, <1>7 DEF Entities

-----------------------------------------------------------------------------
(* The commits *)

LEMMA HardCodedExist ==
  ASSUME Entities
  PROVE  /\ User \in AgentId /\ Runtime \in AgentId /\ Global \in DomainId
         /\ agents[Runtime].domain = Global
  BY Sizes DEF Entities, HardCoded, AgentId, DomainId, User, Runtime, Global

LEMMA NewAgentsType ==
  ASSUME NEW d \in DomainId', NEW names \in Seq(Name)
  PROVE  /\ NewAgents(d, names) \in Seq(AgentRecord')
         /\ Len(NewAgents(d, names)) = Len(names)
         /\ \A i \in 1 .. Len(names) : NewAgents(d, names)[i].domain = d
<1>1. Len(names) \in Nat /\ \A i \in 1 .. Len(names) : names[i] \in Name
  OBVIOUS
<1>. QED
  BY <1>1 DEF NewAgents, AgentRecord

\* What stays is among what there will be.
LEMMA GrownKept ==
  ASSUME EntityTypes, Len(agents') \in Nat, Len(domains') \in Nat, Len(roots') \in Nat,
         Len(agents') >= Len(agents), Len(domains') >= Len(domains), Len(roots') >= Len(roots)
  PROVE  /\ agents \in Seq(AgentRecord') /\ domains \in Seq(DomainRecord')
         /\ roots \in Seq(DomainId')
<1>1. /\ DomainId \subseteq DomainId' /\ AgentRecord \subseteq AgentRecord'
      /\ DomainRecord \subseteq DomainRecord'
  BY MoreEntities
<1>. QED
  BY <1>1, Widened DEF EntityTypes

LEMMA UnchangedGrown ==
  ASSUME Entities, UNCHANGED <<agents, domains, snapshots, roots>>
  PROVE  Entities' /\ Grown
<1>1. Entities'
  BY DEF Entities, EntityTypes, FiniteTemplates, HardCoded, EntryOf, RootOf, RootedThread,
         AgentRecord, DomainRecord, AgentId, DomainId, ThreadId, TemplateRecord
<1>2. Grown
  BY <1>1, Sizes DEF Grown, Entities, EntityTypes
<1>. QED  BY <1>1, <1>2

\* create_agent records: agents are added to domain d.
LEMMA AgentsCommitted ==
  ASSUME Entities, NEW d \in DomainId, NEW names \in Seq(Name), NewNames(d, names),
         CommitAgents(d, names), UNCHANGED <<domains, snapshots, roots>>
  PROVE  /\ Entities' /\ Grown /\ halted' = halted
         /\ Len(agents') = Len(agents) + Len(names)
         /\ \A i \in 1 .. Len(names) : agents'[Len(agents) + i].domain = d
<1>. EntityTypes
  BY DEF Entities
<1>1. agents' = agents \o NewAgents(d, names) /\ halted' = halted
  BY DEF CommitAgents, NewNames
<1>. DEFINE new == NewAgents(d, names)
<1>2. agents \in Seq(AgentRecord)
  BY DEF EntityTypes
<1>3. /\ new \in Seq(AgentRecord) /\ Len(new) = Len(names)
      /\ \A i \in 1 .. Len(names) : new[i].domain = d
  <2>1. AgentRecord' = AgentRecord /\ d \in DomainId'
    BY DEF AgentRecord, DomainId
  <2>. QED  BY <2>1, NewAgentsType
<1>4. /\ agents' \in Seq(AgentRecord)
      /\ Len(agents') = Len(agents) + Len(names)
      /\ \A i \in 1 .. Len(agents) : agents'[i] = agents[i]
      /\ \A i \in 1 .. Len(names) : agents'[Len(agents) + i].domain = d
  <2>. HIDE DEF new
  <2>1. /\ agents \o new \in Seq(AgentRecord)
        /\ Len(agents \o new) = Len(agents) + Len(new)
        /\ \A i \in 1 .. Len(agents) : (agents \o new)[i] = agents[i]
        /\ \A i \in 1 .. Len(new) : (agents \o new)[Len(agents) + i] = new[i]
    <3>1. new \in Seq(AgentRecord)
      BY <1>3
    <3>. QED  BY <1>2, <3>1, Joined
  <2>2. agents' = agents \o new
    BY <1>1 DEF new
  <2>. QED  BY <2>1, <2>2, <1>3
<1>5. Len(names) \in Nat
  OBVIOUS
<1>6. Grown
  <2>1. /\ Len(agents') \in Nat /\ Len(domains') \in Nat /\ Len(roots') \in Nat
        /\ Len(agents') >= Len(agents) /\ Len(domains') >= Len(domains)
        /\ Len(roots') >= Len(roots)
    BY <1>4, <1>5, Sizes
  <2>2. domains' \in Seq(DomainRecord') /\ roots' \in Seq(DomainId')
    BY <2>1, GrownKept
  <2>3. AgentRecord' = AgentRecord
    BY DEF AgentRecord, DomainId
  <2>. QED  BY <1>4, <2>1, <2>2, <2>3 DEF Grown, AgentId
<1>7. Entities'
  <2>1. DomainId' = DomainId /\ ThreadId' = ThreadId
    BY DEF DomainId, ThreadId
  <2>. QED  BY <1>6, <2>1, Growth DEF Entities, EntityTypes, FiniteTemplates
<1>. QED
  BY <1>1, <1>4, <1>6, <1>7

LEMMA SizeAfter ==
  ASSUME EntityTypes, NEW e, domains' = Append(domains, e)
  PROVE  /\ Len(domains') = Len(domains) + 1 /\ Len(domains') \in Nat
         /\ DomainId' = DomainId \cup {Len(domains) + 1} /\ Len(domains) + 1 \notin DomainId
<1>1. Len(domains') = Len(domains) + 1 /\ Len(domains) \in Nat
  BY Sizes DEF EntityTypes
<1>. QED
  BY <1>1 DEF DomainId

\* A domain record appended to the domains.
LEMMA DomainAppended ==
  ASSUME EntityTypes, NEW e \in DomainRecord', domains' = Append(domains, e),
         Len(agents') \in Nat, Len(agents') >= Len(agents),
         Len(roots') \in Nat, Len(roots') >= Len(roots)
  PROVE  /\ domains' \in Seq(DomainRecord')
         /\ \A c \in DomainId : domains'[c] = domains[c]
         /\ domains'[Len(domains) + 1] = e
<1>1. Len(domains') \in Nat /\ Len(domains') >= Len(domains)
  BY SizeAfter, Sizes
<1>2. domains \in Seq(DomainRecord')
  BY <1>1, GrownKept
<1>3. /\ Append(domains, e) \in Seq(DomainRecord')
      /\ \A i \in 1 .. Len(domains) : Append(domains, e)[i] = domains[i]
      /\ Append(domains, e)[Len(domains) + 1] = e
  BY <1>2, Appended
<1>. QED
  BY <1>3 DEF DomainId

\* The record of a domain that belongs to the thread of its parent.
LEMMA NewDomainType ==
  ASSUME Entities, NEW d \in DomainId, NEW x \in Name, NEW e, domains' = Append(domains, e),
         Len(agents') \in Nat, Len(agents') >= Len(agents),
         Len(roots') \in Nat, Len(roots') >= Len(roots)
  PROVE  /\ NewDomain(d, x) \in DomainRecord'
         /\ NewDomain(d, x).parent = d /\ NewDomain(d, x).thread = domains[d].thread
         /\ ~NewDomain(d, x).detached /\ NewDomain(d, x).to = Runtime
<1>. EntityTypes
  BY DEF Entities
<1>1. /\ AgentId \subseteq AgentId' /\ DomainId \subseteq DomainId'
      /\ ThreadId \subseteq ThreadId'
  BY SizeAfter, Sizes, MoreEntities
<1>2. domains[d].thread \in ThreadId
  BY DomainFields DEF DomainRecord
<1>3. d \in 0 .. Len(domains')
  BY <1>1 DEF DomainId
<1>4. User \in AgentId' /\ Runtime \in AgentId'
  BY HardCodedExist, <1>1
<1>. QED
  BY <1>1, <1>2, <1>3, <1>4 DEF NewDomain, DomainRecord

\* create_domain records, and the create_thread that follows one.
LEMMA DomainCommitted ==
  ASSUME Entities, NEW d \in DomainId, NEW x \in Name, NEW detach \in BOOLEAN,
         Child(d, x) = {}, CommitDomain(d, x, detach), UNCHANGED <<agents, snapshots>>
  PROVE  Entities' /\ Grown /\ halted' = halted
<1>. EntityTypes
  BY DEF Entities
<1>. DEFINE n == Len(domains) + 1
            k == Len(roots) + 1
            e == IF detach THEN [NewDomain(d, x) EXCEPT !.thread = k, !.detached = TRUE]
                 ELSE NewDomain(d, x)
<1>1. /\ domains' = Append(domains, e)
      /\ roots' = IF detach THEN Append(roots, n) ELSE roots
      /\ halted' = halted
  BY DEF CommitDomain
<1>2. Len(domains') = n /\ DomainId' = DomainId \cup {n} /\ n \in DomainId' /\ n \notin DomainId
  BY <1>1, SizeAfter
<1>3. Len(roots') = (IF detach THEN k ELSE Len(roots)) /\ Len(roots') \in Nat
  BY <1>1, Sizes DEF EntityTypes
<1>4. /\ Len(agents') \in Nat /\ Len(agents') >= Len(agents)
      /\ Len(roots') >= Len(roots) /\ Len(domains') \in Nat /\ Len(domains') >= Len(domains)
  BY <1>2, <1>3, Sizes
<1>5. /\ roots' \in Seq(DomainId')
      /\ \A t \in ThreadId : roots'[t] = roots[t]
      /\ detach => roots'[k] = n
  <2>1. roots \in Seq(DomainId')
    BY <1>4, GrownKept
  <2>2. /\ Append(roots, n) \in Seq(DomainId')
        /\ \A i \in 1 .. Len(roots) : Append(roots, n)[i] = roots[i]
        /\ Append(roots, n)[k] = n
    BY <2>1, <1>2, Appended
  <2>. QED  BY <2>1, <2>2, <1>1 DEF ThreadId
<1>6. /\ e \in DomainRecord'
      /\ detach => e.detached /\ e.thread = k
      /\ ~detach => ~e.detached /\ e.parent = d /\ e.thread = domains[d].thread
      /\ e.to = Runtime
  <2>1. /\ NewDomain(d, x) \in DomainRecord'
        /\ NewDomain(d, x).parent = d /\ NewDomain(d, x).thread = domains[d].thread
        /\ ~NewDomain(d, x).detached /\ NewDomain(d, x).to = Runtime
    <3>. HIDE DEF e
    <3>. QED  BY <1>1, <1>3, <1>4, NewDomainType
  <2>2. detach => k \in ThreadId'
    BY <1>3, Sizes DEF ThreadId
  <2>. QED  BY <2>1, <2>2 DEF DomainRecord
<1>. HIDE DEF e
<1>7. /\ domains' \in Seq(DomainRecord')
      /\ \A c \in DomainId : domains'[c] = domains[c]
      /\ domains'[n] = e
  <2>1. domains' = Append(domains, e) /\ e \in DomainRecord'
    BY <1>1, <1>6
  <2>. QED  BY <2>1, <1>3, <1>4, DomainAppended
<1>8. Grown
  <2>1. agents' \in Seq(AgentRecord')
    BY <1>4, GrownKept
  <2>. QED  BY <1>4, <1>5, <1>7, <2>1 DEF Grown
<1>9. ASSUME NEW c \in DomainId' \ DomainId  PROVE EntryOf(c)' /\ RootOf(c)'
  <2>1. c = n
    BY <1>2
  <2>2. agents'[Runtime].domain = Global
    BY HardCodedExist
  <2>3. EntryOf(c)'
    BY <2>1, <2>2, <1>6, <1>7 DEF EntryOf
  <2>4. RootOf(c)'
    <3>1. CASE detach
      BY <3>1, <2>1, <1>5, <1>6, <1>7 DEF RootOf
    <3>2. CASE ~detach
      BY <3>2, <2>1, <1>2, <1>6, <1>7 DEF RootOf
    <3>. QED  BY <3>1, <3>2
  <2>. QED  BY <2>3, <2>4
<1>10. ASSUME NEW t \in ThreadId' \ ThreadId  PROVE RootedThread(t)'
  <2>1. detach /\ t = k
    BY <1>3, Sizes DEF ThreadId
  <2>. QED  BY <2>1, <1>5, <1>6, <1>7 DEF RootedThread
<1>11. Entities'
  BY <1>8, <1>9, <1>10, Growth DEF Entities, EntityTypes, FiniteTemplates
<1>. QED
  BY <1>1, <1>8, <1>11

\* A template has finitely many members.
LEMMA TemplateType ==
  ASSUME EntityTypes, NEW c \in DomainId,
         \A a \in AgentId : agents[a].name \in Name
  PROVE  Template(c) \in TemplateRecord /\ IsFiniteSet(Template(c).members)
<1>. DEFINE S == {b \in AgentId : agents[b].domain = c}
            T == {agents[a].name : a \in S}
            f == [a \in S |-> agents[a].name]
<1>1. IsFiniteSet(S)
  <2>1. IsFiniteSet(AgentId)
    BY Sizes, FS_Interval DEF AgentId
  <2>. QED  BY <2>1, FS_Subset
<1>2. f \in Surjection(S, T)
  BY DEF Surjection
<1>3. IsFiniteSet(T)
  <2>. HIDE DEF f, S, T
  <2>. QED  BY <1>1, <1>2, FS_Surjection DEF ExistsSurjection
<1>4. T \subseteq Name
  OBVIOUS
<1>5. domains[c].from \in AgentId /\ domains[c].to \in AgentId
  BY DomainFields DEF DomainRecord
<1>6. Template(c) = [members |-> T, from |-> agents[domains[c].from].name,
                     to |-> agents[domains[c].to].name]
  BY DEF Template
<1>. HIDE DEF T
<1>. QED
  BY <1>3, <1>4, <1>5, <1>6 DEF TemplateRecord

\* create_snapshot records.
LEMMA SnapshotCommitted ==
  ASSUME Entities, NEW x \in Name, NEW c \in DomainId, x \notin DOMAIN snapshots,
         CommitSnapshot(x, c), UNCHANGED <<agents, domains, roots>>
  PROVE  Entities' /\ Grown /\ halted' = halted
<1>. EntityTypes /\ FiniteTemplates
  BY DEF Entities
<1>1. /\ snapshots' = [y \in DOMAIN snapshots \cup {x} |->
                         IF y = x THEN Template(c) ELSE snapshots[y]]
      /\ halted' = halted
  BY DEF CommitSnapshot
<1>2. Template(c) \in TemplateRecord /\ IsFiniteSet(Template(c).members)
  <2>1. \A a \in AgentId : agents[a].name \in Name
    BY AgentFields DEF AgentRecord
  <2>. QED  BY <2>1, TemplateType
<1>3. /\ DOMAIN snapshots' \subseteq Name
      /\ \A y \in DOMAIN snapshots' : /\ snapshots'[y] \in TemplateRecord
                                      /\ IsFiniteSet(snapshots'[y].members)
  BY <1>1, <1>2 DEF EntityTypes, FiniteTemplates
<1>4. Grown
  <2>1. /\ AgentRecord' = AgentRecord /\ DomainRecord' = DomainRecord /\ DomainId' = DomainId
    BY DEF AgentRecord, DomainRecord, AgentId, DomainId, ThreadId
  <2>. QED  BY <2>1, Sizes DEF Grown, EntityTypes
<1>5. DomainId' = DomainId /\ ThreadId' = ThreadId
  BY DEF DomainId, ThreadId
<1>6. Entities'
  BY <1>3, <1>4, <1>5, Growth
<1>. QED
  BY <1>1, <1>4, <1>6

\* An order of S names each of its elements.
LEMMA OrderCovers ==
  ASSUME NEW S, IsFiniteSet(S), NEW names \in Orders(S)
  PROVE  /\ names \in Seq(S) /\ Len(names) \in Nat
         /\ \A y \in S : \E i \in 1 .. Len(names) : names[i] = y
<1>. DEFINE n == Cardinality(S)
<1>1. n \in Nat
  BY FS_CardinalityType
<1>2. /\ names \in [1 .. n -> S]
      /\ \A i, j \in 1 .. n : names[i] = names[j] => i = j
  BY DEF Orders
<1>. HIDE DEF n
<1>3. names \in Seq(S) /\ Len(names) = n
  BY <1>1, <1>2
<1>4. names \in Injection(1 .. n, S)
  BY <1>2 DEF Injection, IsInjective
<1>5. Cardinality(1 .. n) = n
  BY <1>1, FS_Interval
<1>6. names \in Surjection(1 .. n, S)
  <2>1. Cardinality(1 .. n) = Cardinality(S)
    BY <1>5 DEF n
  <2>. QED  BY <1>4, <2>1, FS_Injection
<1>7. \A y \in S : \E i \in 1 .. n : names[i] = y
  BY <1>6 DEF Surjection
<1>. QED
  BY <1>1, <1>3, <1>7

LEMMA NewIdIs ==
  ASSUME NEW names, NEW y, \E i \in 1 .. Len(names) : names[i] = y
  PROVE  \E i \in 1 .. Len(names) : names[i] = y /\ NewId(names, y) = Len(agents) + i
  BY DEF NewId

\* create_domain_snapshot records: a domain with its members, two of which are
\* its entry agents.
LEMMA InstanceCommitted ==
  ASSUME Entities, NEW d \in DomainId, NEW s \in TemplateRecord, IsFiniteSet(s.members),
         ~InstanceFails(d, s), AutoName(Len(domains)) \in Name,
         NEW names \in Orders(s.members), CommitInstance(d, s, names),
         UNCHANGED <<snapshots, roots>>
  PROVE  /\ Entities' /\ Grown
         /\ NewId(names, s.to) \in AgentId' /\ Len(domains) + 1 \in DomainId'
         /\ agents'[NewId(names, s.to)].domain = Len(domains) + 1
         /\ domains'[Len(domains) + 1].thread = domains[d].thread
         /\ NewId(names, s.to) # Runtime
<1>. EntityTypes
  BY DEF Entities
<1>. DEFINE n == Len(domains) + 1
            new == NewAgents(n, names)
            e == [NewDomain(d, AutoName(Len(domains)))
                    EXCEPT !.from = NewId(names, s.from), !.to = NewId(names, s.to)]
<1>1. domains' = Append(domains, e) /\ agents' = agents \o new
  BY DEF CommitInstance
<1>2. Len(domains') = n /\ DomainId' = DomainId \cup {n} /\ n \in DomainId' /\ n \notin DomainId
  BY <1>1, SizeAfter
<1>3. /\ names \in Seq(Name) /\ Len(names) \in Nat
      /\ \A y \in s.members : \E i \in 1 .. Len(names) : names[i] = y
  <2>1. /\ names \in Seq(s.members) /\ Len(names) \in Nat
        /\ \A y \in s.members : \E i \in 1 .. Len(names) : names[i] = y
    BY OrderCovers
  <2>2. s.members \subseteq Name
    BY DEF TemplateRecord
  <2>. QED  BY <2>1, <2>2, Widened
<1>4. /\ new \in Seq(AgentRecord') /\ Len(new) = Len(names)
      /\ \A i \in 1 .. Len(names) : new[i].domain = n
  BY <1>2, <1>3, NewAgentsType
<1>5. DomainId \subseteq DomainId' /\ AgentRecord \subseteq AgentRecord'
  BY <1>2 DEF AgentRecord
<1>6. agents \in Seq(AgentRecord')
  BY <1>5, Widened DEF EntityTypes
<1>7. /\ agents' \in Seq(AgentRecord')
      /\ Len(agents') = Len(agents) + Len(names)
      /\ \A i \in 1 .. Len(agents) : agents'[i] = agents[i]
      /\ \A i \in 1 .. Len(names) : agents'[Len(agents) + i].domain = n
  <2>. HIDE DEF new
  <2>1. /\ agents \o new \in Seq(AgentRecord')
        /\ Len(agents \o new) = Len(agents) + Len(new)
        /\ \A i \in 1 .. Len(agents) : (agents \o new)[i] = agents[i]
        /\ \A i \in 1 .. Len(new) : (agents \o new)[Len(agents) + i] = new[i]
    <3>1. new \in Seq(AgentRecord')
      BY <1>4
    <3>. QED  BY <1>6, <3>1, Joined
  <2>2. agents' = agents \o new
    BY <1>1
  <2>. QED  BY <2>1, <2>2, <1>4
<1>8. /\ Len(agents') \in Nat /\ Len(agents') >= Len(agents)
      /\ Len(roots') \in Nat /\ Len(roots') >= Len(roots)
      /\ Len(domains') \in Nat /\ Len(domains') >= Len(domains)
  BY <1>2, <1>3, <1>7, Sizes
<1>9. ASSUME NEW y \in {s.from, s.to}
      PROVE  /\ NewId(names, y) \in AgentId' /\ agents'[NewId(names, y)].domain = n
             /\ NewId(names, y) # Runtime
  <2>1. \E i \in 1 .. Len(names) : names[i] = y
    BY <1>3 DEF InstanceFails
  <2>2. PICK i \in 1 .. Len(names) : NewId(names, y) = Len(agents) + i
    BY <2>1, NewIdIs
  <2>3. Len(agents) >= 3
    BY DEF Entities, HardCoded
  <2>. QED  BY <2>2, <2>3, <1>3, <1>7, Sizes DEF AgentId, Runtime
<1>10. /\ e \in DomainRecord' /\ ~e.detached
       /\ e.parent = d /\ e.thread = domains[d].thread /\ e.to = NewId(names, s.to)
  <2>1. /\ NewDomain(d, AutoName(Len(domains))) \in DomainRecord'
        /\ NewDomain(d, AutoName(Len(domains))).parent = d
        /\ NewDomain(d, AutoName(Len(domains))).thread = domains[d].thread
        /\ ~NewDomain(d, AutoName(Len(domains))).detached
    <3>. HIDE DEF e
    <3>. QED  BY <1>1, <1>8, NewDomainType
  <2>2. NewId(names, s.from) \in AgentId' /\ NewId(names, s.to) \in AgentId'
    BY <1>9
  <2>. QED  BY <2>1, <2>2 DEF DomainRecord
<1>. HIDE DEF e, new
<1>11. /\ domains' \in Seq(DomainRecord')
       /\ \A c \in DomainId : domains'[c] = domains[c]
       /\ domains'[n] = e
  <2>1. domains' = Append(domains, e) /\ e \in DomainRecord'
    BY <1>1, <1>10
  <2>. QED  BY <2>1, <1>8, DomainAppended
<1>12. Grown
  <2>1. roots' \in Seq(DomainId')
    BY <1>8, GrownKept
  <2>. QED  BY <1>7, <1>8, <1>11, <2>1 DEF Grown, AgentId
<1>13. ASSUME NEW c \in DomainId' \ DomainId  PROVE EntryOf(c)' /\ RootOf(c)'
  <2>1. c = n
    BY <1>2
  <2>2. EntryOf(c)'
    BY <2>1, <1>9, <1>10, <1>11 DEF EntryOf
  <2>3. RootOf(c)'
    BY <2>1, <1>2, <1>10, <1>11 DEF RootOf
  <2>. QED  BY <2>2, <2>3
<1>14. Entities'
  <2>1. ThreadId' = ThreadId
    BY DEF ThreadId
  <2>. QED  BY <1>12, <1>13, <2>1, Growth DEF Entities, EntityTypes, FiniteTemplates
<1>. QED
  BY <1>2, <1>9, <1>10, <1>11, <1>12, <1>14

-----------------------------------------------------------------------------
(* Commands *)

\* A command given in a domain of any thread only adds, and its commits succeed.
LEMMA CommandGrows ==
  ASSUME Entities, NEW d \in DomainId, Command(d), halted = "no"
  PROVE  Entities' /\ Grown /\ halted' = "no"
<1>1. ASSUME NEW k \in 1 .. 2, NEW names \in [1 .. k -> AgentNames], CreateAgents(d, names)
      PROVE  Entities' /\ Grown /\ halted' = "no"
  <2>1. names \in Seq(Name)
    BY StructureAssumption
  <2>. QED  BY <1>1, <2>1, AgentsCommitted DEF CreateAgents
<1>2. ASSUME NEW x \in DomainNames \cup {AutoName(Len(domains))}, NEW detach \in BOOLEAN,
             CreateDomain(d, x, detach)
      PROVE  Entities' /\ Grown /\ halted' = "no"
  <2>1. Len(domains) \in 1 .. MaxDomains
    BY <1>2, Sizes, StructureAssumption DEF CreateDomain, Entities, HardCoded
  <2>2. x \in Name
    BY <2>1, StructureAssumption
  <2>. QED  BY <1>2, <2>2, DomainCommitted DEF CreateDomain
<1>3. ASSUME NEW x \in SnapshotNames, NEW y \in Name, CreateSnapshot(d, x, y)
      PROVE  Entities' /\ Grown /\ halted' = "no"
  <2>1. PICK c \in Child(d, y) : CommitSnapshot(x, c)
    BY <1>3 DEF CreateSnapshot
  <2>2. c \in DomainId /\ x \in Name
    BY StructureAssumption DEF Child
  <2>. QED  BY <1>3, <2>1, <2>2, SnapshotCommitted DEF CreateSnapshot
<1>4. ASSUME UNCHANGED <<agents, domains, snapshots, roots, halted>>
      PROVE  Entities' /\ Grown /\ halted' = "no"
  BY <1>4, UnchangedGrown
<1>. QED
  BY <1>1, <1>2, <1>3, <1>4 DEF Command

-----------------------------------------------------------------------------
(* Stacks *)

LEMMA HolderFits ==
  ASSUME Entities, Scoped(stacks), NEW t \in ThreadId
  PROVE  /\ Holder(t) \in Endpoint
         /\ Holder(t).agent # Runtime => domains[Holder(t).domain].thread = t
<1>. EntityTypes
  BY DEF Entities
<1>1. CASE stacks[t] = <<>>
  <2>1. roots[t] \in DomainId /\ domains[roots[t]].thread = t
    BY RootFields DEF Entities, RootedThread
  <2>2. domains[roots[t]].from \in AgentId
    BY <2>1, DomainFields DEF DomainRecord
  <2>. QED  BY <1>1, <2>1, <2>2 DEF Holder, Endpoint
<1>2. CASE stacks[t] # <<>>
  <2>1. stacks[t] \in Seq(Frame)
    BY DEF Scoped
  <2>2. Len(stacks[t]) \in 1 .. Len(stacks[t]) /\ stacks[t][Len(stacks[t])] \in Frame
    BY <1>2, <2>1
  <2>3. Fits(t, stacks[t][Len(stacks[t])].to)
    BY <2>2 DEF Scoped
  <2>. QED  BY <1>2, <2>2, <2>3 DEF Holder, Frame, Fits
<1>. QED  BY <1>1, <1>2

\* What fits goes on fitting, and what exists goes on existing.
LEMMA FitsKept ==
  ASSUME Entities, Grown
  PROVE  /\ Endpoint \subseteq Endpoint' /\ Frame \subseteq Frame' /\ ThreadId \subseteq ThreadId'
         /\ \A t \in ThreadId, to \in Endpoint : Fits(t, to) => Fits(t, to)'
<1>. EntityTypes
  BY DEF Entities
<1>1. /\ AgentId \subseteq AgentId' /\ DomainId \subseteq DomainId'
      /\ ThreadId \subseteq ThreadId'
  BY MoreEntities DEF Grown
<1>2. Endpoint \subseteq Endpoint' /\ Frame \subseteq Frame'
  BY <1>1 DEF Endpoint, Frame
<1>3. ASSUME NEW t \in ThreadId, NEW to \in Endpoint, Fits(t, to)  PROVE Fits(t, to)'
  <2>1. to.agent \in AgentId /\ to.domain \in DomainId
    BY DEF Endpoint
  <2>. QED  BY <1>3, <2>1 DEF Fits, Grown
<1>. QED  BY <1>1, <1>2, <1>3

\* A call that adds a frame, of what there will be, to thread t.
LEMMA PushedScoped ==
  ASSUME Entities, Scoped(stacks), Grown, NEW t \in ThreadId,
         NEW a \in AgentId', NEW d \in DomainId', Fits(t, [agent |-> a, domain |-> d])',
         stacks' = StacksAfter(Pushed(t, a, d))
  PROVE  Scoped(stacks)'
<1>. DEFINE f == [from |-> Holder(t), to |-> [agent |-> a, domain |-> d]]
<1>1. /\ Endpoint \subseteq Endpoint' /\ Frame \subseteq Frame' /\ ThreadId \subseteq ThreadId'
      /\ \A u \in ThreadId, to \in Endpoint : Fits(u, to) => Fits(u, to)'
  BY FitsKept
<1>2. f \in Frame'
  BY <1>1, HolderFits DEF Frame, Endpoint
<1>3. /\ DOMAIN stacks' = ThreadId'
      /\ \A u \in ThreadId' :
           stacks'[u] = IF u \notin ThreadId THEN <<>>
                        ELSE IF u = t THEN Append(stacks[t], f) ELSE stacks[u]
      /\ stacks' = [u \in ThreadId' |-> stacks'[u]]
  BY DEF StacksAfter, Pushed, ThreadId, Scoped
<1>. HIDE DEF f
<1>4. ASSUME NEW u \in ThreadId'
      PROVE  /\ stacks'[u] \in Seq(Frame')
             /\ \A i \in 1 .. Len(stacks'[u]) : Fits(u, stacks[u][i].to)'
  <2>1. CASE u \notin ThreadId
    <3>1. stacks'[u] = <<>>
      BY <2>1, <1>3
    <3>2. stacks'[u] \in Seq(Frame') /\ 1 .. Len(stacks'[u]) = {}
      BY <3>1
    <3>. QED  BY <3>2
  <2>2. CASE u \in ThreadId
    <3>1. stacks[u] \in Seq(Frame) /\ stacks[u] \in Seq(Frame')
      BY <2>2, <1>1, Widened DEF Scoped
    <3>2. ASSUME NEW i \in 1 .. Len(stacks[u]), NEW to, to = stacks[u][i].to
          PROVE  Fits(u, to)'
      <4>1. to \in Endpoint
        <5>1. stacks[u][i] \in Frame
          BY <3>1
        <5>. QED  BY <5>1, <3>2 DEF Frame
      <4>2. Fits(u, to)
        BY <2>2, <3>2 DEF Scoped
      <4>. QED  BY <2>2, <4>1, <4>2, <1>1
    <3>3. CASE u = t
      <4>1. /\ Append(stacks[t], f) \in Seq(Frame')
            /\ Len(Append(stacks[t], f)) = Len(stacks[t]) + 1
            /\ \A i \in 1 .. Len(stacks[t]) : Append(stacks[t], f)[i] = stacks[t][i]
            /\ Append(stacks[t], f)[Len(stacks[t]) + 1] = f
        BY <3>1, <3>3, <1>2, Appended
      <4>2. stacks'[u] = Append(stacks[t], f)
        BY <2>2, <3>3, <1>3
      <4>3. ASSUME NEW i \in 1 .. Len(stacks'[u])  PROVE Fits(u, stacks[u][i].to)'
        <5>1. CASE i \in 1 .. Len(stacks[t])
          <6>1. stacks'[u][i].to = stacks[u][i].to
            BY <5>1, <4>1, <4>2, <3>3
          <6>. QED  BY <6>1, <5>1, <3>2, <3>3 DEF Fits
        <5>2. CASE i = Len(stacks[t]) + 1
          <6>1. stacks'[u][i].to = [agent |-> a, domain |-> d]
            BY <5>2, <4>1, <4>2 DEF f
          <6>. QED  BY <6>1, <3>3 DEF Fits
        <5>. QED  BY <5>1, <5>2, <4>1, <4>2, <3>1, <3>3
      <4>. QED  BY <4>1, <4>2, <4>3
    <3>4. CASE u # t
      <4>1. stacks'[u] = stacks[u]
        BY <2>2, <3>4, <1>3
      <4>. QED  BY <4>1, <3>1, <3>2 DEF Fits
    <3>. QED  BY <3>3, <3>4
  <2>. QED  BY <2>1, <2>2
<1>5. stacks' \in [ThreadId' -> Seq(Frame')]
  BY <1>3, <1>4
<1>. QED
  BY <1>4, <1>5 DEF Scoped

\* With no new thread, nothing but the stack that grows changes.
LEMMA SameThreads ==
  ASSUME Scoped(stacks), roots' = roots, NEW t, NEW a, NEW d, stacks' = Pushed(t, a, d)
  PROVE  stacks' = StacksAfter(Pushed(t, a, d))
  BY DEF StacksAfter, Pushed, Scoped, ThreadId

\* A stack cut to its first frames.
LEMMA CutKeeps ==
  ASSUME SInv, NEW t \in ThreadId, NEW k \in 0 .. Len(stacks[t]),
         stacks' = [stacks EXCEPT ![t] = SubSeq(@, 1, k)],
         UNCHANGED <<agents, domains, snapshots, roots, halted>>
  PROVE  SInv'
<1>1. Entities' /\ Grown
  BY UnchangedGrown DEF SInv
<1>2. /\ AgentId' = AgentId /\ DomainId' = DomainId /\ ThreadId' = ThreadId
      /\ Endpoint' = Endpoint /\ Frame' = Frame
  BY DEF AgentId, DomainId, ThreadId, Endpoint, Frame
<1>3. ASSUME NEW u \in ThreadId
      PROVE  /\ stacks'[u] \in Seq(Frame)
             /\ \A i \in 1 .. Len(stacks'[u]) : /\ i \in 1 .. Len(stacks[u])
                                                /\ stacks'[u][i] = stacks[u][i]
  <2>1. stacks[u] \in Seq(Frame) /\ stacks[t] \in Seq(Frame)
    BY DEF SInv, Scoped
  <2>2. /\ SubSeq(stacks[t], 1, k) \in Seq(Frame) /\ Len(SubSeq(stacks[t], 1, k)) = k
        /\ \A i \in 1 .. k : SubSeq(stacks[t], 1, k)[i] = stacks[t][i]
    BY <2>1, Shortened
  <2>3. stacks'[u] = IF u = t THEN SubSeq(stacks[t], 1, k) ELSE stacks[u]
    BY DEF SInv, Scoped
  <2>. QED  BY <2>1, <2>2, <2>3
<1>4. stacks' \in [ThreadId -> Seq(Frame)]
  BY <1>3 DEF SInv, Scoped
<1>5. ASSUME NEW u \in ThreadId, NEW i \in 1 .. Len(stacks'[u])
      PROVE  Fits(u, stacks[u][i].to)'
  <2>1. Fits(u, stacks[u][i].to) /\ stacks'[u][i] = stacks[u][i]
    BY <1>3 DEF SInv, Scoped
  <2>. QED  BY <2>1 DEF Fits
<1>6. Scoped(stacks)'
  BY <1>2, <1>4, <1>5 DEF Scoped
<1>. QED
  BY <1>1, <1>6 DEF SInv, OtherCommitsSucceed

LEMMA AgentFound ==
  ASSUME Entities, NEW d, NEW x, NEW a \in AgentsAt(d, x)
  PROVE  a \in AgentId /\ agents[a].domain \in {Global, d}
  BY DEF AgentsAt, Member

\* A call of an agent that exists, the runtime's command included.
LEMMA InvokeKeeps ==
  ASSUME SInv, halted = "no", NEW t \in ThreadId, NEW a \in AgentId, NEW d \in DomainId,
         Fits(t, [agent |-> a, domain |-> d]), Invoke(t, a, d)
  PROVE  SInv'
<1>1. Holder(t).domain \in DomainId
  BY HolderFits DEF SInv, Endpoint
<1>2. Entities' /\ Grown /\ halted' = "no"
  BY <1>1, CommandGrows, UnchangedGrown DEF SInv, Invoke
<1>3. Fits(t, [agent |-> a, domain |-> d])'
  <2>1. [agent |-> a, domain |-> d] \in Endpoint
    BY DEF Endpoint
  <2>. QED  BY <2>1, <1>2, FitsKept DEF SInv
<1>4. a \in AgentId' /\ d \in DomainId'
  BY <1>2, MoreEntities DEF SInv, Entities, Grown
<1>5. Scoped(stacks)'
  BY <1>2, <1>3, <1>4, PushedScoped DEF SInv, Invoke
<1>. QED
  BY <1>2, <1>5 DEF SInv, OtherCommitsSucceed

LEMMA CallAgentKeeps ==
  ASSUME SInv, halted = "no", NEW t \in ThreadId, NEW x \in Name, CallAgent(t, x)
  PROVE  SInv'
<1>. DEFINE d == Holder(t).domain
<1>1. d \in DomainId /\ domains[d].thread = t
  BY HolderFits DEF SInv, Endpoint, CallAgent, Calls
<1>2. PICK a \in AgentsAt(d, x) : Invoke(t, a, d)
  BY DEF CallAgent
<1>. HIDE DEF d
<1>3. a \in AgentId /\ agents[a].domain \in {Global, d}
  BY AgentFound DEF SInv
<1>4. Fits(t, [agent |-> a, domain |-> d])
  BY <1>1, <1>3 DEF Fits
<1>. QED
  BY <1>1, <1>2, <1>3, <1>4, InvokeKeeps

LEMMA CallDomainKeeps ==
  ASSUME SInv, halted = "no", NEW t \in ThreadId, NEW x \in Name, CallDomain(t, x)
  PROVE  SInv'
<1>. DEFINE d == Holder(t).domain
<1>1. d \in DomainId /\ domains[d].thread = t
  BY HolderFits DEF SInv, Endpoint, CallDomain, Calls
<1>2. PICK c \in Child(d, x) : Invoke(t, domains[c].to, c)
  BY DEF CallDomain, DomainsAt
<1>. HIDE DEF d
<1>3. c \in DomainId /\ domains[c].parent = d
  BY DEF Child
<1>4. domains[c].to \in AgentId /\ EntryOf(c) /\ RootOf(c)
  BY <1>3, DomainFields DEF SInv, Entities, DomainRecord
<1>5. c # Global
  BY <1>1, <1>3 DEF SInv, Entities, HardCoded, DomainId
<1>6. Fits(t, [agent |-> domains[c].to, domain |-> c])
  BY <1>1, <1>3, <1>4, <1>5 DEF Fits, EntryOf, RootOf
<1>. QED
  BY <1>2, <1>3, <1>4, <1>6, InvokeKeeps

LEMMA CallCloneKeeps ==
  ASSUME SInv, halted = "no", NEW t \in ThreadId, NEW x \in Name, CallClone(t, x)
  PROVE  SInv'
<1>. EntityTypes
  BY DEF SInv, Entities
<1>1. PICK d : d = Holder(t).domain
  OBVIOUS
<1>2. PICK a : a = Len(agents) + 1
  OBVIOUS
<1>3. PICK names : names = <<CloneName(x, Len(agents))>>
  OBVIOUS
<1>4. d \in DomainId /\ domains[d].thread = t
  BY <1>1, HolderFits DEF SInv, Endpoint, CallClone, Calls
<1>5. names \in Seq(Name) /\ Len(names) = 1
  <2>1. Len(agents) \in 1 .. MaxAgents
    BY Sizes, StructureAssumption DEF SInv, Entities, HardCoded, CallClone
  <2>2. CloneName(x, Len(agents)) \in Name
    BY <2>1, StructureAssumption
  <2>. QED  BY <1>3, <2>2
<1>6. NewNames(d, names)
  BY <1>1, <1>3 DEF CallClone, NewNames
<1>7. /\ CommitAgents(d, names) /\ stacks' = Pushed(t, a, d)
      /\ UNCHANGED <<domains, snapshots, roots>>
  BY <1>1, <1>2, <1>3 DEF CallClone
<1>8. /\ Entities' /\ Grown /\ halted' = halted
      /\ Len(agents') = Len(agents) + Len(names)
      /\ \A i \in 1 .. Len(names) : agents'[Len(agents) + i].domain = d
  BY <1>4, <1>5, <1>6, <1>7, AgentsCommitted DEF SInv
<1>9. a \in AgentId' /\ agents'[a].domain = d
  BY <1>2, <1>5, <1>8, Sizes DEF AgentId
<1>10. d \in DomainId' /\ domains'[d].thread = t
  BY <1>4, <1>7 DEF DomainId
<1>11. Fits(t, [agent |-> a, domain |-> d])'
  BY <1>9, <1>10 DEF Fits
<1>12. Scoped(stacks)'
  BY <1>7, <1>8, <1>9, <1>10, <1>11, SameThreads, PushedScoped DEF SInv
<1>. QED
  BY <1>8, <1>12 DEF SInv, OtherCommitsSucceed

LEMMA CallSnapshotKeeps ==
  ASSUME SInv, halted = "no", NEW t \in ThreadId, NEW x \in Name, CallSnapshot(t, x)
  PROVE  SInv'
<1>. EntityTypes
  BY DEF SInv, Entities
<1>1. PICK d : d = Holder(t).domain
  OBVIOUS
<1>2. PICK s : s = snapshots[x]
  OBVIOUS
<1>3. d \in DomainId /\ domains[d].thread = t
  BY <1>1, HolderFits DEF SInv, Endpoint, CallSnapshot, Calls
<1>4. s \in TemplateRecord /\ IsFiniteSet(s.members)
  BY <1>2 DEF SInv, Entities, EntityTypes, FiniteTemplates, CallSnapshot, SnapshotAt
<1>5. CASE InstanceFails(d, s)
  <2>1. /\ halted' = "create_domain_snapshot"
        /\ UNCHANGED <<agents, domains, snapshots, roots, stacks>>
    BY <1>1, <1>2, <1>5 DEF CallSnapshot
  <2>2. Entities' /\ Grown
    BY <2>1, UnchangedGrown DEF SInv
  <2>3. Scoped(stacks)'
    BY <2>1 DEF SInv, Scoped, Fits, Frame, Endpoint, AgentId, DomainId, ThreadId
  <2>. QED  BY <2>1, <2>2, <2>3 DEF SInv, OtherCommitsSucceed
<1>6. CASE ~InstanceFails(d, s)
  <2>1. PICK names \in Orders(s.members) :
          /\ CommitInstance(d, s, names)
          /\ stacks' = Pushed(t, NewId(names, s.to), Len(domains) + 1)
          /\ halted' = halted
    BY <1>1, <1>2, <1>6 DEF CallSnapshot
  <2>2. UNCHANGED <<snapshots, roots>>
    BY DEF CallSnapshot
  <2>3. AutoName(Len(domains)) \in Name
    <3>1. Len(domains) \in 1 .. MaxDomains
      BY Sizes, StructureAssumption DEF SInv, Entities, HardCoded, CallSnapshot
    <3>. QED  BY <3>1, StructureAssumption
  <2>4. PICK a : a = NewId(names, s.to)
    OBVIOUS
  <2>5. PICK c : c = Len(domains) + 1
    OBVIOUS
  <2>6. /\ Entities' /\ Grown
        /\ a \in AgentId' /\ c \in DomainId'
        /\ agents'[a].domain = c /\ domains'[c].thread = t
    BY <1>3, <1>4, <1>6, <2>1, <2>2, <2>3, <2>4, <2>5, InstanceCommitted DEF SInv
  <2>7. Fits(t, [agent |-> a, domain |-> c])'
    BY <2>6 DEF Fits
  <2>8. stacks' = Pushed(t, a, c)
    BY <2>1, <2>4, <2>5
  <2>9. Scoped(stacks)'
    BY <2>2, <2>6, <2>7, <2>8, SameThreads, PushedScoped DEF SInv
  <2>. QED  BY <2>1, <2>6, <2>9 DEF SInv, OtherCommitsSucceed
<1>. QED
  BY <1>5, <1>6

-----------------------------------------------------------------------------
(* Theorems *)

LEMMA InitSInv == SInit => SInv
<1>. SUFFICES ASSUME SInit PROVE SInv
  OBVIOUS
<1>1. AgentId = 1 .. 3 /\ DomainId = {1} /\ ThreadId = {1}
  BY DEF SInit, AgentId, DomainId, ThreadId
<1>2. EntityTypes
  <2>1. agents \in Seq(AgentRecord)
    BY <1>1, StructureAssumption DEF SInit, AgentRecord, Global
  <2>2. domains \in Seq(DomainRecord)
    BY <1>1 DEF SInit, DomainRecord, User, Zero
  <2>3. roots \in Seq(DomainId) /\ DOMAIN snapshots = {}
    BY <1>1 DEF SInit, Global
  <2>. QED  BY <2>1, <2>2, <2>3 DEF EntityTypes
<1>3. FiniteTemplates
  BY DEF SInit, FiniteTemplates
<1>4. HardCoded
  BY DEF SInit, HardCoded, Runtime, Global
<1>5. \A c \in DomainId : EntryOf(c) /\ RootOf(c)
  BY <1>1 DEF SInit, EntryOf, RootOf, Global, Zero
<1>6. \A t \in ThreadId : RootedThread(t)
  BY <1>1 DEF SInit, RootedThread, Global
<1>7. Scoped(stacks)
  <2>1. stacks = <<<<>>>>
    BY DEF SInit
  <2>2. DOMAIN stacks = {1} /\ stacks[1] = <<>> /\ stacks = [t \in {1} |-> stacks[t]]
    BY <2>1
  <2>3. <<>> \in Seq(Frame) /\ 1 .. Len(<<>>) = {}
    OBVIOUS
  <2>4. stacks \in [ThreadId -> Seq(Frame)]
    BY <2>2, <2>3, <1>1
  <2>. QED  BY <2>2, <2>3, <2>4, <1>1 DEF Scoped
<1>. QED
  BY <1>2, <1>3, <1>4, <1>5, <1>6, <1>7 DEF SInv, Entities, OtherCommitsSucceed, SInit

LEMMA NextSInv == SInv /\ [SNext]_svars => SInv'
<1>. SUFFICES ASSUME SInv, [SNext]_svars PROVE SInv'
  OBVIOUS
<1>1. CASE UNCHANGED svars
  <2>1. Entities' /\ Grown
    BY <1>1, UnchangedGrown DEF SInv, svars
  <2>2. Scoped(stacks)'
    BY <1>1 DEF SInv, Scoped, Fits, Frame, Endpoint, AgentId, DomainId, ThreadId, svars
  <2>. QED  BY <1>1, <2>1, <2>2 DEF SInv, OtherCommitsSucceed, svars
<1>2. ASSUME halted = "no", NEW t \in ThreadId, NEW x \in Name,
             CallAgent(t, x) \/ CallClone(t, x) \/ CallDomain(t, x) \/ CallSnapshot(t, x)
      PROVE  SInv'
  BY <1>2, CallAgentKeeps, CallCloneKeeps, CallDomainKeeps, CallSnapshotKeeps
<1>3. ASSUME NEW t \in ThreadId, Return(t)  PROVE SInv'
  <2>1. stacks[t] \in Seq(Frame)
    BY DEF SInv, Scoped
  <2>2. Len(stacks[t]) - 1 \in 0 .. Len(stacks[t])
    BY <1>3, <2>1 DEF Return
  <2>. QED  BY <1>3, <2>2, CutKeeps DEF Return
<1>4. ASSUME NEW t \in ThreadId, Rewind(t)  PROVE SInv'
  <2>1. stacks[t] \in Seq(Frame)
    BY DEF SInv, Scoped
  <2>2. PICK n \in 1 .. Len(stacks[t]) : stacks' = [stacks EXCEPT ![t] = SubSeq(@, 1, n - 1)]
    BY <1>4 DEF Rewind
  <2>3. n - 1 \in 0 .. Len(stacks[t])
    BY <2>1
  <2>. QED  BY <1>4, <2>2, <2>3, CutKeeps DEF Rewind
<1>. QED
  BY <1>1, <1>2, <1>3, <1>4 DEF SNext

\* The inductive invariant: the tree of domains with its entries and roots, and
\* stacks that fit it.
THEOREM StructureInvariant == SSpec => []SInv
  BY InitSInv, NextSInv, PTL DEF SSpec

\* create_domain, create_snapshot and the calls keep every reference pointing at
\* an entity that exists.
THEOREM StructureTypeCorrect == SSpec => []STypeOK
<1>1. SInv => STypeOK
  BY DEF SInv, Entities, EntityTypes, Scoped, OtherCommitsSucceed, STypeOK, AgentRecord,
         DomainRecord, TemplateRecord
<1>. QED  BY <1>1, StructureInvariant, PTL

\* "Each domain belongs to exactly one thread": createDomain and create_thread
\* keep every domain in the thread of its root.
THEOREM DomainThreadsCorrect == SSpec => []DomainThreads
<1>1. SInv => DomainThreads
  BY DEF SInv, Entities, RootOf, RootedThread, DomainThreads
<1>. QED  BY <1>1, StructureInvariant, PTL

\* preprocess calls an agent only on the thread of its home domain, unless that
\* is the global one: makeRewindMessage then finds the thread a dead agent of a
\* domain was serving.
THEOREM FramesInThreadCorrect == SSpec => []FramesInThread
<1>1. SInv => FramesInThread
  <2>. SUFFICES ASSUME SInv, NEW t \in ThreadId, NEW i \in 1 .. Len(stacks[t]),
                       agents[stacks[t][i].to.agent].domain # Global
                PROVE  /\ agents[stacks[t][i].to.agent].domain = stacks[t][i].to.domain
                       /\ domains[stacks[t][i].to.domain].thread = t
    BY DEF FramesInThread
  <2>1. Fits(t, stacks[t][i].to)
    BY DEF SInv, Scoped
  <2>2. agents[Runtime].domain = Global
    BY DEF SInv, Entities, HardCoded
  <2>. QED  BY <2>1, <2>2 DEF Fits
<1>. QED  BY <1>1, StructureInvariant, PTL

\* The checks of the commands and of preprocess cover the CHECKs of commit,
\* those of a snapshot's domain excepted.
THEOREM OtherCommitsSucceedCorrect == SSpec => []OtherCommitsSucceed
<1>1. SInv => OtherCommitsSucceed
  BY DEF SInv
<1>. QED  BY <1>1, StructureInvariant, PTL

-----------------------------------------------------------------------------
(* Entities a tab relies on *)

\* An agent's name is its own in its domain.
NamedApart ==
  \A a, b \in AgentId :
    agents[a].domain = agents[b].domain /\ agents[a].name = agents[b].name => a = b

\* A domain but the global one is made in an older one, its entry is not the user, and whoever
\* speaks from it first is the user or lives in it.
MadeBelow(c) ==
  /\ domains[c].parent < c /\ (c # Global => domains[c].parent >= 1)
  /\ domains[c].to # User
  /\ domains[c].from = User \/ agents[domains[c].from].domain = c

Known ==
  /\ NamedApart
  /\ agents[Runtime].name = RuntimeName /\ agents[User].domain = Global
  /\ \A c \in DomainId : MadeBelow(c)

\* Where a caller speaks from: its home domain, unless it is a global agent.
\* The user is called in its caller's domain.
Speaks(f) ==
  /\ agents[f.from.agent].domain \in {Global, f.from.domain}
  /\ f.to.agent = User => f.to.domain = f.from.domain

Callers(s) == \A t \in ThreadId : \A i \in 1 .. Len(s[t]) : Speaks(s[t][i])

TabInv == SInv /\ Known /\ Callers(stacks)

\* Agents added to domain d keep names apart there, if theirs are new to it.
LEMMA NamedApartKept ==
  ASSUME EntityTypes, NamedApart, NEW d, NEW names \in Seq(Name),
         agents' = agents \o NewAgents(d, names),
         \A i \in 1 .. Len(names) : Member(d, names[i]) = {},
         \A i, j \in 1 .. Len(names) : names[i] = names[j] => i = j
  PROVE  NamedApart'
<1>. DEFINE n == Len(agents)
            k == Len(names)
            added == [name : Name, domain : {d}]
<1>1. n \in Nat /\ k \in Nat /\ agents \in Seq(AgentRecord)
  BY Sizes DEF EntityTypes
<1>2. PICK new : new = NewAgents(d, names)
  OBVIOUS
<1>3. /\ new \in Seq(added) /\ Len(new) = k
      /\ \A i \in 1 .. k : new[i].name = names[i] /\ new[i].domain = d
  BY <1>2 DEF NewAgents
<1>4. /\ Len(agents') = n + k
      /\ \A a \in 1 .. n : agents'[a] = agents[a]
      /\ \A i \in 1 .. k : agents'[n + i] = new[i]
  <2>1. agents \in Seq(AgentRecord \cup added) /\ new \in Seq(AgentRecord \cup added)
    BY <1>1, <1>3, Widened
  <2>2. /\ Len(agents \o new) = Len(agents) + Len(new)
        /\ \A i \in 1 .. Len(agents) : (agents \o new)[i] = agents[i]
        /\ \A i \in 1 .. Len(new) : (agents \o new)[Len(agents) + i] = new[i]
    BY <2>1, Joined
  <2>. QED  BY <1>2, <1>3, <2>2
<1>5. ASSUME NEW a \in AgentId'
      PROVE  \/ a \in 1 .. n /\ agents'[a] = agents[a]
             \/ \E i \in 1 .. k : /\ a = n + i
                                  /\ agents'[a].name = names[i] /\ agents'[a].domain = d
  <2>1. CASE a \in 1 .. n
    BY <2>1, <1>4
  <2>2. CASE a \notin 1 .. n
    <3>1. a - n \in 1 .. k /\ a = n + (a - n)
      BY <2>2, <1>1, <1>4 DEF AgentId
    <3>2. PICK i \in 1 .. k : a = n + i
      BY <3>1
    <3>3. agents'[a] = new[i] /\ new[i].name = names[i] /\ new[i].domain = d
      BY <3>2, <1>3, <1>4
    <3>. QED
      BY <3>2, <3>3
  <2>. QED
    BY <2>1, <2>2
<1>6. ASSUME NEW a \in 1 .. n, NEW i \in 1 .. k, agents[a].domain = d, agents[a].name = names[i]
      PROVE  FALSE
  BY <1>6 DEF Member, AgentId
<1>7. ASSUME NEW a \in AgentId', NEW b \in AgentId',
             agents'[a].domain = agents'[b].domain, agents'[a].name = agents'[b].name
      PROVE  a = b
  <2>1. CASE a \in 1 .. n /\ b \in 1 .. n
    BY <2>1, <1>4, <1>7 DEF NamedApart, AgentId
  <2>2. CASE a \notin 1 .. n
    <3>1. PICK i \in 1 .. k : a = n + i /\ agents'[a].name = names[i] /\ agents'[a].domain = d
      BY <2>2, <1>5
    <3>2. PICK j \in 1 .. k : b = n + j /\ agents'[b].name = names[j]
      BY <3>1, <1>5, <1>6, <1>7
    <3>. QED
      BY <3>1, <3>2, <1>7
  <2>3. CASE b \notin 1 .. n
    <3>1. PICK i \in 1 .. k : b = n + i /\ agents'[b].name = names[i] /\ agents'[b].domain = d
      BY <2>3, <1>5
    <3>2. PICK j \in 1 .. k : a = n + j /\ agents'[a].name = names[j]
      BY <3>1, <1>5, <1>6, <1>7
    <3>. QED
      BY <3>1, <3>2, <1>7
  <2>. QED
    BY <2>1, <2>2, <2>3
<1>. QED
  BY <1>7 DEF NamedApart

-----------------------------------------------------------------------------
(* What the commits make of them *)

\* An addition keeps what is known of the entities, if it holds of the new ones.
LEMMA KnownGrowth ==
  ASSUME Entities, Known, Grown, NamedApart', \A c \in DomainId' \ DomainId : MadeBelow(c)'
  PROVE  Known'
<1>. EntityTypes
  BY DEF Entities
<1>1. Runtime \in AgentId /\ User \in AgentId
  BY HardCodedExist
<1>2. agents'[Runtime].name = RuntimeName /\ agents'[User].domain = Global
  BY <1>1 DEF Known, Grown
<1>3. ASSUME NEW c \in DomainId  PROVE MadeBelow(c)'
  <2>1. domains'[c] = domains[c] /\ domains[c].from \in AgentId /\ MadeBelow(c)
    BY DomainFields DEF Grown, Known, DomainRecord
  <2>2. agents'[domains[c].from] = agents[domains[c].from]
    BY <2>1 DEF Grown
  <2>. QED
    BY <2>1, <2>2 DEF MadeBelow
<1>. QED
  BY <1>2, <1>3 DEF Known

LEMMA AgentsKnown ==
  ASSUME Entities, Known, NEW d \in DomainId, NEW names \in Seq(Name), NewNames(d, names),
         CommitAgents(d, names), UNCHANGED <<domains, snapshots, roots>>
  PROVE  Known'
<1>1. Grown
  BY AgentsCommitted
<1>2. agents' = agents \o NewAgents(d, names)
  BY DEF CommitAgents, NewNames
<1>3. Len(names) \in Nat
  OBVIOUS
<1>4. ASSUME NEW i \in 1 .. Len(names), NEW j \in 1 .. Len(names), names[i] = names[j]
      PROVE  i = j
  <2>1. i \in 1 .. j - 1 \/ j \in 1 .. i - 1 \/ i = j
    BY <1>3
  <2>. QED
    BY <2>1, <1>4 DEF NewNames
<1>5. NamedApart'
  BY <1>2, <1>4, NamedApartKept DEF NewNames, Entities, Known
<1>6. DomainId' = DomainId
  BY DEF DomainId
<1>. QED
  BY <1>1, <1>5, <1>6, KnownGrowth

LEMMA DomainKnown ==
  ASSUME Entities, Known, NEW d \in DomainId, NEW x \in Name, NEW detach \in BOOLEAN,
         Child(d, x) = {}, CommitDomain(d, x, detach), UNCHANGED <<agents, snapshots>>
  PROVE  Known'
<1>. EntityTypes
  BY DEF Entities
<1>1. Grown
  BY DomainCommitted
<1>2. NamedApart'
  BY DEF Known, NamedApart, AgentId
<1>. DEFINE made == IF detach
                    THEN [NewDomain(d, x) EXCEPT !.thread = Len(roots) + 1, !.detached = TRUE]
                    ELSE NewDomain(d, x)
<1>3. PICK e : /\ domains' = Append(domains, e)
               /\ e.parent = d /\ e.to = Runtime /\ e.from = User
  <2>1. domains' = Append(domains, made)
    BY DEF CommitDomain
  <2>2. made.parent = d /\ made.to = Runtime /\ made.from = User
    BY DEF NewDomain
  <2>. QED
    BY <2>1, <2>2
<1>4. DomainId' = DomainId \cup {Len(domains) + 1}
  BY <1>3, SizeAfter
<1>5. domains'[Len(domains) + 1] = e
  BY <1>3 DEF EntityTypes
<1>6. d >= 1 /\ d < Len(domains) + 1
  BY Sizes DEF DomainId
<1>7. ASSUME NEW c \in DomainId' \ DomainId  PROVE MadeBelow(c)'
  <2>1. c = Len(domains) + 1
    BY <1>4
  <2>. QED
    BY <2>1, <1>3, <1>5, <1>6 DEF MadeBelow, Runtime, User
<1>. QED
  BY <1>1, <1>2, <1>7, KnownGrowth

LEMMA InstanceKnown ==
  ASSUME Entities, Known, NEW d \in DomainId, NEW s \in TemplateRecord, IsFiniteSet(s.members),
         ~InstanceFails(d, s), AutoName(Len(domains)) \in Name,
         NEW names \in Orders(s.members), CommitInstance(d, s, names),
         UNCHANGED <<snapshots, roots>>
  PROVE  Known' /\ NewId(names, s.to) # User
<1>. EntityTypes
  BY DEF Entities
<1>0. PICK c : c = Len(domains) + 1
  OBVIOUS
<1>1. Grown
  BY InstanceCommitted
<1>2. /\ names \in Seq(s.members) /\ Len(names) \in Nat
      /\ \A y \in s.members : \E i \in 1 .. Len(names) : names[i] = y
  BY OrderCovers
<1>3. \A i, j \in 1 .. Len(names) : names[i] = names[j] => i = j
  <2>1. Cardinality(s.members) \in Nat
    BY FS_CardinalityType
  <2>2. DOMAIN names = 1 .. Cardinality(s.members) /\ DOMAIN names = 1 .. Len(names)
    BY <1>2 DEF Orders
  <2>. QED
    BY <2>2 DEF Orders
<1>4. agents' = agents \o NewAgents(c, names)
  BY <1>0 DEF CommitInstance
<1>5. ASSUME NEW i \in 1 .. Len(names)  PROVE Member(c, names[i]) = {}
  <2>1. ASSUME NEW a \in AgentId, agents[a].domain = c  PROVE FALSE
    BY <1>0, <2>1, AgentFields, Sizes DEF AgentRecord, DomainId
  <2>. QED
    BY <2>1 DEF Member
<1>6. NamedApart'
  <2>1. names \in Seq(Name)
    <3>1. s.members \subseteq Name
      BY DEF TemplateRecord
    <3>. QED  BY <3>1, <1>2, Widened
  <2>. QED
    BY <2>1, <1>3, <1>4, <1>5, NamedApartKept DEF Known
<1>. DEFINE made == [NewDomain(d, AutoName(Len(domains)))
                       EXCEPT !.from = NewId(names, s.from), !.to = NewId(names, s.to)]
<1>7. PICK e : /\ domains' = Append(domains, e)
               /\ e.parent = d /\ e.to = NewId(names, s.to) /\ e.from = NewId(names, s.from)
  <2>1. domains' = Append(domains, made)
    BY DEF CommitInstance
  <2>2. made.parent = d /\ made.to = NewId(names, s.to) /\ made.from = NewId(names, s.from)
    BY DEF NewDomain
  <2>. QED
    BY <2>1, <2>2
<1>8. DomainId' = DomainId \cup {c}
  BY <1>0, <1>7, SizeAfter
<1>9. domains'[c] = e
  BY <1>0, <1>7 DEF EntityTypes
<1>10. d >= 1 /\ d < c
  BY <1>0, Sizes DEF DomainId
<1>11. ASSUME NEW y \in {s.from, s.to}
       PROVE  NewId(names, y) # User /\ agents'[NewId(names, y)].domain = c
  <2>1. \E i \in 1 .. Len(names) : names[i] = y
    BY <1>2 DEF InstanceFails
  <2>2. PICK i \in 1 .. Len(names) : NewId(names, y) = Len(agents) + i
    BY <2>1, NewIdIs
  <2>3. Len(agents) >= 3 /\ Len(agents) \in Nat
    BY Sizes DEF Entities, HardCoded
  <2>4. agents'[Len(agents) + i].domain = c
    <3>1. /\ NewAgents(c, names) \in Seq(AgentRecord') /\ agents \in Seq(AgentRecord')
          /\ Len(NewAgents(c, names)) = Len(names)
          /\ NewAgents(c, names)[i].domain = c
      <4>1. names \in Seq(Name)
        <5>1. s.members \subseteq Name
          BY DEF TemplateRecord
        <5>. QED  BY <5>1, <1>2, Widened
      <4>2. c \in DomainId' /\ AgentRecord \subseteq AgentRecord'
        BY <1>8 DEF AgentRecord
      <4>. QED
        BY <4>1, <4>2, NewAgentsType, Widened DEF EntityTypes
    <3>. QED
      BY <3>1, <1>4, Joined
  <2>. QED
    BY <2>2, <2>3, <2>4, <1>2 DEF User
<1>12. MadeBelow(c)'
  BY <1>7, <1>9, <1>10, <1>11 DEF MadeBelow
<1>13. \A x \in DomainId' \ DomainId : MadeBelow(x)'
  BY <1>8, <1>12
<1>14. Known'
  BY <1>1, <1>6, <1>13, KnownGrowth
<1>. QED
  BY <1>11, <1>14

LEMMA SameKnown ==
  ASSUME Known, UNCHANGED <<agents, domains>>
  PROVE  Known'
  BY DEF Known, NamedApart, MadeBelow, AgentId, DomainId

LEMMA CommandKnown ==
  ASSUME Entities, Known, NEW d \in DomainId, Command(d)
  PROVE  Known'
<1>1. ASSUME NEW k \in 1 .. 2, NEW names \in [1 .. k -> AgentNames], CreateAgents(d, names)
      PROVE  Known'
  <2>1. names \in Seq(Name)
    BY StructureAssumption
  <2>. QED  BY <1>1, <2>1, AgentsKnown DEF CreateAgents
<1>2. ASSUME NEW x \in DomainNames \cup {AutoName(Len(domains))}, NEW detach \in BOOLEAN,
             CreateDomain(d, x, detach)
      PROVE  Known'
  <2>1. Len(domains) \in 1 .. MaxDomains
    BY <1>2, Sizes, StructureAssumption DEF CreateDomain, Entities, HardCoded
  <2>2. x \in Name
    BY <2>1, StructureAssumption
  <2>. QED  BY <1>2, <2>2, DomainKnown DEF CreateDomain
<1>3. ASSUME NEW x \in SnapshotNames, NEW y \in Name, CreateSnapshot(d, x, y)
      PROVE  Known'
  BY <1>3, SameKnown DEF CreateSnapshot
<1>4. ASSUME UNCHANGED <<agents, domains, snapshots, roots, halted>>
      PROVE  Known'
  BY <1>4, SameKnown
<1>. QED
  BY <1>1, <1>2, <1>3, <1>4 DEF Command

-----------------------------------------------------------------------------
(* Callers *)

\* Whoever holds a thread speaks from its home domain or is a global agent.
LEMMA HolderSpeaks ==
  ASSUME SInv, Known, NEW t \in ThreadId
  PROVE  agents[Holder(t).agent].domain \in {Global, Holder(t).domain}
<1>. EntityTypes
  BY DEF SInv, Entities
<1>1. CASE stacks[t] = <<>>
  <2>1. roots[t] \in DomainId
    BY RootFields
  <2>. QED  BY <1>1, <2>1 DEF Holder, Known, MadeBelow
<1>2. CASE stacks[t] # <<>>
  <2>1. stacks[t] \in Seq(Frame)
    BY DEF SInv, Scoped
  <2>2. Len(stacks[t]) \in 1 .. Len(stacks[t])
    BY <1>2, <2>1
  <2>3. Fits(t, stacks[t][Len(stacks[t])].to)
    BY <2>2 DEF SInv, Scoped
  <2>. QED  BY <1>2, <2>3 DEF Holder, Fits
<1>. QED  BY <1>1, <1>2

LEMMA SpeaksKept ==
  ASSUME Entities, Grown, NEW f \in Frame, Speaks(f)
  PROVE  Speaks(f)'
<1>1. f.from.agent \in AgentId
  BY DEF Frame, Endpoint
<1>. QED
  BY <1>1 DEF Speaks, Grown

LEMMA PushedCallers ==
  ASSUME TabInv, Grown, NEW t \in ThreadId, NEW a, NEW d,
         a = User => d = Holder(t).domain, stacks' = StacksAfter(Pushed(t, a, d))
  PROVE  Callers(stacks)'
<1>. Entities /\ EntityTypes /\ Scoped(stacks)
  BY DEF TabInv, SInv, Entities
<1>1. PICK f : f = [from |-> Holder(t), to |-> [agent |-> a, domain |-> d]]
  OBVIOUS
<1>2. \A u \in ThreadId' :
        stacks'[u] = IF u \notin ThreadId THEN <<>>
                     ELSE IF u = t THEN Append(stacks[t], f) ELSE stacks[u]
  BY <1>1 DEF StacksAfter, Pushed, ThreadId, Scoped
<1>3. Speaks(f)'
  <2>1. PICK h : h = Holder(t)
    OBVIOUS
  <2>2. h.agent \in AgentId /\ agents[h.agent].domain \in {Global, h.domain}
    BY <2>1, HolderFits, HolderSpeaks DEF TabInv, Endpoint
  <2>3. agents'[h.agent] = agents[h.agent]
    BY <2>2 DEF Grown
  <2>4. f.from = h /\ f.to.agent = a /\ f.to.domain = d /\ (a = User => d = h.domain)
    BY <1>1, <2>1
  <2>. QED
    BY <2>2, <2>3, <2>4 DEF Speaks
<1>4. ASSUME NEW u \in ThreadId', NEW i \in 1 .. Len(stacks'[u])
      PROVE  Speaks(stacks[u][i])'
  <2>1. u \in ThreadId
    <3>1. Len(<<>>) = 0 /\ 1 .. 0 = {}
      OBVIOUS
    <3>. QED
      BY <3>1, <1>2
  <2>2. stacks[u] \in Seq(Frame)
    BY <2>1 DEF Scoped
  <2>3. ASSUME NEW j \in 1 .. Len(stacks[u]), stacks'[u][i] = stacks[u][j]
        PROVE  Speaks(stacks[u][i])'
    <3>1. PICK g : g = stacks[u][j]
      OBVIOUS
    <3>2. g \in Frame /\ Speaks(g)
      BY <3>1, <2>1, <2>2 DEF TabInv, Callers
    <3>3. Speaks(g)'
      BY <3>2, SpeaksKept
    <3>. QED
      BY <3>1, <3>3, <2>3
  <2>4. CASE u = t
    <3>1. stacks'[u] = Append(stacks[t], f)
      BY <2>1, <2>4, <1>2
    <3>2. \/ i \in 1 .. Len(stacks[u]) /\ stacks'[u][i] = stacks[u][i]
          \/ i = Len(stacks[u]) + 1 /\ stacks'[u][i] = f
      BY <3>1, <2>2, <2>4
    <3>. QED
      BY <3>2, <2>3, <1>3
  <2>5. CASE u # t
    <3>1. stacks'[u] = stacks[u]
      BY <2>1, <2>5, <1>2
    <3>. QED
      BY <3>1, <2>3
  <2>. QED
    BY <2>4, <2>5
<1>. QED
  BY <1>4 DEF Callers

LEMMA CutTab ==
  ASSUME TabInv, NEW t \in ThreadId, NEW k \in 0 .. Len(stacks[t]),
         stacks' = [stacks EXCEPT ![t] = SubSeq(@, 1, k)],
         UNCHANGED <<agents, domains, snapshots, roots, halted>>
  PROVE  TabInv'
<1>1. SInv' /\ Known'
  BY CutKeeps, SameKnown DEF TabInv
<1>2. ASSUME NEW u \in ThreadId, NEW i \in 1 .. Len(stacks'[u])
      PROVE  i \in 1 .. Len(stacks[u]) /\ stacks'[u][i] = stacks[u][i]
  <2>1. stacks[u] \in Seq(Frame) /\ stacks[t] \in Seq(Frame)
    BY DEF TabInv, SInv, Scoped
  <2>2. /\ Len(SubSeq(stacks[t], 1, k)) = k
        /\ \A j \in 1 .. k : SubSeq(stacks[t], 1, k)[j] = stacks[t][j]
    BY <2>1, Shortened
  <2>3. stacks'[u] = IF u = t THEN SubSeq(stacks[t], 1, k) ELSE stacks[u]
    BY DEF TabInv, SInv, Scoped
  <2>. QED  BY <2>1, <2>2, <2>3
<1>3. ThreadId' = ThreadId
  BY DEF ThreadId
<1>4. Callers(stacks)'
  BY <1>2, <1>3 DEF TabInv, Callers, Speaks
<1>. QED
  BY <1>1, <1>4 DEF TabInv

LEMMA InvokeTab ==
  ASSUME TabInv, halted = "no", NEW t \in ThreadId, NEW a, NEW d,
         a = User => d = Holder(t).domain, Invoke(t, a, d)
  PROVE  Known' /\ Callers(stacks)'
<1>1. PICK h : h = Holder(t).domain
  OBVIOUS
<1>2. h \in DomainId /\ Entities
  BY <1>1, HolderFits DEF TabInv, SInv, Endpoint
<1>3. CASE a = Runtime
  <2>1. Command(h)
    BY <1>1, <1>3 DEF Invoke
  <2>2. Grown /\ Known'
    BY <1>2, <2>1, CommandGrows, CommandKnown DEF TabInv
  <2>. QED
    BY <2>2, PushedCallers DEF Invoke
<1>4. CASE a # Runtime
  <2>1. UNCHANGED <<agents, domains, snapshots, roots, halted>>
    BY <1>4 DEF Invoke
  <2>2. Grown /\ Known'
    BY <1>2, <2>1, UnchangedGrown, SameKnown DEF TabInv
  <2>. QED
    BY <2>2, PushedCallers DEF Invoke
<1>. QED
  BY <1>3, <1>4

LEMMA CallTab ==
  ASSUME TabInv, halted = "no", NEW t \in ThreadId, NEW x \in Name,
         CallAgent(t, x) \/ CallDomain(t, x)
  PROVE  Known' /\ Callers(stacks)'
<1>1. CASE CallAgent(t, x)
  <2>1. PICK a : Invoke(t, a, Holder(t).domain)
    BY <1>1 DEF CallAgent
  <2>2. PICK d : d = Holder(t).domain
    OBVIOUS
  <2>. QED
    BY <2>1, <2>2, InvokeTab
<1>2. CASE CallDomain(t, x)
  <2>1. PICK c \in DomainId : Invoke(t, domains[c].to, c)
    BY <1>2 DEF CallDomain, DomainsAt, Child
  <2>2. PICK a : a = domains[c].to
    OBVIOUS
  <2>3. a # User
    BY <2>2 DEF TabInv, Known, MadeBelow
  <2>. QED
    BY <2>1, <2>2, <2>3, InvokeTab
<1>. QED
  BY <1>1, <1>2

LEMMA CallCloneTab ==
  ASSUME TabInv, NEW t \in ThreadId, NEW x \in Name, CallClone(t, x)
  PROVE  Known' /\ Callers(stacks)'
<1>. EntityTypes
  BY DEF TabInv, SInv, Entities
<1>1. PICK d : d = Holder(t).domain
  OBVIOUS
<1>2. PICK a : a = Len(agents) + 1
  OBVIOUS
<1>3. PICK names : names = <<CloneName(x, Len(agents))>>
  OBVIOUS
<1>4. d \in DomainId
  BY <1>1, HolderFits DEF TabInv, SInv, Endpoint
<1>5. names \in Seq(Name) /\ a # User
  <2>1. Len(agents) \in 1 .. MaxAgents /\ Len(agents) >= 3
    BY Sizes, StructureAssumption DEF TabInv, SInv, Entities, HardCoded, CallClone
  <2>2. CloneName(x, Len(agents)) \in Name
    BY <2>1, StructureAssumption
  <2>. QED  BY <1>2, <1>3, <2>1, <2>2 DEF User
<1>6. NewNames(d, names)
  BY <1>1, <1>3 DEF CallClone, NewNames
<1>7. /\ CommitAgents(d, names) /\ stacks' = Pushed(t, a, d)
      /\ UNCHANGED <<domains, snapshots, roots>>
  BY <1>1, <1>2, <1>3 DEF CallClone
<1>8. Grown /\ Known'
  BY <1>4, <1>5, <1>6, <1>7, AgentsCommitted, AgentsKnown DEF TabInv, SInv
<1>9. stacks' = StacksAfter(Pushed(t, a, d))
  BY <1>7, SameThreads DEF TabInv, SInv
<1>. QED
  BY <1>5, <1>8, <1>9, PushedCallers

LEMMA CallSnapshotTab ==
  ASSUME TabInv, NEW t \in ThreadId, NEW x \in Name, CallSnapshot(t, x)
  PROVE  Known' /\ Callers(stacks)'
<1>. EntityTypes /\ Entities
  BY DEF TabInv, SInv, Entities
<1>1. PICK d : d = Holder(t).domain
  OBVIOUS
<1>2. PICK s : s = snapshots[x]
  OBVIOUS
<1>3. d \in DomainId
  BY <1>1, HolderFits DEF TabInv, SInv, Endpoint
<1>4. s \in TemplateRecord /\ IsFiniteSet(s.members)
  BY <1>2 DEF Entities, EntityTypes, FiniteTemplates, CallSnapshot, SnapshotAt
<1>5. CASE InstanceFails(d, s)
  <2>1. UNCHANGED <<agents, domains, roots, stacks>>
    BY <1>1, <1>2, <1>5 DEF CallSnapshot
  <2>2. Callers(stacks)'
    BY <2>1 DEF TabInv, Callers, Speaks, ThreadId
  <2>. QED
    BY <2>1, <2>2, SameKnown DEF TabInv
<1>6. CASE ~InstanceFails(d, s)
  <2>1. PICK names \in Orders(s.members) :
          /\ CommitInstance(d, s, names)
          /\ stacks' = Pushed(t, NewId(names, s.to), Len(domains) + 1)
    BY <1>1, <1>2, <1>6 DEF CallSnapshot
  <2>2. UNCHANGED <<snapshots, roots>>
    BY DEF CallSnapshot
  <2>3. AutoName(Len(domains)) \in Name
    <3>1. Len(domains) \in 1 .. MaxDomains
      BY Sizes, StructureAssumption DEF Entities, HardCoded, CallSnapshot
    <3>. QED  BY <3>1, StructureAssumption
  <2>4. PICK a : a = NewId(names, s.to)
    OBVIOUS
  <2>5. PICK c : c = Len(domains) + 1
    OBVIOUS
  <2>6. Grown /\ Known' /\ a # User
    BY <1>3, <1>4, <1>6, <2>1, <2>2, <2>3, <2>4, InstanceCommitted, InstanceKnown DEF TabInv
  <2>7. stacks' = Pushed(t, a, c)
    BY <2>1, <2>4, <2>5
  <2>8. stacks' = StacksAfter(Pushed(t, a, c))
    BY <2>2, <2>7, SameThreads DEF TabInv, SInv
  <2>. QED
    BY <2>6, <2>8, PushedCallers
<1>. QED
  BY <1>5, <1>6

LEMMA TabInit == SInit => TabInv
<1>. SUFFICES ASSUME SInit PROVE TabInv
  OBVIOUS
<1>1. AgentId = 1 .. 3 /\ DomainId = {1} /\ ThreadId = {1}
  BY DEF SInit, AgentId, DomainId, ThreadId
<1>2. /\ agents[1] = [name |-> ZeroName, domain |-> Global]
      /\ agents[2] = [name |-> RuntimeName, domain |-> Global]
      /\ agents[3] = [name |-> UserName, domain |-> Global]
  BY DEF SInit
<1>3. NamedApart
  BY <1>1, <1>2, StructureAssumption DEF NamedApart
<1>4. Known
  BY <1>1, <1>2, <1>3 DEF Known, MadeBelow, SInit, Runtime, User, Zero, Global
<1>5. Callers(stacks)
  <2>1. stacks[1] = <<>> /\ Len(<<>>) = 0 /\ 1 .. 0 = {}
    BY DEF SInit
  <2>. QED
    BY <1>1, <2>1 DEF Callers
<1>. QED
  BY <1>4, <1>5, InitSInv DEF TabInv

LEMMA TabStep == TabInv /\ [SNext]_svars => TabInv'
<1>. SUFFICES ASSUME TabInv, [SNext]_svars PROVE TabInv'
  OBVIOUS
<1>1. SInv'
  BY NextSInv DEF TabInv
<1>2. CASE UNCHANGED svars
  BY <1>1, <1>2, SameKnown DEF TabInv, Callers, Speaks, ThreadId, svars
<1>3. ASSUME halted = "no", NEW t \in ThreadId, NEW x \in Name,
             CallAgent(t, x) \/ CallClone(t, x) \/ CallDomain(t, x) \/ CallSnapshot(t, x)
      PROVE  TabInv'
  BY <1>1, <1>3, CallTab, CallCloneTab, CallSnapshotTab DEF TabInv
<1>4. ASSUME NEW t \in ThreadId, Return(t)  PROVE TabInv'
  <2>1. stacks[t] \in Seq(Frame)
    BY DEF TabInv, SInv, Scoped
  <2>2. Len(stacks[t]) - 1 \in 0 .. Len(stacks[t])
    BY <1>4, <2>1 DEF Return
  <2>. QED  BY <1>4, <2>2, CutTab DEF Return
<1>5. ASSUME NEW t \in ThreadId, Rewind(t)  PROVE TabInv'
  <2>1. stacks[t] \in Seq(Frame)
    BY DEF TabInv, SInv, Scoped
  <2>2. PICK n \in 1 .. Len(stacks[t]) : stacks' = [stacks EXCEPT ![t] = SubSeq(@, 1, n - 1)]
    BY <1>5 DEF Rewind
  <2>3. n - 1 \in 0 .. Len(stacks[t])
    BY <2>1
  <2>. QED  BY <1>5, <2>2, <2>3, CutTab DEF Rewind
<1>. QED
  BY <1>2, <1>3, <1>4, <1>5 DEF SNext

-----------------------------------------------------------------------------
(* The tree of a tab *)

\* What the tree adds to the domains at its depth so far.
Below(t, s) == UNION {ChildrenOf(c) : c \in {e \in s : ~Pruned(e, roots[t])}}

\* The domains at each depth, from the root of thread t.
Depths(f, t) ==
  /\ f[0] = {roots[t]}
  /\ \A k \in 1 .. Len(domains) : f[k] = f[k - 1] \cup Below(t, f[k - 1])

LEMMA DepthsExist ==
  ASSUME EntityTypes, NEW t \in ThreadId
  PROVE  \E f \in [0 .. Len(domains) -> SUBSET DomainId] : Depths(f, t)
<1>. DEFINE n == Len(domains)
            S == SUBSET DomainId
            prev == [g \in 1 .. n |-> g - 1]
            next == [x \in (1 .. n) \X S |-> x[2] \cup Below(t, x[2])]
<1>1. n \in Nat /\ {roots[t]} \in S
  BY Sizes, RootFields
<1>2. prev \in [1 .. n -> Nat] /\ \A g \in 1 .. n : prev[g] < g
  BY <1>1
<1>3. next \in [(1 .. n) \X S -> S]
  <2>1. \A s : Below(t, s) \subseteq DomainId
    BY DEF Below, ChildrenOf
  <2>. QED
    BY <2>1
<1>4. PICK f \in [0 .. n -> S] : Recursion(f, n, {roots[t]}, prev, next)
  <2>. HIDE DEF n, S, prev, next
  <2>. QED
    BY <1>1, <1>2, <1>3, RecursionExists
<1>5. ASSUME NEW k \in 1 .. n  PROVE f[k] = f[k - 1] \cup Below(t, f[k - 1])
  <2>1. f[k] = next[<<k, f[prev[k]]>>] /\ prev[k] = k - 1
    BY <1>4 DEF Recursion
  <2>2. k - 1 \in 0 .. n
    BY <1>1
  <2>3. f[k - 1] \in S
    BY <2>2, <1>4
  <2>. QED
    BY <2>1, <2>3
<1>. QED
  BY <1>4, <1>5 DEF Depths, Recursion

LEMMA TreeEntriesIs ==
  ASSUME EntityTypes, NEW t \in ThreadId
  PROVE  \E f \in [0 .. Len(domains) -> SUBSET DomainId] :
           Depths(f, t) /\ TreeEntries(t) = f[Len(domains)]
<1>. DEFINE n == Len(domains)
            Body(d) == [k \in 0 .. n |-> IF k = 0 THEN {roots[t]}
                                         ELSE d[k - 1] \cup Below(t, d[k - 1])]
            tree == CHOOSE d : d = Body(d)
<1>1. n \in Nat
  BY Sizes
<1>2. TreeEntries(t) = tree[n]
  BY DEF TreeEntries, Below
<1>3. \E d : d = Body(d)
  <2>1. PICK f \in [0 .. n -> SUBSET DomainId] : Depths(f, t)
    BY DepthsExist
  <2>2. f = Body(f)
    BY <2>1, <1>1 DEF Depths
  <2>. QED
    BY <2>2
<1>4. tree = Body(tree)
  <2>. HIDE DEF Body
  <2>. QED
    BY <1>3
<1>. HIDE DEF tree
<1>5. PICK f : f = tree
  OBVIOUS
<1>6. f = Body(f)
  BY <1>4, <1>5
<1>7. Depths(f, t)
  <2>1. 0 \in 0 .. n /\ \A k \in 1 .. n : k \in 0 .. n /\ k # 0
    BY <1>1
  <2>2. f[0] = {roots[t]}
    BY <1>6, <2>1
  <2>3. ASSUME NEW k \in 1 .. n  PROVE f[k] = f[k - 1] \cup Below(t, f[k - 1])
    <3>1. k \in 0 .. n /\ k # 0
      BY <2>1
    <3>2. f[k] = Body(f)[k]
      BY <1>6
    <3>. QED
      BY <3>1, <3>2
  <2>. QED
    BY <2>2, <2>3 DEF Depths
<1>8. \A k \in 0 .. n : f[k] \subseteq DomainId
  <2>. DEFINE T == {k \in 0 .. n : ~(f[k] \subseteq DomainId)}
  <2>. SUFFICES ASSUME T # {} PROVE FALSE
    OBVIOUS
  <2>1. PICK k \in T : \A j \in T : k <= j
    <3>. T \subseteq Nat
      OBVIOUS
    <3>. HIDE DEF T
    <3>. QED  BY LeastNat
  <2>2. roots[t] \in DomainId /\ \A s : Below(t, s) \subseteq DomainId
    BY RootFields DEF Below, ChildrenOf
  <2>3. k # 0
    BY <2>1, <2>2, <1>7 DEF Depths
  <2>4. k - 1 \in 0 .. n /\ k - 1 \notin T /\ k \in 1 .. n
    BY <1>1, <2>1, <2>3
  <2>. QED
    BY <2>1, <2>2, <2>4, <1>7 DEF Depths
<1>9. f \in [0 .. n -> SUBSET DomainId]
  <2>1. f = [k \in 0 .. n |-> f[k]]
    BY <1>6
  <2>. QED
    BY <2>1, <1>8
<1>. QED
  BY <1>2, <1>5, <1>7, <1>9

\* The domains of thread t, and the roots of the threads created from them.
Shown(t) ==
  {c \in DomainId :
     \/ domains[c].thread = t
     \/ domains[c].detached /\ c # Global /\ domains[domains[c].parent].thread = t}

\* What is shown below a domain that is shown is shown.
LEMMA BelowShown ==
  ASSUME TabInv, NEW t \in ThreadId, NEW e \in Shown(t), ~Pruned(e, roots[t]),
         NEW c \in ChildrenOf(e)
  PROVE  c \in Shown(t)
<1>1. e \in DomainId /\ c \in DomainId /\ domains[c].parent = e /\ RootOf(c)
  BY DEF Shown, ChildrenOf, TabInv, SInv, Entities
<1>2. domains[e].thread = t
  BY RootFields DEF Shown, Pruned, TabInv, SInv, Entities, RootedThread
<1>3. c # Global
  BY <1>1 DEF TabInv, SInv, Entities, HardCoded, DomainId
<1>. QED
  BY <1>1, <1>2, <1>3 DEF Shown, RootOf

\* A domain that is shown is the root, or below an older one that is.
LEMMA ShownBelow ==
  ASSUME TabInv, NEW t \in ThreadId, NEW c \in Shown(t), c # roots[t]
  PROVE  \E e \in Shown(t) : e < c /\ ~Pruned(e, roots[t]) /\ c \in ChildrenOf(e)
<1>. EntityTypes
  BY DEF TabInv, SInv, Entities
<1>. DEFINE e == domains[c].parent
<1>1. c \in DomainId /\ RootOf(c) /\ e < c
  BY DEF Shown, TabInv, SInv, Entities, Known, MadeBelow
<1>2. e \in DomainId /\ domains[e].thread = t
  <2>1. CASE domains[c].detached
    <3>1. c # Global /\ domains[e].thread = t
      BY <1>1, <2>1 DEF Shown, RootOf
    <3>2. EntryOf(c) /\ e \in 0 .. Len(domains)
      BY <1>1, DomainFields DEF TabInv, SInv, Entities, DomainRecord
    <3>3. e >= 1
      BY <1>1, <3>1 DEF TabInv, Known, MadeBelow
    <3>. QED
      BY <3>1, <3>2, <3>3, Sizes DEF DomainId
  <2>2. CASE ~domains[c].detached
    BY <1>1, <2>2 DEF Shown, RootOf
  <2>. QED
    BY <2>1, <2>2
<1>3. RootOf(e)
  BY <1>2 DEF TabInv, SInv, Entities
<1>4. ~Pruned(e, roots[t])
  BY <1>2, <1>3 DEF Pruned, RootOf
<1>. QED
  BY <1>1, <1>2, <1>4 DEF Shown, ChildrenOf

\* The tree is what is shown: what is not, at the least depth with such a
\* domain, would be below one that is; and the oldest domain that is missing at
\* its depth would be below an older one, which is not.
LEMMA TreeShown ==
  ASSUME TabInv, NEW t \in ThreadId
  PROVE  TreeEntries(t) = Shown(t)
<1>. EntityTypes
  BY DEF TabInv, SInv, Entities
<1>. DEFINE n == Len(domains)
<1>0. n \in Nat /\ Shown(t) \subseteq 1 .. n
  BY Sizes DEF Shown, DomainId
<1>1. PICK f \in [0 .. n -> SUBSET DomainId] : Depths(f, t) /\ TreeEntries(t) = f[n]
  BY TreeEntriesIs
<1>2. roots[t] \in Shown(t)
  BY RootFields DEF Shown, TabInv, SInv, Entities, RootedThread
<1>3. \A k \in 0 .. n : f[k] \subseteq Shown(t)
  <2>. DEFINE T == {k \in 0 .. n : ~(f[k] \subseteq Shown(t))}
  <2>. SUFFICES ASSUME T # {} PROVE FALSE
    OBVIOUS
  <2>1. PICK k \in T : \A j \in T : k <= j
    <3>. T \subseteq Nat
      OBVIOUS
    <3>. HIDE DEF T
    <3>. QED  BY LeastNat
  <2>2. k # 0
    BY <2>1, <1>1, <1>2 DEF Depths
  <2>3. k \in 1 .. n /\ k - 1 \in 0 .. n /\ k - 1 \notin T
    BY <1>0, <2>1, <2>2
  <2>4. f[k - 1] \subseteq Shown(t) /\ f[k] = f[k - 1] \cup Below(t, f[k - 1])
    BY <2>3, <1>1 DEF Depths
  <2>5. Below(t, f[k - 1]) \subseteq Shown(t)
    BY <2>4, BelowShown DEF Below
  <2>. QED
    BY <2>1, <2>4, <2>5
<1>4. \A c \in Shown(t) : \A k \in 0 .. n : c <= k => c \in f[k]
  <2>. DEFINE T == {k \in 0 .. n : \E c \in Shown(t) : c <= k /\ c \notin f[k]}
  <2>. SUFFICES ASSUME T # {} PROVE FALSE
    OBVIOUS
  <2>1. PICK k \in T : \A j \in T : k <= j
    <3>. T \subseteq Nat
      OBVIOUS
    <3>. HIDE DEF T
    <3>. QED  BY LeastNat
  <2>2. PICK c \in Shown(t) : c <= k /\ c \notin f[k]
    BY <2>1
  <2>3. c \in 1 .. n /\ k \in 1 .. n /\ k - 1 \in 0 .. n /\ k - 1 \notin T
    BY <1>0, <2>1, <2>2
  <2>4. f[k] = f[k - 1] \cup Below(t, f[k - 1])
    BY <2>3, <1>1 DEF Depths
  <2>5. \A e \in Shown(t) : e <= k - 1 => e \in f[k - 1]
    BY <2>3
  <2>6. CASE c = roots[t]
    <3>1. roots[t] \in f[k - 1]
      <4>. DEFINE U == {j \in 0 .. n : roots[t] \notin f[j]}
      <4>. SUFFICES ASSUME U # {} PROVE FALSE
        BY <2>3
      <4>1. PICK j \in U : \A i \in U : j <= i
        <5>. U \subseteq Nat
          OBVIOUS
        <5>. HIDE DEF U
        <5>. QED  BY LeastNat
      <4>2. j # 0
        BY <4>1, <1>1 DEF Depths
      <4>3. j \in 1 .. n /\ j - 1 \in 0 .. n /\ j - 1 \notin U
        BY <1>0, <4>1, <4>2
      <4>. QED
        BY <4>1, <4>3, <1>1 DEF Depths
    <3>. QED
      BY <2>2, <2>4, <2>6, <3>1
  <2>7. CASE c # roots[t]
    <3>1. PICK e \in Shown(t) : e < c /\ ~Pruned(e, roots[t]) /\ c \in ChildrenOf(e)
      BY <2>7, ShownBelow
    <3>2. e \in f[k - 1]
      <4>1. e \in 1 .. n
        BY <1>0
      <4>2. e <= k - 1
        BY <4>1, <3>1, <2>2, <2>3
      <4>. QED
        BY <4>2, <2>5
    <3>3. c \in Below(t, f[k - 1])
      BY <3>1, <3>2 DEF Below
    <3>. QED
      BY <2>2, <2>4, <3>3
  <2>. QED
    BY <2>6, <2>7
<1>5. Shown(t) \subseteq f[n] /\ f[n] \subseteq Shown(t)
  <2>1. n \in 0 .. n /\ \A c \in Shown(t) : c <= n
    BY <1>0
  <2>. QED
    BY <2>1, <1>3, <1>4
<1>. QED
  BY <1>1, <1>5

-----------------------------------------------------------------------------
(* The composer *)

LEMMA HolderInTab ==
  ASSUME NEW t
  PROVE  Holder(t).domain = CurrentDomain(t)
  BY DEF Holder, CurrentDomain

\* A name that is offered leads to the agent it is offered for.
LEMMA OfferedFound ==
  ASSUME TabInv, NEW t \in ThreadId, NEW a \in Offered(t)
  PROVE  AgentsAt(CurrentDomain(t), agents[a].name) = {a}
<1>. DEFINE d == CurrentDomain(t)
<1>1. CASE a \in AddressAgents(t)
  <2>1. a \in Member(d, agents[a].name) /\ a \in AgentId
    BY <1>1 DEF AddressAgents, Member
  <2>2. \A b \in Member(d, agents[a].name) : b = a
    BY <1>1, <2>1 DEF Member, TabInv, Known, NamedApart
  <2>3. Member(d, agents[a].name) = {a}
    BY <2>1, <2>2
  <2>. QED
    BY <2>3 DEF AgentsAt
<1>2. CASE a \notin AddressAgents(t)
  <2>1. a = Runtime /\ Member(d, RuntimeName) = {}
    BY <1>2 DEF Offered, AddressAgents, Member
  <2>2. Runtime \in AgentId /\ agents[Runtime].domain = Global
    BY HardCodedExist DEF TabInv, SInv
  <2>3. agents[a].name = RuntimeName
    BY <2>1 DEF TabInv, Known
  <2>4. Member(Global, RuntimeName) = {Runtime}
    BY <2>1, <2>2, <2>3 DEF Member, TabInv, Known, NamedApart
  <2>. QED
    BY <2>1, <2>3, <2>4 DEF AgentsAt
<1>. QED
  BY <1>1, <1>2

\* The asker lives in the domain it spoke from, which is the one the user was
\* called in, or is global: in the first case only the offered agent has the name.
LEMMA AnsweredKnown ==
  ASSUME TabInv, NEW t \in ThreadId, NEW a \in Offered(t), NEW b \in Answered(t, a), b # a
  PROVE  agents[b].domain = Global /\ agents[a].domain = CurrentDomain(t)
<1>. DEFINE d == CurrentDomain(t)
<1>1. PICK f : f = stacks[t][Len(stacks[t])]
  OBVIOUS
<1>2. /\ stacks[t] # <<>> /\ b = f.from.agent /\ f.to.agent = User
      /\ agents[b].name = agents[a].name /\ d = f.to.domain
  BY <1>1 DEF Answered, CurrentDomain
<1>3. f \in Frame /\ Speaks(f)
  <2>1. stacks[t] \in Seq(Frame)
    BY DEF TabInv, SInv, Scoped
  <2>2. Len(stacks[t]) \in 1 .. Len(stacks[t])
    BY <1>2, <2>1
  <2>. QED
    BY <1>1, <2>1, <2>2 DEF TabInv, Callers
<1>4. b \in AgentId /\ agents[b].domain \in {Global, d}
  BY <1>2, <1>3 DEF Speaks, Frame, Endpoint
<1>5. a \in AgentId /\ NamedApart
  BY HardCodedExist DEF Offered, AddressAgents, TabInv, SInv, Known
<1>6. CASE a \in AddressAgents(t)
  <2>1. agents[a].domain = d
    BY <1>6 DEF AddressAgents
  <2>. QED
    BY <1>2, <1>4, <1>5, <2>1 DEF NamedApart
<1>7. CASE a \notin AddressAgents(t)
  <2>1. /\ a = Runtime /\ agents[Runtime].name = RuntimeName /\ agents[Runtime].domain = Global
        /\ \A c \in AgentId : agents[c].domain = d => agents[c].name # RuntimeName
    BY <1>7, HardCodedExist DEF Offered, AddressAgents, TabInv, SInv, Known
  <2>2. agents[b].domain = Global
    BY <1>2, <1>4, <2>1
  <2>. QED
    BY <1>2, <1>4, <1>5, <2>1, <2>2 DEF NamedApart
<1>. QED
  BY <1>6, <1>7

\* buildThreadTreeEntries shows every domain of the thread and nothing of
\* another one but where it begins, and an agent the composer offers is the one
\* that preprocess finds by the name; for any names, agents, domains and threads.
THEOREM TabResolvesCorrect == SSpec => []TabResolves
<1>1. TabInv => TabResolves
  <2>. SUFFICES ASSUME TabInv PROVE TreeIsThread /\ OffersResolve
    BY DEF TabResolves
  <2>1. TreeIsThread
    BY TreeShown DEF TreeIsThread, Shown
  <2>2. OffersResolve
    BY HolderInTab, OfferedFound, AnsweredKnown DEF OffersResolve
  <2>. QED
    BY <2>1, <2>2
<1>. QED
  BY <1>1, TabInit, TabStep, PTL DEF SSpec
=============================================================================
