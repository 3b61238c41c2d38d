--------------------------- MODULE JournalProofs ---------------------------
(***************************************************************************)
(* Proofs about Journal, for any number of files and records: first what   *)
(* the recursive definitions return, as operators of the files, and then   *)
(* the invariants.  What depends on there being one program at a time says *)
(* so.                                                                     *)
(***************************************************************************)
EXTENDS Journal, Induction

-----------------------------------------------------------------------------
(* Chains *)

\* Each of the first n segments continues an earlier one, or none.
Linked(fs, n) == \A g \in 1 .. n : fs[g].prev \in 0 .. g - 1

ChainIn(fs, f) ==
  LET chain[g \in 0 .. f] == IF g = 0 THEN <<>> ELSE Append(chain[fs[g].prev], g)
  IN chain[f]

\* ChainTo is ChainIn of the files, before and after a step.
LEMMA ChainToIs ==
  ASSUME NEW f
  PROVE  /\ ChainTo(f) = ChainIn(files, f)
         /\ ChainTo(f)' = ChainIn(files', f)
BY DEF ChainTo, ChainIn

\* All chains at once, as one function.
Chains(c, fs, n) ==
  c[0] = <<>> /\ \A g \in 1 .. n : c[g] = Append(c[fs[g].prev], g)

LEMMA ChainsExist ==
  ASSUME NEW n \in Nat, NEW fs, Linked(fs, n)
  PROVE  \E c \in [0 .. n -> Seq(Nat)] : Chains(c, fs, n)
<1> DEFINE prev == [g \in 1 .. n |-> fs[g].prev]
           next == [x \in (1 .. n) \X Seq(Nat) |-> Append(x[2], x[1])]
<1>1. <<>> \in Seq(Nat) /\ prev \in [1 .. n -> Nat] /\ \A g \in 1 .. n : prev[g] < g
  BY DEF Linked
<1>2. next \in [(1 .. n) \X Seq(Nat) -> Seq(Nat)]
  OBVIOUS
<1>3. PICK c \in [0 .. n -> Seq(Nat)] : Recursion(c, n, <<>>, prev, next)
  <2> HIDE DEF prev, next
  <2> QED BY <1>1, <1>2, RecursionExists
<1>4. ASSUME NEW g \in 1 .. n PROVE c[g] = Append(c[fs[g].prev], g)
  <2>1. c[g] = next[<<g, c[prev[g]]>>]
    BY <1>3 DEF Recursion
  <2>2. prev[g] = fs[g].prev /\ c[fs[g].prev] \in Seq(Nat)
    BY DEF Linked
  <2> QED BY <2>1, <2>2
<1> QED BY <1>3, <1>4 DEF Recursion, Chains

\* A chain is what such a function says.
LEMMA ChainInIs ==
  ASSUME NEW n \in Nat, NEW fs, Linked(fs, n),
         NEW c \in [0 .. n -> Seq(Nat)], Chains(c, fs, n), NEW f \in 0 .. n
  PROVE  ChainIn(fs, f) = c[f]
<1> DEFINE Body(d) == [g \in 0 .. f |-> IF g = 0 THEN <<>> ELSE Append(d[fs[g].prev], g)]
           d == CHOOSE d : d = Body(d)
<1>1. ChainIn(fs, f) = d[f]
  BY DEF ChainIn
<1>2. \E h : h = Body(h)
  <2> DEFINE h == [g \in 0 .. f |-> c[g]]
  <2>1. ASSUME NEW g \in 0 .. f PROVE h[g] = Body(h)[g]
    <3>1. CASE g = 0
      BY <3>1 DEF Chains
    <3>2. CASE g # 0
      <4>1. g \in 1 .. n /\ fs[g].prev \in 0 .. f
        BY <3>2 DEF Linked
      <4>2. c[g] = Append(c[fs[g].prev], g) /\ h[fs[g].prev] = c[fs[g].prev]
        BY <4>1 DEF Chains
      <4> QED BY <3>2, <4>2
    <3> QED BY <3>1, <3>2
  <2>2. h = Body(h)
    BY <2>1
  <2> QED BY <2>2
<1>3. d = Body(d)
  <2> HIDE DEF Body
  <2> QED BY <1>2
<1> HIDE DEF d
<1> DEFINE T == {g \in 0 .. f : d[g] # c[g]}
<1>4. T = {}
  <2> SUFFICES ASSUME T # {} PROVE FALSE
    OBVIOUS
  <2>1. PICK g \in T : \A k \in T : g <= k
    <3> T \subseteq Nat OBVIOUS
    <3> HIDE DEF T
    <3> QED BY LeastNat
  <2>2. g \in 0 .. f /\ d[g] # c[g] /\ d[g] = IF g = 0 THEN <<>> ELSE Append(d[fs[g].prev], g)
    BY <1>3
  <2>3. CASE g = 0
    BY <2>2, <2>3 DEF Chains
  <2>4. CASE g # 0
    <3>0. g \in 1 .. n
      BY <2>2, <2>4
    <3>1. fs[g].prev \in 0 .. f /\ ~(g <= fs[g].prev)
      <4>1. fs[g].prev \in 0 .. g - 1
        BY <3>0 DEF Linked
      <4> QED BY <2>2, <4>1
    <3>2. fs[g].prev \notin T
      BY <2>1, <3>1
    <3>3. d[fs[g].prev] = c[fs[g].prev]
      BY <3>1, <3>2
    <3>4. c[g] = Append(c[fs[g].prev], g)
      BY <3>0 DEF Chains
    <3> QED BY <2>2, <2>4, <3>3, <3>4
  <2> QED BY <2>3, <2>4
<1>5. f \in 0 .. f
  OBVIOUS
<1> QED BY <1>1, <1>4, <1>5

\* discover_chain: a segment's chain is its predecessor's, and then itself.
LEMMA ChainNext ==
  ASSUME NEW n \in Nat, NEW fs, Linked(fs, n)
  PROVE  /\ ChainIn(fs, 0) = <<>>
         /\ \A f \in 1 .. n : ChainIn(fs, f) = Append(ChainIn(fs, fs[f].prev), f)
<1>1. PICK c \in [0 .. n -> Seq(Nat)] : Chains(c, fs, n)
  BY ChainsExist
<1>2. \A f \in 0 .. n : ChainIn(fs, f) = c[f]
  BY <1>1, ChainInIs
<1>3. ASSUME NEW f \in 1 .. n PROVE fs[f].prev \in 0 .. n /\ f \in 0 .. n
  BY DEF Linked
<1>4. 0 \in 0 .. n
  OBVIOUS
<1> QED BY <1>1, <1>2, <1>3, <1>4 DEF Chains

\* A chain ends in its segment, and has no later one.
ChainFits(c, f) == c \in Seq(1 .. f) /\ Len(c) <= f /\ (f # 0 => c # <<>> /\ c[Len(c)] = f)

LEMMA ChainFitsAll ==
  ASSUME NEW n \in Nat, NEW fs, Linked(fs, n)
  PROVE  \A f \in 0 .. n : ChainFits(ChainIn(fs, f), f)
<1> DEFINE T == {f \in 0 .. n : ~ChainFits(ChainIn(fs, f), f)}
<1> SUFFICES ASSUME T # {} PROVE FALSE
  OBVIOUS
<1>1. PICK f \in T : \A k \in T : f <= k
  <2> T \subseteq Nat OBVIOUS
  <2> HIDE DEF T
  <2> QED BY LeastNat
<1>2. f # 0
  <2>1. ChainIn(fs, 0) = <<>>
    BY ChainNext
  <2>2. ChainFits(<<>>, 0)
    BY DEF ChainFits
  <2> QED BY <2>1, <2>2
<1>3. f \in 1 .. n /\ fs[f].prev \in 0 .. f - 1
  BY <1>2 DEF Linked
<1> DEFINE g == fs[f].prev
           c == ChainIn(fs, g)
<1>4. ChainFits(c, g)
  <2>1. g \in 0 .. n /\ ~(f <= g)
    BY <1>3
  <2>2. g \notin T
    BY <1>1, <2>1
  <2> QED BY <2>1, <2>2
<1>5. ChainIn(fs, f) = Append(c, f)
  BY <1>3, ChainNext
<1> HIDE DEF g, c
<1>6. c \in Seq(1 .. f) /\ Len(c) < f
  <2>1. 1 .. g \subseteq 1 .. f /\ g < f
    BY <1>3 DEF g
  <2>2. c \in Seq(1 .. f)
    BY <1>4, <2>1, SeqMonotonic DEF ChainFits
  <2> QED BY <1>3, <1>4, <2>1, <2>2 DEF ChainFits, g
<1>7. Append(c, f) \in Seq(1 .. f) /\ Len(Append(c, f)) = Len(c) + 1
      /\ Append(c, f)[Len(c) + 1] = f /\ Append(c, f) # <<>>
  BY <1>3, <1>6, AppendProperties
<1>8. ChainFits(ChainIn(fs, f), f)
  BY <1>3, <1>5, <1>6, <1>7 DEF ChainFits
<1> QED BY <1>8

\* A chain depends on no later segment, and on no record.
LEMMA ChainSame ==
  ASSUME NEW n \in Nat, NEW fs, NEW gs, Linked(fs, n),
         \A g \in 1 .. n : gs[g].prev = fs[g].prev
  PROVE  \A f \in 0 .. n : ChainIn(gs, f) = ChainIn(fs, f)
<1>1. Linked(gs, n)
  BY DEF Linked
<1>2. PICK c \in [0 .. n -> Seq(Nat)] : Chains(c, fs, n)
  BY ChainsExist
<1>3. Chains(c, gs, n)
  BY <1>2 DEF Chains
<1>4. \A f \in 0 .. n : ChainIn(fs, f) = c[f]
  BY <1>2, ChainInIs
<1>5. \A f \in 0 .. n : ChainIn(gs, f) = c[f]
  BY <1>1, <1>2, <1>3, ChainInIs
<1> QED BY <1>4, <1>5

-----------------------------------------------------------------------------
(* Replays *)

EntryOf(i, n, r) == [id |-> <<i, n>>, record |-> r]

\* The records q, and those of segment g, as the i-th of a chain.
Numbers(q, i) == [n \in 1 .. Len(q) |-> EntryOf(i, n, q[n])]
NumberedAs(fs, g, i) == Numbers(fs[g].records, i)

ReplayedIn(fs, chain) == FlattenSeq([i \in 1 .. Len(chain) |-> NumberedAs(fs, chain[i], i)])

LEMMA ReplayedIs ==
  ASSUME NEW c
  PROVE  /\ Replayed(c) = ReplayedIn(files, c)
         /\ Replayed(c)' = ReplayedIn(files', c')
BY DEF Replayed, Numbered, ReplayedIn, NumberedAs, Numbers, EntryOf

\* Replaying a segment after a chain adds its records.
LEMMA ReplayedNext ==
  ASSUME NEW S, NEW fs, NEW c \in Seq(Nat), NEW f \in Nat,
         \A i \in 1 .. Len(c) : NumberedAs(fs, c[i], i) \in Seq(S),
         NumberedAs(fs, f, Len(c) + 1) \in Seq(S)
  PROVE  ReplayedIn(fs, Append(c, f)) = ReplayedIn(fs, c) \o NumberedAs(fs, f, Len(c) + 1)
<1> DEFINE a == Append(c, f)
           q == [i \in 1 .. Len(c) |-> NumberedAs(fs, c[i], i)]
           r == [i \in 1 .. Len(a) |-> NumberedAs(fs, a[i], i)]
           e == NumberedAs(fs, f, Len(c) + 1)
<1>1. a \in Seq(Nat) /\ Len(a) = Len(c) + 1 /\ a[Len(c) + 1] = f
      /\ \A i \in 1 .. Len(c) : a[i] = c[i]
  BY AppendProperties
<1>2. Len(c) \in Nat
  OBVIOUS
<1>3. q \in Seq(Seq(S)) /\ Len(q) = Len(c)
  BY <1>2
<1>4. r = Append(q, e)
  <2> DEFINE d == Append(q, e)
  <2>1. e \in Seq(S)
    OBVIOUS
  <2>2. d \in Seq(Seq(S)) /\ Len(d) = Len(c) + 1 /\ d[Len(c) + 1] = e
        /\ \A i \in 1 .. Len(c) : d[i] = q[i]
    <3> HIDE DEF q, e
    <3> QED BY <1>3, <2>1, AppendProperties
  <2>3. \A i \in 1 .. Len(c) : q[i] = NumberedAs(fs, c[i], i)
    OBVIOUS
  <2> HIDE DEF a, d, q
  <2>4. ASSUME NEW i \in 1 .. Len(c) + 1 PROVE NumberedAs(fs, a[i], i) = d[i]
    <3>1. CASE i = Len(c) + 1
      BY <1>1, <2>2, <3>1 DEF e
    <3>2. CASE i # Len(c) + 1
      <4>1. i \in 1 .. Len(c)
        BY <1>2, <3>2
      <4> QED BY <1>1, <2>2, <2>3, <4>1
    <3> QED BY <3>1, <3>2
  <2>5. r = [i \in 1 .. Len(d) |-> d[i]]
    <3> HIDE DEF e
    <3> QED BY <1>1, <1>2, <2>2, <2>4
  <2>6. d = [i \in 1 .. Len(d) |-> d[i]]
    BY <2>2
  <2> QED BY <2>5, <2>6 DEF d
<1>5. ReplayedIn(fs, a) = FlattenSeq(r) /\ ReplayedIn(fs, c) = FlattenSeq(q)
  BY DEF ReplayedIn
<1> HIDE DEF q, r, e, a
<1>6. e \in Seq(S)
  BY DEF e
<1>7. FlattenSeq(Append(q, e)) = FlattenSeq(q) \o e
  BY <1>3, <1>6, FlattenSeqAppend
<1> QED BY <1>4, <1>5, <1>7 DEF a, e

\* What a chain replays to depends on the records of its segments only.
LEMMA ReplayedSame ==
  ASSUME NEW fs, NEW gs, NEW c,
         \A i \in 1 .. Len(c) : gs[c[i]].records = fs[c[i]].records
  PROVE  ReplayedIn(gs, c) = ReplayedIn(fs, c)
<1>1. ASSUME NEW i \in 1 .. Len(c) PROVE NumberedAs(gs, c[i], i) = NumberedAs(fs, c[i], i)
  BY DEF NumberedAs
<1> QED BY <1>1 DEF ReplayedIn

LEMMA ReplayedType ==
  ASSUME NEW S, NEW fs, NEW c \in Seq(Nat),
         \A i \in 1 .. Len(c) : NumberedAs(fs, c[i], i) \in Seq(S)
  PROVE  ReplayedIn(fs, c) \in Seq(S)
<1> DEFINE q == [i \in 1 .. Len(c) |-> NumberedAs(fs, c[i], i)]
<1>1. Len(c) \in Nat
  OBVIOUS
<1>2. q \in Seq(Seq(S))
  BY <1>1
<1> QED BY <1>2, FlattenSeqType DEF ReplayedIn

-----------------------------------------------------------------------------
(* The files *)

Segments(w) == [prev : Nat, root : BOOLEAN, records : Seq(1 .. w), torn : BOOLEAN]

\* The segments, when w records were ever written.
SegmentsOK(fs, w) ==
  /\ fs \in Seq(Segments(w))
  /\ Len(fs) <= MaxFiles
  /\ Linked(fs, Len(fs))
  /\ \A f \in 1 .. Len(fs) : Len(fs[f].records) <= w

LEMMA SegmentType ==
  ASSUME NEW w, NEW fs, SegmentsOK(fs, w), NEW f \in 1 .. Len(fs)
  PROVE  /\ fs[f] \in [prev : Nat, root : BOOLEAN, records : Seq(1 .. w), torn : BOOLEAN]
         /\ fs[f].prev \in 0 .. f - 1
<1>1. fs \in Seq(Segments(w)) /\ fs[f].prev \in 0 .. f - 1
  BY DEF SegmentsOK, Linked
<1>2. fs[f] \in Segments(w)
  BY <1>1, ElementOfSeq
<1> QED BY <1>1, <1>2 DEF Segments

LEMMA Grown ==
  ASSUME NEW w \in Nat, NEW fs, SegmentsOK(fs, w), Len(fs) < MaxFiles, NEW k \in 0 .. Len(fs),
         NEW root \in BOOLEAN, NEW gs, gs = Append(fs, Segment(k, root))
  PROVE  /\ SegmentsOK(gs, w) /\ Len(gs) = Len(fs) + 1
         /\ gs[Len(gs)] = Segment(k, root)
         /\ \A g \in 1 .. Len(fs) : gs[g] = fs[g]
<1>0. Segment(k, root) \in Segments(w)
  BY DEF Segments, Segment
<1> DEFINE S == Segments(w)
<1>1. fs \in Seq(S) /\ Len(fs) \in Nat /\ Segment(k, root) \in S
  BY <1>0 DEF SegmentsOK
<1> HIDE DEF S
<1>2. gs \in Seq(S) /\ Len(gs) = Len(fs) + 1 /\ gs[Len(fs) + 1] = Segment(k, root)
      /\ \A g \in 1 .. Len(fs) : gs[g] = fs[g]
  BY <1>1, AppendProperties
<1>3. MaxFiles \in Nat
  BY JournalAssumption
<1>4. ASSUME NEW g \in 1 .. Len(gs)
      PROVE gs[g].prev \in 0 .. g - 1 /\ Len(gs[g].records) <= w
  <2>1. CASE g \in 1 .. Len(fs)
    BY <1>2, <2>1 DEF SegmentsOK, Linked
  <2>2. CASE g = Len(fs) + 1
    BY <1>1, <1>2, <2>2 DEF Segment
  <2> QED BY <1>1, <1>2, <2>1, <2>2
<1>5. Len(gs) <= MaxFiles
  BY <1>1, <1>2, <1>3
<1>6. SegmentsOK(gs, w)
  BY <1>2, <1>4, <1>5 DEF SegmentsOK, Linked, S
<1> QED BY <1>2, <1>6

-----------------------------------------------------------------------------
(* Type correctness, of any number of programs at a time *)

Created == {"created", "replayed", "running", "appended", "stopping"}
Replaying == {"replayed", "running", "appended", "stopping"}

States(n) ==
  [at : {"off", "named", "created", "replayed", "running", "appended", "stopping"},
   journal : 0 .. MaxFiles, resume : 0 .. n, workdir : BOOLEAN,
   chain : Seq(1 .. n), offset : 0 .. MaxRecords, log : Seq(Entry)]

\* A program's segment is a file, or the next one that nobody has made yet.
StateOK(fs, w, s) ==
  /\ s \in States(Len(fs))
  /\ s.at = "named" => s.journal \in 1 .. Len(fs) + 1
  /\ s.at \in Created => s.journal \in 1 .. Len(fs)
  /\ s.at \in Replaying => Len(s.chain) \in 1 .. MaxFiles
  /\ s.offset <= w
  /\ s.at = "appended" => s.offset >= 1 /\ fs[s.journal].records # <<>>

JTypeInv ==
  /\ SegmentsOK(files, written)
  /\ latest \in 0 .. Len(files) /\ written \in 0 .. MaxRecords
  /\ procs = [p \in Proc |-> procs[p]]
  /\ \A p \in Proc : StateOK(files, written, procs[p])

LEMMA StateKept ==
  ASSUME NEW fs, NEW gs, Len(fs) \in Nat, Len(gs) \in Nat, Len(fs) <= Len(gs),
         NEW w \in Nat, NEW v \in Nat, w <= v,
         \A f \in 1 .. Len(fs) : fs[f].records # <<>> => gs[f].records # <<>>,
         NEW s, StateOK(fs, w, s)
  PROVE  StateOK(gs, v, s)
<1>1. s \in States(Len(gs))
  <2>1. 0 .. Len(fs) \subseteq 0 .. Len(gs) /\ 1 .. Len(fs) \subseteq 1 .. Len(gs)
    OBVIOUS
  <2>2. Seq(1 .. Len(fs)) \subseteq Seq(1 .. Len(gs))
    BY <2>1, SeqMonotonic
  <2> QED BY <2>1, <2>2 DEF StateOK, States
<1>2. s.at = "appended" => s.offset >= 1 /\ gs[s.journal].records # <<>>
  BY DEF StateOK, Created
<1>3. s.offset \in Nat /\ s.journal \in Nat
  BY JournalAssumption DEF StateOK, States
<1>4. /\ s.at = "named" => s.journal \in 1 .. Len(gs) + 1
      /\ s.at \in Created => s.journal \in 1 .. Len(gs)
      /\ s.offset <= v
  BY <1>3 DEF StateOK
<1>5. s.at \in Replaying => Len(s.chain) \in 1 .. MaxFiles
  BY DEF StateOK
<1> QED BY <1>1, <1>2, <1>4, <1>5 DEF StateOK

\* A step of program p that keeps the files, or adds to them.
LEMMA SetType ==
  ASSUME JTypeInv, NEW p \in Proc, NEW s, Set(p, s), StateOK(files', written', s),
         SegmentsOK(files', written'), Len(files) <= Len(files'),
         latest' \in 0 .. Len(files'), written' \in 0 .. MaxRecords, written <= written',
         \A f \in File : files[f].records # <<>> => files'[f].records # <<>>
  PROVE  JTypeInv'
<1>1. procs' = [q \in Proc |-> procs'[q]] /\ procs'[p] = s
      /\ \A q \in Proc : q # p => procs'[q] = procs[q]
  BY DEF Set, JTypeInv
<1>2. Len(files) \in Nat /\ Len(files') \in Nat /\ written \in Nat /\ written' \in Nat
  BY JournalAssumption DEF JTypeInv, SegmentsOK
<1>3. ASSUME NEW q \in Proc PROVE StateOK(files', written', procs'[q])
  <2>1. CASE q = p
    BY <1>1, <2>1
  <2>2. CASE q # p
    <3>1. StateOK(files, written, procs[q])
      BY DEF JTypeInv
    <3>2. StateOK(files', written', procs[q])
      BY <1>2, <3>1, StateKept DEF File
    <3> QED BY <1>1, <2>2, <3>2
  <2> QED BY <2>1, <2>2
<1> QED BY <1>1, <1>3 DEF JTypeInv

LEMMA OffType ==
  ASSUME NEW fs, Len(fs) \in Nat, NEW w \in Nat
  PROVE  StateOK(fs, w, Off)
<1>1. Off \in States(Len(fs))
  BY JournalAssumption DEF Off, States
<1> QED BY <1>1 DEF StateOK, Off, Created, Replaying

\* The identifiers that a replay gives keep within the bounds.
LEMMA NumberedType ==
  ASSUME NEW w \in 0 .. MaxRecords, NEW fs, SegmentsOK(fs, w), NEW g \in 1 .. Len(fs),
         NEW i \in 1 .. MaxFiles
  PROVE  NumberedAs(fs, g, i) \in Seq(Entry)
<1> DEFINE r == fs[g].records
<1>1. r \in Seq(1 .. w) /\ Len(r) <= w /\ Len(r) \in Nat
  <2>1. r \in Seq(1 .. w)
    BY SegmentType
  <2> QED BY <2>1 DEF SegmentsOK
<1> HIDE DEF r
<1>2. ASSUME NEW n \in 1 .. Len(r) PROVE EntryOf(i, n, r[n]) \in Entry
  <2>1. r[n] \in 1 .. MaxRecords /\ n \in 1 .. MaxRecords
    <3>1. r[n] \in 1 .. w
      BY <1>1, ElementOfSeq
    <3> QED BY <1>1, <3>1, JournalAssumption
  <2> QED BY <2>1 DEF Entry, EntryOf
<1>3. NumberedAs(fs, g, i) = [n \in 1 .. Len(r) |-> EntryOf(i, n, r[n])]
  BY DEF NumberedAs, Numbers, r
<1> QED BY <1>1, <1>2, <1>3

LEMMA ReplayFits ==
  ASSUME NEW w \in 0 .. MaxRecords, NEW fs, SegmentsOK(fs, w), NEW f \in 0 .. Len(fs)
  PROVE  /\ ChainIn(fs, f) \in Seq(1 .. f)
         /\ ChainIn(fs, f) \in Seq(1 .. Len(fs)) /\ ChainIn(fs, f) \in Seq(Nat)
         /\ f # 0 => Len(ChainIn(fs, f)) \in 1 .. MaxFiles
         /\ \A i \in 1 .. Len(ChainIn(fs, f)) :
              NumberedAs(fs, ChainIn(fs, f)[i], i) \in Seq(Entry)
         /\ ReplayedIn(fs, ChainIn(fs, f)) \in Seq(Entry)
<1> DEFINE c == ChainIn(fs, f)
<1>1. Len(fs) \in Nat /\ Linked(fs, Len(fs)) /\ Len(fs) <= MaxFiles
  BY DEF SegmentsOK
<1>2. ChainFits(c, f)
  BY <1>1, ChainFitsAll
<1> HIDE DEF c
<1>3. c \in Seq(1 .. f) /\ c \in Seq(1 .. Len(fs)) /\ c \in Seq(Nat) /\ Len(c) \in Nat
  <2>1. 1 .. f \subseteq 1 .. Len(fs) /\ 1 .. f \subseteq Nat
    BY <1>1
  <2>2. c \in Seq(1 .. f)
    BY <1>2 DEF ChainFits
  <2> QED BY <2>1, <2>2, SeqMonotonic
<1>4. Len(c) <= MaxFiles
  BY <1>1, <1>2, <1>3, JournalAssumption DEF ChainFits
<1>5. f # 0 => Len(c) \in 1 .. MaxFiles
  <2> SUFFICES ASSUME f # 0 PROVE Len(c) # 0
    BY <1>3, <1>4
  <2>1. c # <<>>
    BY <1>2 DEF ChainFits
  <2> QED BY <1>3, <2>1, EmptySeq
<1>6. ASSUME NEW i \in 1 .. Len(c) PROVE NumberedAs(fs, c[i], i) \in Seq(Entry)
  <2>1. c[i] \in 1 .. Len(fs) /\ i \in 1 .. MaxFiles
    BY <1>3, <1>4, ElementOfSeq, JournalAssumption
  <2> QED BY <2>1, NumberedType
<1>7. ReplayedIn(fs, c) \in Seq(Entry)
  BY <1>3, <1>6, ReplayedType
<1> QED BY <1>3, <1>5, <1>6, <1>7 DEF c

LEMMA JTypeInit ==
  ASSUME JInit
  PROVE  JTypeInv
<1>1. SegmentsOK(files, written)
  BY JournalAssumption DEF JInit, SegmentsOK, Linked
<1>2. Len(files) = 0 /\ written = 0 /\ latest = 0
  BY DEF JInit
<1>3. \A p \in Proc : procs[p] = Off
  BY DEF JInit
<1>4. \A p \in Proc : StateOK(files, written, procs[p])
  BY <1>2, <1>3, OffType
<1> QED BY <1>1, <1>2, <1>4, JournalAssumption DEF JInit, JTypeInv

LEMMA JournalFacts ==
  ASSUME JTypeInv
  PROVE  Len(files) \in Nat /\ written \in Nat /\ SegmentsOK(files, written)
BY JournalAssumption DEF JTypeInv, SegmentsOK

\* What the steps that follow need of the program they are about.
LEMMA StepFacts ==
  ASSUME JTypeInv, NEW p \in Proc
  PROVE  /\ Len(files) \in Nat /\ written \in Nat /\ MaxFiles \in Nat /\ MaxRecords \in Nat
         /\ procs[p] \in States(Len(files)) /\ StateOK(files, written, procs[p])
         /\ procs[p].offset \in Nat
BY JournalAssumption DEF JTypeInv, SegmentsOK, StateOK, States

\* A step of p that keeps the files.
LEMMA SetOnly ==
  ASSUME JTypeInv, NEW p \in Proc, NEW s, Set(p, s), files' = files, written' = written,
         latest' \in 0 .. Len(files), StateOK(files, written, s)
  PROVE  JTypeInv'
<1>1. Len(files) <= Len(files') /\ written <= written'
  BY StepFacts
<1>2. SegmentsOK(files', written') /\ written' \in 0 .. MaxRecords
  BY DEF JTypeInv
<1>3. StateOK(files', written', s)
  OBVIOUS
<1> QED BY <1>1, <1>2, <1>3, SetType

LEMMA StopType ==
  ASSUME JTypeInv, NEW p \in Proc, Set(p, Off), files' = files, written' = written,
         latest' = latest
  PROVE  JTypeInv'
<1>1. StateOK(files, written, Off)
  BY StepFacts, OffType
<1>2. latest' \in 0 .. Len(files)
  BY DEF JTypeInv
<1> QED BY <1>1, <1>2, SetOnly

LEMMA StartType ==
  ASSUME JTypeInv, NEW p \in Proc, NEW workdir \in BOOLEAN, Start(p, workdir)
  PROVE  JTypeInv'
<1>1. PICK o : o = Off
  OBVIOUS
<1>2. o = [at |-> "off", journal |-> 0, resume |-> 0, workdir |-> FALSE,
           chain |-> <<>>, offset |-> 0, log |-> <<>>]
  BY <1>1 DEF Off
<1>3. PICK r \in Resumed(workdir) :
        Set(p, [o EXCEPT !.at = "named", !.journal = Len(files) + 1,
                         !.resume = r, !.workdir = workdir])
  BY <1>1 DEF Start
<1>4. PICK s : s = [o EXCEPT !.at = "named", !.journal = Len(files) + 1,
                             !.resume = r, !.workdir = workdir]
  OBVIOUS
<1>5. s = [at |-> "named", journal |-> Len(files) + 1, resume |-> r, workdir |-> workdir,
           chain |-> <<>>, offset |-> 0, log |-> <<>>]
  BY <1>2, <1>4
<1>6. r \in 0 .. Len(files)
  BY DEF Resumed, JTypeInv
<1>7. Len(files) < MaxFiles /\ files' = files /\ written' = written /\ latest' = latest
  BY DEF Start
<1>8. StateOK(files, written, s)
  <2>1. s \in States(Len(files))
    BY <1>5, <1>6, <1>7, StepFacts DEF States
  <2> QED BY <1>5, <2>1, StepFacts DEF StateOK, Created, Replaying
<1>9. latest' \in 0 .. Len(files)
  BY <1>7 DEF JTypeInv
<1> QED BY <1>3, <1>4, <1>7, <1>8, <1>9, SetOnly

\* A step that makes a segment.
LEMMA GrownFiles ==
  ASSUME JTypeInv, Len(files) < MaxFiles, NEW k \in 0 .. Len(files), NEW root \in BOOLEAN,
         files' = Append(files, Segment(k, root))
  PROVE  /\ SegmentsOK(files', written) /\ Len(files') = Len(files) + 1
         /\ files'[Len(files')] = Segment(k, root)
         /\ \A g \in File : files'[g] = files[g]
<1>1. SegmentsOK(files, written) /\ written \in Nat
  BY StepFacts, JournalAssumption DEF JTypeInv
<1>2. \A gs : gs = Append(files, Segment(k, root)) =>
        /\ SegmentsOK(gs, written) /\ Len(gs) = Len(files) + 1
        /\ gs[Len(gs)] = Segment(k, root)
        /\ \A g \in 1 .. Len(files) : gs[g] = files[g]
  BY <1>1, Grown
<1> QED BY <1>2 DEF File

LEMMA CreateType ==
  ASSUME JTypeInv, NEW p \in Proc, CreateSegment(p)
  PROVE  JTypeInv'
<1>1. PICK o \in States(Len(files)) : o = procs[p]
  BY StepFacts
<1>2. CASE o.journal \in File
  BY <1>1, <1>2, StopType DEF CreateSegment
<1>3. CASE o.journal \notin File
  <2>1. /\ o.at = "named" /\ files' = Append(files, Segment(o.resume, TRUE))
        /\ latest' = latest /\ written' = written
    BY <1>1, <1>3 DEF CreateSegment
  <2>2. PICK s : s = [o EXCEPT !.at = "created"] /\ Set(p, s)
    BY <1>1, <1>3 DEF CreateSegment
  <2>3. o.journal = Len(files) + 1 /\ Len(files) < MaxFiles
    <3>1. o.journal \in 1 .. Len(files) + 1 /\ o.journal \in 0 .. MaxFiles
      BY <1>1, <2>1, StepFacts DEF StateOK, States
    <3> QED BY <1>3, <3>1, StepFacts DEF File
  <2>4. o.resume \in 0 .. Len(files)
    BY DEF States
  <2>5. /\ SegmentsOK(files', written) /\ Len(files') = Len(files) + 1
        /\ \A g \in File : files'[g] = files[g]
    BY <2>1, <2>3, <2>4, GrownFiles
  <2>6. StateOK(files', written, o)
    BY <1>1, <2>5, StepFacts, StateKept DEF File
  <2>7. s \in States(Len(files')) /\ s.at = "created" /\ s.journal = Len(files) + 1
        /\ s.offset = o.offset
    BY <2>2, <2>3, <2>6 DEF StateOK, States
  <2>8. StateOK(files', written, s)
    BY <2>5, <2>6, <2>7, StepFacts DEF StateOK, Created, Replaying
  <2>9. latest' \in 0 .. Len(files') /\ written' \in 0 .. MaxRecords
        /\ Len(files) <= Len(files') /\ written <= written'
    BY <2>1, <2>5, StepFacts DEF JTypeInv
  <2> QED BY <2>1, <2>2, <2>5, <2>8, <2>9, SetType
<1> QED BY <1>2, <1>3

LEMMA CrashInRootType ==
  ASSUME JTypeInv, NEW p \in Proc, CrashInRoot(p)
  PROVE  JTypeInv'
<1>1. PICK o \in States(Len(files)) : o = procs[p]
  BY StepFacts
<1>2. /\ o.at = "named" /\ o.journal \notin File /\ files' = Append(files, Segment(0, FALSE))
      /\ Set(p, Off) /\ latest' = latest /\ written' = written
  BY <1>1 DEF CrashInRoot
<1>3. Len(files) < MaxFiles
  <2>1. o.journal \in 1 .. Len(files) + 1 /\ o.journal \in 0 .. MaxFiles
    BY <1>1, <1>2, StepFacts DEF StateOK, States
  <2> QED BY <1>2, <2>1, StepFacts DEF File
<1>4. 0 \in 0 .. Len(files)
  BY StepFacts
<1>5. /\ SegmentsOK(files', written) /\ Len(files') = Len(files) + 1
      /\ \A g \in File : files'[g] = files[g]
  BY <1>2, <1>3, <1>4, GrownFiles
<1>6. StateOK(files', written, Off)
  BY <1>5, StepFacts, OffType
<1>7. latest' \in 0 .. Len(files') /\ written' \in 0 .. MaxRecords
      /\ Len(files) <= Len(files') /\ written <= written'
  BY <1>2, <1>5, StepFacts DEF JTypeInv
<1> QED BY <1>2, <1>5, <1>6, <1>7, SetType

LEMMA ReplayType ==
  ASSUME JTypeInv, NEW p \in Proc, Replay(p)
  PROVE  JTypeInv'
<1>1. PICK o \in States(Len(files)) : o = procs[p]
  BY StepFacts
<1>2. o.at = "created" /\ files' = files /\ latest' = latest /\ written' = written
  BY <1>1 DEF Replay
<1> DEFINE chain == ChainTo(o.journal)
<1>3. CASE ~(RootsReadable(chain) /\ Readable(chain))
  BY <1>1, <1>2, <1>3, StopType DEF Replay
<1>4. CASE RootsReadable(chain) /\ Readable(chain)
  <2>1. PICK s : s = [o EXCEPT !.at = "replayed", !.chain = chain, !.log = Replayed(chain)]
                 /\ Set(p, s)
    BY <1>1, <1>4 DEF Replay
  <2>2. o.journal \in 1 .. Len(files)
    BY <1>1, <1>2, StepFacts DEF StateOK, Created
  <2>3. /\ chain \in Seq(1 .. Len(files)) /\ Len(chain) \in 1 .. MaxFiles
        /\ Replayed(chain) \in Seq(Entry)
    <3>1. chain = ChainIn(files, o.journal) /\ Replayed(chain) = ReplayedIn(files, chain)
      BY ChainToIs, ReplayedIs
    <3>2. o.journal \in 0 .. Len(files) /\ o.journal # 0
      BY <2>2
    <3> HIDE DEF chain
    <3> QED BY <3>1, <3>2, ReplayFits DEF JTypeInv
  <2> HIDE DEF chain
  <2>4. s \in States(Len(files)) /\ s.at = "replayed" /\ s.journal = o.journal
        /\ s.chain = chain /\ s.offset = o.offset
    BY <2>1, <2>3 DEF States
  <2>5. StateOK(files, written, s)
    <3>1. o.offset <= written
      BY <1>1, StepFacts DEF StateOK
    <3> QED BY <2>2, <2>3, <2>4, <3>1 DEF StateOK
  <2>6. latest' \in 0 .. Len(files)
    BY <1>2 DEF JTypeInv
  <2> QED BY <1>2, <2>1, <2>5, <2>6, SetOnly
<1> QED BY <1>3, <1>4

LEMMA SetLatestType ==
  ASSUME JTypeInv, NEW p \in Proc, SetLatest(p)
  PROVE  JTypeInv'
<1>1. PICK o \in States(Len(files)) : o = procs[p]
  BY StepFacts
<1>2. /\ o.at = "replayed" /\ files' = files /\ written' = written
      /\ latest' = IF o.workdir THEN o.journal ELSE latest
  BY <1>1 DEF SetLatest, Ready
<1>3. PICK s : s = [o EXCEPT !.at = "running"] /\ Set(p, s)
  BY <1>1 DEF SetLatest
<1>4. StateOK(files, written, o)
  BY <1>1, StepFacts
<1>5. o.journal \in 1 .. Len(files)
  BY <1>2, <1>4 DEF StateOK, Created
<1>6. s \in States(Len(files)) /\ s.at = "running" /\ s.journal = o.journal
      /\ s.chain = o.chain /\ s.offset = o.offset
  BY <1>3 DEF States
<1>7. StateOK(files, written, s)
  BY <1>2, <1>4, <1>5, <1>6 DEF StateOK, Created, Replaying
<1>8. latest' \in 0 .. Len(files)
  BY <1>2, <1>5 DEF JTypeInv
<1> QED BY <1>2, <1>3, <1>7, <1>8, SetOnly

\* A step that changes the segment j and no link.
LEMMA Altered ==
  ASSUME JTypeInv, NEW v \in Nat, written <= v, NEW j \in File,
         NEW s \in Segments(v),
         s.prev = files[j].prev, Len(s.records) <= v, files' = [files EXCEPT ![j] = s]
  PROVE  /\ SegmentsOK(files', v) /\ Len(files') = Len(files) /\ files'[j] = s
         /\ \A g \in File : g # j => files'[g] = files[g]
<1>1. files \in Seq(Segments(written)) /\ Len(files) \in Nat /\ written \in Nat
  BY JournalFacts DEF SegmentsOK
<1>2. Segments(written) \subseteq Segments(v)
  <2>1. Seq(1 .. written) \subseteq Seq(1 .. v)
    BY <1>1, SeqMonotonic
  <2> QED BY <2>1 DEF Segments
<1>3. files \in Seq(Segments(v)) /\ s \in Segments(v)
  <2>1. files \in Seq(Segments(v))
    BY <1>1, <1>2, SeqMonotonic
  <2> QED BY <2>1
<1>4. files' \in Seq(Segments(v)) /\ Len(files') = Len(files) /\ files'[j] = s
      /\ \A g \in File : g # j => files'[g] = files[g]
  BY <1>1, <1>3, ExceptSeq DEF File
<1>5. ASSUME NEW g \in 1 .. Len(files')
      PROVE files'[g].prev \in 0 .. g - 1 /\ Len(files'[g].records) <= v
  <2>1. files[g].prev \in 0 .. g - 1 /\ Len(files[g].records) <= written
    BY <1>4, JournalFacts DEF SegmentsOK, Linked
  <2>2. CASE g = j
    BY <1>4, <2>1, <2>2
  <2>3. CASE g # j
    <3>1. files'[g] = files[g] /\ files[g] \in Segments(written)
      BY <1>1, <1>4, <2>3, ElementOfSeq
    <3>2. Len(files[g].records) \in Nat
      BY <3>1 DEF Segments
    <3> QED BY <1>1, <2>1, <3>1, <3>2
  <2> QED BY <2>2, <2>3
<1>6. Len(files) <= MaxFiles
  BY JournalFacts DEF SegmentsOK
<1> QED BY <1>1, <1>4, <1>5, <1>6 DEF SegmentsOK, Linked

\* A step that writes a record to segment j.
LEMMA WrittenFiles ==
  ASSUME JTypeInv, NEW j \in File,
         files' = [files EXCEPT ![j].records = Append(@, written + 1)]
  PROVE  /\ SegmentsOK(files', written + 1) /\ Len(files') = Len(files)
         /\ \A g \in File :
              /\ files'[g].prev = files[g].prev /\ files'[g].root = files[g].root
              /\ files'[g].torn = files[g].torn
              /\ files'[g].records = IF g = j THEN Append(files[g].records, written + 1)
                                              ELSE files[g].records
<1>1. SegmentsOK(files, written) /\ written \in Nat
  BY JournalFacts
<1>2. PICK f : f = files[j]
  OBVIOUS
<1>3. f \in [prev : Nat, root : BOOLEAN, records : Seq(1 .. written), torn : BOOLEAN]
      /\ Len(f.records) <= written
  BY <1>1, <1>2, SegmentType DEF File, SegmentsOK
<1>4. PICK s : s = [f EXCEPT !.records = Append(@, written + 1)]
  OBVIOUS
<1>5. files' = [files EXCEPT ![j] = s]
  BY <1>2, <1>4
<1>6. Append(f.records, written + 1) \in Seq(1 .. written + 1)
      /\ Len(Append(f.records, written + 1)) = Len(f.records) + 1
      /\ Len(f.records) \in Nat
  <2>1. f.records \in Seq(1 .. written)
    BY <1>3
  <2>2. 1 .. written \subseteq 1 .. written + 1 /\ written + 1 \in 1 .. written + 1
    BY <1>1
  <2>3. f.records \in Seq(1 .. written + 1)
    BY <2>1, <2>2, SeqMonotonic
  <2> QED BY <2>2, <2>3, AppendProperties
<1>7. /\ s.prev = f.prev /\ s.root = f.root /\ s.torn = f.torn
      /\ s.records = Append(f.records, written + 1)
      /\ s \in Segments(written + 1)
  BY <1>3, <1>4, <1>6 DEF Segments
<1>8. Len(s.records) <= written + 1 /\ written <= written + 1 /\ written + 1 \in Nat
  BY <1>1, <1>3, <1>6, <1>7
<1>9. /\ SegmentsOK(files', written + 1) /\ Len(files') = Len(files) /\ files'[j] = s
      /\ \A g \in File : g # j => files'[g] = files[g]
  <2>1. s.prev = files[j].prev
    BY <1>2, <1>7
  <2> QED BY <1>5, <1>7, <1>8, <2>1, Altered
<1> QED BY <1>2, <1>7, <1>9

\* A step that tears the end of segment j.
LEMMA TornFiles ==
  ASSUME JTypeInv, NEW j \in File, files' = [files EXCEPT ![j].torn = TRUE]
  PROVE  /\ SegmentsOK(files', written) /\ Len(files') = Len(files)
         /\ \A g \in File :
              /\ files'[g].prev = files[g].prev /\ files'[g].root = files[g].root
              /\ files'[g].records = files[g].records
              /\ g # j => files'[g].torn = files[g].torn
<1>1. SegmentsOK(files, written) /\ written \in Nat
  BY JournalFacts
<1>2. PICK f : f = files[j]
  OBVIOUS
<1>3. f \in [prev : Nat, root : BOOLEAN, records : Seq(1 .. written), torn : BOOLEAN]
      /\ Len(f.records) <= written
  BY <1>1, <1>2, SegmentType DEF File, SegmentsOK
<1>4. PICK s : s = [f EXCEPT !.torn = TRUE]
  OBVIOUS
<1>5. files' = [files EXCEPT ![j] = s]
  BY <1>2, <1>4
<1>6. /\ s.prev = f.prev /\ s.root = f.root /\ s.records = f.records
      /\ s \in Segments(written)
  BY <1>3, <1>4 DEF Segments
<1>7. /\ SegmentsOK(files', written) /\ Len(files') = Len(files) /\ files'[j] = s
      /\ \A g \in File : g # j => files'[g] = files[g]
  <2>1. s.prev = files[j].prev /\ written <= written
        /\ Len(s.records) <= written
    BY <1>1, <1>2, <1>3, <1>6
  <2> QED BY <1>1, <1>5, <1>6, <2>1, Altered
<1> QED BY <1>2, <1>6, <1>7

LEMMA WroteType ==
  ASSUME JTypeInv, NEW p \in Proc, NEW to, procs[p].at \in {"running", "stopping"},
         to \in {"appended", "stopping"}, Wrote(p, to)
  PROVE  JTypeInv'
<1>1. PICK o \in States(Len(files)) : o = procs[p]
  BY StepFacts
<1>2. StateOK(files, written, o) /\ o.journal \in File
  BY <1>1, StepFacts DEF StateOK, Created, File
<1>3. /\ written < MaxRecords /\ written' = written + 1 /\ latest' = latest
      /\ files' = [files EXCEPT ![o.journal].records = Append(@, written + 1)]
  BY <1>1 DEF Wrote
<1>4. PICK s : s = [o EXCEPT !.at = to, !.offset = @ + 1] /\ Set(p, s)
  BY <1>1 DEF Wrote
<1>5. /\ SegmentsOK(files', written + 1) /\ Len(files') = Len(files)
      /\ \A g \in File :
           /\ files'[g].prev = files[g].prev /\ files'[g].root = files[g].root
           /\ files'[g].torn = files[g].torn
           /\ files'[g].records = IF g = o.journal
                                  THEN Append(files[g].records, written + 1)
                                  ELSE files[g].records
  <2>1. \A j \in File : files' = [files EXCEPT ![j].records = Append(@, written + 1)] =>
          /\ SegmentsOK(files', written + 1) /\ Len(files') = Len(files)
          /\ \A g \in File :
               /\ files'[g].prev = files[g].prev /\ files'[g].root = files[g].root
               /\ files'[g].torn = files[g].torn
               /\ files'[g].records = IF g = j THEN Append(files[g].records, written + 1)
                                               ELSE files[g].records
    BY WrittenFiles
  <2> QED BY <1>2, <1>3, <2>1
<1>6. \A f \in File : files[f].records # <<>> => files'[f].records # <<>>
  <2>1. \A f \in File : files[f].records \in Seq(1 .. written)
    BY StepFacts, SegmentType DEF JTypeInv, File
  <2>2. \A f \in File : Append(files[f].records, written + 1) # <<>>
    BY <2>1
  <2> QED BY <1>5, <2>2
<1>7. s \in States(Len(files)) /\ s.at = to /\ s.journal = o.journal
      /\ s.chain = o.chain /\ s.offset = o.offset + 1
  <2>1. o.offset + 1 \in 0 .. MaxRecords
    BY <1>1, <1>2, <1>3, StepFacts DEF StateOK
  <2>2. to \in {"off", "named", "created", "replayed", "running", "appended", "stopping"}
    OBVIOUS
  <2>3. o.offset \in 0 .. MaxRecords
    BY DEF States
  <2> QED BY <1>4, <2>1, <2>2, <2>3 DEF States
<1>8. StateOK(files', written', s)
  <2>1. files'[o.journal].records # <<>>
    <3>1. files[o.journal].records \in Seq(1 .. written)
      BY <1>2, StepFacts, SegmentType DEF JTypeInv, File
    <3>2. Append(files[o.journal].records, written + 1) # <<>>
      BY <3>1
    <3> QED BY <1>2, <1>5, <3>2
  <2>2. s.offset >= 1 /\ s.offset <= written'
    BY <1>1, <1>2, <1>3, <1>7, StepFacts DEF StateOK
  <2>3. Len(s.chain) \in 1 .. MaxFiles /\ s.journal \in 1 .. Len(files')
    BY <1>1, <1>2, <1>5, <1>7 DEF StateOK, Replaying, File
  <2> QED BY <1>5, <1>7, <2>1, <2>2, <2>3 DEF StateOK
<1>9. latest' \in 0 .. Len(files') /\ written' \in 0 .. MaxRecords
      /\ Len(files) <= Len(files') /\ written <= written'
  BY <1>3, <1>5, StepFacts DEF JTypeInv
<1> QED BY <1>3, <1>4, <1>5, <1>6, <1>8, <1>9, SetType

LEMMA CrashInWriteType ==
  ASSUME JTypeInv, NEW p \in Proc, CrashInWrite(p)
  PROVE  JTypeInv'
<1>1. PICK o \in States(Len(files)) : o = procs[p]
  BY StepFacts
<1>2. o.journal \in File
  BY <1>1, StepFacts DEF StateOK, Created, File, CrashInWrite
<1>3. /\ Set(p, Off) /\ latest' = latest /\ written' = written
      /\ files' = [files EXCEPT ![o.journal].torn = TRUE]
  BY <1>1 DEF CrashInWrite
<1>4. /\ SegmentsOK(files', written) /\ Len(files') = Len(files)
      /\ \A g \in File : files'[g].records = files[g].records
  <2>1. \A j \in File : files' = [files EXCEPT ![j].torn = TRUE] =>
          /\ SegmentsOK(files', written) /\ Len(files') = Len(files)
          /\ \A g \in File : files'[g].records = files[g].records
    BY TornFiles
  <2> QED BY <1>2, <1>3, <2>1
<1>5. StateOK(files', written', Off)
  BY <1>3, <1>4, StepFacts, OffType
<1>6. latest' \in 0 .. Len(files') /\ written' \in 0 .. MaxRecords
      /\ Len(files) <= Len(files') /\ written <= written'
  BY <1>3, <1>4, StepFacts DEF JTypeInv
<1> QED BY <1>3, <1>4, <1>5, <1>6, SetType

LEMMA ApplyType ==
  ASSUME JTypeInv, NEW p \in Proc, ApplyRecord(p)
  PROVE  JTypeInv'
<1>1. PICK o \in States(Len(files)) : o = procs[p]
  BY StepFacts
<1>2. o.at = "appended" /\ files' = files /\ written' = written /\ latest' = latest
  BY <1>1 DEF ApplyRecord
<1> DEFINE e == [id |-> <<Len(o.chain), o.offset>>, record |-> Last(files[o.journal].records)]
<1>3. PICK s : s = [o EXCEPT !.at = "running", !.log = Append(@, e)] /\ Set(p, s)
  BY <1>1 DEF ApplyRecord, Identifier
<1>4. StateOK(files, written, o)
  BY <1>1, StepFacts
<1>5. /\ o.journal \in 1 .. Len(files) /\ Len(o.chain) \in 1 .. MaxFiles
      /\ o.offset >= 1 /\ files[o.journal].records # <<>> /\ o.offset <= written
  BY <1>2, <1>4 DEF StateOK, Created, Replaying
<1>6. e \in Entry
  <2>1. Last(files[o.journal].records) \in 1 .. MaxRecords
    <3>1. PICK r \in Seq(1 .. written) : r = files[o.journal].records
      BY <1>5, SegmentType DEF JTypeInv
    <3>2. Len(r) \in 1 .. Len(r)
      BY <1>5, <3>1, EmptySeq
    <3>3. r[Len(r)] \in 1 .. written
      BY <3>2, ElementOfSeq
    <3> QED BY <3>1, <3>3, StepFacts DEF Last, JTypeInv
  <2>2. o.offset \in 1 .. MaxRecords
    BY <1>1, <1>5, StepFacts DEF States
  <2> QED BY <1>5, <2>1, <2>2 DEF Entry
<1> HIDE DEF e
<1>7. s \in States(Len(files)) /\ s.at = "running" /\ s.journal = o.journal
      /\ s.chain = o.chain /\ s.offset = o.offset
  <2>1. Append(o.log, e) \in Seq(Entry)
    BY <1>6 DEF States
  <2> QED BY <1>3, <2>1 DEF States
<1>8. StateOK(files, written, s)
  BY <1>5, <1>7 DEF StateOK, Created, Replaying
<1>9. latest' \in 0 .. Len(files)
  BY <1>2 DEF JTypeInv
<1> QED BY <1>2, <1>3, <1>8, <1>9, SetOnly

LEMMA JTypeNext ==
  ASSUME JTypeInv, [JNext]_jvars
  PROVE  JTypeInv'
<1>1. CASE UNCHANGED jvars
  BY <1>1 DEF jvars, JTypeInv
<1>2. CASE JNext
  <2>1. PICK p \in Proc :
          \/ \E workdir \in BOOLEAN : Start(p, workdir)
          \/ CreateSegment(p) \/ CrashInRoot(p) \/ Replay(p) \/ SetLatest(p)
          \/ AppendRecord(p) \/ Shutdown(p) \/ CrashInWrite(p) \/ ApplyRecord(p) \/ Stop(p)
    BY <1>2 DEF JNext
  <2>2. CASE \E workdir \in BOOLEAN : Start(p, workdir)
    BY <2>2, StartType
  <2>3. CASE CreateSegment(p)
    BY <2>3, CreateType
  <2>4. CASE CrashInRoot(p)
    BY <2>4, CrashInRootType
  <2>5. CASE Replay(p)
    BY <2>5, ReplayType
  <2>6. CASE SetLatest(p)
    BY <2>6, SetLatestType
  <2>7. CASE AppendRecord(p)
    BY <2>7, WroteType DEF AppendRecord
  <2>8. CASE Shutdown(p)
    BY <2>8, WroteType DEF Shutdown
  <2>9. CASE CrashInWrite(p)
    BY <2>9, CrashInWriteType
  <2>10. CASE ApplyRecord(p)
    BY <2>10, ApplyType
  <2>11. CASE Stop(p)
    BY <2>11, StopType DEF Stop
  <2> QED BY <2>1, <2>2, <2>3, <2>4, <2>5, <2>6, <2>7, <2>8, <2>9, <2>10, <2>11
<1> QED BY <1>1, <1>2

THEOREM JTypeInvariant == JSpec => []JTypeInv
<1>1. JInit => JTypeInv
  BY JTypeInit
<1>2. JTypeInv /\ [JNext]_jvars => JTypeInv'
  BY JTypeNext
<1> QED BY <1>1, <1>2, PTL DEF JSpec

LEMMA JTypeInvTypes ==
  ASSUME JTypeInv
  PROVE  JTypeOK
<1>1. files \in Seq([prev : 0 .. Len(files), root : BOOLEAN, records : Seq(Record),
                     torn : BOOLEAN])
  <2>1. \A f \in 1 .. Len(files) :
          files[f] \in [prev : 0 .. Len(files), root : BOOLEAN, records : Seq(Record),
                        torn : BOOLEAN]
    <3> SUFFICES ASSUME NEW f \in 1 .. Len(files)
                 PROVE  files[f] \in [prev : 0 .. Len(files), root : BOOLEAN,
                                      records : Seq(Record), torn : BOOLEAN]
      OBVIOUS
    <3>1. SegmentsOK(files, written)
      BY JournalFacts
    <3>2. /\ files[f] \in [prev : Nat, root : BOOLEAN, records : Seq(1 .. written),
                            torn : BOOLEAN]
          /\ files[f].prev \in 0 .. f - 1
      BY <3>1, SegmentType
    <3>3. files[f].prev \in 0 .. Len(files)
      BY <3>2, JournalFacts
    <3> QED BY <3>2, <3>3 DEF Record
  <2> DEFINE T == [prev : 0 .. Len(files), root : BOOLEAN, records : Seq(Record),
                   torn : BOOLEAN]
  <2>2. files \in Seq(Segments(written))
    BY JournalFacts DEF SegmentsOK
  <2>3. files = [f \in 1 .. Len(files) |-> files[f]] /\ Len(files) \in Nat
    BY <2>2
  <2>4. \A f \in 1 .. Len(files) : files[f] \in T
    BY <2>1
  <2> HIDE DEF T
  <2>5. files \in Seq(T)
    BY <2>3, <2>4
  <2> QED BY <2>5 DEF T
<1>2. Len(files) \in 0 .. MaxFiles /\ latest \in 0 .. Len(files) /\ written \in 0 .. MaxRecords
  BY JournalFacts, JournalAssumption DEF SegmentsOK, JTypeInv
<1>3. procs \in [Proc -> States(Len(files))]
  BY DEF JTypeInv, StateOK
<1> QED BY <1>1, <1>2, <1>3 DEF JTypeOK, States, File

\* The types hold whatever the number of programs, files and records.
THEOREM JTypeCorrect == JSpec => []JTypeOK
<1>1. JTypeInv => JTypeOK
  BY JTypeInvTypes
<1> QED BY <1>1, JTypeInvariant, PTL

-----------------------------------------------------------------------------
(* What a chain and its replay keep of one step *)

LEMMA FrontOfAppend ==
  ASSUME NEW S, NEW q \in Seq(S), NEW e \in S
  PROVE  Front(Append(q, e)) = q /\ Last(Append(q, e)) = e
<1>1. Append(q, e) \in Seq(S) /\ Len(Append(q, e)) = Len(q) + 1
      /\ Append(q, e)[Len(q) + 1] = e /\ \A i \in 1 .. Len(q) : Append(q, e)[i] = q[i]
  BY AppendProperties
<1>2. Front(Append(q, e)) = [i \in 1 .. Len(q) |-> Append(q, e)[i]]
  BY <1>1 DEF Front
<1>3. q = [i \in 1 .. Len(q) |-> q[i]]
  OBVIOUS
<1> QED BY <1>1, <1>2, <1>3 DEF Last

LEMMA AppendOfFront ==
  ASSUME NEW S, NEW q \in Seq(S), q # <<>>
  PROVE  Append(Front(q), Last(q)) = q
<1>1. PICK r \in Seq(S), e \in S : q = Append(r, e)
  BY SequenceEmptyOrAppend
<1> QED BY <1>1, FrontOfAppend

\* The chain that segment f continues.
Continued(fs, f) == ChainIn(fs, fs[f].prev)

LEMMA ChainOf ==
  ASSUME NEW w \in 0 .. MaxRecords, NEW fs, SegmentsOK(fs, w), NEW f \in 1 .. Len(fs)
  PROVE  /\ Continued(fs, f) \in Seq(1 .. f - 1) /\ Continued(fs, f) \in Seq(Nat)
         /\ ChainIn(fs, f) = Append(Continued(fs, f), f)
         /\ Front(ChainIn(fs, f)) = Continued(fs, f)
         /\ Len(ChainIn(fs, f)) = Len(Continued(fs, f)) + 1
         /\ ReplayedIn(fs, Continued(fs, f)) \in Seq(Entry)
         /\ NumberedAs(fs, f, Len(Continued(fs, f)) + 1) \in Seq(Entry)
         /\ ReplayedIn(fs, ChainIn(fs, f))
              = ReplayedIn(fs, Continued(fs, f)) \o NumberedAs(fs, f, Len(Continued(fs, f)) + 1)
<1>0. PICK c : c = ChainIn(fs, fs[f].prev)
  OBVIOUS
<1>1. Len(fs) \in Nat /\ Linked(fs, Len(fs))
  BY DEF SegmentsOK
<1>2. fs[f].prev \in 0 .. f - 1 /\ fs[f].prev \in 0 .. Len(fs) /\ f \in 0 .. Len(fs) /\ f # 0
  BY <1>1 DEF Linked
<1>3. ChainIn(fs, f) = Append(c, f)
  BY <1>0, <1>1, ChainNext
<1>4. /\ c \in Seq(1 .. fs[f].prev) /\ c \in Seq(Nat)
      /\ \A i \in 1 .. Len(c) : NumberedAs(fs, c[i], i) \in Seq(Entry)
      /\ ReplayedIn(fs, c) \in Seq(Entry)
  BY <1>0, <1>2, ReplayFits
<1>5. c \in Seq(1 .. f - 1)
  <2>1. 1 .. fs[f].prev \subseteq 1 .. f - 1
    BY <1>2
  <2>2. c \in Seq(1 .. fs[f].prev)
    BY <1>4
  <2> DEFINE A == 1 .. fs[f].prev
             B == 1 .. f - 1
  <2> HIDE DEF A, B
  <2>3. c \in Seq(A) /\ A \subseteq B
    BY <2>1, <2>2 DEF A, B
  <2>4. c \in Seq(B)
    BY <2>3, SeqMonotonic
  <2> QED BY <2>4 DEF B
<1>6. Front(ChainIn(fs, f)) = c /\ Len(ChainIn(fs, f)) = Len(c) + 1 /\ f \in Nat
  <2>1. f \in Nat
    OBVIOUS
  <2> QED BY <1>3, <1>4, <2>1, FrontOfAppend, AppendProperties
<1>7. NumberedAs(fs, f, Len(c) + 1) \in Seq(Entry)
  <2>1. Len(c) + 1 \in 1 .. MaxFiles
    BY <1>2, <1>6, ReplayFits
  <2> QED BY <2>1, NumberedType
<1>8. ReplayedIn(fs, Append(c, f)) = ReplayedIn(fs, c) \o NumberedAs(fs, f, Len(c) + 1)
  BY <1>4, <1>6, <1>7, ReplayedNext
<1> QED BY <1>0, <1>3, <1>4, <1>5, <1>6, <1>7, <1>8 DEF Continued

\* What a chain replays to is the same if no segment up to its end changes.
LEMMA ReplayKept ==
  ASSUME NEW w \in 0 .. MaxRecords, NEW fs, SegmentsOK(fs, w), NEW gs,
         NEW f \in 0 .. Len(fs), \A g \in 1 .. Len(fs) : gs[g].prev = fs[g].prev,
         \A g \in 1 .. f : gs[g].records = fs[g].records
  PROVE  /\ ChainIn(gs, f) = ChainIn(fs, f)
         /\ ReplayedIn(gs, ChainIn(gs, f)) = ReplayedIn(fs, ChainIn(fs, f))
<1>1. Len(fs) \in Nat /\ Linked(fs, Len(fs))
  BY DEF SegmentsOK
<1>2. ChainIn(gs, f) = ChainIn(fs, f)
  BY <1>1, ChainSame
<1>3. ChainIn(fs, f) \in Seq(1 .. f)
  BY ReplayFits
<1> DEFINE c == ChainIn(fs, f)
<1> HIDE DEF c
<1>4. \A i \in 1 .. Len(c) : gs[c[i]].records = fs[c[i]].records
  BY <1>3, ElementOfSeq DEF c
<1>5. ReplayedIn(gs, c) = ReplayedIn(fs, c)
  BY <1>4, ReplayedSame
<1> QED BY <1>2, <1>5 DEF c

\* The identifiers of a segment's records, when one is added.
LEMMA NumbersNext ==
  ASSUME NEW T, NEW q \in Seq(T), NEW r, NEW i, NEW S,
         Numbers(q, i) \in Seq(S), Numbers(Append(q, r), i) \in Seq(S)
  PROVE  /\ EntryOf(i, Len(q) + 1, r) \in S
         /\ Numbers(Append(q, r), i) = Append(Numbers(q, i), EntryOf(i, Len(q) + 1, r))
<1>1. PICK e : e = EntryOf(i, Len(q) + 1, r)
  OBVIOUS
<1>2. PICK g \in Seq(S) : g = Numbers(q, i)
  OBVIOUS
<1>3. PICK h \in Seq(S) : h = Numbers(Append(q, r), i)
  OBVIOUS
<1>4. Len(q) \in Nat /\ Len(g) = Len(q) /\ \A m \in 1 .. Len(q) : g[m] = EntryOf(i, m, q[m])
  BY <1>2 DEF Numbers
<1>5. Len(h) = Len(q) + 1 /\ h[Len(q) + 1] = e /\ \A m \in 1 .. Len(q) : h[m] = EntryOf(i, m, q[m])
  <2>1. PICK p : p = Append(q, r)
    OBVIOUS
  <2>2. Len(p) = Len(q) + 1 /\ p[Len(q) + 1] = r /\ \A m \in 1 .. Len(q) : p[m] = q[m]
    BY <2>1
  <2>3. h = [m \in 1 .. Len(p) |-> EntryOf(i, m, p[m])] /\ Len(p) \in Nat
    BY <1>3, <1>4, <2>1, <2>2 DEF Numbers
  <2> QED BY <1>1, <1>4, <2>2, <2>3
<1>6. e \in S
  <2>1. Len(q) + 1 \in 1 .. Len(h)
    BY <1>4, <1>5
  <2> QED BY <1>5, <2>1, ElementOfSeq
<1>7. Append(g, e) \in Seq(S) /\ Len(Append(g, e)) = Len(q) + 1
  BY <1>4, <1>6
<1>8. \A m \in 1 .. Len(q) + 1 : h[m] = Append(g, e)[m]
  BY <1>4, <1>5, <1>6
<1>9. h = Append(g, e)
  BY <1>5, <1>7, <1>8, SeqEqual
<1> QED BY <1>1, <1>2, <1>3, <1>6, <1>9

-----------------------------------------------------------------------------
(* One program at a time *)

\* Of the programs at most one runs.
Alone == \A p, q \in Running : p = q

RootsIn(fs, c) == \A i \in 1 .. Len(c) : fs[c[i]].root
ReadableIn(fs, c) == \A i \in 1 .. Len(c) : fs[c[i]].torn = FALSE

\* It appends to the last segment, which no other continues and which it wrote
\* every record of...
LastIsOwn(fs, s) ==
  /\ s.at = "named" => s.journal = Len(fs) + 1 /\ s.offset = 0
  /\ s.at \in Created =>
       /\ s.journal = Len(fs) /\ fs[s.journal].root /\ fs[s.journal].torn = FALSE
       /\ s.offset = Len(fs[s.journal].records)
  /\ s.at \in {"created", "replayed"} =>
       fs[s.journal].records = <<>> /\ fs[s.journal].prev = s.resume

\* ... which is where the link l will be, or is, if it runs in the work
\* directory...
LinkIsOwn(l, s) ==
  /\ s.at \in {"named", "created", "replayed"} /\ s.workdir => s.resume = l
  /\ s.at \in {"created", "replayed"} => l # s.journal
  /\ s.at \in {"running", "appended", "stopping"} => (l = s.journal <=> s.workdir)

\* ... and its state is what the segment's chain replays to.
Replays(fs, f) ==
  f # 0 => RootsIn(fs, ChainIn(fs, f)) /\ ReadableIn(fs, Front(ChainIn(fs, f)))

LogIsOwn(fs, s) ==
  /\ s.at \in Replaying => s.chain = ChainIn(fs, s.journal) /\ Replays(fs, s.journal)
  /\ s.at \in {"replayed", "running"} => s.log = ReplayedIn(fs, ChainIn(fs, s.journal))
  /\ s.at = "appended" => s.log = Front(ReplayedIn(fs, ChainIn(fs, s.journal)))

Owns(fs, l, s) == LastIsOwn(fs, s) /\ LinkIsOwn(l, s) /\ LogIsOwn(fs, s)

JSafe ==
  /\ Alone /\ Replays(files, latest)
  /\ \A p \in Proc : Owns(files, latest, procs[p])

JInv == JTypeInv /\ JSafe

LEMMA OffOwns ==
  ASSUME NEW fs, NEW l, NEW s, s.at = "off"
  PROVE  Owns(fs, l, s)
BY DEF Owns, LastIsOwn, LinkIsOwn, LogIsOwn, Created, Replaying

LEMMA NobodyRuns ==
  ASSUME Alone, Cardinality(Running) < 1
  PROVE  Running = {}
<1> SUFFICES ASSUME NEW p \in Running PROVE FALSE
  OBVIOUS
<1>1. Running = {p}
  BY DEF Alone
<1>2. Cardinality({p}) = 1
  BY FS_Singleton
<1> QED BY <1>1, <1>2

\* A step of the program that runs, or of one that starts when none does.
LEMMA OwnsStep ==
  ASSUME JTypeInv, JSafe, NEW p \in Proc, procs[p].at # "off" \/ Running = {}, NEW s, Set(p, s),
         Owns(files', latest', s), Replays(files', latest')
  PROVE  JSafe'
<1>1. \A q \in Proc : q # p => procs[q].at = "off"
  BY DEF JSafe, Alone, Running
<1>2. procs'[p] = s /\ \A q \in Proc : q # p => procs'[q] = procs[q]
  BY DEF Set, JTypeInv
<1>3. ASSUME NEW q \in Proc PROVE Owns(files', latest', procs'[q])
  <2>1. CASE q = p
    BY <1>2, <2>1
  <2>2. CASE q # p
    BY <1>1, <1>2, <2>2, OffOwns
  <2> QED BY <2>1, <2>2
<1>4. Alone'
  BY <1>1, <1>2 DEF Alone, Running
<1> QED BY <1>3, <1>4 DEF JSafe

LEMMA ReplaysKept ==
  ASSUME NEW w \in 0 .. MaxRecords, NEW fs, SegmentsOK(fs, w), NEW gs,
         \A g \in 1 .. Len(fs) : gs[g].prev = fs[g].prev,
         \A g \in 1 .. Len(fs) : gs[g].root = fs[g].root,
         NEW f \in 0 .. Len(fs), \A g \in 1 .. f - 1 : gs[g].torn = fs[g].torn,
         Replays(fs, f)
  PROVE  Replays(gs, f)
<1> SUFFICES ASSUME f # 0 PROVE Replays(gs, f)
  BY DEF Replays
<1>1. Len(fs) \in Nat /\ Linked(fs, Len(fs)) /\ f \in 1 .. Len(fs)
  BY DEF SegmentsOK
<1>2. ChainIn(gs, f) = ChainIn(fs, f)
  BY <1>1, ChainSame
<1>3. PICK c : c = ChainIn(fs, f)
  OBVIOUS
<1>4. PICK d : d = Front(c)
  OBVIOUS
<1>5. c \in Seq(1 .. Len(fs))
  BY <1>3, ReplayFits
<1>6. d \in Seq(1 .. f - 1)
  BY <1>1, <1>3, <1>4, ChainOf
<1>7. \A i \in 1 .. Len(c) : c[i] \in 1 .. Len(fs)
  BY <1>5, ElementOfSeq
<1>8. \A i \in 1 .. Len(d) : d[i] \in 1 .. f - 1
  BY <1>6, ElementOfSeq
<1>9. RootsIn(fs, c) /\ ReadableIn(fs, d)
  BY <1>3, <1>4 DEF Replays
<1>10. RootsIn(gs, c) /\ ReadableIn(gs, d)
  BY <1>7, <1>8, <1>9 DEF RootsIn, ReadableIn
<1> QED BY <1>2, <1>3, <1>4, <1>10 DEF Replays

\* What the steps that follow need.
LEMMA SafeFacts ==
  ASSUME JTypeInv, JSafe, NEW p \in Proc
  PROVE  /\ SegmentsOK(files, written) /\ written \in 0 .. MaxRecords
         /\ latest \in 0 .. Len(files) /\ Len(files) \in Nat
         /\ StateOK(files, written, procs[p]) /\ Owns(files, latest, procs[p])
         /\ Replays(files, latest)
BY JournalFacts DEF JTypeInv, JSafe

LEMMA StopSafe ==
  ASSUME JTypeInv, JSafe, NEW p \in Proc, procs[p].at # "off", Set(p, Off),
         files' = files, latest' = latest
  PROVE  JSafe'
<1>1. Owns(files', latest', Off)
  BY OffOwns DEF Off
<1>2. Replays(files', latest')
  BY DEF JSafe
<1> QED BY <1>1, <1>2, OwnsStep

LEMMA StartSafe ==
  ASSUME MaxRunning = 1, JTypeInv, JSafe, NEW p \in Proc, NEW workdir \in BOOLEAN,
         Start(p, workdir)
  PROVE  JSafe'
<1>1. PICK o : o = Off
  OBVIOUS
<1>2. o = [at |-> "off", journal |-> 0, resume |-> 0, workdir |-> FALSE,
           chain |-> <<>>, offset |-> 0, log |-> <<>>]
  BY <1>1 DEF Off
<1>3. PICK r \in Resumed(workdir) :
        Set(p, [o EXCEPT !.at = "named", !.journal = Len(files) + 1,
                         !.resume = r, !.workdir = workdir])
  BY <1>1 DEF Start
<1>4. PICK s : s = [o EXCEPT !.at = "named", !.journal = Len(files) + 1,
                             !.resume = r, !.workdir = workdir]
  OBVIOUS
<1>5. s = [at |-> "named", journal |-> Len(files) + 1, resume |-> r, workdir |-> workdir,
           chain |-> <<>>, offset |-> 0, log |-> <<>>]
  BY <1>2, <1>4
<1>6. workdir => r = latest
  BY DEF Resumed
<1>7. files' = files /\ latest' = latest /\ Running = {}
  BY NobodyRuns DEF Start, JSafe
<1>8. Owns(files, latest, s)
  BY <1>5, <1>6 DEF Owns, LastIsOwn, LinkIsOwn, LogIsOwn, Created, Replaying
<1>9. Replays(files, latest)
  BY DEF JSafe
<1> QED BY <1>3, <1>4, <1>7, <1>8, <1>9, OwnsStep

\* A new segment leaves the link's chain as it is.
LEMMA GrownReplays ==
  ASSUME JTypeInv, JSafe, Len(files) < MaxFiles, NEW k \in 0 .. Len(files),
         NEW root \in BOOLEAN, files' = Append(files, Segment(k, root)), latest' = latest
  PROVE  Replays(files', latest')
<1>1. \A g \in File : files'[g] = files[g]
  BY GrownFiles
<1>2. /\ \A g \in 1 .. Len(files) : files'[g].prev = files[g].prev
      /\ \A g \in 1 .. Len(files) : files'[g].root = files[g].root
      /\ \A g \in 1 .. latest - 1 : files'[g].torn = files[g].torn
  BY <1>1, JournalFacts DEF JTypeInv, File
<1>3. /\ written \in 0 .. MaxRecords /\ SegmentsOK(files, written)
      /\ latest \in 0 .. Len(files) /\ Replays(files, latest)
  BY DEF JTypeInv, JSafe
<1> QED BY <1>2, <1>3, ReplaysKept

LEMMA CreateSafe ==
  ASSUME JTypeInv, JSafe, NEW p \in Proc, CreateSegment(p)
  PROVE  JSafe'
<1>1. PICK o \in States(Len(files)) : o = procs[p]
  BY StepFacts
<1>2. o.at = "named" /\ latest' = latest
  BY <1>1 DEF CreateSegment
<1>3. o.journal = Len(files) + 1 /\ o.offset = 0 /\ (o.workdir => o.resume = latest)
  BY <1>1, <1>2, SafeFacts DEF Owns, LastIsOwn, LinkIsOwn
<1>4. o.journal \notin File /\ Len(files) < MaxFiles /\ o.resume \in 0 .. Len(files)
      /\ latest \in 0 .. Len(files) /\ Len(files) \in Nat
  BY <1>1, <1>3, SafeFacts, StepFacts DEF File, States
<1>5. files' = Append(files, Segment(o.resume, TRUE))
  BY <1>1, <1>4 DEF CreateSegment
<1>6. PICK s : s = [o EXCEPT !.at = "created"] /\ Set(p, s)
  BY <1>1, <1>4 DEF CreateSegment
<1>7. /\ s.at = "created" /\ s.journal = o.journal /\ s.resume = o.resume
      /\ s.workdir = o.workdir /\ s.offset = o.offset
  BY <1>6 DEF States
<1>8. Len(files') = Len(files) + 1 /\ files'[Len(files')] = Segment(o.resume, TRUE)
  BY <1>4, <1>5, GrownFiles
<1>9. Owns(files', latest', s)
  <2>1. files'[s.journal] = [prev |-> o.resume, root |-> TRUE, records |-> <<>>, torn |-> FALSE]
    BY <1>3, <1>7, <1>8 DEF Segment
  <2>4. /\ files'[s.journal].root = TRUE /\ files'[s.journal].torn = FALSE
        /\ files'[s.journal].records = <<>> /\ files'[s.journal].prev = s.resume
    <3>1. PICK f : f = files'[s.journal]
      OBVIOUS
    <3>2. /\ f.root = TRUE /\ f.torn = FALSE /\ f.records = <<>> /\ f.prev = o.resume
      BY <2>1, <3>1
    <3> QED BY <1>7, <3>1, <3>2
  <2>5. s.journal = Len(files') /\ s.offset = 0 /\ Len(<<>>) = 0
    BY <1>3, <1>7, <1>8
  <2>2. LastIsOwn(files', s)
    BY <1>7, <2>4, <2>5 DEF LastIsOwn, Created
  <2>3. LinkIsOwn(latest', s)
    BY <1>2, <1>3, <1>4, <1>7 DEF LinkIsOwn
  <2> QED BY <1>7, <2>2, <2>3 DEF Owns, LogIsOwn, Replaying
<1>10. Replays(files', latest')
  BY <1>2, <1>4, <1>5, GrownReplays
<1> QED BY <1>1, <1>2, <1>6, <1>9, <1>10, OwnsStep

LEMMA CrashInRootSafe ==
  ASSUME JTypeInv, JSafe, NEW p \in Proc, CrashInRoot(p)
  PROVE  JSafe'
<1>1. PICK o \in States(Len(files)) : o = procs[p]
  BY StepFacts
<1>2. /\ o.at = "named" /\ latest' = latest /\ Set(p, Off)
      /\ files' = Append(files, Segment(0, FALSE))
  BY <1>1 DEF CrashInRoot
<1>3. o.journal = Len(files) + 1
  BY <1>1, <1>2, SafeFacts DEF Owns, LastIsOwn
<1>4. Len(files) < MaxFiles /\ 0 \in 0 .. Len(files)
  BY <1>1, <1>3, StepFacts DEF States
<1>5. Replays(files', latest')
  BY <1>2, <1>4, GrownReplays
<1>6. Owns(files', latest', Off)
  BY OffOwns DEF Off
<1> QED BY <1>1, <1>2, <1>5, <1>6, OwnsStep

LEMMA ReplaySafe ==
  ASSUME JTypeInv, JSafe, NEW p \in Proc, Replay(p)
  PROVE  JSafe'
<1>1. PICK o \in States(Len(files)) : o = procs[p]
  BY StepFacts
<1>2. o.at = "created" /\ files' = files /\ latest' = latest
  BY <1>1 DEF Replay
<1> DEFINE chain == ChainTo(o.journal)
<1>3. CASE ~(RootsReadable(chain) /\ Readable(chain))
  BY <1>1, <1>2, <1>3, StopSafe DEF Replay
<1>4. CASE RootsReadable(chain) /\ Readable(chain)
  <2>1. PICK s : s = [o EXCEPT !.at = "replayed", !.chain = chain, !.log = Replayed(chain)]
                 /\ Set(p, s)
    BY <1>1, <1>4 DEF Replay
  <2>2. chain = ChainIn(files, o.journal) /\ Replayed(chain) = ReplayedIn(files, chain)
    BY ChainToIs, ReplayedIs
  <2>3. RootsIn(files, chain) /\ ReadableIn(files, chain)
    <3> HIDE DEF chain
    <3> QED BY <1>4 DEF RootsReadable, Readable, RootsIn, ReadableIn
  <2> HIDE DEF chain
  <2>4. /\ s.at = "replayed" /\ s.journal = o.journal /\ s.resume = o.resume
        /\ s.workdir = o.workdir /\ s.offset = o.offset
        /\ s.chain = chain /\ s.log = ReplayedIn(files, chain)
    BY <2>1, <2>2 DEF States
  <2>5. Owns(files, latest, o) /\ o.journal \in 1 .. Len(files)
        /\ SegmentsOK(files, written) /\ written \in 0 .. MaxRecords
    BY <1>1, <1>2, SafeFacts DEF StateOK, Created
  <2>6. ReadableIn(files, Front(chain))
    <3>1. PICK d : d = Front(chain)
      OBVIOUS
    <3>2. chain = Append(d, o.journal) /\ d \in Seq(Nat) /\ o.journal \in Nat
      BY <2>2, <2>5, <3>1, ChainOf
    <3>3. \A i \in 1 .. Len(d) : i \in 1 .. Len(chain) /\ chain[i] = d[i]
      BY <3>2, AppendProperties
    <3> QED BY <2>3, <3>1, <3>3 DEF ReadableIn
  <2>7. LogIsOwn(files, s)
    BY <2>2, <2>3, <2>4, <2>6 DEF LogIsOwn, Replays
  <2>8. LastIsOwn(files, s) /\ LinkIsOwn(latest, s)
    BY <1>2, <2>4, <2>5 DEF Owns, LastIsOwn, LinkIsOwn, Created
  <2>9. Owns(files', latest', s) /\ Replays(files', latest')
    BY <1>2, <2>7, <2>8, SafeFacts DEF Owns
  <2> QED BY <1>1, <1>2, <2>1, <2>9, OwnsStep
<1> QED BY <1>3, <1>4

LEMMA SetLatestSafe ==
  ASSUME JTypeInv, JSafe, NEW p \in Proc, SetLatest(p)
  PROVE  JSafe'
<1>1. PICK o \in States(Len(files)) : o = procs[p]
  BY StepFacts
<1>2. /\ o.at = "replayed" /\ files' = files
      /\ latest' = IF o.workdir THEN o.journal ELSE latest
  BY <1>1 DEF SetLatest, Ready
<1>3. PICK s : s = [o EXCEPT !.at = "running"] /\ Set(p, s)
  BY <1>1 DEF SetLatest
<1>4. /\ s.at = "running" /\ s.journal = o.journal /\ s.workdir = o.workdir
      /\ s.offset = o.offset /\ s.chain = o.chain /\ s.log = o.log /\ s.workdir \in BOOLEAN
  BY <1>3 DEF States
<1>5. Owns(files, latest, o) /\ Replays(files, latest)
  BY <1>1, SafeFacts
<1>6. LastIsOwn(files, s) /\ LogIsOwn(files, s) /\ Replays(files, s.journal)
  BY <1>2, <1>4, <1>5 DEF Owns, LastIsOwn, LogIsOwn, Created, Replaying
<1>7. LinkIsOwn(latest', s)
  BY <1>2, <1>4, <1>5 DEF Owns, LinkIsOwn
<1>8. Owns(files', latest', s) /\ Replays(files', latest')
  BY <1>2, <1>4, <1>5, <1>6, <1>7 DEF Owns
<1> QED BY <1>1, <1>2, <1>3, <1>8, OwnsStep

\* The facts of a step that writes a record to segment j, the last one.
Written(j) ==
  /\ j = Len(files) /\ Len(files') = Len(files)
  /\ written' \in 0 .. MaxRecords /\ SegmentsOK(files', written')
  /\ \A g \in 1 .. Len(files) : files'[g].prev = files[g].prev
  /\ \A g \in 1 .. Len(files) : files'[g].root = files[g].root
  /\ \A g \in 1 .. Len(files) : files'[g].torn = files[g].torn
  /\ \A g \in 1 .. j - 1 : files'[g].records = files[g].records
  /\ files'[j].records = Append(files[j].records, written + 1)

\* It is the next one that the segment's chain replays.
LEMMA ReplayWritten ==
  ASSUME JTypeInv, NEW j \in File, Written(j)
  PROVE  \E e \in Entry :
           ReplayedIn(files', ChainIn(files', j)) = Append(ReplayedIn(files, ChainIn(files, j)), e)
<1>0. PICK e : e = EntryOf(Len(ChainIn(files, j)), Len(files[j].records) + 1, written + 1)
  OBVIOUS
<1> USE DEF Written
<1> j \in 1 .. Len(files) /\ SegmentsOK(files, written) /\ written \in 0 .. MaxRecords
  BY DEF JTypeInv, File
<1>1. PICK k : k = files[j].prev
  OBVIOUS
<1>2. PICK c : c = ChainIn(files, k)
  OBVIOUS
<1>3. PICK d : d = ChainIn(files', k)
  OBVIOUS
<1>4. k \in 0 .. j - 1 /\ k \in 0 .. Len(files) /\ Len(files) \in Nat
  BY <1>1, SegmentType DEF SegmentsOK
<1>5. /\ c \in Seq(Nat) /\ ReplayedIn(files, c) \in Seq(Entry)
      /\ Len(ChainIn(files, j)) = Len(c) + 1
      /\ NumberedAs(files, j, Len(c) + 1) \in Seq(Entry)
      /\ ReplayedIn(files, ChainIn(files, j)) = ReplayedIn(files, c) \o NumberedAs(files, j, Len(c) + 1)
  BY <1>1, <1>2, ChainOf DEF Continued
<1>6. /\ NumberedAs(files', j, Len(d) + 1) \in Seq(Entry)
      /\ ReplayedIn(files', ChainIn(files', j)) = ReplayedIn(files', d) \o NumberedAs(files', j, Len(d) + 1)
  <2>1. j \in 1 .. Len(files') /\ d = Continued(files', j)
    BY <1>1, <1>3 DEF Continued
  <2> QED BY <2>1, ChainOf
<1>7. d = c /\ ReplayedIn(files', d) = ReplayedIn(files, c)
  <2>1. \A g \in 1 .. k : files'[g].records = files[g].records
    BY <1>4
  <2> QED BY <1>2, <1>3, <1>4, <2>1, ReplayKept
<1>8. PICK i : i = Len(c) + 1
  OBVIOUS
<1>9. PICK q \in Seq(1 .. written) : q = files[j].records
  BY SegmentType
<1>10. NumberedAs(files, j, i) = Numbers(q, i) /\ NumberedAs(files', j, i) = Numbers(Append(q, written + 1), i)
  BY <1>9 DEF NumberedAs
<1>11. /\ Numbers(q, i) \in Seq(Entry) /\ Numbers(Append(q, written + 1), i) \in Seq(Entry)
       /\ e = EntryOf(i, Len(q) + 1, written + 1)
  BY <1>0, <1>5, <1>6, <1>7, <1>8, <1>9, <1>10
<1>12. e \in Entry /\ Numbers(Append(q, written + 1), i) = Append(Numbers(q, i), e)
  BY <1>11, NumbersNext
<1>13. PICK a \in Seq(Entry), x \in Seq(Entry) : a = ReplayedIn(files, c) /\ x = Numbers(q, i)
  BY <1>5, <1>11
<1>14. a \o Append(x, e) = Append(a \o x, e)
  <2>1. e \in Entry
    BY <1>12
  <2>2. Append(x, e) \in Seq(Entry) /\ a \o x \in Seq(Entry)
    BY <2>1
  <2>3. a \o Append(x, e) \in Seq(Entry) /\ Append(a \o x, e) \in Seq(Entry)
    BY <2>1, <2>2
  <2>4. Len(a \o Append(x, e)) = Len(Append(a \o x, e))
    BY <2>1, <2>2
  <2>5. \A m \in 1 .. Len(a \o Append(x, e)) : (a \o Append(x, e))[m] = Append(a \o x, e)[m]
    BY <2>1, <2>2
  <2> QED BY <2>3, <2>4, <2>5, SeqEqual
<1> QED BY <1>5, <1>6, <1>7, <1>8, <1>10, <1>12, <1>13, <1>14

LEMMA WroteFacts ==
  ASSUME JTypeInv, JSafe, NEW p \in Proc, NEW to, procs[p].at \in {"running", "stopping"},
         Wrote(p, to)
  PROVE  procs[p].journal \in File /\ Written(procs[p].journal)
<1>0. PICK j : j = procs[p].journal
  OBVIOUS
<1>1. j \in File /\ j = Len(files) /\ Len(files) \in Nat /\ written \in Nat
  BY <1>0, SafeFacts, StepFacts DEF StateOK, Owns, LastIsOwn, Created, File
<1>2. /\ written < MaxRecords /\ written' = written + 1
      /\ files' = [files EXCEPT ![j].records = Append(@, written + 1)]
  BY <1>0 DEF Wrote
<1>3. /\ SegmentsOK(files', written + 1) /\ Len(files') = Len(files)
      /\ \A g \in File :
           /\ files'[g].prev = files[g].prev /\ files'[g].root = files[g].root
           /\ files'[g].torn = files[g].torn
           /\ files'[g].records = IF g = j THEN Append(files[g].records, written + 1)
                                           ELSE files[g].records
  BY <1>1, <1>2, WrittenFiles
<1>4. written' \in 0 .. MaxRecords
  BY <1>1, <1>2, JournalAssumption
<1>5. \A g \in 1 .. j - 1 : g \in File /\ g # j
  BY <1>1 DEF File
<1> QED BY <1>0, <1>1, <1>2, <1>3, <1>4, <1>5 DEF File, Written

LEMMA WroteSafe ==
  ASSUME JTypeInv, JSafe, NEW p \in Proc, NEW to, Wrote(p, to),
         \/ procs[p].at = "running" /\ to = "appended"
         \/ procs[p].at \in {"running", "stopping"} /\ to = "stopping"
  PROVE  JSafe'
<1>1. PICK o \in States(Len(files)) : o = procs[p]
  BY StepFacts
<1>2. PICK j : j = procs[p].journal
  OBVIOUS
<1>3. PICK s : s = [o EXCEPT !.at = to, !.offset = @ + 1] /\ Set(p, s)
  BY <1>1 DEF Wrote
<1>4. /\ s.at = to /\ s.journal = j /\ s.workdir = o.workdir
      /\ s.offset = o.offset + 1 /\ s.chain = o.chain /\ s.log = o.log
  BY <1>1, <1>2, <1>3 DEF States
<1>5. j \in File /\ Written(j)
  BY <1>2, WroteFacts
<1>6. Owns(files, latest, o) /\ o.journal = j /\ o.at \in {"running", "stopping"}
  BY <1>1, <1>2, SafeFacts
<1>7. /\ written \in 0 .. MaxRecords /\ SegmentsOK(files, written) /\ Len(files) \in Nat
      /\ latest \in 0 .. Len(files) /\ Replays(files, latest) /\ j \in 1 .. Len(files)
  BY <1>5, SafeFacts DEF File
<1>8. \A f \in 0 .. Len(files) : Replays(files, f) => Replays(files', f)
  <2> SUFFICES ASSUME NEW f \in 0 .. Len(files), Replays(files, f) PROVE Replays(files', f)
    OBVIOUS
  <2>1. \A g \in 1 .. f - 1 : files'[g].torn = files[g].torn
    BY <1>5, <1>7 DEF Written
  <2> QED BY <1>5, <1>7, <2>1, ReplaysKept DEF Written
<1>9. LastIsOwn(files', s)
  <2>1. Len(files'[j].records) = Len(files[j].records) + 1
    <3>1. files[j].records \in Seq(1 .. written)
      BY <1>7, SegmentType
    <3> QED BY <1>5, <3>1 DEF Written
  <2>2. /\ files[j].root /\ files[j].torn = FALSE /\ o.offset = Len(files[j].records)
    BY <1>6 DEF Owns, LastIsOwn, Created
  <2> QED BY <1>4, <1>5, <1>7, <2>1, <2>2 DEF LastIsOwn, Written
<1>10. LinkIsOwn(latest', s)
  BY <1>4, <1>6 DEF Owns, LinkIsOwn, Wrote
<1>11. LogIsOwn(files', s)
  <2>1. ChainIn(files', j) = ChainIn(files, j)
    <3>1. Linked(files, Len(files)) /\ j \in 0 .. Len(files)
      BY <1>7 DEF SegmentsOK
    <3>2. \A g \in 1 .. Len(files) : files'[g].prev = files[g].prev
      BY <1>5 DEF Written
    <3>3. Len(files) \in Nat
      BY <1>7
    <3> QED BY <3>1, <3>2, <3>3, ChainSame, Zenon
  <2>2. s.chain = ChainIn(files', j) /\ Replays(files', j)
    <3>1. o.chain = ChainIn(files, j) /\ Replays(files, j)
      BY <1>6 DEF Owns, LogIsOwn, Replaying
    <3> QED BY <1>4, <1>7, <1>8, <2>1, <3>1
  <2>3. to = "appended" => s.log = Front(ReplayedIn(files', ChainIn(files', j)))
    <3> SUFFICES ASSUME to = "appended"
                 PROVE  s.log = Front(ReplayedIn(files', ChainIn(files', j)))
      OBVIOUS
    <3>1. o.log = ReplayedIn(files, ChainIn(files, j))
      BY <1>1, <1>6 DEF Owns, LogIsOwn
    <3>3. PICK e \in Entry :
            ReplayedIn(files', ChainIn(files', j)) = Append(ReplayedIn(files, ChainIn(files, j)), e)
      BY <1>5, ReplayWritten
    <3>4. ReplayedIn(files, ChainIn(files, j)) \in Seq(Entry)
      BY <1>7, ReplayFits
    <3> QED BY <1>4, <3>1, <3>3, <3>4, FrontOfAppend
  <2> QED BY <1>4, <2>2, <2>3 DEF LogIsOwn
<1>12. Owns(files', latest', s) /\ Replays(files', latest')
  BY <1>7, <1>8, <1>9, <1>10, <1>11 DEF Owns, Wrote
<1> QED BY <1>1, <1>3, <1>6, <1>12, OwnsStep

LEMMA CrashInWriteSafe ==
  ASSUME JTypeInv, JSafe, NEW p \in Proc, CrashInWrite(p)
  PROVE  JSafe'
<1>1. PICK j : j = procs[p].journal
  OBVIOUS
<1>2. /\ procs[p].at \in {"running", "stopping"} /\ Set(p, Off) /\ latest' = latest
      /\ files' = [files EXCEPT ![j].torn = TRUE]
  BY <1>1 DEF CrashInWrite
<1>3. /\ j \in File /\ j = Len(files) /\ latest \in 0 .. Len(files) /\ Len(files) \in Nat
      /\ SegmentsOK(files, written) /\ written \in 0 .. MaxRecords /\ Replays(files, latest)
  BY <1>1, <1>2, SafeFacts DEF StateOK, Owns, LastIsOwn, Created, File
<1>4. \A g \in File :
        /\ files'[g].prev = files[g].prev /\ files'[g].root = files[g].root
        /\ g # j => files'[g].torn = files[g].torn
  BY <1>2, <1>3, TornFiles
<1>5. \A g \in 1 .. latest - 1 : files'[g].torn = files[g].torn
  BY <1>3, <1>4 DEF File
<1>6. Replays(files', latest)
  BY <1>3, <1>4, <1>5, ReplaysKept DEF File
<1>7. Owns(files', latest', Off)
  BY OffOwns DEF Off
<1> QED BY <1>2, <1>6, <1>7, OwnsStep

LEMMA ApplySafe ==
  ASSUME JTypeInv, JSafe, NEW p \in Proc, ApplyRecord(p)
  PROVE  JSafe'
<1>1. PICK o \in States(Len(files)) : o = procs[p]
  BY StepFacts
<1>2. o.at = "appended" /\ files' = files /\ latest' = latest
  BY <1>1 DEF ApplyRecord
<1>3. PICK j : j = o.journal
  OBVIOUS
<1>4. PICK e : e = EntryOf(Len(o.chain), o.offset, Last(files[j].records))
  OBVIOUS
<1>5. PICK s : s = [o EXCEPT !.at = "running", !.log = Append(@, e)] /\ Set(p, s)
  BY <1>1, <1>3, <1>4 DEF ApplyRecord, Identifier, EntryOf
<1>6. /\ s.at = "running" /\ s.journal = j /\ s.workdir = o.workdir
      /\ s.offset = o.offset /\ s.chain = o.chain /\ s.log = Append(o.log, e)
  BY <1>3, <1>5 DEF States
<1>7. /\ Owns(files, latest, o) /\ Replays(files, latest) /\ j \in 1 .. Len(files)
      /\ SegmentsOK(files, written) /\ written \in 0 .. MaxRecords
      /\ files[j].records # <<>>
  BY <1>1, <1>2, <1>3, SafeFacts DEF StateOK, Created
<1>8. LastIsOwn(files, s) /\ LinkIsOwn(latest, s)
  BY <1>2, <1>3, <1>6, <1>7 DEF Owns, LastIsOwn, LinkIsOwn, Created
<1>9. s.log = ReplayedIn(files, ChainIn(files, j))
  <2>1. PICK d : d = Continued(files, j)
    OBVIOUS
  <2>2. PICK i : i = Len(d) + 1
    OBVIOUS
  <2>3. o.log = Front(ReplayedIn(files, ChainIn(files, j))) /\ o.chain = ChainIn(files, j)
        /\ o.offset = Len(files[j].records)
    BY <1>2, <1>3, <1>7 DEF Owns, LogIsOwn, LastIsOwn, Replaying, Created
  <2>4. PICK q \in Seq(1 .. written), r \in 1 .. written : files[j].records = Append(q, r)
    <3>1. files[j].records \in Seq(1 .. written)
      BY <1>7, SegmentType
    <3> QED BY <1>7, <3>1, SequenceEmptyOrAppend
  <2>5. /\ ReplayedIn(files, d) \in Seq(Entry) /\ NumberedAs(files, j, i) \in Seq(Entry)
        /\ ReplayedIn(files, ChainIn(files, j)) = ReplayedIn(files, d) \o NumberedAs(files, j, i)
        /\ Len(ChainIn(files, j)) = i
    BY <1>7, <2>1, <2>2, ChainOf
  <2>6. PICK y \in Seq(Entry) : y = NumberedAs(files, j, i)
    BY <2>5
  <2>7. PICK m : m = Len(files[j].records)
    OBVIOUS
  <2>8. m \in Nat \ {0} /\ Last(files[j].records) = files[j].records[m]
    BY <2>4, <2>7 DEF Last
  <2>9. Len(y) = m /\ y[m] = e
    <3>1. y = [n \in 1 .. m |-> EntryOf(i, n, files[j].records[n])]
      BY <2>6, <2>7 DEF NumberedAs, Numbers
    <3>2. e = EntryOf(i, m, files[j].records[m])
      BY <1>4, <2>3, <2>5, <2>7, <2>8
    <3> QED BY <2>8, <3>1, <3>2
  <2>10. PICK a \in Seq(Entry), x \in Seq(Entry) :
           a = ReplayedIn(files, d) /\ x = ReplayedIn(files, ChainIn(files, j)) /\ x = a \o y
    <3>1. ReplayedIn(files, ChainIn(files, j)) \in Seq(Entry)
      BY <1>7, ReplayFits
    <3> QED BY <2>5, <2>6, <3>1
  <2>11. x # <<>> /\ Last(x) = e
    <3>1. Len(x) = Len(a) + m /\ x[Len(a) + m] = y[m]
      BY <2>8, <2>9, <2>10, ConcatProperties
    <3> QED BY <2>8, <2>9, <3>1 DEF Last
  <2> QED BY <1>6, <2>3, <2>10, <2>11, AppendOfFront
<1>10. LogIsOwn(files, s)
  BY <1>2, <1>3, <1>6, <1>7, <1>9 DEF Owns, LogIsOwn, Replaying
<1>11. Owns(files', latest', s) /\ Replays(files', latest')
  BY <1>2, <1>7, <1>8, <1>10 DEF Owns
<1> QED BY <1>1, <1>2, <1>5, <1>11, OwnsStep

LEMMA JSafeInit ==
  ASSUME JInit
  PROVE  JSafe
<1>1. \A p \in Proc : procs[p] = Off /\ procs[p].at = "off"
  BY DEF JInit, Off
<1>2. \A p \in Proc : Owns(files, latest, procs[p])
  BY <1>1, OffOwns
<1>3. Alone
  BY <1>1 DEF Alone, Running
<1>4. Replays(files, latest)
  BY DEF JInit, Replays
<1> QED BY <1>2, <1>3, <1>4 DEF JSafe

LEMMA JSafeNext ==
  ASSUME MaxRunning = 1, JTypeInv, JSafe, [JNext]_jvars
  PROVE  JSafe'
<1>1. CASE UNCHANGED jvars
  BY <1>1 DEF jvars, JSafe, Alone, Running
<1>2. CASE JNext
  <2>1. PICK p \in Proc :
          \/ \E workdir \in BOOLEAN : Start(p, workdir)
          \/ CreateSegment(p) \/ CrashInRoot(p) \/ Replay(p) \/ SetLatest(p)
          \/ AppendRecord(p) \/ Shutdown(p) \/ CrashInWrite(p) \/ ApplyRecord(p) \/ Stop(p)
    BY <1>2 DEF JNext
  <2>2. CASE \E workdir \in BOOLEAN : Start(p, workdir)
    BY <2>2, StartSafe
  <2>3. CASE CreateSegment(p)
    BY <2>3, CreateSafe
  <2>4. CASE CrashInRoot(p)
    BY <2>4, CrashInRootSafe
  <2>5. CASE Replay(p)
    BY <2>5, ReplaySafe
  <2>6. CASE SetLatest(p)
    BY <2>6, SetLatestSafe
  <2>7. CASE AppendRecord(p)
    BY <2>7, WroteSafe DEF AppendRecord
  <2>8. CASE Shutdown(p)
    BY <2>8, WroteSafe DEF Shutdown
  <2>9. CASE CrashInWrite(p)
    BY <2>9, CrashInWriteSafe
  <2>10. CASE ApplyRecord(p)
    BY <2>10, ApplySafe
  <2>11. CASE Stop(p)
    BY <2>11, StopSafe DEF Stop
  <2> QED BY <2>1, <2>2, <2>3, <2>4, <2>5, <2>6, <2>7, <2>8, <2>9, <2>10, <2>11
<1> QED BY <1>1, <1>2

\* The invariant of the programs that run one after another.
THEOREM JournalInvariant ==
  ASSUME MaxRunning = 1
  PROVE  JSpec => []JInv
<1>1. JInit => JInv
  BY JTypeInit, JSafeInit DEF JInv
<1>2. JInv /\ [JNext]_jvars => JInv'
  BY JTypeNext, JSafeNext DEF JInv
<1> QED BY <1>1, <1>2, PTL DEF JSpec

LEMMA JInvChainIsLog ==
  ASSUME JInv
  PROVE  ChainIsLog
<1> SUFFICES ASSUME NEW p \in Proc
             PROVE  LET replayed == Replayed(ChainTo(procs[p].journal))
                    IN /\ procs[p].at \in {"replayed", "running"} => procs[p].log = replayed
                       /\ procs[p].at = "appended" => procs[p].log = Front(replayed)
  BY DEF ChainIsLog
<1>1. Replayed(ChainTo(procs[p].journal)) = ReplayedIn(files, ChainIn(files, procs[p].journal))
  BY ReplayedIs, ChainToIs
<1>2. LogIsOwn(files, procs[p])
  BY DEF JInv, JSafe, Owns
<1> QED BY <1>1, <1>2 DEF LogIsOwn

\* Whatever was crashed, torn or stopped before, a program's state and the
\* identifiers that its agents remember are what its journal replays to, but
\* for the record written and not yet applied.
THEOREM ChainIsLogCorrect ==
  ASSUME MaxRunning = 1
  PROVE  JSpec => []ChainIsLog
<1>1. JInv => ChainIsLog
  BY JInvChainIsLog
<1> QED BY <1>1, JournalInvariant, PTL

\* The link never names a chain whose replay would fail for a missing root or a
\* record torn in an earlier segment; the last segment may be torn, and then fails.
THEOREM LatestReplaysCorrect ==
  ASSUME MaxRunning = 1
  PROVE  JSpec => []LatestReplays
<1>1. JInv => LatestReplays
  <2> SUFFICES ASSUME Replays(files, latest), latest # 0 PROVE LatestReplays
    BY DEF JInv, JSafe, LatestReplays
  <2>1. ChainTo(latest) = ChainIn(files, latest)
    BY ChainToIs
  <2> QED BY <2>1 DEF Replays, RootsIn, ReadableIn, LatestReplays, RootsReadable, Readable
<1> QED BY <1>1, JournalInvariant, PTL

-----------------------------------------------------------------------------
(* The journal of a work directory implements the abstract log *)

\* What the link's chain replays to is kept, or gains a record at its end.
Durable ==
  LET log == ReplayedIn(files, ChainIn(files, latest))
  IN log' = log \/ \E e \in Entry : log' = Append(log, e)

\* A step that keeps the records and the link, and adds segments at the end.
LEMMA KeptDurable ==
  ASSUME JTypeInv, latest' = latest,
         \A g \in File : files'[g].prev = files[g].prev /\ files'[g].records = files[g].records
  PROVE  Durable
<1>1. /\ SegmentsOK(files, written) /\ written \in 0 .. MaxRecords /\ latest \in 0 .. Len(files)
      /\ Len(files) \in Nat
  BY JournalFacts DEF JTypeInv
<1>2. /\ \A g \in 1 .. Len(files) : files'[g].prev = files[g].prev
      /\ \A g \in 1 .. latest : files'[g].records = files[g].records
  BY <1>1 DEF File
<1>3. ReplayedIn(files', ChainIn(files', latest)) = ReplayedIn(files, ChainIn(files, latest))
  BY <1>1, <1>2, ReplayKept
<1> QED BY <1>3 DEF Durable

\* The link moves from the segment that the new one continues, and the new one
\* has no record yet.
LEMMA SetLatestDurable ==
  ASSUME JTypeInv, JSafe, NEW p \in Proc, SetLatest(p)
  PROVE  Durable
<1>1. PICK s : s = procs[p]
  OBVIOUS
<1>2. s.at = "replayed" /\ files' = files /\ latest' = IF s.workdir THEN s.journal ELSE latest
  BY <1>1 DEF SetLatest, Ready
<1>3. CASE ~s.workdir
  BY <1>2, <1>3, KeptDurable
<1>4. CASE s.workdir
  <2>1. PICK j : j = s.journal
    OBVIOUS
  <2>2. /\ j \in 1 .. Len(files) /\ files[j].records = <<>> /\ files[j].prev = latest
        /\ SegmentsOK(files, written) /\ written \in 0 .. MaxRecords
    BY <1>1, <1>2, <1>4, <2>1, SafeFacts DEF StateOK, Created, Owns, LastIsOwn, LinkIsOwn
  <2>3. PICK c : c = ChainIn(files, latest)
    OBVIOUS
  <2>4. ReplayedIn(files, ChainIn(files, j))
          = ReplayedIn(files, c) \o NumberedAs(files, j, Len(c) + 1)
        /\ ReplayedIn(files, c) \in Seq(Entry)
    BY <2>2, <2>3, ChainOf DEF Continued
  <2>5. NumberedAs(files, j, Len(c) + 1) = <<>>
    BY <2>2 DEF NumberedAs, Numbers
  <2>6. ReplayedIn(files, ChainIn(files, j)) = ReplayedIn(files, c)
    BY <2>4, <2>5, ConcatEmptySeq
  <2> QED BY <1>2, <1>4, <2>1, <2>3, <2>6 DEF Durable
<1> QED BY <1>3, <1>4

LEMMA WroteDurable ==
  ASSUME JTypeInv, JSafe, NEW p \in Proc, NEW to, Wrote(p, to),
         procs[p].at \in {"running", "stopping"}
  PROVE  Durable
<1>1. PICK j : j = procs[p].journal
  OBVIOUS
<1>2. j \in File /\ Written(j)
  BY <1>1, WroteFacts
<1>0. latest' = latest
  BY DEF Wrote
<1>3. CASE latest = j
  BY <1>2, <1>0, <1>3, ReplayWritten DEF Durable
<1>4. CASE latest # j
  <2>1. /\ SegmentsOK(files, written) /\ written \in 0 .. MaxRecords /\ latest \in 0 .. Len(files)
        /\ Len(files) \in Nat
    BY JournalFacts DEF JTypeInv
  <2>2. /\ \A g \in 1 .. Len(files) : files'[g].prev = files[g].prev
        /\ \A g \in 1 .. latest : files'[g].records = files[g].records
    BY <1>2, <1>4, <2>1 DEF Written
  <2>3. ReplayedIn(files', ChainIn(files', latest)) = ReplayedIn(files, ChainIn(files, latest))
    BY <2>1, <2>2, ReplayKept
  <2> QED BY <1>0, <2>3 DEF Durable
<1> QED BY <1>3, <1>4

LEMMA GrownDurable ==
  ASSUME JTypeInv, JSafe, NEW p \in Proc, procs[p].at = "named", latest' = latest,
         NEW k \in 0 .. Len(files), NEW root \in BOOLEAN, files' = Append(files, Segment(k, root))
  PROVE  Durable
<1>1. Len(files) < MaxFiles
  <2>1. procs[p].journal = Len(files) + 1 /\ procs[p].journal \in 0 .. MaxFiles
    BY SafeFacts, StepFacts DEF Owns, LastIsOwn, States
  <2> QED BY <2>1, StepFacts
<1>2. \A g \in File : files'[g] = files[g]
  BY <1>1, GrownFiles
<1> QED BY <1>2, KeptDurable

LEMMA CrashInWriteDurable ==
  ASSUME JTypeInv, JSafe, NEW p \in Proc, CrashInWrite(p)
  PROVE  Durable
<1>1. PICK j : j = procs[p].journal
  OBVIOUS
<1>2. /\ j \in File /\ latest' = latest /\ files' = [files EXCEPT ![j].torn = TRUE]
  BY <1>1, SafeFacts DEF CrashInWrite, StateOK, Created, File
<1>3. \A g \in File : files'[g].prev = files[g].prev /\ files'[g].records = files[g].records
  BY <1>2, TornFiles
<1> QED BY <1>2, <1>3, KeptDurable

LEMMA DurableNext ==
  ASSUME JTypeInv, JSafe, [JNext]_jvars
  PROVE  Durable
<1>1. CASE files' = files /\ latest' = latest
  BY <1>1, KeptDurable
<1>2. CASE JNext
  <2>1. PICK p \in Proc :
          \/ \E workdir \in BOOLEAN : Start(p, workdir)
          \/ CreateSegment(p) \/ CrashInRoot(p) \/ Replay(p) \/ SetLatest(p)
          \/ AppendRecord(p) \/ Shutdown(p) \/ CrashInWrite(p) \/ ApplyRecord(p) \/ Stop(p)
    BY <1>2 DEF JNext
  <2>2. CASE \/ \E workdir \in BOOLEAN : Start(p, workdir)
             \/ Replay(p) \/ ApplyRecord(p) \/ Stop(p)
    BY <2>2, <1>1 DEF Start, Replay, ApplyRecord, Stop
  <2>3. CASE CreateSegment(p)
    <3>1. procs[p].resume \in 0 .. Len(files)
      BY StepFacts DEF States
    <3> QED BY <2>3, <3>1, <1>1, GrownDurable DEF CreateSegment
  <2>4. CASE CrashInRoot(p)
    <3>1. 0 \in 0 .. Len(files)
      BY JournalFacts
    <3> QED BY <2>4, <3>1, GrownDurable DEF CrashInRoot
  <2>5. CASE SetLatest(p)
    BY <2>5, SetLatestDurable
  <2>6. CASE AppendRecord(p)
    BY <2>6, WroteDurable DEF AppendRecord
  <2>7. CASE Shutdown(p)
    BY <2>7, WroteDurable DEF Shutdown
  <2>8. CASE CrashInWrite(p)
    BY <2>8, CrashInWriteDurable
  <2> QED BY <2>1, <2>2, <2>3, <2>4, <2>5, <2>6, <2>7, <2>8
<1> QED BY <1>1, <1>2 DEF jvars

\* Starting, crashing, tearing and stopping change nothing of what a work
\* directory replays to, and records are added at its end only.
THEOREM DurableLogCorrect ==
  ASSUME MaxRunning = 1
  PROVE  JSpec => DurableLog
<1>1. JInit => L!LInit
  <2> SUFFICES ASSUME JInit PROVE Replayed(ChainTo(latest)) = <<>>
    BY DEF L!LInit
  <2>1. Linked(files, 0) /\ latest = 0
    BY DEF JInit, Linked
  <2>2. ChainTo(latest) = <<>>
    BY <2>1, ChainToIs, ChainNext
  <2>3. Replayed(<<>>) = <<>>
    BY FlattenSeqEmpty DEF Replayed
  <2> QED BY <2>2, <2>3
<1>2. JInv /\ [JNext]_jvars => [L!Write]_(Replayed(ChainTo(latest)))
  <2> SUFFICES ASSUME JInv, [JNext]_jvars
               PROVE  [L!Write]_(Replayed(ChainTo(latest)))
    OBVIOUS
  <2>1. Durable
    BY DurableNext DEF JInv
  <2>2. Replayed(ChainTo(latest)) = ReplayedIn(files, ChainIn(files, latest))
    BY ReplayedIs, ChainToIs
  <2>3. Replayed(ChainTo(latest))' = ReplayedIn(files', ChainIn(files', latest'))
    BY DEF Replayed, Numbered, ReplayedIn, NumberedAs, Numbers, EntryOf, ChainTo, ChainIn
  <2> QED BY <2>1, <2>2, <2>3 DEF Durable, L!Write
<1> QED BY <1>1, <1>2, JournalInvariant, PTL DEF JSpec, DurableLog, L!LSpec
=============================================================================
