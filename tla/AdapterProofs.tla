---------------------------- MODULE AdapterProofs ----------------------------
(***************************************************************************)
(* Proofs about the adapters: login and shell, for any messages and        *)
(* commands, pipes of any capacity, and whatever the processes they start  *)
(* print and do; one written with LLMAgent, for any agents and plans; what *)
(* any of them is told of its agent's past when it is started; the pipes   *)
(* between them and the loop; and all the edges together.                  *)
(***************************************************************************)
EXTENDS Edges, ScreenProofs, Induction, TLAPS

-----------------------------------------------------------------------------
(* Login: a shell that died is reported *)

\* A call that came to a dead shell types something, and the shell stays dead
\* until the call has returned.
DoomedCall ==
  /\ terminal = "none" <=> child = "none"
  /\ at \in Calling /\ doomed => child = "dead" /\ script # <<>>
  /\ DeathReported

LEMMA TerminatedTyped ==
  ASSUME NEW body \in Bodies
  PROVE  Terminated(body) # <<>>
<1>1. body \in Seq({"nl", "a", "b"})
  BY LoginAssumption
<1>2. CASE body = <<>>
  BY <1>1, <1>2 DEF Terminated
<1>3. CASE body # <<>>
  BY <1>1, <1>3 DEF Terminated
<1>. QED
  BY <1>2, <1>3

LEMMA DoomedInit == LgInit => DoomedCall
  BY DEF LgInit, DoomedCall, DeathReported, Calling

LEMMA DoomedStep ==
  ASSUME DoomedCall, [LgNext]_lgvars
  PROVE  DoomedCall'
<1>1. ASSUME NEW body \in Bodies, Begin(body)  PROVE DoomedCall'
  <2>1. /\ at = "idle" /\ doomed' = (child = "dead")
        /\ IF terminal = "none"
           THEN terminal' = "known" /\ child' = "running" /\ at' = "read"
           ELSE /\ at' = "line" /\ script' = Terminated(body)
                /\ child' = child /\ terminal' = terminal
    BY <1>1 DEF Begin, Started, shell
  <2>2. Terminated(body) # <<>>
    BY TerminatedTyped
  <2>. QED
    BY <2>1, <2>2 DEF DoomedCall, DeathReported, Calling
<1>2. CASE ReadReturns
  <2> DEFINE exited == at = "eof" \/ ChildExited
             shown == StripAnsi(delta)
  <2>1. at \in {"quiet", "eof"} /\ doomed' = doomed /\ script' = script
    BY <1>2 DEF ReadReturns, Answers, Goes
  <2>2. CASE script # <<>> /\ exited
    <3>1. /\ at' = "idle" /\ answer' = "exit" /\ terminal' = "none" /\ child' = "none"
      BY <1>2, <2>2 DEF ReadReturns, Answers, Stopped
    <3>. QED  BY <3>1 DEF DoomedCall, DeathReported, Calling
  <2>3. CASE ~(script # <<>> /\ exited)
    <3>1. /\ child' = child
          /\ terminal' = IF ChildExited THEN "reaped" ELSE terminal
          /\ at' \in {"idle", "line"}
      BY <1>2, <2>3 DEF ReadReturns, Answers, Goes, shell
    <3>2. ~doomed
      BY <2>1, <2>3 DEF DoomedCall, ChildExited, Calling
    <3>3. ChildExited => child # "none"
      <4>1. terminal = "reaped" => terminal # "none"
        OBVIOUS
      <4>. QED  BY <4>1 DEF ChildExited, DoomedCall
    <3>. QED  BY <2>1, <3>1, <3>2, <3>3 DEF DoomedCall, DeathReported, Calling
  <2>. QED
    BY <2>2, <2>3
<1>3. CASE OnExit
  BY <1>3 DEF OnExit, Stopped, call, DoomedCall, DeathReported, Calling
<1>4. CASE Read \/ ReadEnds \/ Silence \/ TypeLine
  <2>1. /\ at \in Calling /\ at' \in Calling \cup {"failed"}
        /\ child' = child /\ terminal' = terminal /\ doomed' = doomed /\ script' = script
    BY <1>4 DEF Read, ReadEnds, Silence, TypeLine, shell, call, Calling
  <2>. QED
    BY <2>1 DEF DoomedCall, DeathReported, Calling
<1>5. CASE HangUp \/ Die \/ \E c \in Printed : Shows(c)
  <2>1. /\ at' = at /\ terminal' = terminal /\ doomed' = doomed /\ script' = script
        /\ answer' = answer
        /\ child' = child \/ (child = "running" /\ child' = "dead")
    BY <1>5 DEF HangUp, Die, Shows, call
  <2>. QED
    BY <2>1 DEF DoomedCall, DeathReported, Calling
<1>6. CASE UNCHANGED lgvars
  BY <1>6 DEF lgvars, shell, call, DoomedCall, DeathReported, Calling
<1>. QED
  BY <1>1, <1>2, <1>3, <1>4, <1>5, <1>6 DEF LgNext, LoginSteps

\* Whatever the shell printed, and whenever it died, a call that came to a dead
\* shell is answered by "exit" and leaves no terminal.
THEOREM DeathReportedCorrect == LgSpec => []DeathReported
<1>1. DoomedCall => DeathReported
  BY DEF DoomedCall
<1>2. DoomedCall /\ [LgNext]_lgvars => DoomedCall'
  BY DoomedStep
<1>. QED
  BY DoomedInit, <1>1, <1>2, PTL DEF LgSpec

-----------------------------------------------------------------------------
(* Shell: nothing a command wrote is lost *)

Counts == [out : Nat, err : Nat]

\* What was written is in the pipe or was read, and the ends of the pipes that
\* the adapter has seen came after everything in them.
OutputKept ==
  /\ wrote \in Counts /\ collected \in Counts
  /\ pipe \in [in : Nat, out : Nat, err : Nat]
  /\ wrote.out = collected.out + pipe.out
  /\ wrote.err = collected.err + pipe.err
  /\ stage \in {"stderr", "wait"} => ~running /\ pipe.out = 0
  /\ stage = "wait" => pipe.err = 0

LEMMA OutputInit == ShInit => OutputKept
  BY DEF ShInit, OutputKept, NothingYet, Counts

LEMMA OutputStep ==
  ASSUME OutputKept, [ShNext]_shvars
  PROVE  OutputKept'
<1>. USE DEF OutputKept, Counts
<1>1. ASSUME NEW e \in {"out", "err"}, Writes(e)  PROVE OutputKept'
  <2>1. /\ pipe' = [pipe EXCEPT ![e] = @ + 1] /\ wrote' = [wrote EXCEPT ![e] = @ + 1]
        /\ running /\ running' = running /\ stage' = stage /\ collected' = collected
    BY <1>1 DEF Writes, Done
  <2>. QED  BY <2>1
<1>2. CASE ReadsBody
  <2>1. /\ pipe' \in {pipe, [pipe EXCEPT !.in = @ - 1]} /\ (pipe' # pipe => pipe.in > 0)
        /\ running /\ running' = running /\ stage' = stage /\ collected' = collected
        /\ wrote' = wrote
    BY <1>2 DEF ReadsBody, Done
  <2>. QED  BY <2>1
<1>3. CASE ReadsMail \/ MailComes \/ Exits \/ Replies
  BY <1>3 DEF ReadsMail, MailComes, Exits, Replies, Done
<1>4. CASE Feeds
  <2>1. /\ pipe' \in {pipe, [pipe EXCEPT !.in = @ + 1]}
        /\ running' = running /\ stage' = stage /\ collected' = collected /\ wrote' = wrote
    BY <1>4 DEF Feeds
  <2>. QED  BY <2>1
<1>5. CASE Collects("out", "stdout", "stderr")
  BY <1>5 DEF Collects, End
<1>6. CASE Collects("err", "stderr", "wait")
  BY <1>6 DEF Collects, End
<1>7. ASSUME NEW steps \in Commands, NEW size \in Sizes, RunCommand(steps, size)
      PROVE  OutputKept'
  BY <1>7 DEF RunCommand, NothingYet
<1>8. CASE UNCHANGED shvars
  BY <1>8 DEF shvars
<1>. QED
  BY <1>1, <1>2, <1>3, <1>4, <1>5, <1>6, <1>7, <1>8 DEF ShNext, ShellSteps

\* However a command's writes, the writer and the adapter's reads interleave,
\* and whatever a pipe holds, the answer has all that the command wrote.
THEOREM WholeOutputCorrect == ShSpec => []WholeOutput
<1>1. OutputKept => WholeOutput
  BY DEF OutputKept, WholeOutput, Counts
<1>2. OutputKept /\ [ShNext]_shvars => OutputKept'
  BY OutputStep
<1>. QED
  BY OutputInit, <1>1, <1>2, PTL DEF ShSpec

-----------------------------------------------------------------------------
(* Sequences *)

LEMMA AppendIs ==
  ASSUME NEW S, NEW s \in Seq(S), NEW e \in S, NEW t \in Seq(S), Len(t) = Len(s) + 1,
         \A i \in 1 .. Len(s) : t[i] = s[i], t[Len(s) + 1] = e
  PROVE  t = Append(s, e)
<1>. DEFINE n == Len(s)
<1>1. n \in Nat
  OBVIOUS
<1>2. PICK a : a = Append(s, e)
  OBVIOUS
<1>3. a \in Seq(S) /\ Len(a) = n + 1 /\ a[n + 1] = e /\ \A i \in 1 .. n : a[i] = s[i]
  BY <1>2
<1>4. ASSUME NEW i \in 1 .. n + 1  PROVE t[i] = a[i]
  <2>1. i \in 1 .. n \/ i = n + 1
    BY <1>1
  <2>. QED
    BY <2>1, <1>3
<1>5. t = a
  BY <1>1, <1>3, <1>4
<1>. QED
  BY <1>2, <1>5

LEMMA PairIs ==
  ASSUME NEW S, NEW x \in S, NEW y \in S, NEW s \in Seq(S)
  PROVE  <<x>> \o <<y>> = <<x, y>> /\ s \o <<x, y>> = Append(Append(s, x), y)
<1>1. PICK t : t = <<x>>
  OBVIOUS
<1>2. t \in Seq(S) /\ Len(t) = 1 /\ t[1] = x
  BY <1>1
<1>3. t \o <<y>> = Append(t, y)
  BY <1>2, AppendIsConcat
<1>4. Append(t, y) = <<x, y>>
  <2>1. PICK q : q = <<x, y>>
    OBVIOUS
  <2>2. q \in Seq(S) /\ Len(q) = 2 /\ q[1] = x /\ q[2] = y
    BY <2>1
  <2>3. Len(q) = Len(t) + 1 /\ q[Len(t) + 1] = y /\ \A i \in 1 .. Len(t) : q[i] = t[i]
    BY <2>2, <1>2
  <2>. QED
    BY <2>1, <2>2, <2>3, <1>2, AppendIs
<1>5. PICK u, v : u = Append(s, x) /\ v = s \o <<x, y>>
  OBVIOUS
<1>6. u \in Seq(S) /\ Len(u) = Len(s) + 1 /\ u = s \o t /\ Len(s) \in Nat
  BY <1>1, <1>5, AppendIsConcat, AppendProperties
<1>7. Append(u, y) = u \o <<y>>
  BY <1>6, AppendIsConcat
<1>8. (s \o t) \o <<y>> = s \o (t \o <<y>>)
  <2>1. <<y>> \in Seq(S)
    OBVIOUS
  <2>. QED
    BY <2>1, <1>2, ConcatAssociative
<1>. QED
  BY <1>1, <1>3, <1>4, <1>5, <1>6, <1>7, <1>8

LEMMA LastReplaced ==
  ASSUME NEW S, NEW s \in Seq(S), NEW e \in S, NEW f \in S
  PROVE  [Append(s, e) EXCEPT ![Len(Append(s, e))] = f] = Append(s, f)
<1>. DEFINE n == Len(s)
<1>1. n \in Nat
  OBVIOUS
<1>2. PICK a : a = Append(s, e)
  OBVIOUS
<1>3. a \in Seq(S) /\ Len(a) = n + 1 /\ a[n + 1] = e /\ \A i \in 1 .. n : a[i] = s[i]
  BY <1>2
<1>4. PICK t : t = [a EXCEPT ![n + 1] = f]
  OBVIOUS
<1>5. t \in Seq(S) /\ Len(t) = n + 1
  BY <1>1, <1>3, <1>4
<1>6. /\ t[n + 1] = f
      /\ \A i \in 1 .. n : t[i] = s[i]
  BY <1>1, <1>3, <1>4
<1>7. t = Append(s, f)
  BY <1>5, <1>6, AppendIs
<1>. QED
  BY <1>2, <1>3, <1>4, <1>7

\* A sequence that is not empty is one to which its last element was added.
LEMMA Split ==
  ASSUME NEW S, NEW s \in Seq(S), s # <<>>
  PROVE  /\ Front(s) \in Seq(S) /\ Len(Front(s)) = Len(s) - 1 /\ Last(s) \in S
         /\ Len(s) \in Nat /\ Len(s) >= 1 /\ Last(s) = s[Len(s)]
         /\ s = Append(Front(s), Last(s))
         /\ \A i \in 1 .. Len(s) - 1 : Front(s)[i] = s[i]
<1>. DEFINE n == Len(s)
<1>1. n \in Nat /\ n >= 1 /\ n \in 1 .. n /\ s[n] \in S
  OBVIOUS
<1>2. n - 1 \in 0 .. n
  BY <1>1
<1>3. PICK k \in 0 .. n : k = n - 1
  BY <1>2
<1>4. PICK r : r = SubSeq(s, 1, k)
  OBVIOUS
<1>5. r \in Seq(S) /\ Len(r) = k /\ \A i \in 1 .. k : r[i] = s[i]
  BY <1>4
<1>6. PICK e : e = s[n]
  OBVIOUS
<1>7. s = Append(r, e)
  <2>1. /\ Append(r, e) \in Seq(S) /\ Len(Append(r, e)) = n
        /\ \A i \in 1 .. n : Append(r, e)[i] = s[i]
    BY <1>1, <1>3, <1>5, <1>6
  <2>. QED
    BY <2>1
<1>. QED
  BY <1>1, <1>3, <1>4, <1>5, <1>6, <1>7 DEF Front, Last

LEMMA RemoveAtType ==
  ASSUME NEW S, NEW q \in Seq(S), NEW i \in 1 .. Len(q)
  PROVE  RemoveAt(q, i) \in Seq(S)
<1>1. i \in Int /\ Len(q) \in Int /\ i - 1 \in Int /\ i + 1 \in Int /\ 1 \in Int
  OBVIOUS
<1>2. /\ \A k \in 1 .. i - 1 : q[k] \in S
      /\ \A k \in i + 1 .. Len(q) : q[k] \in S
  OBVIOUS
<1>3. PICK u, v : u = SubSeq(q, 1, i - 1) /\ v = SubSeq(q, i + 1, Len(q))
  OBVIOUS
<1>4. u \in Seq(S) /\ v \in Seq(S)
  BY <1>1, <1>2, <1>3, SubSeqProperties
<1>. QED
  BY <1>3, <1>4, ConcatProperties DEF RemoveAt

-----------------------------------------------------------------------------
(* Conversation: the thread *)

ThreadFrame == [from : Speaker, to : Speaker, id : 1 .. MaxLetters]
StackEntry == [incoming : BOOLEAN, peer : Mention, id : 0 .. MaxLetters]
Mail == [from : Speaker \cup {""}, reply : BOOLEAN, id : 0 .. MaxLetters]
TalkRecord == [returnTo : Mention, expect : Mention, pending : Seq(Addressed \cup {""})]

\* What the assumptions say.
LEMMA Apart ==
  /\ Self # User /\ Self \in Speaker /\ User \in Speaker
  /\ "none" \notin Speaker /\ "" \notin Speaker /\ "none" \notin Addressed /\ "" \notin Addressed
BY ConversationAssumption DEF Speaker

LEMMA Bounds == MaxFrames \in Nat /\ MaxLetters \in Nat
BY ConversationAssumption

LEMMA PlanTyped == \A plan \in Plans : plan \in Seq(Addressed \cup {""})
BY ConversationAssumption

LEMMA ReachesOne ==
  ASSUME NEW x, x \in Addressed \/ x \in Speaker, x # Nowhere
  PROVE  Reached(x) \in Speaker
BY DEF Reached, Addressed, Speaker

\* Who holds a thread with these frames.
HolderOf(frames) == IF frames = <<>> THEN User ELSE Last(frames).to

\* The user made the first call, and each holder the next one.
Chained(frames) ==
  /\ frames \in Seq(ThreadFrame)
  /\ \A i \in 1 .. Len(frames) :
       frames[i].from = IF i = 1 THEN User ELSE frames[i - 1].to

OwnFrame(f) == Self \in {f.from, f.to}

\* No call of these is one of Self's or to Self.
Clear(frames) == \A i \in 1 .. Len(frames) : ~OwnFrame(frames[i])

LEMMA HolderType ==
  ASSUME NEW frames, Chained(frames)
  PROVE  /\ Len(frames) \in Nat /\ HolderOf(frames) \in Speaker
         /\ frames # <<>> => /\ Len(frames) \in 1 .. Len(frames)
                             /\ Last(frames) = frames[Len(frames)] /\ Last(frames) \in ThreadFrame
                             /\ HolderOf(frames) = frames[Len(frames)].to
<1>1. frames \in Seq(ThreadFrame)
  BY DEF Chained
<1>2. CASE frames = <<>>
  BY <1>2 DEF HolderOf, Speaker
<1>3. CASE frames # <<>>
  <2>1. Len(frames) \in 1 .. Len(frames) /\ frames[Len(frames)] \in ThreadFrame
    BY <1>1, <1>3
  <2>. QED
    BY <1>1, <1>3, <2>1 DEF HolderOf, Last, ThreadFrame
<1>. QED
  BY <1>2, <1>3

LEMMA SpeaksIsHolder == Speaks = HolderOf(line)
  BY DEF Speaks, HolderOf

\* There is a last call of the user's.
LEMMA LastCallFound ==
  ASSUME NEW frames, Chained(frames), frames # <<>>
  PROVE  \E n \in 1 .. Len(frames) :
           n = SelectLastInSeq(frames, LAMBDA f : f.from = User) /\ frames[n].from = User
<1>. DEFINE I == {i \in 1 .. Len(frames) : frames[i].from = User}
            T == {Len(frames) - i : i \in I}
<1>1. Len(frames) \in Nat /\ 1 \in 1 .. Len(frames) /\ frames[1].from = User
  BY HolderType DEF Chained
<1>2. T # {} /\ T \subseteq Nat
  BY <1>1
<1>3. PICK x \in T : \A y \in T : x <= y
  <2>. HIDE DEF T
  <2>. QED  BY <1>2, LeastNat
<1>4. PICK i \in I : x = Len(frames) - i
  OBVIOUS
<1>5. \A j \in I : i >= j
  <2>. SUFFICES ASSUME NEW j \in I PROVE i >= j
    OBVIOUS
  <2>1. Len(frames) - j \in T
    OBVIOUS
  <2>2. Len(frames) - i <= Len(frames) - j
    BY <1>3, <1>4, <2>1
  <2>. QED
    BY <1>1, <2>2
<1>6. Max(I) \in I
  <2>. HIDE DEF I
  <2>. QED  BY <1>4, <1>5 DEF Max
<1>7. SelectLastInSeq(frames, LAMBDA f : f.from = User) = Max(I)
  BY <1>4 DEF SelectLastInSeq
<1>. QED
  BY <1>6, <1>7

LEMMA ChainedPrefix ==
  ASSUME NEW frames, Chained(frames), NEW k \in 0 .. Len(frames)
  PROVE  /\ Chained(SubSeq(frames, 1, k))
         /\ HolderOf(SubSeq(frames, 1, k)) = IF k = 0 THEN User ELSE frames[k].to
<1>1. frames \in Seq(ThreadFrame) /\ Len(frames) \in Nat
  BY HolderType DEF Chained
<1>2. PICK q : q = SubSeq(frames, 1, k)
  OBVIOUS
<1>3. /\ q \in Seq(ThreadFrame) /\ Len(q) = k
      /\ \A i \in 1 .. k : q[i] = frames[i]
  BY <1>1, <1>2
<1>4. Chained(q)
  <2>1. \A i \in 1 .. k : i \in 1 .. Len(frames) /\ (i # 1 => i - 1 \in 1 .. k)
    BY <1>1
  <2>. QED
    BY <1>3, <2>1 DEF Chained
<1>5. HolderOf(q) = IF k = 0 THEN User ELSE frames[k].to
  <2>1. q = <<>> <=> k = 0
    BY <1>3
  <2>2. k # 0 => k \in 1 .. k
    BY <1>1
  <2>. QED
    BY <1>3, <2>1, <2>2 DEF HolderOf, Last
<1>. QED
  BY <1>2, <1>4, <1>5

\* The frames that a rewind leaves are none, or end with a call of the user.
LEMMA BelowLast ==
  ASSUME Chained(line)
  PROVE  /\ Below \in 0 .. Len(line) /\ (line # <<>> => Below < Len(line))
         /\ Below = 0 \/ line[Below].to = User
<1>1. Len(line) \in Nat /\ line \in Seq(ThreadFrame)
  BY HolderType DEF Chained
<1>2. CASE line = <<>>
  <2>1. {i \in 1 .. Len(line) : line[i].from = User} = {}
    BY <1>2
  <2>2. SelectLastInSeq(line, LAMBDA f : f.from = User) = 0
    BY <2>1 DEF SelectLastInSeq
  <2>3. Below = 0
    BY <2>2 DEF Below
  <2>. QED
    BY <2>3, <1>1, <1>2
<1>3. CASE line # <<>>
  <2>1. PICK n \in 1 .. Len(line) :
          n = SelectLastInSeq(line, LAMBDA f : f.from = User) /\ line[n].from = User
    BY <1>3, LastCallFound
  <2>2. n # 0 /\ n - 1 \in 0 .. Len(line) /\ n - 1 < Len(line)
    BY <1>1
  <2>3. Below = n - 1
    BY <2>1, <2>2 DEF Below
  <2>4. n - 1 = 0 \/ line[n - 1].to = User
    <3>1. line[n].from = IF n = 1 THEN User ELSE line[n - 1].to
      BY DEF Chained
    <3>. QED
      BY <3>1, <2>1, <2>2
  <2>. QED
    BY <2>2, <2>3, <2>4
<1>. QED
  BY <1>2, <1>3

\* What a rewind is, for an error or a death.
Rewinds(due) ==
  \E d \in 0 .. Len(line) :
    /\ Unwound(d, due)
    /\ d = 0 \/ line[d].to = User
    /\ Speaks # User => d < Len(line)

LEMMA RewindsEither ==
  ASSUME Chained(line), NEW due, Rejected(due) \/ Unwound(Below, due)
  PROVE  Rewinds(due)
<1>1. /\ Below \in 0 .. Len(line) /\ (line # <<>> => Below < Len(line))
      /\ Below = 0 \/ line[Below].to = User
  BY BelowLast
<1>2. /\ Len(line) \in Nat /\ Len(line) \in 0 .. Len(line)
      /\ line # <<>> => Len(line) # 0 /\ Speaks = line[Len(line)].to
      /\ line = <<>> => Speaks = User
  BY HolderType, SpeaksIsHolder DEF HolderOf
<1>3. CASE Unwound(Below, due)
  BY <1>1, <1>2, <1>3 DEF Rewinds
<1>4. CASE ~Unwound(Below, due)
  <2>1. Rejected(due)
    BY <1>4
  <2>2. CASE Speaks = User
    <3>1. Unwound(Len(line), due)
      BY <2>1, <2>2 DEF Rejected
    <3>2. Len(line) = 0 \/ line[Len(line)].to = User
      BY <1>2, <2>2
    <3>. QED
      BY <1>2, <2>2, <3>1, <3>2 DEF Rewinds
  <2>3. CASE Speaks # User
    BY <1>4, <2>1, <2>3 DEF Rejected
  <2>. QED
    BY <2>2, <2>3
<1>. QED
  BY <1>3, <1>4

\* A rewind that does not cut Self's calls in two ends all of them or none.
LEMMA UnwoundFrames ==
  ASSUME Chained(line), NEW d \in 0 .. Len(line), NEW due, Unwound(d, due)
  PROVE  /\ line' \in Seq(ThreadFrame) /\ Len(line') = d /\ line' = SubSeq(line, 1, d)
         /\ \A i \in 1 .. d : line'[i] = line[i]
         /\ Chained(line') /\ HolderOf(line') = (IF d = 0 THEN User ELSE line[d].to)
         /\ inbox' = due /\ letters' = letters
         /\ ~cut' => ~cut /\ (Clear(line') \/ \A i \in d + 1 .. Len(line) : ~OwnFrame(line[i]))
<1>1. Len(line) \in Nat /\ line \in Seq(ThreadFrame)
  BY HolderType DEF Chained
<1>2. /\ line' = SubSeq(line, 1, d) /\ inbox' = due /\ letters' = letters
      /\ cut' = (cut \/ (OfSelf(line') /\ OfSelf(SubSeq(line, d + 1, Len(line)))))
  BY DEF Unwound
<1>3. /\ line' \in Seq(ThreadFrame) /\ Len(line') = d /\ DOMAIN line' = 1 .. d
      /\ \A i \in 1 .. d : line'[i] = line[i]
  BY <1>1, <1>2
<1>4. Chained(line') /\ HolderOf(line') = IF d = 0 THEN User ELSE line[d].to
  <2>1. PICK g : g = SubSeq(line, 1, d)
    OBVIOUS
  <2>2. Chained(g) /\ HolderOf(g) = IF d = 0 THEN User ELSE line[d].to
    BY <2>1, ChainedPrefix
  <2>3. g = line'
    BY <1>2, <2>1
  <2>4. Chained(line')
    BY <2>2, <2>3 DEF Chained
  <2>5. HolderOf(line') = IF d = 0 THEN User ELSE line[d].to
    BY <2>2, <2>3 DEF HolderOf
  <2>. QED
    BY <2>4, <2>5
<1>5. ASSUME ~cut'
      PROVE  ~cut /\ (Clear(line') \/ \A i \in d + 1 .. Len(line) : ~OwnFrame(line[i]))
  <2>1. PICK r : r = SubSeq(line, d + 1, Len(line))
    OBVIOUS
  <2>2. /\ DOMAIN r = 1 .. Len(line) - d
        /\ \A i \in 1 .. Len(line) - d : r[i] = line[d + i]
    BY <1>1, <2>1
  <2>3. ~cut /\ (~OfSelf(line') \/ ~OfSelf(r))
    BY <1>2, <1>5, <2>1, Zenon
  <2>4. ~OfSelf(line') => Clear(line')
    BY <1>3 DEF OfSelf, Clear, OwnFrame
  <2>5. ASSUME ~OfSelf(r), NEW i \in d + 1 .. Len(line)  PROVE ~OwnFrame(line[i])
    <3>1. PICK j : j = i - d
      OBVIOUS
    <3>2. j \in DOMAIN r /\ d + j = i /\ j \in 1 .. Len(line) - d
      BY <1>1, <2>2, <3>1
    <3>3. r[j] = line[i]
      BY <2>2, <3>2
    <3>. QED
      BY <2>5, <3>2, <3>3 DEF OfSelf, OwnFrame
  <2>. QED
    BY <2>3, <2>4, <2>5
<1>. QED
  BY <1>2, <1>3, <1>4, <1>5

LEMMA IndexBelow ==
  ASSUME NEW n \in Nat, NEW d \in 0 .. n
  PROVE  (\A i \in 1 .. d : i \in 1 .. n) /\ (d < n => n \in d + 1 .. n)
OBVIOUS

\* If Self has the thread, or has no call on it, what is left has none of Self's.
LEMMA RewindClears ==
  ASSUME Chained(line), NEW due, Rewinds(due), ~cut',
         Speaks = Self \/ Clear(line)
  PROVE  /\ Chained(line') /\ Clear(line') /\ ~cut /\ inbox' = due /\ letters' = letters
<1>1. PICK d \in 0 .. Len(line) :
        Unwound(d, due) /\ (Speaks # User => d < Len(line))
  BY DEF Rewinds
<1>2. /\ Len(line') = d /\ \A i \in 1 .. d : line'[i] = line[i]
      /\ Chained(line') /\ inbox' = due /\ letters' = letters /\ ~cut
      /\ Clear(line') \/ \A i \in d + 1 .. Len(line) : ~OwnFrame(line[i])
  BY <1>1, UnwoundFrames
<1>3. PICK n \in Nat : n = Len(line) /\ d \in 0 .. n
  BY HolderType, Zenon
<1>6. (\A i \in 1 .. d : i \in 1 .. n) /\ (d < n => n \in d + 1 .. n)
  BY <1>3, IndexBelow
<1>4. CASE Clear(line)
  BY <1>2, <1>3, <1>6, <1>4 DEF Clear
<1>5. CASE Speaks = Self
  <2>1. line # <<>> /\ Speaks # User
    BY <1>5, Apart DEF Speaks
  <2>2. Len(line) \in d + 1 .. Len(line)
    <3>1. d < Len(line)
      BY <1>1, <2>1
    <3>. QED
      BY <1>3, <1>6, <3>1
  <2>3. line[Len(line)].to = Self
    BY <1>5, <2>1, HolderType, SpeaksIsHolder
  <2>4. OwnFrame(line[Len(line)])
    BY <2>3 DEF OwnFrame
  <2>. QED
    BY <1>2, <2>2, <2>4
<1>. QED
  BY <1>2, <1>4, <1>5

Mails(due) == due \in Seq(Mail)

LEMMA MailIs ==
  ASSUME NEW from, NEW reply \in BOOLEAN, NEW id, from \in Speaker, id \in 1 .. MaxLetters
  PROVE  [from |-> from, reply |-> reply, id |-> id] \in Mail
<1>1. id \in 0 .. MaxLetters
  BY Bounds
<1>2. from \in Speaker \cup {""}
  BY Zenon
<1>. QED
  BY <1>1, <1>2, Zenon DEF Mail

\* What a call does to the thread and to the messages for Self.
LEMMA CalledFrames ==
  ASSUME Chained(line), letters \in Nat, NEW due, Mails(due),
         NEW from, from = HolderOf(line), NEW x, Reached(x) \in Speaker, Called(from, x, due)
  PROVE  /\ \E f \in ThreadFrame :
              /\ f.from = from /\ f.to = Reached(x) /\ f.id = letters + 1 /\ line' = Append(line, f)
              /\ Reached(x) = Self =>
                   \E l \in Mail : ~l.reply /\ l.from = from /\ l.id = f.id /\ inbox' = Append(due, l)
         /\ Reached(x) # Self => inbox' = due
         /\ letters' = letters + 1 /\ letters' \in 1 .. MaxLetters /\ cut' = cut
         /\ Chained(line') /\ HolderOf(line') = Reached(x)
<1>. DEFINE n == Len(line)
<1>1. line \in Seq(ThreadFrame) /\ n \in Nat /\ from \in Speaker
  BY HolderType DEF Chained
<1>2. /\ line' = Append(line, [from |-> from, to |-> Reached(x), id |-> letters + 1])
      /\ letters' = letters + 1 /\ letters + 1 \in 1 .. MaxLetters
      /\ inbox' = due \o Letter(Reached(x), from, FALSE, letters + 1) /\ cut' = cut
  BY Bounds DEF Called
<1>3. PICK f : f = [from |-> from, to |-> Reached(x), id |-> letters + 1]
  OBVIOUS
<1>4. f \in ThreadFrame /\ f.from = from /\ f.to = Reached(x) /\ f.id = letters + 1
  BY <1>1, <1>2, <1>3 DEF ThreadFrame
<1>5. PICK g : g = Append(line, f)
  OBVIOUS
<1>6. /\ g \in Seq(ThreadFrame) /\ Len(g) = n + 1 /\ g[n + 1] = f /\ g # <<>>
      /\ \A i \in 1 .. n : g[i] = line[i]
  BY <1>1, <1>4, <1>5
<1>7. HolderOf(g) = Reached(x)
  BY <1>4, <1>6 DEF HolderOf, Last
<1>8. Chained(g)
  <2>1. ASSUME NEW i \in 1 .. n + 1
        PROVE  g[i].from = IF i = 1 THEN User ELSE g[i - 1].to
    <3>1. CASE i \in 1 .. n
      <4>1. i # 1 => i - 1 \in 1 .. n
        BY <3>1, <1>1
      <4>. QED
        BY <3>1, <4>1, <1>6 DEF Chained
    <3>2. CASE i = n + 1 /\ n = 0
      <4>1. line = <<>>
        BY <1>1, <3>2
      <4>. QED
        BY <3>2, <4>1, <1>4, <1>6 DEF HolderOf
    <3>3. CASE i = n + 1 /\ n # 0
      <4>1. line # <<>> /\ n \in 1 .. n /\ i - 1 = n /\ i # 1
        BY <3>3, <1>1
      <4>2. from = line[n].to
        BY <4>1, HolderType
      <4>. QED
        BY <3>3, <4>1, <4>2, <1>4, <1>6
    <3>. QED
      BY <3>1, <3>2, <3>3, <1>1
  <2>. QED
    BY <2>1, <1>6 DEF Chained
<1>9. g = line'
  BY <1>2, <1>3, <1>5
<1>10. Chained(line') /\ HolderOf(line') = Reached(x)
  BY <1>7, <1>8, <1>9 DEF Chained, HolderOf
<1>11. CASE Reached(x) # Self
  <2>1. inbox' = due \o <<>>
    BY <1>2, <1>11 DEF Letter
  <2>2. inbox' = due
    BY <2>1, ConcatEmptySeq DEF Mails
  <2>. QED
    BY <2>2, <1>2, <1>4, <1>5, <1>9, <1>10, <1>11
<1>12. CASE Reached(x) = Self
  <2>1. PICK l : l = [from |-> from, reply |-> FALSE, id |-> letters + 1]
    OBVIOUS
  <2>2. l \in Mail /\ ~l.reply /\ l.from = from /\ l.id = f.id
    <3>1. PICK id : id = letters + 1
      OBVIOUS
    <3>2. PICK reply \in BOOLEAN : reply = FALSE
      OBVIOUS
    <3>4. from \in Speaker /\ id \in 1 .. MaxLetters /\ l = [from |-> from, reply |-> reply, id |-> id]
      BY <1>1, <1>2, <2>1, <3>1, <3>2, Zenon
    <3>5. l.from = from /\ l.reply = reply /\ l.id = id
      BY <3>4
    <3>6. l \in Mail
      BY <3>4, MailIs
    <3>3. l \in Mail /\ l.from = from /\ ~l.reply /\ l.id = id
      BY <3>2, <3>5, <3>6, Zenon
    <3>. QED
      BY <3>1, <3>3, <1>4
  <2>3. inbox' = due \o <<l>>
    BY <2>1, <1>2, <1>12 DEF Letter
  <2>4. inbox' = Append(due, l)
    BY <2>2, <2>3, AppendIsConcat DEF Mails
  <2>. QED
    BY <2>2, <2>4, <1>2, <1>4, <1>5, <1>9, <1>10, <1>12
<1>. QED
  BY <1>11, <1>12

\* What a return does to them.
LEMMA ReturnedFrames ==
  ASSUME Chained(line), line # <<>>, NEW due, Mails(due), Returned(due)
  PROVE  /\ \E k \in 0 .. Len(line) : k = Len(line) - 1 /\ line' = SubSeq(line, 1, k)
         /\ letters' = letters /\ cut' = cut
         /\ Chained(line') /\ HolderOf(line') = Last(line).from
         /\ Last(line).from # Self => inbox' = due
         /\ Last(line).from = Self =>
              \E l \in Mail : /\ l.reply /\ l.from = Last(line).to /\ l.id = Last(line).id
                              /\ l.from \in Speaker /\ inbox' = Append(due, l)
<1>. DEFINE n == Len(line)
<1>1. /\ line \in Seq(ThreadFrame) /\ n \in Nat /\ n \in 1 .. n
      /\ Last(line) = line[n] /\ line[n] \in ThreadFrame
  BY HolderType DEF Chained
<1>2. PICK f : f = line[n]
  OBVIOUS
<1>3. /\ line' = Front(line) /\ letters' = letters /\ cut' = cut
      /\ inbox' = due \o Letter(f.from, f.to, TRUE, f.id)
  BY <1>1, <1>2 DEF Returned
<1>4. PICK k \in 0 .. n : k = n - 1
  <2>1. n - 1 \in 0 .. n
    BY <1>1
  <2>. QED
    BY <2>1
<1>5. line' = SubSeq(line, 1, k)
  BY <1>3, <1>4 DEF Front
<1>6. PICK g : g = SubSeq(line, 1, k)
  OBVIOUS
<1>7. /\ Chained(g) /\ HolderOf(g) = IF k = 0 THEN User ELSE line[k].to
  BY <1>6, ChainedPrefix
<1>8. HolderOf(g) = f.from
  <2>1. f.from = IF n = 1 THEN User ELSE line[n - 1].to
    BY <1>1, <1>2 DEF Chained
  <2>2. n = 1 <=> k = 0
    BY <1>1, <1>4
  <2>. QED
    BY <2>1, <2>2, <1>4, <1>7
<1>9. Chained(line') /\ HolderOf(line') = f.from
  BY <1>5, <1>6, <1>7, <1>8 DEF Chained, HolderOf
<1>10. CASE f.from # Self
  <2>1. inbox' = due \o <<>>
    BY <1>3, <1>10 DEF Letter
  <2>2. inbox' = due
    BY <2>1, ConcatEmptySeq DEF Mails
  <2>. QED
    BY <2>2, <1>1, <1>2, <1>3, <1>4, <1>5, <1>9, <1>10
<1>11. CASE f.from = Self
  <2>1. PICK l : l = [from |-> f.to, reply |-> TRUE, id |-> f.id]
    OBVIOUS
  <2>2. l \in Mail /\ l.reply /\ l.from = f.to /\ l.id = f.id /\ l.from \in Speaker
    <3>1. f.to \in Speaker /\ f.id \in 1 .. MaxLetters
      BY <1>1, <1>2 DEF ThreadFrame
    <3>2. PICK reply \in BOOLEAN : reply = TRUE
      OBVIOUS
    <3>3. PICK from, id : from = f.to /\ id = f.id
      OBVIOUS
    <3>5. from \in Speaker /\ id \in 1 .. MaxLetters /\ l = [from |-> from, reply |-> reply, id |-> id]
      BY <2>1, <3>1, <3>2, <3>3, Zenon
    <3>4. l.from = from /\ l.reply = reply /\ l.id = id
      BY <3>5
    <3>6. l \in Mail
      BY <3>5, MailIs
    <3>. QED
      BY <3>1, <3>2, <3>3, <3>4, <3>6, Zenon
  <2>3. inbox' = due \o <<l>>
    BY <2>1, <1>3, <1>11 DEF Letter
  <2>4. inbox' = Append(due, l)
    BY <2>2, <2>3, AppendIsConcat DEF Mails
  <2>. QED
    BY <2>2, <2>4, <1>1, <1>2, <1>3, <1>4, <1>5, <1>9, <1>11
<1>. QED
  BY <1>10, <1>11

\* A conversation of nobody's lies below the others.
Grounded(t) == t \in Seq(TalkRecord) /\ t # <<>> /\ t[1].expect = "none"

-----------------------------------------------------------------------------
(* Conversation: the type invariant *)

\* None of these is about a later call.
Recent(s, n) == \A i \in 1 .. Len(s) : s[i].id <= n

LEMMA RecentParts ==
  ASSUME NEW S, \A e \in S : e.id \in Nat, NEW s \in Seq(S), NEW n \in Nat, NEW m \in Nat, n <= m,
         Recent(s, n)
  PROVE  /\ Recent(s, m) /\ \A e \in S : e.id <= m => Recent(Append(s, e), m)
         /\ \A k \in 0 .. Len(s) : Recent(SubSeq(s, 1, k), m)
         /\ s # <<>> => Recent(Tail(s), m) /\ Recent(Front(s), m)
<1>1. Len(s) \in Nat /\ \A i \in 1 .. Len(s) : s[i] \in S /\ s[i].id <= n /\ s[i].id \in Nat
  BY DEF Recent
<1>2. \A i \in 1 .. Len(s) : s[i].id <= m
  BY <1>1
<1>3. ASSUME NEW e \in S, e.id <= m  PROVE Recent(Append(s, e), m)
  <2>1. PICK t : t = Append(s, e)
    OBVIOUS
  <2>2. /\ Len(t) = Len(s) + 1 /\ t[Len(s) + 1] = e
        /\ \A i \in 1 .. Len(s) : t[i] = s[i]
    BY <2>1
  <2>3. \A i \in 1 .. Len(t) : i \in 1 .. Len(s) \/ i = Len(s) + 1
    BY <1>1, <2>2
  <2>. QED
    BY <1>2, <1>3, <2>1, <2>2, <2>3 DEF Recent
<1>4. ASSUME NEW k \in 0 .. Len(s)  PROVE Recent(SubSeq(s, 1, k), m)
  <2>1. PICK t : t = SubSeq(s, 1, k)
    OBVIOUS
  <2>2. Len(t) = k /\ \A i \in 1 .. k : t[i] = s[i]
    BY <2>1
  <2>3. \A i \in 1 .. k : i \in 1 .. Len(s)
    BY <1>1
  <2>. QED
    BY <1>2, <2>1, <2>2, <2>3 DEF Recent
<1>5. ASSUME s # <<>>  PROVE Recent(Tail(s), m)
  <2>1. PICK t : t = Tail(s)
    OBVIOUS
  <2>2. /\ Len(t) = Len(s) - 1
        /\ \A i \in 1 .. Len(s) - 1 : t[i] = s[i + 1]
    BY <1>5, <2>1, HeadTailProperties
  <2>3. \A i \in 1 .. Len(s) - 1 : i + 1 \in 1 .. Len(s)
    BY <1>1
  <2>. QED
    BY <1>2, <2>1, <2>2, <2>3 DEF Recent
<1>6. ASSUME s # <<>>  PROVE Recent(Front(s), m)
  <2>1. PICK t : t = Front(s)
    OBVIOUS
  <2>2. Len(t) = Len(s) - 1 /\ \A i \in 1 .. Len(s) - 1 : t[i] = s[i]
    BY <1>6, <2>1, Split
  <2>3. \A i \in 1 .. Len(s) - 1 : i \in 1 .. Len(s)
    BY <1>1
  <2>. QED
    BY <1>2, <2>1, <2>2, <2>3 DEF Recent
<1>. QED
  BY <1>2, <1>3, <1>4, <1>5, <1>6 DEF Recent

\* The messages for Self when the oldest one is taken.
LEMMA MailsTail ==
  ASSUME NEW due, Mails(due), due # <<>>
  PROVE  Mails(Tail(due)) /\ Head(due) \in Mail /\ Head(due) = due[1] /\ Len(due) \in Nat /\ Len(due) >= 1
BY HeadTailProperties DEF Mails

LEMMA MailsAppend ==
  ASSUME NEW due, Mails(due), NEW l \in Mail
  PROVE  Mails(Append(due, l))
BY DEF Mails

\* Whatever the two accounts say: the thread is one, and no message is about a
\* call that was not made.
ThreadSound ==
  /\ Chained(line) /\ letters \in 0 .. MaxLetters /\ cut \in BOOLEAN /\ Mails(inbox)
  /\ Recent(line, letters) /\ Recent(inbox, letters)

\* At the bottom of LinearService's stack is a call that is served.
StackSound(s, n) == s \in Seq(StackEntry) /\ (s # <<>> => s[1].incoming) /\ Recent(s, n)

\* Every conversation but the ground one is with an agent, or with the notice
\* of a death.
ToSomeone(x) == x \in Speaker \/ x = ""
TalkSound(t) == Grounded(t) /\ \A i \in 2 .. Len(t) : ToSomeone(t[i].returnTo)

ConversationTypes ==
  /\ ThreadSound /\ StackSound(serving, letters) /\ TalkSound(talk)
  /\ crossed \in BOOLEAN /\ fault \in {"none", "alias", "check"}

LEMMA ConversationTyped == ConversationTypes => CvTypeOK
<1>. SUFFICES ASSUME ConversationTypes  PROVE CvTypeOK
  OBVIOUS
<1>1. inbox \in Seq(Mail)
  BY DEF ConversationTypes, ThreadSound, Mails
<1>2. {crossed, cut} \subseteq BOOLEAN
  BY Zenon DEF ConversationTypes, ThreadSound
<1>3. /\ line \in Seq(ThreadFrame) /\ serving \in Seq(StackEntry) /\ talk \in Seq(TalkRecord)
      /\ letters \in 0 .. MaxLetters /\ fault \in {"none", "alias", "check"}
  BY DEF ConversationTypes, ThreadSound, Chained, StackSound, TalkSound, Grounded
<1>. QED
  BY <1>1, <1>2, <1>3, Zenon DEF CvTypeOK, ThreadFrame, Mail, StackEntry, TalkRecord

\* The identifiers of what there is are numbers.
LEMMA Numbered ==
  /\ \A f \in ThreadFrame : f.id \in Nat
  /\ \A l \in Mail : l.id \in Nat
  /\ \A e \in StackEntry : e.id \in Nat
<1>1. \A f \in ThreadFrame : f.id \in Nat
  BY Bounds DEF ThreadFrame
<1>2. \A e \in StackEntry : e.id \in Nat
  BY Bounds DEF StackEntry
<1>3. ASSUME NEW l \in Mail  PROVE l.id \in Nat
  <2>1. l.id \in 0 .. MaxLetters
    BY Zenon DEF Mail
  <2>. QED
    BY <2>1, Bounds
<1>. QED
  BY <1>1, <1>2, <1>3

\* The thread that a call, a return or a rewind leaves.
LEMMA CalledSound ==
  ASSUME ThreadSound, NEW due, Mails(due), Recent(due, letters),
         NEW from, from = HolderOf(line), NEW x, Reached(x) \in Speaker, Called(from, x, due)
  PROVE  ThreadSound' /\ letters <= letters'
<1>1. Chained(line) /\ letters \in Nat /\ Recent(line, letters) /\ line \in Seq(ThreadFrame)
      /\ cut \in BOOLEAN
  BY Bounds DEF ThreadSound, Chained
<1>2. PICK f \in ThreadFrame :
              /\ f.from = from /\ f.to = Reached(x) /\ f.id = letters + 1 /\ line' = Append(line, f)
              /\ Reached(x) = Self =>
                   \E l \in Mail : ~l.reply /\ l.from = from /\ l.id = f.id /\ inbox' = Append(due, l)
  BY <1>1, CalledFrames
<1>3. /\ Reached(x) # Self => inbox' = due
      /\ letters' = letters + 1 /\ letters' \in 1 .. MaxLetters /\ cut' = cut
      /\ Chained(line')
  BY <1>1, CalledFrames
<1>4. PICK m \in Nat : m = letters' /\ letters <= m /\ letters + 1 = m /\ m \in 0 .. MaxLetters
  BY <1>1, <1>3, Bounds
<1>5. Recent(line', m)
  <2>1. f.id <= m
    BY <1>2, <1>4
  <2>2. Recent(Append(line, f), m)
    BY <1>1, <1>4, <2>1, Numbered, RecentParts
  <2>. QED
    BY <1>2, <2>2
<1>6. Recent(due, m)
  BY <1>1, <1>4, Numbered, RecentParts DEF Mails
<1>7. Mails(inbox') /\ Recent(inbox', m)
  <2>1. CASE Reached(x) # Self
    BY <2>1, <1>3, <1>6
  <2>2. CASE Reached(x) = Self
    <3>1. PICK l \in Mail : l.id = f.id /\ inbox' = Append(due, l)
      BY <2>2, <1>2
    <3>2. l.id <= m
      BY <3>1, <1>2, <1>4
    <3>3. Recent(Append(due, l), m)
      BY <1>1, <1>4, <3>2, Numbered, RecentParts DEF Mails
    <3>. QED
      BY <3>1, <3>3, MailsAppend
  <2>. QED
    BY <2>1, <2>2
<1>8. cut' \in BOOLEAN
  BY <1>1, <1>3, Zenon
<1>9. Chained(line') /\ letters' \in 0 .. MaxLetters /\ Mails(inbox')
      /\ Recent(line', letters') /\ Recent(inbox', letters') /\ letters <= letters'
  BY <1>3, <1>4, <1>5, <1>7
<1>. QED
  BY <1>8, <1>9 DEF ThreadSound, Chained, Mails, Recent

LEMMA ReturnedSound ==
  ASSUME ThreadSound, line # <<>>, NEW due, Mails(due), Recent(due, letters), Returned(due)
  PROVE  ThreadSound' /\ letters <= letters'
<1>1. Chained(line) /\ letters \in Nat /\ Recent(line, letters) /\ line \in Seq(ThreadFrame)
      /\ letters \in 0 .. MaxLetters /\ cut \in BOOLEAN
  BY Bounds DEF ThreadSound, Chained
<1>2. PICK k \in 0 .. Len(line) : k = Len(line) - 1 /\ line' = SubSeq(line, 1, k)
  BY <1>1, ReturnedFrames
<1>3. /\ letters' = letters /\ cut' = cut /\ Chained(line')
      /\ Last(line).from # Self => inbox' = due
  BY <1>1, ReturnedFrames
<1>4. Recent(line', letters)
  <2>1. PICK t : t = SubSeq(line, 1, k)
    OBVIOUS
  <2>2. Recent(t, letters)
    BY <1>1, <2>1, Numbered, RecentParts
  <2>. QED
    BY <1>2, <2>1, <2>2
<1>5. Mails(inbox') /\ Recent(inbox', letters)
  <2>1. CASE Last(line).from # Self
    BY <2>1, <1>3
  <2>2. CASE Last(line).from = Self
    <3>1. PICK l \in Mail : l.id = Last(line).id /\ inbox' = Append(due, l)
      BY <2>2, <1>1, ReturnedFrames
    <3>2. l.id <= letters
      <4>1. Len(line) \in 1 .. Len(line) /\ Last(line) = line[Len(line)]
        BY <1>1, HolderType
      <4>. QED
        BY <4>1, <3>1, <1>1 DEF Recent
    <3>3. Recent(Append(due, l), letters)
      BY <1>1, <3>2, Numbered, RecentParts DEF Mails
    <3>. QED
      BY <3>1, <3>3, MailsAppend
  <2>. QED
    BY <2>1, <2>2
<1>6. cut' \in BOOLEAN
  BY <1>1, <1>3, Zenon
<1>. QED
  BY <1>1, <1>3, <1>4, <1>5, <1>6 DEF ThreadSound, Chained, Mails, Recent

LEMMA UnwoundSound ==
  ASSUME ThreadSound, NEW due, Mails(due), Recent(due, letters), Rewinds(due)
  PROVE  ThreadSound' /\ letters <= letters'
<1>1. Chained(line) /\ letters \in Nat /\ Recent(line, letters) /\ line \in Seq(ThreadFrame)
      /\ letters \in 0 .. MaxLetters
  BY Bounds DEF ThreadSound, Chained
<1>2. PICK d \in 0 .. Len(line) : Unwound(d, due)
  BY DEF Rewinds
<1>3. line' = SubSeq(line, 1, d) /\ Chained(line') /\ inbox' = due /\ letters' = letters
  BY <1>1, <1>2, UnwoundFrames
<1>4. Recent(line', letters)
  <2>1. PICK t : t = SubSeq(line, 1, d)
    OBVIOUS
  <2>2. Recent(t, letters)
    BY <1>1, <2>1, Numbered, RecentParts
  <2>. QED
    BY <1>3, <2>1, <2>2
<1>5. cut' \in BOOLEAN
  BY <1>2, Zenon DEF Unwound, ThreadSound
<1>. QED
  BY <1>1, <1>3, <1>4, <1>5 DEF ThreadSound, Chained, Mails, Recent

LEMMA IncomingIs ==
  ASSUME NEW l \in Mail
  PROVE  /\ Incoming(l) \in StackEntry /\ Incoming(l).incoming
         /\ Incoming(l).peer = l.from /\ Incoming(l).id = l.id
<1>1. PICK e : e = [incoming |-> TRUE, peer |-> l.from, id |-> l.id]
  OBVIOUS
<1>2. e.incoming = TRUE /\ e.peer = l.from /\ e.id = l.id
  BY <1>1
<1>3. l.from \in Mention /\ l.id \in 0 .. MaxLetters
  BY Zenon DEF Mail, Mention
<1>4. e \in StackEntry
  BY <1>1, <1>3, Zenon DEF StackEntry
<1>. QED
  BY <1>1, <1>2, <1>4, Zenon DEF Incoming

LEMMA OutgoingIs ==
  ASSUME NEW x \in Mention
  PROVE  /\ Outgoing(x) \in StackEntry /\ ~Outgoing(x).incoming
         /\ Outgoing(x).peer = x /\ Outgoing(x).id = 0
<1>1. PICK e : e = [incoming |-> FALSE, peer |-> x, id |-> 0]
  OBVIOUS
<1>2. e.incoming = FALSE /\ e.peer = x /\ e.id = 0
  BY <1>1
<1>3. 0 \in 0 .. MaxLetters
  BY Bounds
<1>4. e \in StackEntry
  BY <1>1, <1>3, Zenon DEF StackEntry
<1>. QED
  BY <1>1, <1>2, <1>4, Zenon DEF Outgoing

\* While a message is served, the stack is not empty.
LEMMA ServedSound ==
  ASSUME letters \in Nat, StackSound(serving, letters), NEW l \in Mail, l.id <= letters,
         l.reply => Expects(l), NEW s, s = Served(l)
  PROVE  s # <<>> /\ StackSound(s, letters) /\ Last(s) \in StackEntry
<1>1. CASE ~l.reply
  <2>1. PICK e : e = Incoming(l)
    OBVIOUS
  <2>2. e \in StackEntry /\ e.incoming /\ e.id = l.id
    BY <2>1, IncomingIs
  <2>3. s = Append(serving, e)
    BY <1>1, <2>1 DEF Served
  <2>4. /\ s \in Seq(StackEntry) /\ Len(s) = Len(serving) + 1 /\ s[Len(serving) + 1] = e
        /\ \A i \in 1 .. Len(serving) : s[i] = serving[i]
        /\ Len(serving) \in Nat /\ (serving # <<>> => 1 \in 1 .. Len(serving))
        /\ (serving = <<>> => Len(serving) = 0)
    BY <2>2, <2>3 DEF StackSound
  <2>5. Recent(s, letters)
    BY <2>2, <2>3, Numbered, RecentParts DEF StackSound
  <2>. QED
    BY <2>2, <2>4, <2>5 DEF StackSound, Last
<1>2. CASE l.reply
  <2>1. serving # <<>> /\ ~Last(serving).incoming /\ serving \in Seq(StackEntry) /\ serving[1].incoming
    BY <1>2 DEF Expects, StackSound
  <2>2. s = Front(serving)
    BY <1>2 DEF Served
  <2>3. /\ s \in Seq(StackEntry) /\ Len(s) = Len(serving) - 1 /\ Len(serving) \in Nat
        /\ Len(serving) >= 1 /\ Last(serving) = serving[Len(serving)]
        /\ \A i \in 1 .. Len(serving) - 1 : s[i] = serving[i]
    BY <2>1, <2>2, Split
  <2>4. Len(serving) # 1
    BY <2>1, <2>3
  <2>5. 1 \in 1 .. Len(serving) - 1 /\ s # <<>>
    BY <2>3, <2>4
  <2>6. Last(s) \in StackEntry
    BY <2>3, <2>5, Split
  <2>7. Recent(s, letters)
    BY <2>1, <2>2, Numbered, RecentParts DEF StackSound
  <2>. QED
    BY <2>1, <2>3, <2>5, <2>6, <2>7 DEF StackSound
<1>. QED
  BY <1>1, <1>2

\* The message that Self serves next.
IsDue(l) == inbox # <<>> /\ l = Head(inbox)

LEMMA DueIs ==
  ASSUME ThreadSound, NEW l, IsDue(l)
  PROVE  /\ Mails(Tail(inbox)) /\ Recent(Tail(inbox), letters)
         /\ l \in Mail /\ l = inbox[1] /\ l.id <= letters /\ letters \in Nat
<1>1. Mails(inbox) /\ letters \in Nat /\ Recent(inbox, letters) /\ inbox \in Seq(Mail)
  BY Bounds DEF ThreadSound, Mails
<1>2. inbox # <<>> /\ l = Head(inbox)
  BY DEF IsDue
<1>3. /\ Mails(Tail(inbox)) /\ l \in Mail /\ l = inbox[1]
      /\ Len(inbox) \in Nat /\ Len(inbox) >= 1
  BY <1>1, <1>2, MailsTail
<1>4. Recent(Tail(inbox), letters)
  BY <1>1, <1>2, Numbered, RecentParts
<1>5. l.id <= letters
  <2>1. 1 \in 1 .. Len(inbox)
    BY <1>3
  <2>. QED
    BY <2>1, <1>1, <1>3 DEF Recent
<1>. QED
  BY <1>1, <1>3, <1>4, <1>5

\* Whom on_call may leave a message for.
Writable(x) == x \in Addressed \/ x \in Speaker \/ x = ""

LEMMA PostedSound ==
  ASSUME ThreadSound, StackSound(serving, letters), NEW l, IsDue(l),
         l.reply => Expects(l), NEW x, Writable(x), Posted(l, x)
  PROVE  ThreadSound' /\ StackSound(serving', letters')
<1>0. Chained(line) /\ letters \in Nat
  BY Bounds DEF ThreadSound
<1>1. PICK due : due = Tail(inbox)
  OBVIOUS
<1>2. Mails(due) /\ Recent(due, letters)
  BY <1>1, DueIs
<1>3. l \in Mail /\ l.id <= letters
  BY DueIs
<1>4. PICK s : s = Served(l)
  OBVIOUS
<1>5. PICK e : e = Last(s)
  OBVIOUS
<1>6. s # <<>> /\ StackSound(s, letters) /\ e \in StackEntry
  BY <1>0, <1>3, <1>4, <1>5, ServedSound
<1>7. PICK to : to = IF x = "" THEN e.peer ELSE x
  OBVIOUS
<1>8. serving' = IF to = e.peer THEN Front(s) ELSE Append(s, Outgoing(to))
  BY <1>4, <1>5, <1>7, Zenon DEF Posted
<1>9. \/ Speaks = Self /\ Returned(due)
      \/ to # e.peer /\ Speaks = Self /\ to # Nowhere /\ Called(Self, to, due)
      \/ Rejected(due)
  BY <1>1, <1>4, <1>5, <1>7 DEF Posted
<1>10. to # e.peer => to = x /\ x # ""
  BY <1>7
<1>11. ThreadSound' /\ letters <= letters'
  <2>1. CASE Speaks = Self /\ Returned(due)
    <3>1. line # <<>>
      BY <2>1, Apart DEF Speaks
    <3>. QED
      BY <2>1, <3>1, <1>2, ReturnedSound
  <2>2. CASE Rejected(due)
    <3>1. Rewinds(due)
      BY <2>2, <1>0, RewindsEither
    <3>. QED
      BY <3>1, <1>2, UnwoundSound
  <2>3. CASE to # e.peer /\ Speaks = Self /\ to # Nowhere /\ Called(Self, to, due)
    <3>1. to \in Addressed \/ to \in Speaker
      BY <1>10, <2>3, Zenon DEF Writable
    <3>2. Reached(to) \in Speaker
      BY <2>3, <3>1, ReachesOne
    <3>3. PICK from : from = Self
      OBVIOUS
    <3>4. from = HolderOf(line) /\ Called(from, to, due)
      BY <2>3, <3>3, SpeaksIsHolder
    <3>. QED
      BY <3>2, <3>4, <1>2, CalledSound
  <2>. QED
    BY <1>9, <2>1, <2>2, <2>3
<1>12. PICK m \in Nat : m = letters' /\ letters <= m
  BY <1>11, Bounds DEF ThreadSound
<1>13. /\ s \in Seq(StackEntry) /\ s[1].incoming /\ Recent(s, letters)
       /\ Len(s) \in Nat /\ Len(s) >= 1 /\ 1 \in 1 .. Len(s)
  BY <1>6 DEF StackSound
<1>14. StackSound(serving', m)
  <2>1. CASE to = e.peer
    <3>1. PICK r : r = Front(s)
      OBVIOUS
    <3>2. /\ r \in Seq(StackEntry) /\ Len(r) = Len(s) - 1
          /\ \A i \in 1 .. Len(s) - 1 : r[i] = s[i]
      BY <1>6, <1>13, <3>1, Split
    <3>3. r # <<>> => 1 \in 1 .. Len(s) - 1
      BY <1>13, <3>2
    <3>4. Recent(r, m)
      BY <1>0, <1>6, <1>12, <1>13, <3>1, Numbered, RecentParts
    <3>. QED
      BY <1>8, <1>13, <2>1, <3>1, <3>2, <3>3, <3>4 DEF StackSound
  <2>2. CASE to # e.peer
    <3>1. PICK o : o = Outgoing(to)
      OBVIOUS
    <3>2. o \in StackEntry /\ o.id = 0
      <4>1. to \in Mention
        BY <1>10, <2>2, Zenon DEF Mention, Writable
      <4>. QED
        BY <3>1, <4>1, OutgoingIs
    <3>3. PICK r : r = Append(s, o)
      OBVIOUS
    <3>4. r \in Seq(StackEntry) /\ r[1] = s[1]
      BY <1>13, <3>2, <3>3
    <3>5. o.id <= m
      BY <1>12, <3>2
    <3>6. Recent(r, m)
      BY <1>0, <1>12, <1>13, <3>2, <3>3, <3>5, Numbered, RecentParts
    <3>. QED
      BY <1>8, <1>13, <2>2, <3>1, <3>3, <3>4, <3>6 DEF StackSound
  <2>. QED
    BY <2>1, <2>2
<1>. QED
  BY <1>11, <1>12, <1>14

\* What LLMAgent has left to send is for agents, and one is sent after another.
LEMMA SendsFrom ==
  ASSUME NEW S, NEW q \in Seq(S), NEW y, NEW i,
         i = SelectInSeq(q, LAMBDA x : x # y), i # 0
  PROVE  q[i] \in S /\ q[i] # y /\ RemoveAt(q, i) \in Seq(S)
<1>. DEFINE I == {j \in 1 .. Len(q) : q[j] # y}
<1>1. I # {} /\ i = Min(I)
  BY DEF SelectInSeq
<1>2. PICK j \in I : \A k \in I : j <= k
  <2>. I \subseteq Nat
    OBVIOUS
  <2>. HIDE DEF I
  <2>. QED  BY <1>1, LeastNat
<1>3. i \in I
  <2>. HIDE DEF I
  <2>. QED  BY <1>1, <1>2 DEF Min
<1>4. i \in 1 .. Len(q) /\ Len(q) \in Nat
  BY <1>3
<1>5. q[i] \in S /\ q[i] # y
  BY <1>3
<1>6. RemoveAt(q, i) \in Seq(S)
  BY <1>4, RemoveAtType
<1>. QED
  BY <1>5, <1>6

\* A conversation is opened, or is the one that an answer was waited for in.
LEMMA OpenedSound ==
  ASSUME TalkSound(talk), NEW l \in Mail
  PROVE  \E b, r : /\ TalkSound(b) /\ r \in TalkRecord /\ ToSomeone(r.returnTo)
                   /\ Opened(l) = Append(b, r) /\ Len(b) >= 1
<1>1. /\ talk \in Seq(TalkRecord) /\ talk # <<>> /\ talk[1].expect = "none" /\ Len(talk) \in Nat
      /\ Len(talk) >= 1
  BY DEF TalkSound, Grounded
<1>4. l.from \in Mention /\ ToSomeone(l.from) /\ l.from # "none"
  <2>1. l.from \in Speaker \cup {""}
    BY Zenon DEF Mail
  <2>2. l.from # "none"
    BY <2>1, Apart
  <2>. QED
    BY <2>1, <2>2, Zenon DEF Mention, ToSomeone
<1>2. CASE ~Awaited(l)
  <2>1. PICK r : r = [returnTo |-> l.from, expect |-> "none", pending |-> <<>>]
    OBVIOUS
  <2>2. r \in TalkRecord /\ r.returnTo = l.from
    <3>1. r.returnTo = l.from /\ r.expect = "none" /\ r.pending = <<>>
      BY <2>1
    <3>2. "none" \in Mention
      BY Zenon DEF Mention
    <3>3. <<>> \in Seq(Addressed \cup {""})
      BY EmptySeq
    <3>. QED
      BY <1>4, <2>1, <3>1, <3>2, <3>3, Zenon DEF TalkRecord
  <2>3. Opened(l) = Append(talk, r)
    BY <1>2, <2>1 DEF Opened
  <2>. QED
    BY <1>1, <1>4, <2>2, <2>3
<1>3. CASE Awaited(l)
  <2>1. PICK b : b = Front(talk)
    OBVIOUS
  <2>2. PICK f : f = Last(talk)
    OBVIOUS
  <2>3. /\ b \in Seq(TalkRecord) /\ f \in TalkRecord /\ talk = Append(b, f)
        /\ Len(b) = Len(talk) - 1 /\ f = talk[Len(talk)]
        /\ \A i \in 1 .. Len(talk) - 1 : b[i] = talk[i]
    BY <1>1, <2>1, <2>2, Split
  <2>4. f.expect # "none"
    BY <1>3, <1>4, <2>2 DEF Awaited
  <2>5. Len(talk) # 1
    BY <1>1, <2>3, <2>4
  <2>6. Len(talk) \in 2 .. Len(talk) /\ Len(b) >= 1 /\ 1 \in 1 .. Len(talk) - 1 /\ b # <<>>
    BY <1>1, <2>3, <2>5
  <2>7. TalkSound(b)
    <3>1. \A i \in 2 .. Len(b) : i \in 2 .. Len(talk) /\ b[i] = talk[i]
      BY <1>1, <2>3
    <3>. QED
      BY <1>1, <2>3, <2>6, <3>1 DEF TalkSound, Grounded
  <2>8. PICK r : r = [f EXCEPT !.expect = "none"]
    OBVIOUS
  <2>9. r \in TalkRecord /\ r.returnTo = f.returnTo
    BY <2>3, <2>8 DEF TalkRecord, Mention
  <2>10. ToSomeone(r.returnTo)
    BY <2>3, <2>6, <2>9 DEF TalkSound
  <2>11. Opened(l) = Append(b, r)
    <3>1. Opened(l) = [talk EXCEPT ![Len(talk)] = r]
      BY <1>3, <2>2, <2>3, <2>8 DEF Opened
    <3>2. [talk EXCEPT ![Len(talk)] = r] = Append(b, r)
      BY <2>3, <2>9, LastReplaced
    <3>. QED
      BY <3>1, <3>2
  <2>. QED
    BY <2>6, <2>7, <2>9, <2>10, <2>11
<1>. QED
  BY <1>2, <1>3

LEMMA GroundSound ==
  ASSUME NEW t, t = <<[returnTo |-> "none", expect |-> "none", pending |-> <<>>]>>
  PROVE  TalkSound(t)
<1>1. PICK r : r = [returnTo |-> "none", expect |-> "none", pending |-> <<>>]
  OBVIOUS
<1>2. t = <<r>> /\ r \in TalkRecord /\ r.expect = "none"
  BY <1>1 DEF TalkRecord, Mention
<1>3. t \in Seq(TalkRecord) /\ Len(t) = 1 /\ t[1] = r
  BY <1>2
<1>. QED
  BY <1>2, <1>3 DEF TalkSound, Grounded

LEMMA ConversedSound ==
  ASSUME ThreadSound, StackSound(serving, letters), TalkSound(talk),
         NEW l, IsDue(l), l.reply => Expects(l), NEW plan \in Plans, Conversed(l, plan)
  PROVE  ThreadSound' /\ StackSound(serving', letters') /\ TalkSound(talk')
<1>0. l \in Mail
  BY DueIs
<1>1. PICK b, r :
        /\ TalkSound(b) /\ r \in TalkRecord /\ ToSomeone(r.returnTo)
        /\ Opened(l) = Append(b, r) /\ Len(b) >= 1
  BY <1>0, OpenedSound
<1>2. b \in Seq(TalkRecord) /\ b # <<>> /\ Front(Opened(l)) = b /\ Last(Opened(l)) = r
  BY <1>1 DEF Front, Last, Grounded, TalkSound
<1>3. PICK top : top = [r EXCEPT !.pending = IF @ = <<>> THEN plan ELSE @]
  OBVIOUS
<1>4. PICK S : S = Addressed \cup {""}
  OBVIOUS
<1>5. TalkRecord = [returnTo : Mention, expect : Mention, pending : Seq(S)]
  BY <1>4, Zenon DEF TalkRecord
<1>6. top.pending \in Seq(S) /\ top.returnTo = r.returnTo /\ top \in TalkRecord
  <2>1. plan \in Seq(S)
    BY <1>4, PlanTyped
  <2>. QED
    BY <2>1, <1>1, <1>3, <1>5
<1>7. PICK i : i = SelectInSeq(top.pending, LAMBDA x : x # top.returnTo)
  OBVIOUS
<1>8. CASE i = 0
  <2>1. talk' = b /\ Posted(l, top.returnTo)
    BY <1>2, <1>3, <1>7, <1>8 DEF Conversed, Closed
  <2>2. ThreadSound' /\ StackSound(serving', letters')
    <3>1. PICK x : x = top.returnTo
      OBVIOUS
    <3>2. ToSomeone(x) /\ Posted(l, x)
      BY <1>1, <1>6, <2>1, <3>1
    <3>3. Writable(x)
      BY <3>2 DEF ToSomeone, Writable
    <3>. QED
      BY <3>2, <3>3, PostedSound
  <2>. QED
    BY <1>1, <2>1, <2>2
<1>9. CASE i # 0
  <2>1. PICK x : x = top.pending[i]
    OBVIOUS
  <2>2. x \in S /\ RemoveAt(top.pending, i) \in Seq(S)
    BY <2>1, <1>6, <1>7, <1>9, SendsFrom
  <2>3. PICK f : f = [top EXCEPT !.expect = x, !.pending = RemoveAt(@, i)]
    OBVIOUS
  <2>4. talk' = Append(b, f) /\ Posted(l, x)
    BY <2>1, <2>3, <1>2, <1>3, <1>7, <1>9 DEF Conversed
  <2>5. x \in Mention /\ Writable(x)
    BY <2>2, <1>4, Zenon DEF Mention, Writable
  <2>6. f \in TalkRecord /\ f.returnTo = r.returnTo
    BY <1>5, <1>6, <2>2, <2>3, <2>5
  <2>7. TalkSound(talk')
    <3>1. /\ talk' \in Seq(TalkRecord) /\ Len(talk') = Len(b) + 1 /\ talk'[Len(b) + 1] = f
          /\ \A j \in 1 .. Len(b) : talk'[j] = b[j]
          /\ Len(b) \in Nat /\ 1 \in 1 .. Len(b)
      BY <1>1, <1>2, <2>4, <2>6
    <3>2. ASSUME NEW j \in 2 .. Len(talk')  PROVE ToSomeone(talk'[j].returnTo)
      <4>1. j \in 2 .. Len(b) \/ j = Len(b) + 1
        BY <3>1
      <4>2. j \in 2 .. Len(b) => j \in 1 .. Len(b)
        BY <3>1
      <4>. QED
        BY <1>1, <2>6, <3>1, <4>1, <4>2 DEF TalkSound
    <3>3. talk' # <<>> /\ talk'[1].expect = "none"
      BY <1>1, <3>1 DEF TalkSound, Grounded
    <3>. QED
      BY <3>1, <3>2, <3>3 DEF TalkSound, Grounded
  <2>8. ThreadSound' /\ StackSound(serving', letters')
    BY <2>4, <2>5, PostedSound
  <2>. QED
    BY <2>7, <2>8
<1>. QED
  BY <1>8, <1>9

LEMMA NoticeMail == Mails(<<Notice>>) /\ Recent(<<Notice>>, 0) /\ ~Notice.reply
<1>1. PICK l : l = Notice
  OBVIOUS
<1>0. l.reply = FALSE
  BY <1>1 DEF Notice
<1>2. l.id = 0
  BY <1>1 DEF Notice
<1>3. 0 \in 0 .. MaxLetters
  BY Bounds
<1>4. l \in Mail
  <2>1. l = [from |-> "", reply |-> FALSE, id |-> 0]
    BY <1>1 DEF Notice
  <2>2. FALSE \in BOOLEAN /\ "" \in Speaker \cup {""}
    BY Zenon
  <2>. QED
    BY <2>1, <2>2, <1>3, Zenon DEF Mail
<1>5. PICK t : t = <<l>>
  OBVIOUS
<1>6. t \in Seq(Mail) /\ Len(t) = 1 /\ t[1] = l
  BY <1>4, <1>5
<1>7. Recent(t, 0)
  <2>1. \A i \in 1 .. Len(t) : t[i] = l
    BY <1>6
  <2>2. \A i \in 1 .. Len(t) : t[i].id <= 0
    BY <2>1, <1>2
  <2>. QED
    BY <2>2 DEF Recent
<1>. QED
  BY <1>0, <1>1, <1>5, <1>6, <1>7 DEF Mails

\* What a new process starts with.
LEMMA ReplacedSound ==
  ASSUME ThreadSound, Replaced
  PROVE  /\ ThreadSound' /\ StackSound(serving', letters') /\ TalkSound(talk')
         /\ Mails(inbox') /\ (inbox' = <<>> \/ inbox' = <<Notice>>)
<1>1. /\ Chained(line) /\ letters \in Nat /\ Recent(line, letters) /\ line \in Seq(ThreadFrame)
      /\ letters \in 0 .. MaxLetters /\ cut \in BOOLEAN
  BY Bounds DEF ThreadSound, Chained
<1>2. /\ line' = SubSeq(line, 1, Below) /\ letters' = letters /\ serving' = <<>>
      /\ inbox' = (IF line = <<>> THEN <<Notice>> ELSE <<>>)
      /\ cut' = (cut \/ OfSelf(line'))
  BY DEF Replaced
<1>3. Below \in 0 .. Len(line)
  BY <1>1, BelowLast
<1>4. PICK g : g = SubSeq(line, 1, Below)
  OBVIOUS
<1>5. Chained(g) /\ Recent(g, letters)
  BY <1>1, <1>3, <1>4, ChainedPrefix, Numbered, RecentParts
<1>6. Chained(line') /\ Recent(line', letters)
  BY <1>2, <1>4, <1>5 DEF Chained, Recent
<1>7. Mails(inbox') /\ Recent(inbox', letters)
  <2>1. CASE line = <<>>
    <3>1. PICK t : t = <<Notice>>
      OBVIOUS
    <3>2. Mails(t) /\ Recent(t, 0)
      BY <3>1, NoticeMail
    <3>3. Recent(t, letters)
      BY <1>1, <3>2, Numbered, RecentParts DEF Mails
    <3>4. inbox' = t
      BY <2>1, <1>2, <3>1
    <3>. QED
      BY <3>2, <3>3, <3>4
  <2>2. CASE line # <<>>
    <3>1. inbox' = <<>>
      BY <2>2, <1>2
    <3>2. Mails(<<>>)
      BY EmptySeq DEF Mails
    <3>. QED
      BY <3>1, <3>2 DEF Recent
  <2>. QED
    BY <2>1, <2>2
<1>8. cut' \in BOOLEAN
  BY <1>1, <1>2, Zenon
<1>9. TalkSound(talk')
  BY GroundSound DEF Replaced, Ground
<1>10. StackSound(serving', letters')
  <2>1. serving' \in Seq(StackEntry)
    BY <1>2, EmptySeq
  <2>. QED
    BY <2>1, <1>2 DEF StackSound, Recent
<1>. QED
  BY <1>1, <1>2, <1>6, <1>7, <1>8, <1>9, <1>10 DEF ThreadSound, Chained, Mails, Recent

LEMMA ConversationTypesInit == CvInit => ConversationTypes
<1>. SUFFICES ASSUME CvInit  PROVE ConversationTypes
  OBVIOUS
<1>1. line = <<>> /\ inbox = <<>> /\ serving = <<>> /\ letters = 0 /\ fault = "none"
  BY DEF CvInit
<1>2. crossed \in BOOLEAN /\ cut \in BOOLEAN
  BY Zenon DEF CvInit
<1>3. TalkSound(talk)
  BY GroundSound DEF CvInit, Ground
<1>4. Chained(line) /\ letters \in 0 .. MaxLetters
  <2>1. line \in Seq(ThreadFrame)
    BY <1>1, EmptySeq
  <2>. QED
    BY <1>1, <2>1, Bounds DEF Chained
<1>5. StackSound(serving, letters)
  <2>1. serving \in Seq(StackEntry)
    BY <1>1, EmptySeq
  <2>. QED
    BY <1>1, <2>1 DEF StackSound, Recent
<1>6. Mails(inbox)
  BY <1>1, EmptySeq DEF Mails
<1>7. Recent(line, letters) /\ Recent(inbox, letters)
  BY <1>1 DEF Recent
<1>. QED
  BY <1>1, <1>2, <1>3, <1>4, <1>5, <1>6, <1>7 DEF ConversationTypes, ThreadSound

LEMMA ConversationTypesOthers ==
  ASSUME ThreadSound, NEW a \in Speaker,
         \/ OtherAnswers(a) \/ OtherErrs(a) \/ OtherDies(a)
         \/ \E x \in Addressed \cup {Clone} : OtherCalls(a, x)
  PROVE  ThreadSound' /\ letters <= letters' /\ UNCHANGED <<serving, talk, crossed, fault>>
<1>0. Chained(line) /\ Mails(inbox) /\ Recent(inbox, letters)
  BY DEF ThreadSound
<1>1. PICK due : due = inbox
  OBVIOUS
<1>2. Mails(due) /\ Recent(due, letters)
  BY <1>0, <1>1
<1>3. ASSUME Rejected(due) \/ Unwound(Below, due)
      PROVE  ThreadSound' /\ letters <= letters'
  <2>1. Rewinds(due)
    BY <1>0, <1>3, RewindsEither
  <2>. QED
    BY <2>1, <1>2, UnwoundSound
<1>4. CASE OtherAnswers(a)
  <2>1. line # <<>> /\ Returned(due)
    BY <1>1, <1>4 DEF OtherAnswers
  <2>. QED
    BY <1>2, <1>4, <2>1, ReturnedSound DEF OtherAnswers
<1>5. CASE OtherErrs(a)
  <2>1. Rejected(due)
    BY <1>1, <1>5 DEF OtherErrs
  <2>. QED
    BY <1>3, <1>5, <2>1 DEF OtherErrs
<1>6. CASE OtherDies(a)
  <2>1. Unwound(Below, due)
    BY <1>1, <1>6 DEF OtherDies
  <2>. QED
    BY <1>3, <1>6, <2>1 DEF OtherDies
<1>7. ASSUME NEW x \in Addressed \cup {Clone}, OtherCalls(a, x)
      PROVE  ThreadSound' /\ letters <= letters' /\ UNCHANGED <<serving, talk, crossed, fault>>
  <2>1. /\ a = Speaks /\ UNCHANGED <<serving, talk, crossed, fault>>
        /\ x = Nowhere => Rejected(due)
        /\ x # Nowhere => Called(a, x, due)
    BY <1>1, <1>7 DEF OtherCalls
  <2>2. CASE x = Nowhere
    BY <2>1, <2>2, <1>3
  <2>3. CASE x # Nowhere
    <3>1. x \in Addressed \/ x \in Speaker
      BY Zenon DEF Speaker
    <3>2. Reached(x) \in Speaker /\ a = HolderOf(line)
      BY <2>1, <2>3, <3>1, ReachesOne, SpeaksIsHolder
    <3>3. ThreadSound' /\ letters <= letters'
      BY <2>1, <2>3, <3>2, <1>2, CalledSound
    <3>. QED
      BY <2>1, <3>3
  <2>. QED
    BY <2>2, <2>3
<1>. QED
  BY <1>4, <1>5, <1>6, <1>7

\* Neither of the two stacks loses what it has at its bottom.
LEMMA ConversationTypesStep ==
  ASSUME ConversationTypes, [CvNext]_cvars
  PROVE  ConversationTypes'
<1>0. /\ ThreadSound /\ StackSound(serving, letters) /\ TalkSound(talk)
      /\ crossed \in BOOLEAN /\ fault \in {"none", "alias", "check"}
  BY DEF ConversationTypes
<1>1. ASSUME ThreadSound', StackSound(serving', letters'), TalkSound(talk'),
             crossed' \in BOOLEAN, fault' \in {"none", "alias", "check"}
      PROVE  ConversationTypes'
  BY <1>1 DEF ConversationTypes, StackSound, TalkSound, Grounded, Recent
<1>2. CASE UNCHANGED cvars
  BY <1>2 DEF cvars, ConversationTypes, ThreadSound, StackSound, TalkSound, Grounded, Chained,
              Mails, Recent
<1>3. ASSUME NEW a \in Speaker,
             \/ OtherAnswers(a) \/ OtherErrs(a) \/ OtherDies(a)
             \/ \E x \in Addressed \cup {Clone} : OtherCalls(a, x)
      PROVE  ConversationTypes'
  <2>1. ThreadSound' /\ letters <= letters' /\ UNCHANGED <<serving, talk, crossed, fault>>
    BY <1>0, <1>3, ConversationTypesOthers
  <2>2. letters \in Nat /\ letters' \in Nat
    BY <1>0, <2>1, Bounds DEF ThreadSound
  <2>3. StackSound(serving, letters')
    BY <1>0, <2>1, <2>2, Numbered, RecentParts DEF StackSound
  <2>4. crossed' \in BOOLEAN
    BY <1>0, <2>1, Zenon
  <2>. QED
    BY <1>0, <1>1, <2>1, <2>3, <2>4
<1>4. ASSUME Replaced, fault' \in {"none", "alias", "check"}  PROVE ConversationTypes'
  <2>1. ThreadSound' /\ StackSound(serving', letters') /\ TalkSound(talk')
    BY <1>0, <1>4, ReplacedSound
  <2>2. crossed' \in BOOLEAN
    BY <1>0, <1>4, Zenon DEF Replaced
  <2>. QED
    BY <1>1, <1>4, <2>1, <2>2
<1>5. CASE Dies
  BY <1>0, <1>4, <1>5 DEF Dies
<1>6. ASSUME NEW l, IsDue(l),
             Fails(l) \/ ListModels(l) \/ \E plan \in Plans : OnCall(l, plan)
      PROVE  ConversationTypes'
  <2>1. CASE Fails(l)
    <3>1. Replaced /\ fault' \in {"none", "alias", "check"}
      BY <2>1 DEF Fails
    <3>. QED
      BY <1>4, <3>1
  <2>2. CASE ListModels(l)
    <3>1. PICK x : x = ""
      OBVIOUS
    <3>2. (l.reply => Expects(l)) /\ Posted(l, x) /\ talk' = talk /\ fault' = fault
      BY <2>2, <3>1 DEF ListModels
    <3>3. crossed' \in BOOLEAN
      <4>1. l.reply \in BOOLEAN
        <5>1. l \in Mail
          BY <1>0, <1>6, DueIs
        <5>. QED
          BY <5>1, Zenon DEF Mail
      <4>. QED
        BY <4>1, <1>0, <2>2, Zenon DEF ListModels
    <3>4. Writable(x)
      BY <3>1 DEF Writable
    <3>5. ThreadSound' /\ StackSound(serving', letters')
      BY <1>0, <1>6, <3>2, <3>4, PostedSound
    <3>. QED
      BY <1>0, <1>1, <3>2, <3>3, <3>5
  <2>3. ASSUME NEW plan \in Plans, OnCall(l, plan)  PROVE ConversationTypes'
    <3>1. (l.reply => Expects(l)) /\ Conversed(l, plan) /\ fault' = fault
      BY <2>3 DEF OnCall
    <3>2. crossed' \in BOOLEAN
      BY <1>0, <2>3, Zenon DEF OnCall
    <3>3. ThreadSound' /\ StackSound(serving', letters') /\ TalkSound(talk')
      BY <1>0, <1>6, <3>1, ConversedSound
    <3>. QED
      BY <1>0, <1>1, <3>1, <3>2, <3>3
  <2>. QED
    BY <1>6, <2>1, <2>2, <2>3
<1>. QED
  BY <1>2, <1>3, <1>5, <1>6 DEF CvNext, IsDue

-----------------------------------------------------------------------------
(* Conversation: the thread and LinearService's stack *)

\* The entries that a frame has on the stack: for a call of Self's and for one
\* to Self.
Made(f) == IF f.from = Self THEN 1 ELSE 0
Taken(f) == IF f.to = Self THEN 1 ELSE 0

\* p[i] is the size of the stack when the first i frames had their entries; the
\* p[0] entries below are of calls that a rewind ended.
Tallies(p, frames) ==
  /\ p \in [Nat -> Nat]
  /\ \A i \in 1 .. Len(frames) : p[i] = p[i - 1] + Made(frames[i]) + Taken(frames[i])
  /\ \A i, j \in 0 .. Len(frames) : i <= j =>
       /\ p[i] <= p[j]
       /\ (\A k \in i + 1 .. j : ~OwnFrame(frames[k])) => p[i] = p[j]

CallEntry(e, f) == ~e.incoming /\ Reached(e.peer) = f.to
ServedEntry(e, f) == e.incoming /\ e.peer = f.from /\ e.id = f.id

\* The entries that are there are those.
Entered(p, frames, s) ==
  /\ s \in Seq(StackEntry)
  /\ \A i \in 1 .. Len(frames) :
       /\ frames[i].from = Self /\ p[i - 1] + 1 <= Len(s) => CallEntry(s[p[i - 1] + 1], frames[i])
       /\ frames[i].to = Self /\ p[i] <= Len(s) => ServedEntry(s[p[i]], frames[i])
\* A call that is being delivered has no entry yet, and the entry for one that
\* was answered is still there.
Delivers(p, frames, l, s) ==
  /\ frames # <<>> /\ HolderOf(frames) = Self /\ l \in Mail /\ l.from \in Speaker
  /\ IF l.reply
     THEN /\ Len(s) = p[Len(frames)] + 1
          /\ ~Last(s).incoming /\ Reached(Last(s).peer) = l.from
     ELSE /\ Len(s) + 1 = p[Len(frames)]
          /\ l.from = Last(frames).from /\ l.id = Last(frames).id

Level(p, frames, due, s) ==
  \/ due = <<>> /\ HolderOf(frames) # Self /\ Len(s) = p[Len(frames)]
  \/ \E l \in Mail : due = <<l>> /\ Delivers(p, frames, l, s)

Followed(p, frames, due, s) ==
  Tallies(p, frames) /\ Entered(p, frames, s) /\ Level(p, frames, due, s)

\* Only the message that Self is at work on may be an answer, to its last call.
AnswerFits(l, s) ==
  /\ s # <<>> /\ ~Last(s).incoming /\ Reached(Last(s).peer) = l.from /\ l.from \in Speaker
  /\ Front(s) # <<>> /\ Last(Front(s)).incoming

Waiting(due, s) ==
  /\ Mails(due) /\ \A i \in 2 .. Len(due) : ~due[i].reply
  /\ (due # <<>> /\ due[1].reply) => AnswerFits(due[1], s)

\* The thread was rewound under what Self is at work on, which is late whether
\* or not Self has been called again.
CalledAgain(frames, due, s) ==
  /\ Len(due) >= 2 /\ frames # <<>> /\ Clear(Front(frames))
  /\ Last(frames).to = Self /\ Last(frames).from # Self
  /\ due[1].id < Last(frames).id /\ \A i \in 1 .. Len(s) : s[i].id < Last(frames).id

Adrift(frames, due, s) ==
  /\ due # <<>> /\ Waiting(due, s) /\ s \in Seq(StackEntry)
  /\ Clear(frames) \/ CalledAgain(frames, due, s)

TrackedAs(frames, due, s) == (\E p : Followed(p, frames, due, s)) \/ Adrift(frames, due, s)

LEMMA TalliesPrefix ==
  ASSUME NEW frames \in Seq(ThreadFrame), NEW k \in 0 .. Len(frames),
         NEW p, Tallies(p, frames), NEW s, Entered(p, frames, s)
  PROVE  /\ SubSeq(frames, 1, k) \in Seq(ThreadFrame) /\ Len(SubSeq(frames, 1, k)) = k
         /\ \A i \in 1 .. k : SubSeq(frames, 1, k)[i] = frames[i]
         /\ Tallies(p, SubSeq(frames, 1, k)) /\ Entered(p, SubSeq(frames, 1, k), s)
<1>1. PICK q : q = SubSeq(frames, 1, k)
  OBVIOUS
<1>2. /\ q \in Seq(ThreadFrame) /\ Len(q) = k /\ k \in Nat /\ Len(frames) \in Nat
      /\ \A i \in 1 .. k : q[i] = frames[i] /\ i \in 1 .. Len(frames)
  BY <1>1
<1>3. \A i \in 0 .. k : i \in 0 .. Len(frames)
  BY <1>2
<1>4. \A i, j \in 0 .. k : \A m \in i + 1 .. j : m \in 1 .. k
  BY <1>2
<1>5. Tallies(p, q)
  <2>1. ASSUME NEW i \in 0 .. k, NEW j \in 0 .. k, i <= j
        PROVE  /\ p[i] <= p[j]
               /\ (\A m \in i + 1 .. j : ~OwnFrame(q[m])) => p[i] = p[j]
    <3>1. i \in 0 .. Len(frames) /\ j \in 0 .. Len(frames)
      BY <1>3
    <3>2. \A m \in i + 1 .. j : q[m] = frames[m]
      BY <1>2, <1>4
    <3>. QED
      BY <2>1, <3>1, <3>2 DEF Tallies
  <2>2. \A i \in 1 .. k : p[i] = p[i - 1] + Made(q[i]) + Taken(q[i])
    BY <1>2 DEF Tallies
  <2>. QED
    BY <1>2, <2>1, <2>2 DEF Tallies
<1>6. Entered(p, q, s)
  BY <1>2 DEF Entered
<1>. QED
  BY <1>1, <1>2, <1>5, <1>6

\* Frames of others have no entries: all there are lie below.
LEMMA TalliesOthers ==
  ASSUME NEW frames \in Seq(ThreadFrame), \A i \in 1 .. Len(frames) : ~OwnFrame(frames[i]),
         NEW s \in Seq(StackEntry)
  PROVE  \E p : Tallies(p, frames) /\ Entered(p, frames, s) /\ p[Len(frames)] = Len(s)
<1>1. PICK p : p = [i \in Nat |-> Len(s)]
  OBVIOUS
<1>2. p \in [Nat -> Nat] /\ (\A i \in Nat : p[i] = Len(s)) /\ Len(s) \in Nat /\ Len(frames) \in Nat
  BY <1>1
<1>3. ASSUME NEW i \in 1 .. Len(frames)
      PROVE  /\ p[i] = p[i - 1] + Made(frames[i]) + Taken(frames[i])
             /\ frames[i].from # Self /\ frames[i].to # Self
  <2>1. frames[i].from # Self /\ frames[i].to # Self
    BY DEF OwnFrame
  <2>2. i \in Nat /\ i - 1 \in Nat
    BY <1>2
  <2>. QED
    BY <1>2, <2>1, <2>2 DEF Made, Taken
<1>4. \A i \in 0 .. Len(frames) : i \in Nat
  BY <1>2
<1>5. Tallies(p, frames)
  BY <1>2, <1>3, <1>4 DEF Tallies
<1>6. Entered(p, frames, s)
  BY <1>3 DEF Entered
<1>7. Len(frames) \in Nat
  BY <1>2
<1>. QED
  BY <1>2, <1>5, <1>6, <1>7

\* A call adds the entries of its frame.
LEMMA TalliesNext ==
  ASSUME NEW frames \in Seq(ThreadFrame), NEW f \in ThreadFrame, NEW p, Tallies(p, frames)
  PROVE  \E q : /\ Tallies(q, Append(frames, f))
                /\ \A i \in 0 .. Len(frames) : q[i] = p[i]
                /\ q[Len(frames) + 1] = p[Len(frames)] + Made(f) + Taken(f)
<1>. DEFINE n == Len(frames)
<1>1. n \in Nat
  OBVIOUS
<1>2. PICK g : g = Append(frames, f)
  OBVIOUS
<1>3. /\ Len(g) = n + 1 /\ g[n + 1] = f
      /\ \A i \in 1 .. n : g[i] = frames[i]
  BY <1>2
<1>4. p \in [Nat -> Nat] /\ p[n] \in Nat /\ Made(f) \in Nat /\ Taken(f) \in Nat
  BY <1>1 DEF Tallies, Made, Taken
<1>5. PICK q : q = [p EXCEPT ![n + 1] = p[n] + Made(f) + Taken(f)]
  OBVIOUS
<1>6. /\ q \in [Nat -> Nat] /\ q[n + 1] = p[n] + Made(f) + Taken(f)
      /\ \A i \in 0 .. n : q[i] = p[i] /\ q[i] \in Nat
  <2>1. n + 1 \in Nat /\ p[n] + Made(f) + Taken(f) \in Nat
    <3>1. \A x, y, z \in Nat : x + y + z \in Nat
      OBVIOUS
    <3>2. n + 1 \in Nat
      BY <1>1
    <3>3. p[n] + Made(f) + Taken(f) \in Nat
      BY <3>1, <1>4
    <3>. QED
      BY <3>2, <3>3
  <2>2. \A i \in 0 .. n : i \in Nat /\ i # n + 1
    BY <1>1
  <2>. QED
    BY <2>1, <2>2, <1>4, <1>5
<1>7. ASSUME NEW i \in 1 .. n + 1  PROVE q[i] = q[i - 1] + Made(g[i]) + Taken(g[i])
  <2>1. CASE i = n + 1
    <3>1. i - 1 = n /\ n \in 0 .. n
      BY <2>1, <1>1
    <3>2. q[n] = p[n]
      BY <3>1, <1>6
    <3>3. q[i] = p[n] + Made(f) + Taken(f) /\ g[i] = f
      BY <2>1, <1>3, <1>6
    <3>. QED
      BY <3>1, <3>2, <3>3
  <2>2. CASE i \in 1 .. n
    <3>1. q[i] = p[i] /\ q[i - 1] = p[i - 1] /\ g[i] = frames[i]
      <4>1. i \in 0 .. n /\ i - 1 \in 0 .. n
        BY <2>2, <1>1
      <4>. QED
        BY <4>1, <2>2, <1>3, <1>6
    <3>2. p[i] = p[i - 1] + Made(frames[i]) + Taken(frames[i])
      BY <2>2 DEF Tallies
    <3>. QED
      BY <3>1, <3>2
  <2>. QED
    BY <2>1, <2>2, <1>1
<1>8. ASSUME NEW i \in 0 .. n + 1, NEW j \in 0 .. n + 1, i <= j
      PROVE  /\ q[i] <= q[j]
             /\ (\A k \in i + 1 .. j : ~OwnFrame(g[k])) => q[i] = q[j]
  <2>1. CASE j = n + 1 /\ i = n + 1
    BY <2>1, <1>4, <1>6
  <2>2. CASE j = n + 1 /\ i \in 0 .. n
    <3>1. /\ p[i] <= p[n]
          /\ (\A k \in i + 1 .. n : ~OwnFrame(frames[k])) => p[i] = p[n]
      <4>1. n \in 0 .. n /\ i <= n
        BY <2>2, <1>1
      <4>. QED
        BY <2>2, <4>1 DEF Tallies
    <3>2. q[i] <= q[j]
      BY <3>1, <2>2, <1>1, <1>4, <1>6
    <3>3. ASSUME \A k \in i + 1 .. j : ~OwnFrame(g[k])  PROVE q[i] = q[j]
      <4>1. \A k \in i + 1 .. n : k \in i + 1 .. j /\ g[k] = frames[k]
        BY <2>2, <1>1, <1>3
      <4>2. n + 1 \in i + 1 .. j
        BY <2>2, <1>1
      <4>3. ~OwnFrame(f) /\ p[i] = p[n]
        BY <3>1, <3>3, <4>1, <4>2, <1>3
      <4>4. Made(f) = 0 /\ Taken(f) = 0
        BY <4>3 DEF OwnFrame, Made, Taken
      <4>. QED
        BY <4>3, <4>4, <2>2, <1>1, <1>4, <1>6
    <3>. QED
      BY <3>2, <3>3
  <2>3. CASE j \in 0 .. n /\ i \in 0 .. n
    <3>1. \A k \in i + 1 .. j : g[k] = frames[k]
      BY <2>3, <1>1, <1>3
    <3>. QED
      BY <3>1, <2>3, <1>6, <1>8 DEF Tallies
  <2>. QED
    BY <2>1, <2>2, <2>3, <1>1, <1>8
<1>9. Tallies(q, g)
  BY <1>3, <1>6, <1>7, <1>8 DEF Tallies
<1>. QED
  BY <1>2, <1>6, <1>9

\* What the tallies of a frame are.
LEMMA TalliesAt ==
  ASSUME NEW frames \in Seq(ThreadFrame), NEW p, Tallies(p, frames), NEW i \in 1 .. Len(frames)
  PROVE  /\ i \in Nat /\ i - 1 \in Nat /\ i \in 0 .. Len(frames) /\ i - 1 \in 0 .. Len(frames)
         /\ p[i] \in Nat /\ p[i - 1] \in Nat
         /\ Made(frames[i]) \in {0, 1} /\ Taken(frames[i]) \in {0, 1}
         /\ p[i] = p[i - 1] + Made(frames[i]) + Taken(frames[i])
<1>1. i \in Nat /\ i - 1 \in Nat /\ i \in 0 .. Len(frames) /\ i - 1 \in 0 .. Len(frames)
  OBVIOUS
<1>2. p \in [Nat -> Nat] /\ p[i] = p[i - 1] + Made(frames[i]) + Taken(frames[i])
  BY DEF Tallies
<1>3. p[i] \in Nat /\ p[i - 1] \in Nat
  BY <1>1, <1>2
<1>4. Made(frames[i]) \in {0, 1} /\ Taken(frames[i]) \in {0, 1}
  BY DEF Made, Taken
<1>. QED
  BY <1>1, <1>2, <1>3, <1>4

\* An entry that is taken from the stack leaves the others where they were.
LEMMA EnteredShorter ==
  ASSUME NEW frames \in Seq(ThreadFrame), NEW p, Tallies(p, frames),
         NEW s \in Seq(StackEntry), s # <<>>, Entered(p, frames, s)
  PROVE  /\ Front(s) \in Seq(StackEntry) /\ Len(Front(s)) = Len(s) - 1
         /\ Entered(p, frames, Front(s))
<1>1. PICK r : r = Front(s)
  OBVIOUS
<1>2. /\ r \in Seq(StackEntry) /\ Len(r) = Len(s) - 1 /\ Len(s) \in Nat
      /\ \A i \in 1 .. Len(s) - 1 : r[i] = s[i]
  <2>1. Len(s) \in Nat /\ Len(s) # 0 /\ r = SubSeq(s, 1, Len(s) - 1)
    BY <1>1 DEF Front
  <2>2. Len(s) - 1 \in 0 .. Len(s)
    BY <2>1
  <2>3. PICK k \in 0 .. Len(s) : k = Len(s) - 1
    BY <2>2
  <2>4. r = SubSeq(s, 1, k)
    BY <2>1, <2>3
  <2>5. r \in Seq(StackEntry) /\ Len(r) = k /\ \A i \in 1 .. k : r[i] = s[i]
    BY <2>4
  <2>. QED
    BY <2>1, <2>3, <2>5
<1>3. ASSUME NEW i \in 1 .. Len(frames)
      PROVE  /\ frames[i].from = Self /\ p[i - 1] + 1 <= Len(r) => CallEntry(r[p[i - 1] + 1], frames[i])
             /\ frames[i].to = Self /\ p[i] <= Len(r) => ServedEntry(r[p[i]], frames[i])
  <2>1. /\ p[i] \in Nat /\ p[i - 1] \in Nat /\ Made(frames[i]) \in {0, 1}
        /\ p[i] = p[i - 1] + Made(frames[i]) + Taken(frames[i])
    BY TalliesAt
  <2>2. ASSUME frames[i].from = Self, p[i - 1] + 1 <= Len(r)
        PROVE  CallEntry(r[p[i - 1] + 1], frames[i])
    <3>1. p[i - 1] + 1 \in 1 .. Len(s) - 1 /\ p[i - 1] + 1 <= Len(s)
      BY <1>2, <2>1, <2>2
    <3>. QED
      BY <3>1, <2>2, <1>2 DEF Entered
  <2>3. ASSUME frames[i].to = Self, p[i] <= Len(r)
        PROVE  ServedEntry(r[p[i]], frames[i])
    <3>1. Taken(frames[i]) = 1
      BY <2>3 DEF Taken
    <3>2. p[i] \in 1 .. Len(s) - 1 /\ p[i] <= Len(s)
      BY <1>2, <2>1, <2>3, <3>1
    <3>. QED
      BY <3>2, <2>3, <1>2 DEF Entered
  <2>. QED
    BY <2>2, <2>3
<1>4. Entered(p, frames, r)
  BY <1>2, <1>3 DEF Entered
<1>. QED
  BY <1>1, <1>2, <1>4

\* One that is added is that of no frame, or serves the last call.
LEMMA EnteredLonger ==
  ASSUME NEW frames \in Seq(ThreadFrame), NEW p, Tallies(p, frames), NEW s, Entered(p, frames, s),
         NEW e \in StackEntry,
         \/ Len(s) = p[Len(frames)]
         \/ /\ frames # <<>> /\ Len(s) + 1 = p[Len(frames)]
            /\ frames[Len(frames)].to = Self /\ ServedEntry(e, frames[Len(frames)])
  PROVE  /\ Append(s, e) \in Seq(StackEntry) /\ Len(Append(s, e)) = Len(s) + 1
         /\ Last(Append(s, e)) = e /\ Front(Append(s, e)) = s
         /\ Entered(p, frames, Append(s, e))
<1>. DEFINE n == Len(frames)
<1>1. s \in Seq(StackEntry) /\ n \in Nat /\ Len(s) \in Nat
  BY DEF Entered
<1>2. PICK r : r = Append(s, e)
  OBVIOUS
<1>3. /\ r \in Seq(StackEntry) /\ Len(r) = Len(s) + 1 /\ r[Len(s) + 1] = e
      /\ \A i \in 1 .. Len(s) : r[i] = s[i]
  BY <1>1, <1>2
<1>4. Last(r) = e /\ Front(r) = s
  <2>1. Last(r) = e
    BY <1>3 DEF Last
  <2>2. Front(r) = s
    BY <1>1, <1>2 DEF Front
  <2>. QED
    BY <2>1, <2>2
<1>5. ASSUME NEW i \in 1 .. n
      PROVE  /\ frames[i].from = Self /\ p[i - 1] + 1 <= Len(r) => CallEntry(r[p[i - 1] + 1], frames[i])
             /\ frames[i].to = Self /\ p[i] <= Len(r) => ServedEntry(r[p[i]], frames[i])
  <2>1. n \in 1 .. n /\ n - 1 \in 0 .. n /\ n \in 0 .. n
    BY <1>1
  <2>2. /\ i \in 0 .. n /\ p[i] \in Nat /\ p[i - 1] \in Nat
        /\ Made(frames[i]) \in {0, 1} /\ Taken(frames[i]) \in {0, 1}
        /\ p[i] = p[i - 1] + Made(frames[i]) + Taken(frames[i])
    BY TalliesAt
  <2>3. /\ p[n] \in Nat /\ p[n - 1] \in Nat
        /\ Made(frames[n]) \in {0, 1} /\ Taken(frames[n]) \in {0, 1}
        /\ p[n] = p[n - 1] + Made(frames[n]) + Taken(frames[n])
    BY <2>1, TalliesAt
  <2>6. p[i] <= p[n]
    <3>1. i <= n
      BY <1>1
    <3>. QED
      BY <3>1, <2>1, <2>2 DEF Tallies
  <2>7. i # n => p[i] <= p[n - 1]
    <3>1. i # n => i <= n - 1
      BY <1>1
    <3>. QED
      BY <3>1, <2>1, <2>2 DEF Tallies
  <2>4. ASSUME frames[i].from = Self, p[i - 1] + 1 <= Len(r)
        PROVE  CallEntry(r[p[i - 1] + 1], frames[i])
    <3>1. Made(frames[i]) = 1
      BY <2>4 DEF Made
    <3>2. CASE Len(s) = p[n]
      <4>1. p[i - 1] + 1 <= Len(s)
        BY <3>1, <3>2, <2>2, <2>3, <2>6
      <4>. QED
        BY <4>1, <2>2, <2>4, <1>1, <1>3 DEF Entered
    <3>3. CASE Len(s) + 1 = p[n] /\ frames[n].to = Self
      <4>1. Taken(frames[n]) = 1
        BY <3>3 DEF Taken
      <4>2. p[i - 1] + 1 <= Len(s)
        <5>1. CASE i = n
          BY <5>1, <4>1, <3>1, <3>3, <2>3, <1>1
        <5>2. CASE i # n
          BY <5>2, <4>1, <3>1, <3>3, <2>2, <2>3, <2>7, <1>1
        <5>. QED
          BY <5>1, <5>2
      <4>. QED
        BY <4>2, <2>2, <2>4, <1>1, <1>3 DEF Entered
    <3>. QED
      BY <3>2, <3>3
  <2>5. ASSUME frames[i].to = Self, p[i] <= Len(r)
        PROVE  ServedEntry(r[p[i]], frames[i])
    <3>1. Taken(frames[i]) = 1 /\ p[i] >= 1
      BY <2>5, <2>2 DEF Taken
    <3>2. CASE p[i] <= Len(s)
      BY <3>1, <3>2, <2>2, <2>5, <1>1, <1>3 DEF Entered
    <3>3. CASE ~(p[i] <= Len(s))
      <4>1. p[i] = Len(s) + 1
        BY <3>3, <2>2, <2>5, <1>1, <1>3
      <4>2. Len(s) + 1 = p[n] /\ frames[n].to = Self /\ ServedEntry(e, frames[n])
        BY <4>1, <2>2, <2>3, <2>6, <1>1
      <4>3. Taken(frames[n]) = 1
        BY <4>2 DEF Taken
      <4>4. i = n
        BY <4>1, <4>2, <4>3, <2>2, <2>3, <2>7, <1>1
      <4>. QED
        BY <4>1, <4>2, <4>4, <1>3
    <3>. QED
      BY <3>2, <3>3
  <2>. QED
    BY <2>4, <2>5
<1>6. Entered(p, frames, r)
  BY <1>3, <1>5 DEF Entered
<1>. QED
  BY <1>2, <1>3, <1>4, <1>6

-----------------------------------------------------------------------------
(* Conversation: a thread with no call of Self's *)

LEMMA ClearHolder ==
  ASSUME NEW frames, Chained(frames), Clear(frames)
  PROVE  HolderOf(frames) # Self
<1>1. CASE frames = <<>>
  BY <1>1, Apart DEF HolderOf
<1>2. CASE frames # <<>>
  BY <1>2, HolderType DEF Clear, OwnFrame
<1>. QED
  BY <1>1, <1>2

LEMMA ClearTracked ==
  ASSUME NEW frames, Chained(frames), Clear(frames), NEW s \in Seq(StackEntry),
         NEW due, Waiting(due, s)
  PROVE  TrackedAs(frames, due, s)
<1>1. CASE due # <<>>
  BY <1>1 DEF TrackedAs, Adrift
<1>2. CASE due = <<>>
  <2>1. PICK p : Tallies(p, frames) /\ Entered(p, frames, s) /\ p[Len(frames)] = Len(s)
    <3>1. frames \in Seq(ThreadFrame) /\ \A i \in 1 .. Len(frames) : ~OwnFrame(frames[i])
      BY DEF Chained, Clear
    <3>. QED
      BY <3>1, TalliesOthers
  <2>2. Level(p, frames, due, s)
    BY <2>1, <1>2, ClearHolder DEF Level
  <2>. QED
    BY <2>1, <2>2 DEF TrackedAs, Followed
<1>. QED
  BY <1>1, <1>2

LEMMA NothingWaits == \A s : Waiting(<<>>, s)
<1>1. Mails(<<>>)
  BY EmptySeq DEF Mails
<1>2. \A i \in 2 .. Len(<<>>) : FALSE
  OBVIOUS
<1>. QED
  BY <1>1, <1>2 DEF Waiting

\* The next messages, once the oldest one is served.
LEMMA WaitingTail ==
  ASSUME NEW due, NEW s, due # <<>>, Waiting(due, s), NEW t
  PROVE  Waiting(Tail(due), t)
<1>1. PICK r : r = Tail(due)
  OBVIOUS
<1>2. /\ due \in Seq(Mail) /\ Len(due) \in Nat /\ Len(due) >= 1
      /\ \A i \in 2 .. Len(due) : ~due[i].reply
  BY DEF Waiting, Mails
<1>3. /\ r \in Seq(Mail) /\ Len(r) = Len(due) - 1
      /\ \A i \in 1 .. Len(due) - 1 : r[i] = due[i + 1]
  BY <1>1, <1>2, HeadTailProperties
<1>4. \A i \in 1 .. Len(due) - 1 : i + 1 \in 2 .. Len(due)
  BY <1>2
<1>5. \A i \in 1 .. Len(r) : ~r[i].reply
  BY <1>2, <1>3, <1>4
<1>6. /\ \A i \in 2 .. Len(r) : i \in 1 .. Len(r)
      /\ r # <<>> => 1 \in 1 .. Len(r)
  BY <1>2, <1>3
<1>7. Waiting(r, t)
  BY <1>3, <1>5, <1>6 DEF Waiting, Mails
<1>. QED
  BY <1>1, <1>7

\* A call that comes meanwhile.
LEMMA WaitingAppend ==
  ASSUME NEW due, NEW s, due # <<>>, Waiting(due, s), NEW l \in Mail, ~l.reply
  PROVE  Waiting(Append(due, l), s) /\ Len(Append(due, l)) >= 2 /\ Append(due, l)[1] = due[1]
<1>1. PICK r : r = Append(due, l)
  OBVIOUS
<1>2. /\ due \in Seq(Mail) /\ Len(due) \in Nat /\ Len(due) >= 1
      /\ \A i \in 2 .. Len(due) : ~due[i].reply
      /\ due[1].reply => AnswerFits(due[1], s)
  BY DEF Waiting, Mails
<1>3. /\ r \in Seq(Mail) /\ Len(r) = Len(due) + 1 /\ r[Len(due) + 1] = l
      /\ \A i \in 1 .. Len(due) : r[i] = due[i]
  BY <1>1, <1>2
<1>4. 1 \in 1 .. Len(due) /\ Len(r) >= 2
  BY <1>2, <1>3
<1>5. ASSUME NEW i \in 2 .. Len(r)  PROVE ~r[i].reply
  <2>1. (i \in 2 .. Len(due) /\ i \in 1 .. Len(due)) \/ i = Len(due) + 1
    BY <1>2, <1>3
  <2>. QED
    BY <2>1, <1>2, <1>3
<1>6. Waiting(r, s)
  BY <1>2, <1>3, <1>4, <1>5 DEF Waiting, Mails
<1>. QED
  BY <1>1, <1>3, <1>4, <1>6

-----------------------------------------------------------------------------
(* Conversation: what Self serves *)

\* Whatever becomes of the thread, what is served is a call.
LEMMA ServedAny ==
  ASSUME serving \in Seq(StackEntry), NEW l \in Mail, l.reply => AnswerFits(l, serving)
  PROVE  /\ Served(l) \in Seq(StackEntry) /\ Served(l) # <<>> /\ Last(Served(l)).incoming
         /\ l.reply => /\ serving # <<>> /\ Served(l) = Front(serving)
                       /\ \E i \in 1 .. Len(serving) : Last(Served(l)) = serving[i]
         /\ ~l.reply => Served(l) = Append(serving, Incoming(l)) /\ Last(Served(l)).id = l.id
<1>1. CASE l.reply
  <2>1. PICK s : s = Front(serving)
    OBVIOUS
  <2>2. Served(l) = s
    BY <1>1, <2>1 DEF Served
  <2>3. serving # <<>> /\ s # <<>> /\ Last(s).incoming
    BY <1>1, <2>1 DEF AnswerFits
  <2>4. /\ s \in Seq(StackEntry) /\ Len(s) = Len(serving) - 1 /\ Len(serving) \in Nat
        /\ \A i \in 1 .. Len(serving) - 1 : s[i] = serving[i]
    BY <2>1, <2>3, Split
  <2>5. Len(s) \in 1 .. Len(serving) - 1 /\ Last(s) = s[Len(s)]
    <3>1. Len(s) \in Nat /\ Len(s) >= 1 /\ Last(s) = s[Len(s)]
      BY <2>3, <2>4, Split
    <3>. QED
      BY <2>4, <3>1
  <2>6. \E i \in 1 .. Len(serving) : Last(s) = serving[i]
    <3>1. Len(s) \in 1 .. Len(serving) /\ Last(s) = serving[Len(s)]
      BY <2>4, <2>5
    <3>. QED
      BY <3>1
  <2>. QED
    BY <1>1, <2>1, <2>2, <2>3, <2>4, <2>6
<1>2. CASE ~l.reply
  <2>1. PICK e : e = Incoming(l)
    OBVIOUS
  <2>2. e \in StackEntry /\ e.incoming /\ e.id = l.id
    BY <2>1, IncomingIs
  <2>3. PICK s : s = Append(serving, e)
    OBVIOUS
  <2>4. Served(l) = s
    BY <1>2, <2>1, <2>3 DEF Served
  <2>5. s \in Seq(StackEntry) /\ s # <<>> /\ Last(s) = e
    BY <2>2, <2>3 DEF Last
  <2>. QED
    BY <1>2, <2>1, <2>2, <2>3, <2>4, <2>5
<1>. QED
  BY <1>1, <1>2

\* Where the thread was not rewound under Self, it is the last call.
LEMMA ServedFits ==
  ASSUME Chained(line), NEW p, NEW l \in Mail, Followed(p, line, <<l>>, serving)
  PROVE  /\ line # <<>> /\ HolderOf(line) = Self /\ Last(line).to = Self
         /\ Served(l) \in Seq(StackEntry) /\ Entered(p, line, Served(l))
         /\ Len(Served(l)) = p[Len(line)] /\ Len(Served(l)) # 0
         /\ ServedEntry(Last(Served(l)), Last(line))
         /\ l.from \in Speaker /\ (l.reply => AnswerFits(l, serving))
<1>. DEFINE n == Len(line)
<1>0. PICK m \in Mail : <<l>> = <<m>> /\ Delivers(p, line, m, serving)
  BY DEF Followed, Level
<1>1. line # <<>> /\ HolderOf(line) = Self /\ Tallies(p, line) /\ Entered(p, line, serving)
      /\ Delivers(p, line, l, serving) /\ l.from \in Speaker
  <2>1. m = l
    BY <1>0
  <2>. QED
    BY <1>0, <2>1 DEF Followed, Delivers
<1>2. /\ line \in Seq(ThreadFrame) /\ n \in 1 .. n /\ n \in Nat
      /\ Last(line) = line[n] /\ line[n] \in ThreadFrame /\ line[n].to = Self
  BY <1>1, HolderType DEF Chained
<1>3. /\ p[n] \in Nat /\ p[n - 1] \in Nat /\ Made(line[n]) \in {0, 1}
      /\ Taken(line[n]) = 1 /\ p[n] = p[n - 1] + Made(line[n]) + Taken(line[n])
  BY <1>1, <1>2, TalliesAt DEF Taken
<1>4. p[n] # 0 /\ p[n] >= 1
  BY <1>3
<1>5. serving \in Seq(StackEntry) /\ Len(serving) \in Nat
  BY <1>1 DEF Entered
<1>6. CASE l.reply
  <2>1. /\ Len(serving) = p[n] + 1 /\ ~Last(serving).incoming
        /\ Reached(Last(serving).peer) = l.from
    BY <1>1, <1>6 DEF Delivers
  <2>2. serving # <<>>
    BY <2>1, <1>3, <1>4, <1>5
  <2>3. PICK s : s = Front(serving)
    OBVIOUS
  <2>4. Served(l) = s
    BY <1>6, <2>3 DEF Served
  <2>5. /\ s \in Seq(StackEntry) /\ Len(s) = Len(serving) - 1 /\ Entered(p, line, s)
    BY <1>1, <1>2, <1>5, <2>2, <2>3, EnteredShorter
  <2>6. Len(s) = p[n]
    BY <2>1, <2>5, <1>3
  <2>7. ServedEntry(s[p[n]], line[n])
    <3>1. p[n] <= Len(s)
      BY <2>6, <1>3
    <3>. QED
      BY <3>1, <2>5, <1>2 DEF Entered
  <2>8. Last(s) = s[p[n]] /\ s # <<>>
    BY <2>5, <2>6, <1>4 DEF Last
  <2>9. AnswerFits(l, serving)
    BY <2>1, <2>2, <2>3, <2>7, <2>8, <1>1 DEF AnswerFits, ServedEntry
  <2>. QED
    BY <2>4, <2>5, <2>6, <2>7, <2>8, <2>9, <1>1, <1>2, <1>4
<1>7. CASE ~l.reply
  <2>1. Len(serving) + 1 = p[n] /\ l.from = line[n].from /\ l.id = line[n].id
    BY <1>1, <1>2, <1>7 DEF Delivers
  <2>2. PICK e : e = Incoming(l)
    OBVIOUS
  <2>3. e \in StackEntry /\ ServedEntry(e, line[n])
    BY <2>1, <2>2, IncomingIs DEF ServedEntry
  <2>4. PICK s : s = Append(serving, e)
    OBVIOUS
  <2>5. Served(l) = s
    BY <1>7, <2>2, <2>4 DEF Served
  <2>6. /\ s \in Seq(StackEntry) /\ Len(s) = Len(serving) + 1 /\ Entered(p, line, s)
        /\ Last(s) = e
    BY <1>1, <1>2, <2>1, <2>3, <2>4, EnteredLonger
  <2>. QED
    BY <2>1, <2>3, <2>5, <2>6, <1>1, <1>2, <1>4, <1>7
<1>. QED
  BY <1>6, <1>7

LEMMA TrackedWaits ==
  ASSUME Chained(line), Mails(inbox), TrackedAs(line, inbox, serving)
  PROVE  Waiting(inbox, serving) /\ serving \in Seq(StackEntry)
<1>1. CASE Adrift(line, inbox, serving)
  BY <1>1 DEF Adrift
<1>2. ASSUME NEW p, Followed(p, line, inbox, serving)
      PROVE  Waiting(inbox, serving) /\ serving \in Seq(StackEntry)
  <2>1. serving \in Seq(StackEntry)
    BY <1>2 DEF Followed, Entered
  <2>2. CASE inbox = <<>>
    BY <2>1, <2>2, NothingWaits
  <2>3. CASE inbox # <<>>
    <3>1. PICK l \in Mail : inbox = <<l>>
      BY <1>2, <2>3 DEF Followed, Level
    <3>2. Followed(p, line, <<l>>, serving)
      BY <1>2, <3>1
    <3>3. l.reply => AnswerFits(l, serving)
      BY <3>2, ServedFits
    <3>4. inbox[1] = l /\ Len(inbox) = 1
      BY <3>1
    <3>5. \A i \in 2 .. Len(inbox) : FALSE
      BY <3>4
    <3>6. Waiting(inbox, serving)
      BY <3>3, <3>4, <3>5 DEF Waiting
    <3>. QED
      BY <2>1, <3>6
  <2>. QED
    BY <2>2, <2>3
<1>. QED
  BY <1>1, <1>2 DEF TrackedAs

-----------------------------------------------------------------------------
(* Conversation: what happens to the thread *)

\* Where Self has the thread, a rewind leaves what it is at work on late.
LEMMA UnwoundKeeps ==
  ASSUME Chained(line), Mails(inbox), TrackedAs(line, inbox, serving), Rewinds(inbox), ~cut'
  PROVE  Chained(line') /\ ~cut /\ TrackedAs(line', inbox', serving)
<1>. DEFINE n == Len(line)
<1>1. Waiting(inbox, serving) /\ serving \in Seq(StackEntry)
  BY TrackedWaits
<1>2. PICK due, s : due = inbox /\ s = serving
  OBVIOUS
<1>3. CASE Speaks = Self \/ Clear(line)
  <2>1. Chained(line') /\ Clear(line') /\ ~cut /\ inbox' = due
    BY <1>2, <1>3, RewindClears
  <2>2. TrackedAs(line', due, s)
    BY <1>1, <1>2, <2>1, ClearTracked
  <2>. QED
    BY <1>2, <2>1, <2>2
<1>4. CASE ~(Speaks = Self \/ Clear(line))
  <2>1. HolderOf(line) # Self /\ ~Clear(line)
    BY <1>4, SpeaksIsHolder
  <2>2. PICK p : Followed(p, line, inbox, serving)
    <3>1. ~Adrift(line, inbox, serving)
      BY <2>1 DEF Adrift, CalledAgain, HolderOf
    <3>. QED
      BY <3>1 DEF TrackedAs
  <2>3. /\ Tallies(p, line) /\ Entered(p, line, s) /\ due = <<>> /\ Len(s) = p[n]
    BY <1>2, <2>1, <2>2 DEF Followed, Level, Delivers
  <2>4. PICK d \in 0 .. n : Unwound(d, due) /\ (d = 0 \/ line[d].to = User)
    BY <1>2 DEF Rewinds
  <2>5. /\ line' = SubSeq(line, 1, d) /\ Len(line') = d
        /\ Chained(line') /\ HolderOf(line') = (IF d = 0 THEN User ELSE line[d].to)
        /\ inbox' = due
        /\ ~cut /\ (Clear(line') \/ \A i \in d + 1 .. n : ~OwnFrame(line[i]))
    BY <2>4, UnwoundFrames
  <2>6. CASE Clear(line')
    <3>1. TrackedAs(line', due, s)
      BY <1>1, <1>2, <2>5, <2>6, ClearTracked
    <3>. QED
      BY <1>2, <2>5, <3>1
  <2>7. CASE \A i \in d + 1 .. n : ~OwnFrame(line[i])
    <3>1. line \in Seq(ThreadFrame) /\ n \in Nat
      BY HolderType DEF Chained
    <3>2. PICK g : g = SubSeq(line, 1, d)
      OBVIOUS
    <3>3. Tallies(p, g) /\ Entered(p, g, s)
      BY <2>3, <3>1, <3>2, TalliesPrefix
    <3>4. p[d] = p[n]
      <4>1. d \in 0 .. n /\ n \in 0 .. n /\ d <= n
        BY <3>1
      <4>. QED
        BY <2>3, <2>7, <4>1 DEF Tallies
    <3>5. HolderOf(g) # Self /\ Len(g) = d
      BY <2>4, <2>5, <3>2, Apart
    <3>6. Followed(p, g, due, s)
      BY <2>3, <3>3, <3>4, <3>5 DEF Followed, Level
    <3>7. TrackedAs(line', inbox', serving)
      BY <1>2, <2>5, <3>2, <3>6 DEF TrackedAs
    <3>. QED
      BY <2>5, <3>7
  <2>. QED
    BY <2>5, <2>6, <2>7
<1>. QED
  BY <1>3, <1>4

\* No message is left.
AllServed(due) == due = <<>>

\* Self has made the entry for a call that it is about to make.
Ready(from, x, m, s) ==
  IF from = Self THEN Len(s) = m + 1 /\ ~Last(s).incoming /\ Last(s).peer = x ELSE Len(s) = m

\* A call is delivered to Self, or Self has its entry.
LEMMA CalledKeeps ==
  ASSUME Chained(line), letters \in Nat,
         NEW from, from = HolderOf(line), NEW x, Reached(x) \in Speaker,
         NEW due, Mails(due), AllServed(due), Called(from, x, due),
         NEW p, Tallies(p, line), NEW s, Entered(p, line, s), Ready(from, x, p[Len(line)], s)
  PROVE  \E q : Followed(q, line', inbox', s)
<1>. DEFINE n == Len(line)
<1>1. line \in Seq(ThreadFrame) /\ n \in Nat /\ from \in Speaker
  BY HolderType DEF Chained
<1>2. due = <<>>
  BY DEF AllServed
<1>3. PICK f \in ThreadFrame :
         /\ f.from = from /\ f.to = Reached(x) /\ f.id = letters + 1 /\ line' = Append(line, f)
         /\ Reached(x) = Self =>
              \E l \in Mail : ~l.reply /\ l.from = from /\ l.id = f.id /\ inbox' = Append(due, l)
  BY CalledFrames
<1>0. Reached(x) # Self => inbox' = due
  BY CalledFrames
<1>4. PICK g : g = line'
  OBVIOUS
<1>5. /\ g \in Seq(ThreadFrame) /\ Len(g) = n + 1 /\ g[n + 1] = f /\ g # <<>>
      /\ \A i \in 1 .. n : g[i] = line[i]
  BY <1>1, <1>3, <1>4
<1>6. Last(g) = f /\ HolderOf(g) = Reached(x)
  BY <1>3, <1>5 DEF HolderOf, Last
<1>8. PICK q : /\ Tallies(q, g) /\ \A i \in 0 .. n : q[i] = p[i]
               /\ q[n + 1] = p[n] + Made(f) + Taken(f)
  <2>1. \E q : /\ Tallies(q, Append(line, f)) /\ \A i \in 0 .. n : q[i] = p[i]
               /\ q[n + 1] = p[n] + Made(f) + Taken(f)
    BY <1>1, TalliesNext
  <2>. QED
    BY <2>1, <1>3, <1>4
<1>9. s \in Seq(StackEntry) /\ Len(s) \in Nat /\ p[n] \in Nat
      /\ Made(f) = (IF from = Self THEN 1 ELSE 0) /\ Taken(f) = (IF Reached(x) = Self THEN 1 ELSE 0)
  BY <1>1, <1>3 DEF Entered, Tallies, Made, Taken
<1>10. Len(s) = p[n] + Made(f)
  BY <1>9 DEF Ready
<1>11. Entered(q, g, s)
  <2>1. ASSUME NEW i \in 1 .. n + 1, g[i].from = Self, q[i - 1] + 1 <= Len(s)
        PROVE  CallEntry(s[q[i - 1] + 1], g[i])
    <3>1. CASE i \in 1 .. n
      <4>1. i - 1 \in 0 .. n
        BY <3>1, <1>1
      <4>. QED
        BY <3>1, <4>1, <2>1, <1>5, <1>8 DEF Entered
    <3>2. CASE i = n + 1
      <4>1. i - 1 = n /\ n \in 0 .. n
        BY <3>2, <1>1
      <4>2. from = Self /\ q[i - 1] = p[n]
        BY <3>2, <4>1, <2>1, <1>3, <1>5, <1>8
      <4>3. q[i - 1] + 1 = Len(s)
        BY <4>2, <1>9, <1>10
      <4>4. s[Len(s)] = Last(s) /\ ~Last(s).incoming /\ Last(s).peer = x
        BY <4>2 DEF Last, Ready
      <4>. QED
        BY <3>2, <4>3, <4>4, <1>3, <1>5 DEF CallEntry
    <3>. QED
      BY <3>1, <3>2, <1>1
  <2>2. ASSUME NEW i \in 1 .. n + 1, g[i].to = Self, q[i] <= Len(s)
        PROVE  ServedEntry(s[q[i]], g[i])
    <3>1. CASE i \in 1 .. n
      <4>1. i \in 0 .. n
        BY <3>1, <1>1
      <4>. QED
        BY <3>1, <4>1, <2>2, <1>5, <1>8 DEF Entered
    <3>2. CASE i = n + 1
      <4>1. Reached(x) = Self
        BY <3>2, <2>2, <1>3, <1>5
      <4>2. q[i] = Len(s) + 1
        BY <3>2, <4>1, <1>8, <1>9, <1>10
      <4>. QED
        BY <4>2, <2>2, <1>9
    <3>. QED
      BY <3>1, <3>2, <1>1
  <2>. QED
    BY <2>1, <2>2, <1>5, <1>9 DEF Entered
<1>12. Level(q, g, inbox', s)
  <2>1. CASE Reached(x) # Self
    <3>1. inbox' = <<>>
      BY <2>1, <1>0, <1>2
    <3>2. Len(s) = q[Len(g)]
      BY <2>1, <1>5, <1>8, <1>9, <1>10
    <3>. QED
      BY <2>1, <3>1, <3>2, <1>6 DEF Level
  <2>2. CASE Reached(x) = Self
    <3>1. PICK l \in Mail : ~l.reply /\ l.from = from /\ l.id = f.id /\ inbox' = Append(due, l)
      BY <2>2, <1>3
    <3>3. inbox' = <<l>>
      BY <3>1, <1>2
    <3>4. Len(s) + 1 = q[Len(g)]
      BY <2>2, <1>5, <1>8, <1>9, <1>10
    <3>5. Delivers(q, g, l, s)
      BY <2>2, <3>1, <3>4, <1>1, <1>3, <1>5, <1>6 DEF Delivers
    <3>. QED
      BY <3>1, <3>3, <3>5 DEF Level
  <2>. QED
    BY <2>1, <2>2
<1>. QED
  BY <1>4, <1>8, <1>11, <1>12 DEF Followed

\* An answer is delivered to Self, whose call is on the stack.
LEMMA ReturnedKeeps ==
  ASSUME Chained(line), line # <<>>, NEW due, Mails(due), AllServed(due), Returned(due),
         NEW p, Tallies(p, line), NEW s, Entered(p, line, s),
         Len(s) + Taken(Last(line)) = p[Len(line)]
  PROVE  \E q : Followed(q, line', inbox', s)
<1>. DEFINE n == Len(line)
<1>1. /\ line \in Seq(ThreadFrame) /\ n \in Nat /\ n \in 1 .. n
      /\ Last(line) = line[n] /\ line[n] \in ThreadFrame
  BY HolderType DEF Chained
<1>2. PICK f : f = line[n]
  OBVIOUS
<1>0. due = <<>>
  BY DEF AllServed
<1>3. PICK k \in 0 .. n : k = n - 1 /\ line' = SubSeq(line, 1, k)
  BY ReturnedFrames
<1>4. /\ HolderOf(line') = f.from
      /\ f.from # Self => inbox' = due
      /\ f.from = Self => \E l \in Mail : /\ l.reply /\ l.from = f.to /\ l.id = f.id
                                          /\ l.from \in Speaker /\ inbox' = Append(due, l)
  BY <1>1, <1>2, ReturnedFrames
<1>5. PICK g : g = SubSeq(line, 1, k)
  OBVIOUS
<1>6. /\ g \in Seq(ThreadFrame) /\ Len(g) = k
      /\ Tallies(p, g) /\ Entered(p, g, s)
  BY <1>1, <1>5, TalliesPrefix
<1>8. HolderOf(g) = f.from
  BY <1>3, <1>4, <1>5 DEF HolderOf
<1>9. /\ p[n] = p[k] + Made(f) + Taken(f) /\ p[k] \in Nat /\ p[n] \in Nat
      /\ Made(f) = (IF f.from = Self THEN 1 ELSE 0) /\ Taken(f) \in Nat
      /\ s \in Seq(StackEntry) /\ Len(s) \in Nat
  <2>1. /\ p[n] \in Nat /\ p[k] \in Nat
        /\ Taken(f) \in {0, 1} /\ p[n] = p[k] + Made(f) + Taken(f)
    BY <1>1, <1>2, <1>3, TalliesAt
  <2>2. Made(f) = IF f.from = Self THEN 1 ELSE 0
    BY DEF Made
  <2>3. s \in Seq(StackEntry) /\ Len(s) \in Nat
    BY DEF Entered
  <2>. QED
    BY <2>1, <2>2, <2>3
<1>10. Len(s) = p[k] + Made(f)
  BY <1>1, <1>2, <1>9
<1>11. Level(p, g, inbox', s)
  <2>1. CASE f.from # Self
    <3>1. inbox' = <<>> /\ Len(s) = p[Len(g)]
      BY <2>1, <1>0, <1>4, <1>6, <1>9, <1>10
    <3>. QED
      BY <3>1, <2>1, <1>8 DEF Level
  <2>2. CASE f.from = Self
    <3>1. PICK l \in Mail : l.reply /\ l.from = f.to /\ l.from \in Speaker /\ inbox' = Append(due, l)
      BY <2>2, <1>4
    <3>3. inbox' = <<l>>
      BY <3>1, <1>0
    <3>4. g # <<>>
      BY <2>2, <1>8, Apart DEF HolderOf
    <3>5. Len(s) = p[Len(g)] + 1 /\ Len(s) = p[k] + 1
      BY <2>2, <1>6, <1>9, <1>10
    <3>6. CallEntry(s[p[k] + 1], f)
      <4>1. p[k] + 1 <= Len(s)
        BY <3>5, <1>9
      <4>. QED
        BY <4>1, <2>2, <1>1, <1>2, <1>3 DEF Entered
    <3>7. ~Last(s).incoming /\ Reached(Last(s).peer) = l.from
      BY <3>1, <3>5, <3>6 DEF CallEntry, Last
    <3>8. Delivers(p, g, l, s)
      BY <2>2, <3>1, <3>4, <3>5, <3>7, <1>8 DEF Delivers
    <3>. QED
      BY <3>1, <3>3, <3>8 DEF Level
  <2>. QED
    BY <2>1, <2>2
<1>. QED
  BY <1>3, <1>5, <1>6, <1>11 DEF Followed

\* Another agent calls or answers while Self is at work on what is late.
LEMMA AdriftCalled ==
  ASSUME ThreadSound, Recent(serving, letters), Adrift(line, inbox, serving),
         NEW from, from = HolderOf(line), from # Self, NEW x, Reached(x) \in Speaker,
         NEW due, due = inbox, Called(from, x, due)
  PROVE  Adrift(line', inbox', serving)
<1>1. /\ Chained(line) /\ letters \in Nat /\ Mails(due) /\ line \in Seq(ThreadFrame)
      /\ Recent(inbox, letters)
  BY Bounds DEF ThreadSound, Chained
<1>2. Clear(line) /\ due # <<>> /\ Waiting(due, serving) /\ serving \in Seq(StackEntry)
  BY DEF Adrift, CalledAgain, HolderOf
<1>3. PICK f \in ThreadFrame :
         /\ f.from = from /\ f.to = Reached(x) /\ f.id = letters + 1 /\ line' = Append(line, f)
         /\ Reached(x) = Self =>
              \E l \in Mail : ~l.reply /\ l.from = from /\ l.id = f.id /\ inbox' = Append(due, l)
  BY <1>1, CalledFrames
<1>4. Reached(x) # Self => inbox' = due
  BY <1>1, CalledFrames
<1>5. PICK g : g = Append(line, f)
  OBVIOUS
<1>6. /\ g \in Seq(ThreadFrame) /\ Len(g) = Len(line) + 1 /\ g[Len(line) + 1] = f /\ g # <<>>
      /\ Len(line) \in Nat /\ \A i \in 1 .. Len(line) : g[i] = line[i]
  BY <1>1, <1>5
<1>7. Last(g) = f /\ Front(g) = line
  <2>1. Last(g) = f
    BY <1>6 DEF Last
  <2>2. Front(g) = line
    BY <1>1, <1>5 DEF Front
  <2>. QED
    BY <2>1, <2>2
<1>8. CASE Reached(x) # Self
  <2>1. ~OwnFrame(f)
    BY <1>3, <1>8 DEF OwnFrame
  <2>2. \A i \in 1 .. Len(g) : i \in 1 .. Len(line) \/ i = Len(line) + 1
    BY <1>6
  <2>3. Clear(g)
    BY <1>2, <1>6, <2>1, <2>2 DEF Clear
  <2>4. Adrift(g, due, serving)
    BY <1>2, <2>3 DEF Adrift
  <2>. QED
    BY <1>3, <1>4, <1>5, <1>8, <2>4
<1>9. CASE Reached(x) = Self
  <2>1. PICK l \in Mail : ~l.reply /\ inbox' = Append(due, l)
    BY <1>3, <1>9
  <2>2. PICK r : r = Append(due, l)
    OBVIOUS
  <2>3. Waiting(r, serving) /\ Len(r) >= 2 /\ r[1] = due[1]
    BY <1>2, <2>1, <2>2, WaitingAppend
  <2>4. due[1].id <= letters /\ due[1].id \in Nat
    <3>1. due \in Seq(Mail) /\ 1 \in 1 .. Len(due)
      BY <1>1, <1>2 DEF Mails
    <3>2. due[1] \in Mail
      BY <3>1
    <3>. QED
      BY <3>1, <3>2, <1>1, Numbered DEF Recent
  <2>5. r[1].id < f.id
    BY <2>3, <2>4, <1>1, <1>3
  <2>6. ASSUME NEW i \in 1 .. Len(serving)  PROVE serving[i].id < f.id
    <3>1. serving[i] \in StackEntry /\ serving[i].id <= letters
      BY <1>2 DEF Recent
    <3>2. serving[i].id \in Nat
      BY <3>1, Numbered
    <3>. QED
      BY <3>1, <3>2, <1>1, <1>3
  <2>7. r # <<>>
    <3>1. r \in Seq(Mail)
      BY <2>3 DEF Waiting, Mails
    <3>. QED
      BY <3>1, <2>3
  <2>8. CalledAgain(g, r, serving)
    BY <1>2, <1>3, <1>6, <1>7, <1>9, <2>3, <2>5, <2>6 DEF CalledAgain
  <2>9. Adrift(g, r, serving)
    BY <1>2, <2>3, <2>7, <2>8 DEF Adrift
  <2>. QED
    BY <1>3, <1>5, <2>1, <2>2, <2>9
<1>. QED
  BY <1>8, <1>9

LEMMA AdriftReturned ==
  ASSUME Chained(line), line # <<>>, Mails(inbox), Adrift(line, inbox, serving),
         HolderOf(line) # Self, NEW due, due = inbox, Returned(due)
  PROVE  Adrift(line', inbox', serving)
<1>1. Clear(line) /\ due # <<>> /\ Waiting(due, serving) /\ serving \in Seq(StackEntry)
  BY DEF Adrift, CalledAgain, HolderOf
<1>2. PICK k \in 0 .. Len(line) : line' = SubSeq(line, 1, k)
  BY ReturnedFrames
<1>3. Last(line).from # Self => inbox' = due
  BY ReturnedFrames
<1>4. Last(line).from # Self
  BY <1>1, HolderType DEF Clear, OwnFrame
<1>5. line \in Seq(ThreadFrame) /\ Len(line) \in Nat
  BY HolderType DEF Chained
<1>6. PICK g : g = SubSeq(line, 1, k)
  OBVIOUS
<1>7. Len(g) = k /\ \A i \in 1 .. k : i \in 1 .. Len(line) /\ g[i] = line[i]
  BY <1>5, <1>6
<1>8. Clear(g)
  BY <1>1, <1>7 DEF Clear
<1>9. Adrift(g, due, serving)
  BY <1>1, <1>8 DEF Adrift
<1>. QED
  BY <1>2, <1>3, <1>4, <1>6, <1>9

-----------------------------------------------------------------------------
(* Conversation: what Self posts *)

\* The runtime takes it, unless it is for nobody.
LEMMA PostedInTime ==
  ASSUME ThreadSound, StackSound(serving, letters), NEW l, IsDue(l),
         NEW p, Followed(p, line, inbox, serving), NEW x, Writable(x), Posted(l, x), ~cut',
         StackSound(serving', letters'), Chained(line')
  PROVE  ~cut /\ TrackedAs(line', inbox', serving')
<1>. DEFINE n == Len(line)
<1>0. Chained(line) /\ letters \in Nat /\ Mails(inbox)
  BY Bounds DEF ThreadSound
<1>1. l \in Mail /\ inbox = <<l>> /\ Followed(p, line, <<l>>, serving)
  <2>1. inbox # <<>> /\ l = Head(inbox)
    BY DEF IsDue
  <2>2. PICK m \in Mail : inbox = <<m>>
    BY <2>1 DEF Followed, Level
  <2>3. m = l
    BY <2>1, <2>2
  <2>. QED
    BY <2>2, <2>3
<1>2. PICK due : due = Tail(inbox)
  OBVIOUS
<1>3. due = <<>> /\ Mails(due) /\ AllServed(due)
  BY <1>1, <1>2, EmptySeq DEF Mails, AllServed
<1>4. PICK s : s = Served(l)
  OBVIOUS
<1>5. PICK e : e = Last(s)
  OBVIOUS
<1>6. /\ line # <<>> /\ HolderOf(line) = Self /\ Last(line).to = Self
      /\ s \in Seq(StackEntry) /\ Entered(p, line, s) /\ Len(s) = p[n] /\ Len(s) # 0
      /\ ServedEntry(e, Last(line))
  BY <1>0, <1>1, <1>4, <1>5, ServedFits
<1>7. Tallies(p, line) /\ line \in Seq(ThreadFrame) /\ Speaks = Self
  BY <1>0, <1>6, SpeaksIsHolder DEF Followed, Chained
<1>8. Last(line).id = e.id
  BY <1>6 DEF ServedEntry
<1>9. PICK to : to = IF x = "" THEN e.peer ELSE x
  OBVIOUS
<1>10. /\ serving' = IF to = e.peer THEN Front(s) ELSE Append(s, Outgoing(to))
       /\ to = e.peer => Returned(due)
       /\ to # e.peer /\ to # Nowhere => Called(Self, to, due)
       /\ to # e.peer /\ to = Nowhere => Rejected(due)
  BY <1>2, <1>4, <1>5, <1>7, <1>8, <1>9 DEF Posted
<1>11. CASE to = e.peer
  <2>1. PICK r : r = Front(s)
    OBVIOUS
  <2>2. r \in Seq(StackEntry) /\ Len(r) = Len(s) - 1 /\ Entered(p, line, r)
    <3>1. s # <<>>
      BY <1>6
    <3>. QED
      BY <3>1, <2>1, <1>6, <1>7, EnteredShorter
  <2>3. Len(r) + Taken(Last(line)) = p[n]
    <3>1. Taken(Last(line)) = 1 /\ Len(s) \in Nat
      BY <1>6 DEF Taken
    <3>. QED
      BY <3>1, <2>2, <1>6
  <2>4. Returned(due)
    BY <1>10, <1>11
  <2>5. \E q : Followed(q, line', inbox', r)
    BY <2>2, <2>3, <2>4, <1>0, <1>3, <1>6, <1>7, ReturnedKeeps
  <2>6. ~cut
    <3>1. cut' = cut
      BY <2>4 DEF Returned
    <3>. QED
      BY <3>1
  <2>. QED
    BY <2>1, <2>5, <2>6, <1>10, <1>11 DEF TrackedAs
<1>12. CASE to # e.peer
  <2>1. x # "" /\ to = x /\ to \in Mention /\ (to \in Addressed \/ to \in Speaker)
    <3>1. x # "" /\ to = x
      BY <1>9, <1>12
    <3>. QED
      BY <3>1, Zenon DEF Writable, Mention
  <2>2. PICK o : o = Outgoing(to)
    OBVIOUS
  <2>3. PICK r : r = Append(s, o)
    OBVIOUS
  <2>4. o \in StackEntry /\ ~o.incoming /\ o.peer = to
    BY <2>1, <2>2, OutgoingIs
  <2>5. /\ r \in Seq(StackEntry) /\ Len(r) = Len(s) + 1 /\ Entered(p, line, r) /\ Last(r) = o
    BY <2>3, <2>4, <1>6, <1>7, EnteredLonger
  <2>6. serving' = r
    BY <2>2, <2>3, <1>10, <1>12
  <2>7. CASE to # Nowhere
    <3>1. Reached(to) \in Speaker
      BY <2>1, <2>7, ReachesOne
    <3>2. PICK from : from = Self
      OBVIOUS
    <3>3. Called(from, to, due) /\ from = HolderOf(line)
      BY <3>2, <2>7, <1>6, <1>10, <1>12
    <3>4. Ready(from, to, p[n], r)
      BY <3>2, <2>4, <2>5, <1>6 DEF Ready
    <3>5. \E q : Followed(q, line', inbox', r)
      BY <3>1, <3>3, <3>4, <2>5, <1>0, <1>3, <1>7, CalledKeeps
    <3>6. ~cut
      <4>1. cut' = cut
        BY <3>3 DEF Called
      <4>. QED
        BY <4>1
    <3>. QED
      BY <3>5, <3>6, <2>6 DEF TrackedAs
  <2>8. CASE to = Nowhere
    <3>1. Rejected(due)
      BY <2>8, <1>10, <1>12
    <3>2. Rewinds(due)
      BY <3>1, <1>0, RewindsEither
    <3>3. Clear(line') /\ ~cut /\ inbox' = due
      BY <3>2, <1>0, <1>7, RewindClears
    <3>4. Waiting(due, r)
      BY <1>3, NothingWaits
    <3>5. TrackedAs(line', due, r)
      BY <3>3, <3>4, <2>5, ClearTracked
    <3>. QED
      BY <3>3, <3>5, <2>6
  <2>. QED
    BY <2>7, <2>8
<1>. QED
  BY <1>11, <1>12

\* Where the thread was rewound, it is late, and rejected.
LEMMA PostedLate ==
  ASSUME ThreadSound, StackSound(serving, letters), NEW l, IsDue(l),
         Adrift(line, inbox, serving), NEW x, Posted(l, x), ~cut',
         StackSound(serving', letters'), Chained(line')
  PROVE  ~cut /\ TrackedAs(line', inbox', serving')
<1>0. /\ Chained(line) /\ letters \in Nat /\ Mails(inbox) /\ l \in Mail /\ l = inbox[1]
      /\ serving \in Seq(StackEntry)
  BY Bounds, DueIs DEF ThreadSound, StackSound
<1>1. PICK due : due = Tail(inbox)
  OBVIOUS
<1>2. PICK e : e = Last(Served(l))
  OBVIOUS
<1>3. inbox # <<>> /\ Waiting(inbox, serving)
  BY DEF Adrift
<1>4. ~(Speaks = Self /\ Last(line).id = e.id)
  <2>1. CASE Clear(line)
    BY <2>1, <1>0, ClearHolder, SpeaksIsHolder
  <2>2. CASE ~Clear(line)
    <3>1. /\ line # <<>> /\ l.id < Last(line).id
          /\ \A i \in 1 .. Len(serving) : serving[i].id < Last(line).id
      BY <2>2, <1>0 DEF Adrift, CalledAgain
    <3>2. Last(line) \in ThreadFrame
      BY <3>1, <1>0, HolderType
    <3>3. Last(line).id \in Nat /\ l.id \in Nat
      BY <3>2, <1>0, Numbered
    <3>4. l.reply => AnswerFits(l, serving)
      BY <1>0, <1>3 DEF Waiting
    <3>5. e.id < Last(line).id
      <4>1. CASE l.reply
        <5>1. PICK i \in 1 .. Len(serving) : e = serving[i]
          BY <3>4, <4>1, <1>0, <1>2, ServedAny
        <5>. QED
          BY <5>1, <3>1
      <4>2. CASE ~l.reply
        <5>1. e.id = l.id
          BY <4>2, <1>0, <1>2, ServedAny
        <5>. QED
          BY <5>1, <3>1
      <4>. QED
        BY <4>1, <4>2
    <3>6. e.id # Last(line).id
      <4>. SUFFICES ASSUME e.id = Last(line).id  PROVE FALSE
        OBVIOUS
      <4>1. PICK m \in Nat : m = Last(line).id
        BY <3>3
      <4>. QED
        BY <3>5, <4>1
    <3>. QED
      BY <3>6
  <2>. QED
    BY <2>1, <2>2
<1>5. Rejected(due)
  BY <1>1, <1>2, <1>4, Zenon DEF Posted
<1>6. Rewinds(due)
  BY <1>0, <1>5, RewindsEither
<1>7. Speaks = Self \/ Clear(line)
  BY SpeaksIsHolder DEF Adrift, CalledAgain, HolderOf
<1>8. Clear(line') /\ ~cut /\ inbox' = due
  BY <1>0, <1>6, <1>7, RewindClears
<1>9. serving' \in Seq(StackEntry)
  BY DEF StackSound
<1>10. PICK t : t = serving'
  OBVIOUS
<1>11. Waiting(due, t)
  BY <1>1, <1>3, WaitingTail
<1>12. TrackedAs(line', due, t)
  BY <1>8, <1>9, <1>10, <1>11, ClearTracked
<1>. QED
  BY <1>8, <1>10, <1>12

\* Whichever it is, LinearService's account is the same.
LEMMA PostedKeeps ==
  ASSUME ThreadSound, StackSound(serving, letters), NEW l, IsDue(l), l.reply => Expects(l),
         TrackedAs(line, inbox, serving), NEW x, Writable(x), Posted(l, x), ~cut'
  PROVE  /\ ~cut /\ Chained(line') /\ TrackedAs(line', inbox', serving')
         /\ x \in {"", Last(Served(l)).peer} => serving' = Front(Served(l))
         /\ x \notin {"", Last(Served(l)).peer} => serving' = Append(Served(l), Outgoing(x))
<1>1. StackSound(serving', letters') /\ Chained(line')
  <2>1. ThreadSound' /\ StackSound(serving', letters')
    BY PostedSound
  <2>. QED
    BY <2>1 DEF ThreadSound, Chained
<1>2. ~cut /\ TrackedAs(line', inbox', serving')
  <2>1. ASSUME NEW p, Followed(p, line, inbox, serving)
        PROVE  ~cut /\ TrackedAs(line', inbox', serving')
    BY <1>1, <2>1, PostedInTime
  <2>2. CASE Adrift(line, inbox, serving)
    BY <1>1, <2>2, PostedLate
  <2>. QED
    BY <2>1, <2>2 DEF TrackedAs
<1>3. PICK e : e = Last(Served(l))
  OBVIOUS
<1>4. PICK to : to = IF x = "" THEN e.peer ELSE x
  OBVIOUS
<1>5. serving' = IF to = e.peer THEN Front(Served(l)) ELSE Append(Served(l), Outgoing(to))
  BY <1>3, <1>4, Zenon DEF Posted
<1>6. (to = e.peer) <=> x \in {"", e.peer}
  BY <1>4
<1>7. x \notin {"", e.peer} => to = x
  BY <1>4
<1>. QED
  BY <1>1, <1>2, <1>3, <1>5, <1>6, <1>7

-----------------------------------------------------------------------------
(* Conversation: LLMAgent's stack *)

\* What one account says of an entry of the other: Told is LLMAgent's account
\* as LinearService would keep it, Seen is LinearService's own.
Sight == [incoming : BOOLEAN, peer : Mention]
SightOf(e) == [incoming |-> e.incoming, peer |-> e.peer]
Seen(s) == [i \in DOMAIN s |-> SightOf(s[i])]
Talks(t) == [i \in 1 .. Len(t) - 1 |-> AsServed(t[i + 1])]
Told(t) == FlattenSeq(Talks(t))

LEMMA SeenAppend ==
  ASSUME NEW s \in Seq(StackEntry), NEW e \in StackEntry
  PROVE  Seen(s) \in Seq(Sight) /\ Seen(Append(s, e)) = Append(Seen(s), SightOf(e))
<1>. DEFINE n == Len(s)
<1>1. n \in Nat /\ DOMAIN s = 1 .. n
  OBVIOUS
<1>2. PICK g : g = Append(s, e)
  OBVIOUS
<1>3. /\ g \in Seq(StackEntry) /\ DOMAIN g = 1 .. n + 1 /\ g[n + 1] = e
      /\ \A i \in 1 .. n : g[i] = s[i]
  BY <1>1, <1>2
<1>4. \A f \in StackEntry : SightOf(f) \in Sight
  BY DEF StackEntry, Sight, SightOf
<1>5. PICK a : a = Seen(s)
  OBVIOUS
<1>6. a \in Seq(Sight) /\ Len(a) = n /\ \A i \in 1 .. n : a[i] = SightOf(s[i])
  <2>1. a = [i \in 1 .. n |-> SightOf(s[i])]
    BY <1>1, <1>5 DEF Seen
  <2>2. \A i \in 1 .. n : SightOf(s[i]) \in Sight
    BY <1>1, <1>4
  <2>. QED
    BY <2>1, <2>2, <1>1
<1>7. PICK b : b = Seen(g)
  OBVIOUS
<1>8. b \in Seq(Sight) /\ Len(b) = n + 1 /\ \A i \in 1 .. n + 1 : b[i] = SightOf(g[i])
  <2>1. b = [i \in 1 .. n + 1 |-> SightOf(g[i])]
    BY <1>3, <1>7 DEF Seen
  <2>2. \A i \in 1 .. n + 1 : SightOf(g[i]) \in Sight
    BY <1>3, <1>4
  <2>. QED
    BY <2>1, <2>2, <1>1
<1>9. PICK x : x = SightOf(e)
  OBVIOUS
<1>10. x \in Sight
  BY <1>4, <1>9
<1>11. b = Append(a, x)
  <2>1. b[Len(a) + 1] = x /\ Len(b) = Len(a) + 1
    BY <1>1, <1>3, <1>6, <1>8, <1>9
  <2>2. \A i \in 1 .. Len(a) : b[i] = a[i]
    BY <1>1, <1>3, <1>6, <1>8
  <2>. HIDE DEF n
  <2>. QED
    BY <2>1, <2>2, <1>6, <1>8, <1>10, AppendIs
<1>. QED
  BY <1>2, <1>5, <1>6, <1>7, <1>9, <1>11

LEMMA AsServedType ==
  ASSUME NEW f \in TalkRecord
  PROVE  AsServed(f) \in Seq(Sight)
<1>1. [incoming |-> TRUE, peer |-> f.returnTo] \in Sight
      /\ [incoming |-> FALSE, peer |-> f.expect] \in Sight
  BY DEF Sight, TalkRecord
<1>2. CASE f.expect = ""
  BY <1>2, EmptySeq DEF AsServed
<1>3. CASE f.expect # ""
  <2>1. PICK x, y : /\ x = [incoming |-> TRUE, peer |-> f.returnTo]
                    /\ y = [incoming |-> FALSE, peer |-> f.expect]
    OBVIOUS
  <2>2. AsServed(f) = <<x>> \o (IF f.expect = "none" THEN <<>> ELSE <<y>>)
    BY <1>3, <2>1 DEF AsServed
  <2>3. <<x>> \in Seq(Sight) /\ <<y>> \in Seq(Sight) /\ <<>> \in Seq(Sight)
    BY <1>1, <2>1, EmptySeq
  <2>. QED
    BY <2>2, <2>3, ConcatProperties
<1>. QED
  BY <1>2, <1>3

LEMMA ToldAppend ==
  ASSUME NEW t \in Seq(TalkRecord), t # <<>>, NEW f \in TalkRecord
  PROVE  /\ Told(t) \in Seq(Sight)
         /\ Told(Append(t, f)) = Told(t) \o AsServed(f)
<1>. DEFINE n == Len(t)
<1>1. n \in Nat /\ n >= 1
  OBVIOUS
<1>2. PICK g : g = Append(t, f)
  OBVIOUS
<1>3. /\ g \in Seq(TalkRecord) /\ Len(g) = n + 1 /\ g[n + 1] = f
      /\ \A i \in 1 .. n : g[i] = t[i]
  BY <1>1, <1>2
<1>4. PICK a : a = Talks(t)
  OBVIOUS
<1>5. a \in Seq(Seq(Sight)) /\ Len(a) = n - 1 /\ \A i \in 1 .. n - 1 : a[i] = AsServed(t[i + 1])
  <2>1. a = [i \in 1 .. n - 1 |-> AsServed(t[i + 1])]
    BY <1>4 DEF Talks
  <2>2. \A i \in 1 .. n - 1 : AsServed(t[i + 1]) \in Seq(Sight)
    <3>1. \A i \in 1 .. n - 1 : t[i + 1] \in TalkRecord
      BY <1>1
    <3>. QED
      BY <3>1, AsServedType
  <2>3. n - 1 \in Nat
    BY <1>1
  <2>. QED
    BY <2>1, <2>2, <2>3
<1>6. PICK b : b = Talks(g)
  OBVIOUS
<1>7. b \in Seq(Seq(Sight)) /\ Len(b) = n /\ \A i \in 1 .. n : b[i] = AsServed(g[i + 1])
  <2>1. b = [i \in 1 .. n |-> AsServed(g[i + 1])]
    <3>1. Len(g) - 1 = n
      BY <1>1, <1>3
    <3>. QED
      BY <3>1, <1>6 DEF Talks
  <2>2. \A i \in 1 .. n : AsServed(g[i + 1]) \in Seq(Sight)
    <3>1. \A i \in 1 .. n : g[i + 1] \in TalkRecord
      BY <1>1, <1>3
    <3>. QED
      BY <3>1, AsServedType
  <2>. QED
    BY <2>1, <2>2, <1>1
<1>8. PICK x : x = AsServed(f)
  OBVIOUS
<1>9. x \in Seq(Sight)
  BY <1>8, AsServedType
<1>10. b = Append(a, x)
  <2>1. b[Len(a) + 1] = x /\ Len(b) = Len(a) + 1
    <3>1. n \in 1 .. n /\ Len(a) + 1 = n
      BY <1>1, <1>5
    <3>. QED
      BY <3>1, <1>3, <1>7, <1>8
  <2>2. \A i \in 1 .. Len(a) : b[i] = a[i]
    <3>1. \A i \in 1 .. n - 1 : i \in 1 .. n /\ i + 1 \in 1 .. n
      BY <1>1
    <3>. QED
      BY <3>1, <1>3, <1>5, <1>7
  <2>. QED
    BY <2>1, <2>2, <1>5, <1>7, <1>9, AppendIs
<1>11. FlattenSeq(a) \in Seq(Sight)
  BY <1>5, FlattenSeqType
<1>12. FlattenSeq(b) = FlattenSeq(a) \o x
  BY <1>5, <1>9, <1>10, FlattenSeqAppend
<1>. QED
  BY <1>2, <1>4, <1>6, <1>8, <1>11, <1>12 DEF Told

LEMMA ToldGround ==
  ASSUME NEW t, Len(t) = 1
  PROVE  Told(t) = <<>>
<1>1. Talks(t) = <<>>
  BY DEF Talks
<1>. QED
  BY <1>1, FlattenSeqEmpty DEF Told
\* The conversation that a message opens, or is about, is the one served.
LEMMA OpenedFits ==
  ASSUME Grounded(talk), serving \in Seq(StackEntry),
         Told(talk) = Seen(serving), NEW l \in Mail, Awaited(l) <=> l.reply,
         l.reply => l.from \in Speaker /\ serving # <<>> /\ Served(l) = Front(serving),
         ~l.reply => Served(l) = Append(serving, Incoming(l)),
         Served(l) \in Seq(StackEntry), Served(l) # <<>>, Last(Served(l)).incoming
  PROVE  \E b, r :
           /\ Grounded(b) /\ r \in TalkRecord /\ r.expect = "none"
           /\ Opened(l) = Append(b, r)
           /\ Told(b) = Seen(Front(Served(l)))
           /\ r.returnTo = Last(Served(l)).peer
<1>1. CASE ~l.reply
  <2>1. PICK r : r = [returnTo |-> l.from, expect |-> "none", pending |-> <<>>]
    OBVIOUS
  <2>2. r \in TalkRecord /\ r.expect = "none" /\ r.returnTo = l.from
    <3>1. r.returnTo = l.from /\ r.expect = "none" /\ r.pending = <<>>
      BY <2>1
    <3>2. l.from \in Mention /\ "none" \in Mention
      BY Zenon DEF Mail, Mention
    <3>3. <<>> \in Seq(Addressed \cup {""})
      BY EmptySeq
    <3>. QED
      BY <2>1, <3>1, <3>2, <3>3, Zenon DEF TalkRecord
  <2>3. Opened(l) = Append(talk, r)
    BY <2>1, <1>1 DEF Opened
  <2>4. PICK e : e = Incoming(l)
    OBVIOUS
  <2>5. e \in StackEntry /\ e.peer = l.from
    BY <2>4, IncomingIs
  <2>6. Front(Append(serving, e)) = serving /\ Last(Append(serving, e)) = e
    BY <2>5 DEF Front, Last
  <2>. QED
    BY <2>2, <2>3, <2>4, <2>5, <2>6, <1>1
<1>2. CASE l.reply
  <2>1. PICK s : s = Front(serving)
    OBVIOUS
  <2>2. PICK o : o = Last(serving)
    OBVIOUS
  <2>3. s \in Seq(StackEntry) /\ s # <<>> /\ o \in StackEntry /\ serving = Append(s, o)
    BY <1>2, <2>1, <2>2, Split
  <2>4. PICK s2 : s2 = Front(s)
    OBVIOUS
  <2>5. PICK e : e = Last(s)
    OBVIOUS
  <2>6. s2 \in Seq(StackEntry) /\ e \in StackEntry /\ s = Append(s2, e)
    BY <2>3, <2>4, <2>5, Split
  <2>7. /\ Seen(s2) \in Seq(Sight)
        /\ Seen(serving) = Append(Append(Seen(s2), SightOf(e)), SightOf(o))
    BY <2>3, <2>6, SeenAppend
  <2>8. PICK b : b = Front(talk)
    OBVIOUS
  <2>9. PICK f : f = Last(talk)
    OBVIOUS
  <2>10. /\ talk \in Seq(TalkRecord) /\ talk # <<>> /\ talk[1].expect = "none"
         /\ b \in Seq(TalkRecord) /\ f \in TalkRecord /\ talk = Append(b, f)
         /\ Len(b) = Len(talk) - 1 /\ f = talk[Len(talk)] /\ Len(talk) \in Nat
         /\ \A i \in 1 .. Len(talk) - 1 : b[i] = talk[i]
    BY <2>8, <2>9, Split DEF Grounded
  <2>11. f.expect # "none" /\ f.expect # "" /\ f.expect = l.from
    <3>1. l.from = f.expect
      BY <1>2, <2>9 DEF Awaited
    <3>2. l.from \in Speaker
      BY <1>2
    <3>. QED
      BY <3>1, <3>2, Apart
  <2>12. b # <<>> /\ b[1].expect = "none" /\ Len(talk) - 1 >= 1
    <3>1. Len(talk) # 1
      BY <2>10, <2>11
    <3>2. Len(talk) - 1 >= 1 /\ 1 \in 1 .. Len(talk) - 1
      BY <2>10, <3>1
    <3>. QED
      BY <2>10, <3>2
  <2>13. Told(b) \in Seq(Sight) /\ Told(talk) = Told(b) \o AsServed(f)
    BY <2>10, <2>12, ToldAppend
  <2>14. PICK r : r = [f EXCEPT !.expect = "none"]
    OBVIOUS
  <2>15. r \in TalkRecord /\ r.expect = "none" /\ r.returnTo = f.returnTo
    BY <2>10, <2>14 DEF TalkRecord, Mention
  <2>16. Opened(l) = Append(b, r)
    <3>1. Opened(l) = [talk EXCEPT ![Len(talk)] = r]
      BY <1>2, <2>9, <2>10, <2>14 DEF Opened
    <3>2. [talk EXCEPT ![Len(talk)] = r] = Append(b, r)
      BY <2>10, <2>15, LastReplaced
    <3>. QED
      BY <3>1, <3>2
  <2>17. PICK x, y, z, w :
           /\ x = [incoming |-> TRUE, peer |-> f.returnTo] /\ y = [incoming |-> FALSE, peer |-> f.expect]
           /\ z = SightOf(e) /\ w = SightOf(o)
    OBVIOUS
  <2>18. x \in Sight /\ y \in Sight /\ z \in Sight /\ w \in Sight
    BY <2>3, <2>6, <2>10, <2>17 DEF Sight, SightOf, StackEntry, TalkRecord
  <2>19. AsServed(f) = <<x, y>>
    <3>1. AsServed(f) = <<x>> \o <<y>>
      BY <2>11, <2>17 DEF AsServed
    <3>2. <<x>> \o <<y>> = <<x, y>>
      BY <2>13, <2>18, PairIs
    <3>. QED
      BY <3>1, <3>2
  <2>20. Told(b) \o <<x, y>> = Append(Append(Seen(s2), z), w)
    BY <2>7, <2>13, <2>17, <2>19
  <2>21. Told(b) \o <<x, y>> = Append(Append(Told(b), x), y)
    BY <2>13, <2>18, PairIs
  <2>22. Append(Told(b), x) = Append(Seen(s2), z) /\ y = w
    <3>1. PICK u, v : u = Append(Told(b), x) /\ v = Append(Seen(s2), z)
      OBVIOUS
    <3>2. u \in Seq(Sight) /\ v \in Seq(Sight)
      BY <3>1, <2>7, <2>13, <2>18, AppendProperties
    <3>3. Append(u, y) = Append(v, w)
      BY <3>1, <2>20, <2>21
    <3>4. u = v /\ y = w
      BY <3>2, <3>3, <2>18, AppendInjective
    <3>. QED
      BY <3>1, <3>4
  <2>23. Told(b) = Seen(s2) /\ x = z
    BY <2>7, <2>13, <2>18, <2>22, AppendInjective
  <2>24. f.returnTo = e.peer
    BY <2>17, <2>23 DEF SightOf
  <2>25. Grounded(b)
    BY <2>10, <2>12 DEF Grounded
  <2>. QED
    BY <2>1, <2>4, <2>5, <2>15, <2>16, <2>23, <2>24, <2>25, <1>2
<1>. QED
  BY <1>1, <1>2

\* An adapter whose two accounts agree, on a thread that bears them out.
Agreed ==
  /\ Chained(line) /\ Grounded(talk) /\ Told(talk) = Seen(serving)
  /\ fault # "check" /\ TrackedAs(line, inbox, serving)

AgreeInv == crossed \/ cut \/ Agreed

LEMMA AgreedSays == Agreed => AccountsAgree
<1>. SUFFICES ASSUME Agreed PROVE AccountsAgree
  OBVIOUS
<1>1. Told(talk) = FlattenSeq([i \in 1 .. Len(talk) - 1 |-> AsServed(talk[i + 1])])
  BY DEF Told, Talks
<1>2. Seen(serving) =
        [i \in DOMAIN serving |-> [incoming |-> serving[i].incoming, peer |-> serving[i].peer]]
  BY DEF Seen, SightOf
<1>. QED
  BY <1>1, <1>2 DEF Agreed, AccountsAgree

LEMMA AgreedAfter ==
  ASSUME Chained(line'), Grounded(talk'), NEW t, NEW s, talk' = t, serving' = s, Told(t) = Seen(s),
         fault' # "check", TrackedAs(line', inbox', serving')
  PROVE  Agreed'
<1>1. TrackedAs(line, inbox, serving)'
  BY DEF TrackedAs, Followed, Tallies, Entered, Level, Delivers, Adrift, Waiting, CalledAgain,
         AnswerFits, Clear, Mails, HolderOf
<1>2. (Told(talk) = Seen(serving))'
  BY DEF Told, Talks, AsServed, Seen, SightOf
<1>. QED
  BY <1>1, <1>2 DEF Agreed, Chained, Grounded

LEMMA ConversedAgrees ==
  ASSUME ThreadSound, StackSound(serving, letters), TalkSound(talk), Agreed,
         NEW l, IsDue(l), l.reply => Expects(l),
         NEW plan \in Plans, Awaited(l) <=> l.reply, Conversed(l, plan), fault' = fault, ~cut'
  PROVE  Agreed' /\ ~cut
<1>0. l \in Mail /\ l = inbox[1] /\ inbox # <<>>
  BY DueIs DEF IsDue
<1>1. Waiting(inbox, serving) /\ serving \in Seq(StackEntry) /\ TrackedAs(line, inbox, serving)
  BY TrackedWaits DEF Agreed, ThreadSound
<1>2. PICK s : s = Served(l)
  OBVIOUS
<1>3. l.reply => AnswerFits(l, serving)
  BY <1>0, <1>1 DEF Waiting
<1>4. /\ s \in Seq(StackEntry) /\ s # <<>> /\ Last(s).incoming
      /\ l.reply => l.from \in Speaker /\ serving # <<>> /\ s = Front(serving)
      /\ ~l.reply => s = Append(serving, Incoming(l))
  BY <1>0, <1>1, <1>2, <1>3, ServedAny DEF AnswerFits
<1>5. PICK b, r :
        /\ Grounded(b) /\ r \in TalkRecord /\ r.expect = "none"
        /\ Opened(l) = Append(b, r)
        /\ Told(b) = Seen(Front(s))
        /\ r.returnTo = Last(s).peer
  BY <1>0, <1>1, <1>2, <1>4, OpenedFits DEF Agreed
<1>6. b \in Seq(TalkRecord) /\ Front(Opened(l)) = b /\ Last(Opened(l)) = r
  BY <1>5 DEF Front, Last, Grounded
<1>7. PICK u : u = Front(s)
  OBVIOUS
<1>8. PICK e : e = Last(s)
  OBVIOUS
<1>9. u \in Seq(StackEntry) /\ e \in StackEntry /\ s = Append(u, e)
  BY <1>4, <1>7, <1>8, Split
<1>10. PICK top : top = [r EXCEPT !.pending = IF @ = <<>> THEN plan ELSE @]
  OBVIOUS
<1>11. PICK S : S = Addressed \cup {""}
  OBVIOUS
<1>12. TalkRecord = [returnTo : Mention, expect : Mention, pending : Seq(S)]
  BY <1>11, Zenon DEF TalkRecord
<1>13. top.pending \in Seq(S) /\ top.returnTo = e.peer /\ top \in TalkRecord
  <2>1. plan \in Seq(S)
    BY <1>11, PlanTyped
  <2>. QED
    BY <2>1, <1>5, <1>8, <1>10, <1>12
<1>14. PICK i : i = SelectInSeq(top.pending, LAMBDA x : x # top.returnTo)
  OBVIOUS
<1>15. e.peer \in Mention
  BY <1>9 DEF StackEntry
<1>16. fault' # "check"
  BY DEF Agreed
<1>17. CASE i = 0
  <2>1. talk' = b /\ Posted(l, top.returnTo)
    BY <1>6, <1>10, <1>14, <1>17 DEF Conversed, Closed
  <2>2. PICK x : x = top.returnTo
    OBVIOUS
  <2>3. Posted(l, x) /\ x = Last(Served(l)).peer
    BY <2>1, <2>2, <1>2, <1>8, <1>13
  <2>4. Writable(x)
    <3>1. PICK c, q : /\ TalkSound(c) /\ q \in TalkRecord /\ ToSomeone(q.returnTo)
                      /\ Opened(l) = Append(c, q)
      BY <1>0, OpenedSound
    <3>2. c \in Seq(TalkRecord) /\ Last(Opened(l)) = q
      BY <3>1 DEF TalkSound, Grounded, Last
    <3>3. q = r
      BY <3>2, <1>6
    <3>4. ToSomeone(x)
      BY <2>2, <3>1, <3>3, <1>5, <1>8, <1>13
    <3>. QED
      BY <3>4 DEF ToSomeone, Writable
  <2>5. ~cut /\ Chained(line') /\ TrackedAs(line', inbox', serving') /\ serving' = u
    <3>1. x \in {"", Last(Served(l)).peer}
      BY <2>3
    <3>. QED
      BY <3>1, <2>3, <2>4, <1>1, <1>2, <1>7, PostedKeeps
  <2>6. Told(b) = Seen(u) /\ Grounded(talk')
    BY <2>1, <1>5, <1>7
  <2>. QED
    BY <2>1, <2>5, <2>6, <1>16, AgreedAfter
<1>18. CASE i # 0
  <2>1. PICK x : x = top.pending[i]
    OBVIOUS
  <2>2. x \in S /\ x # e.peer /\ RemoveAt(top.pending, i) \in Seq(S)
    BY <2>1, <1>13, <1>14, <1>18, SendsFrom
  <2>3. PICK f : f = [top EXCEPT !.expect = x, !.pending = RemoveAt(@, i)]
    OBVIOUS
  <2>4. talk' = Append(b, f) /\ Posted(l, x)
    BY <2>1, <2>3, <1>6, <1>10, <1>14, <1>18 DEF Conversed
  <2>5. x # "none" /\ x \in Mention /\ Writable(x)
    <3>1. x \in Addressed \/ x = ""
      BY <2>2, <1>11, Zenon
    <3>2. x # "none"
      BY <3>1, Apart
    <3>. QED
      BY <3>1, <3>2, Zenon DEF Mention, Writable
  <2>6. f \in TalkRecord /\ f.returnTo = e.peer /\ f.expect = x
    BY <2>2, <2>3, <2>5, <1>12, <1>13
  <2>7. Told(b) = Seen(u) /\ Told(talk') = Told(b) \o AsServed(f) /\ Told(b) \in Seq(Sight)
    BY <2>4, <2>6, <1>5, <1>7, ToldAppend DEF Grounded
  <2>8. Grounded(talk')
    <3>1. b \in Seq(TalkRecord) /\ Len(b) \in Nat /\ Len(b) >= 1 /\ b[1].expect = "none"
      BY <1>5 DEF Grounded
    <3>. QED
      BY <3>1, <2>4, <2>6 DEF Grounded
  <2>9. ~cut /\ Chained(line') /\ TrackedAs(line', inbox', serving')
    BY <2>4, <2>5, <1>1, PostedKeeps
  <2>10. CASE x = ""
    <3>1. serving' = u
      <4>1. x \in {"", Last(Served(l)).peer}
        BY <2>10
      <4>. QED
        BY <4>1, <2>4, <2>5, <1>1, <1>2, <1>7, PostedKeeps
    <3>2. AsServed(f) = <<>>
      BY <2>6, <2>10 DEF AsServed
    <3>3. Told(talk') = Seen(u)
      BY <2>7, <3>2, ConcatEmptySeq
    <3>. QED
      BY <2>8, <2>9, <3>1, <3>3, <1>16, AgreedAfter
  <2>11. CASE x # ""
    <3>1. PICK o : o = Outgoing(x)
      OBVIOUS
    <3>2. o \in StackEntry /\ ~o.incoming /\ o.peer = x
      BY <2>5, <3>1, OutgoingIs
    <3>3. serving' = Append(s, o)
      <4>1. x \notin {"", Last(Served(l)).peer}
        BY <2>2, <2>11, <1>2, <1>8
      <4>. QED
        BY <4>1, <2>4, <2>5, <3>1, <1>1, <1>2, PostedKeeps
    <3>4. /\ Seen(u) \in Seq(Sight)
          /\ Seen(serving') = Append(Append(Seen(u), SightOf(e)), SightOf(o))
      BY <3>2, <3>3, <1>4, <1>9, SeenAppend
    <3>5. PICK y, z : y = SightOf(e) /\ z = SightOf(o)
      OBVIOUS
    <3>6. y \in Sight /\ z \in Sight
      BY <3>2, <3>5, <1>9 DEF SightOf, Sight, StackEntry
    <3>7. AsServed(f) = <<y, z>>
      <4>1. AsServed(f) = <<[incoming |-> TRUE, peer |-> f.returnTo]>> \o
                          <<[incoming |-> FALSE, peer |-> f.expect]>>
        BY <2>5, <2>6, <2>11 DEF AsServed
      <4>2. y = [incoming |-> TRUE, peer |-> f.returnTo]
        BY <2>6, <3>5, <1>4, <1>8, <1>9 DEF SightOf, StackEntry
      <4>3. z = [incoming |-> FALSE, peer |-> f.expect]
        BY <2>6, <3>2, <3>5 DEF SightOf, StackEntry
      <4>4. <<y>> \o <<z>> = <<y, z>>
        BY <3>4, <3>6, PairIs
      <4>. QED
        BY <4>1, <4>2, <4>3, <4>4
    <3>8. Told(talk') = Seen(serving')
      <4>1. Seen(u) \o <<y, z>> = Append(Append(Seen(u), y), z)
        BY <3>4, <3>6, PairIs
      <4>. QED
        BY <4>1, <2>7, <3>4, <3>5, <3>7
    <3>9. PICK t, v : t = talk' /\ v = serving'
      OBVIOUS
    <3>10. Told(t) = Seen(v)
      BY <3>8, <3>9 DEF Told, Talks, Seen
    <3>. QED
      BY <2>8, <2>9, <3>9, <3>10, <1>16, AgreedAfter
  <2>. QED
    BY <2>10, <2>11
<1>. QED
  BY <1>17, <1>18

-----------------------------------------------------------------------------
(* Conversation: the theorem *)

\* What another agent does with the thread, and what becomes of it when one errs
\* or dies.
LEMMA OthersAgree ==
  ASSUME ThreadSound, StackSound(serving, letters), Agreed, ~cut', NEW a \in Speaker,
         \/ OtherAnswers(a) \/ OtherErrs(a) \/ OtherDies(a)
         \/ \E x \in Addressed \cup {Clone} : OtherCalls(a, x)
  PROVE  Agreed' /\ ~cut
<1>1. /\ Chained(line) /\ Mails(inbox) /\ letters \in Nat /\ TrackedAs(line, inbox, serving)
      /\ Recent(serving, letters) /\ serving \in Seq(StackEntry)
  BY Bounds DEF ThreadSound, Agreed, StackSound
<1>2. PICK due, s : due = inbox /\ s = serving
  OBVIOUS
<1>3. ThreadSound' /\ UNCHANGED <<serving, talk, crossed, fault>>
  BY ConversationTypesOthers
<1>4. ASSUME ~cut, TrackedAs(line', inbox', serving)  PROVE Agreed' /\ ~cut
  <2>1. Chained(line') /\ Grounded(talk') /\ fault' # "check"
    BY <1>3 DEF ThreadSound, Chained, Agreed, Grounded
  <2>2. TrackedAs(line', inbox', serving')
    BY <1>3, <1>4
  <2>3. PICK t : t = talk
    OBVIOUS
  <2>4. talk' = t /\ serving' = s /\ Told(t) = Seen(s)
    BY <1>2, <1>3, <2>3 DEF Agreed
  <2>. QED
    BY <1>4, <2>1, <2>2, <2>4, AgreedAfter
<1>5. ASSUME Rejected(due) \/ Unwound(Below, due)  PROVE Agreed' /\ ~cut
  <2>1. Rewinds(inbox)
    BY <1>1, <1>2, <1>5, RewindsEither
  <2>. QED
    BY <1>1, <1>4, <2>1, UnwoundKeeps DEF Agreed
<1>6. CASE OtherErrs(a)
  BY <1>2, <1>5, <1>6 DEF OtherErrs
<1>7. CASE OtherDies(a)
  BY <1>2, <1>5, <1>7 DEF OtherDies
<1>8. CASE OtherAnswers(a)
  <2>1. line # <<>> /\ Returned(due) /\ HolderOf(line) = a /\ a # Self
    BY <1>2, <1>8, SpeaksIsHolder DEF OtherAnswers
  <2>2. ~cut
    <3>1. cut' = cut
      BY <2>1 DEF Returned
    <3>. QED
      BY <3>1
  <2>3. CASE Adrift(line, inbox, serving)
    BY <1>1, <1>2, <1>4, <2>1, <2>2, <2>3, AdriftReturned DEF TrackedAs
  <2>4. ASSUME NEW p, Followed(p, line, inbox, serving)  PROVE Agreed' /\ ~cut
    <3>1. /\ Tallies(p, line) /\ Entered(p, line, s) /\ due = <<>> /\ Len(s) = p[Len(line)]
      BY <1>2, <2>1, <2>4 DEF Followed, Level, Delivers
    <3>2. Len(s) + Taken(Last(line)) = p[Len(line)]
      <4>1. Last(line).to = a
        BY <2>1 DEF HolderOf
      <4>2. Taken(Last(line)) = 0 /\ Len(s) \in Nat
        BY <4>1, <2>1, <1>1, <1>2 DEF Taken
      <4>. QED
        BY <4>2, <3>1
    <3>3. Mails(due) /\ AllServed(due)
      BY <1>1, <1>2, <3>1 DEF AllServed
    <3>4. \E q : Followed(q, line', inbox', s)
      BY <1>1, <2>1, <3>1, <3>2, <3>3, ReturnedKeeps
    <3>. QED
      BY <1>2, <1>4, <2>2, <3>4 DEF TrackedAs
  <2>. QED
    BY <1>1, <2>3, <2>4 DEF TrackedAs
<1>9. ASSUME NEW x \in Addressed \cup {Clone}, OtherCalls(a, x)  PROVE Agreed' /\ ~cut
  <2>0. CASE x = Nowhere
    BY <1>2, <1>5, <1>9, <2>0 DEF OtherCalls
  <2>1. CASE x # Nowhere
    <3>1. Called(a, x, due) /\ a = HolderOf(line) /\ a # Self
      BY <1>2, <1>9, <2>1, SpeaksIsHolder DEF OtherCalls
    <3>2. x \in Addressed \/ x \in Speaker
      BY Zenon DEF Speaker
    <3>3. Reached(x) \in Speaker
      BY <2>1, <3>2, ReachesOne
    <3>4. ~cut
      <4>1. cut' = cut
        BY <3>1 DEF Called
      <4>. QED
        BY <4>1
    <3>5. CASE Adrift(line, inbox, serving)
      BY <1>1, <1>2, <1>4, <3>1, <3>3, <3>4, <3>5, AdriftCalled DEF TrackedAs
    <3>6. ASSUME NEW p, Followed(p, line, inbox, serving)  PROVE Agreed' /\ ~cut
      <4>1. /\ Tallies(p, line) /\ Entered(p, line, s) /\ due = <<>> /\ Len(s) = p[Len(line)]
        BY <1>2, <3>1, <3>6 DEF Followed, Level, Delivers
      <4>2. Mails(due) /\ AllServed(due)
        BY <1>1, <1>2, <4>1 DEF AllServed
      <4>3. Ready(a, x, p[Len(line)], s)
        BY <3>1, <4>1 DEF Ready
      <4>4. \E q : Followed(q, line', inbox', s)
        BY <1>1, <3>1, <3>3, <4>1, <4>2, <4>3, CalledKeeps
      <4>. QED
        BY <1>2, <1>4, <3>4, <4>4 DEF TrackedAs
    <3>. QED
      BY <1>1, <3>5, <3>6 DEF TrackedAs
  <2>. QED
    BY <2>0, <2>1
<1>. QED
  BY <1>6, <1>7, <1>8, <1>9

\* The process that dies takes both accounts with it.
LEMMA ReplacedAgrees ==
  ASSUME ThreadSound, Replaced, fault' # "check", ~cut'
  PROVE  Agreed' /\ ~cut
<1>1. Chained(line') /\ TalkSound(talk') /\ (inbox' = <<>> \/ inbox' = <<Notice>>) /\ Mails(inbox')
  BY ReplacedSound DEF ThreadSound, Chained
<1>2. serving' = <<>> /\ talk' = <<Ground>> /\ line' = SubSeq(line, 1, Below)
      /\ cut' = (cut \/ OfSelf(line'))
  BY DEF Replaced
<1>3. ~cut /\ ~OfSelf(line')
  BY <1>2, Zenon
<1>4. Clear(line')
  <2>1. DOMAIN line' = 1 .. Len(line')
    BY <1>1 DEF Chained
  <2>. QED
    BY <1>3, <2>1 DEF OfSelf, Clear, OwnFrame
<1>5. PICK s : s = <<>>
  OBVIOUS
<1>6. s \in Seq(StackEntry)
  BY <1>5, EmptySeq
<1>7. Waiting(inbox', s)
  <2>1. CASE inbox' = <<>>
    BY <2>1, NothingWaits
  <2>2. CASE inbox' = <<Notice>>
    <3>1. PICK l : l = Notice
      OBVIOUS
    <3>2. ~l.reply
      BY <3>1, NoticeMail
    <3>3. inbox'[1] = l /\ Len(inbox') = 1
      BY <2>2, <3>1
    <3>4. \A i \in 2 .. Len(inbox') : FALSE
      BY <3>3
    <3>. QED
      BY <1>1, <3>2, <3>3, <3>4 DEF Waiting
  <2>. QED
    BY <1>1, <2>1, <2>2
<1>8. TrackedAs(line', inbox', s)
  <2>1. PICK g, due : g = line' /\ due = inbox'
    OBVIOUS
  <2>2. Chained(g) /\ Clear(g) /\ Waiting(due, s)
    BY <1>1, <1>4, <1>7, <2>1
  <2>. QED
    BY <1>6, <2>1, <2>2, ClearTracked
<1>9. PICK t : t = <<Ground>>
  OBVIOUS
<1>10. Told(t) = Seen(s)
  <2>1. Len(t) = 1
    BY <1>9
  <2>2. Told(t) = <<>>
    BY <2>1, ToldGround
  <2>3. Seen(s) = <<>>
    BY <1>5 DEF Seen
  <2>. QED
    BY <2>2, <2>3
<1>11. Grounded(talk') /\ talk' = t /\ serving' = s
  BY <1>1, <1>2, <1>5, <1>9 DEF TalkSound
<1>12. TrackedAs(line', inbox', serving')
  BY <1>8, <1>11
<1>. QED
  BY <1>1, <1>3, <1>10, <1>11, <1>12, AgreedAfter

LEMMA FrontOfAppend ==
  ASSUME NEW S, NEW s \in Seq(S), NEW e \in S
  PROVE  Front(Append(s, e)) = s
<1>1. PICK g : g = Append(s, e)
  OBVIOUS
<1>2. Front(g) = s
  BY <1>1 DEF Front
<1>. QED
  BY <1>1, <1>2

LEMMA ListModelsAgrees ==
  ASSUME ThreadSound, StackSound(serving, letters), Agreed, NEW l, IsDue(l), ~l.reply,
         NEW x, x = "", Posted(l, x), UNCHANGED <<talk, fault>>, ~cut'
  PROVE  Agreed' /\ ~cut
<1>0. l \in Mail
  BY DueIs
<1>1. Writable(x) /\ (l.reply => Expects(l)) /\ TrackedAs(line, inbox, serving)
  BY DEF Writable, Agreed
<1>2. PICK e : e = Incoming(l)
  OBVIOUS
<1>3. e \in StackEntry
  BY <1>0, <1>2, IncomingIs
<1>4. Served(l) = Append(serving, e) /\ serving \in Seq(StackEntry)
  BY <1>2 DEF Served, StackSound
<1>5. Front(Append(serving, e)) = serving
  BY <1>3, <1>4, FrontOfAppend
<1>6. ~cut /\ Chained(line') /\ TrackedAs(line', inbox', serving')
  BY <1>1, PostedKeeps
<1>7. serving' = serving
  <2>1. x \in {"", Last(Served(l)).peer}
    OBVIOUS
  <2>2. serving' = Front(Served(l))
    BY <1>1, <2>1, PostedKeeps
  <2>. QED
    BY <2>2, <1>4, <1>5
<1>8. PICK t, s : t = talk /\ s = serving
  OBVIOUS
<1>9. Grounded(talk') /\ talk' = t /\ serving' = s /\ Told(t) = Seen(s) /\ fault' # "check"
  BY <1>7, <1>8 DEF Agreed, Grounded
<1>. QED
  BY <1>6, <1>9, AgreedAfter

LEMMA AgreeInit == CvInit => AgreeInv
<1>. SUFFICES ASSUME CvInit PROVE Agreed
  BY DEF AgreeInv
<1>1. line = <<>> /\ inbox = <<>> /\ serving = <<>> /\ talk = <<Ground>> /\ fault = "none"
  BY DEF CvInit
<1>2. Chained(line) /\ TalkSound(talk) /\ StackSound(serving, letters)
  BY ConversationTypesInit DEF ConversationTypes, ThreadSound
<1>3. Told(talk) = Seen(serving)
  <2>1. Len(talk) = 1
    BY <1>1
  <2>2. Told(talk) = <<>>
    BY <2>1, ToldGround
  <2>3. Seen(serving) = <<>>
    BY <1>1 DEF Seen
  <2>. QED
    BY <2>2, <2>3
<1>4. TrackedAs(line, inbox, serving)
  <2>1. Clear(line)
    BY <1>1 DEF Clear
  <2>2. Waiting(inbox, serving)
    BY <1>1, NothingWaits
  <2>. QED
    BY <1>2, <2>1, <2>2, ClearTracked DEF StackSound
<1>. QED
  BY <1>1, <1>2, <1>3, <1>4 DEF Agreed, TalkSound

LEMMA AgreeStep == ConversationTypes /\ AgreeInv /\ [CvNext]_cvars => AgreeInv'
<1>. SUFFICES ASSUME ConversationTypes, AgreeInv, [CvNext]_cvars, ~crossed', ~cut'
              PROVE  Agreed'
  BY DEF AgreeInv
<1>0. ThreadSound /\ StackSound(serving, letters) /\ TalkSound(talk)
  BY DEF ConversationTypes
<1>1. CASE UNCHANGED cvars
  <2>1. Agreed
    BY <1>1 DEF AgreeInv, cvars
  <2>2. PICK t, s : t = talk /\ s = serving
    OBVIOUS
  <2>3. /\ Chained(line') /\ Grounded(talk') /\ talk' = t /\ serving' = s /\ Told(t) = Seen(s)
        /\ fault' # "check"
    BY <1>1, <2>1, <2>2 DEF cvars, Agreed, Chained, Grounded
  <2>4. TrackedAs(line', inbox', serving')
    BY <1>1, <2>1 DEF cvars, Agreed
  <2>. QED
    BY <2>3, <2>4, AgreedAfter
<1>2. ASSUME NEW a \in Speaker,
             \/ OtherAnswers(a) \/ OtherErrs(a) \/ OtherDies(a)
             \/ \E x \in Addressed \cup {Clone} : OtherCalls(a, x)
      PROVE  Agreed'
  <2>1. crossed' = crossed
    BY <1>2 DEF OtherAnswers, OtherErrs, OtherDies, OtherCalls
  <2>2. ~cut
    BY <1>2, Zenon DEF OtherAnswers, OtherErrs, OtherDies, OtherCalls, Rejected, Unwound, Returned, Called
  <2>3. Agreed
    BY <2>1, <2>2 DEF AgreeInv
  <2>. QED
    BY <1>0, <1>2, <2>3, OthersAgree
<1>3. ASSUME Replaced  PROVE ~crossed /\ ~cut /\ Agreed
  BY <1>3, Zenon DEF Replaced, AgreeInv
<1>4. CASE Dies
  <2>1. fault' # "check"
    BY <1>3, <1>4 DEF Dies, Agreed
  <2>. QED
    BY <1>0, <1>4, <2>1, ReplacedAgrees DEF Dies
<1>5. ASSUME NEW l, IsDue(l),
             Fails(l) \/ ListModels(l) \/ \E plan \in Plans : OnCall(l, plan)
      PROVE  Agreed'
  <2>0. l \in Mail /\ l = inbox[1] /\ inbox # <<>>
    BY <1>0, <1>5, DueIs DEF IsDue
  <2>1. ASSUME Agreed  PROVE l.reply => AnswerFits(l, serving)
    <3>1. Waiting(inbox, serving)
      BY <1>0, <2>1, TrackedWaits DEF Agreed, ThreadSound
    <3>. QED
      BY <2>0, <3>1 DEF Waiting
  <2>2. ASSUME NEW x, Posted(l, x)  PROVE ~cut
    BY <2>2, Zenon DEF Posted, Rejected, Unwound, Returned, Called
  <2>3. CASE Fails(l)
    <3>1. Replaced /\ l.reply
      BY <2>3 DEF Fails
    <3>2. serving # <<>> /\ Reached(Last(serving).peer) = l.from
      BY <1>3, <2>1, <3>1 DEF AnswerFits
    <3>3. fault' # "check"
      BY <2>3, <3>2 DEF Fails
    <3>. QED
      BY <1>0, <3>1, <3>3, ReplacedAgrees
  <2>4. CASE ListModels(l)
    <3>1. PICK x : x = ""
      OBVIOUS
    <3>2. Posted(l, x) /\ UNCHANGED <<talk, fault>>
      BY <2>4, <3>1 DEF ListModels
    <3>3. ~l.reply /\ ~crossed
      BY <2>4, Zenon DEF ListModels
    <3>4. Agreed
      BY <2>2, <3>2, <3>3 DEF AgreeInv
    <3>. QED
      BY <1>0, <1>5, <3>1, <3>2, <3>3, <3>4, ListModelsAgrees
  <2>5. ASSUME NEW plan \in Plans, OnCall(l, plan)  PROVE Agreed'
    <3>1. Conversed(l, plan) /\ fault' = fault /\ (l.reply => Expects(l))
      BY <2>5 DEF OnCall
    <3>2. ~crossed /\ ~(Awaited(l) # l.reply)
      BY <2>5, Zenon DEF OnCall
    <3>3. Awaited(l) <=> l.reply
      BY <3>2
    <3>4. \E x : Posted(l, x)
      BY <3>1 DEF Conversed
    <3>5. Agreed
      BY <2>2, <3>2, <3>4 DEF AgreeInv
    <3>. QED
      BY <1>0, <1>5, <3>1, <3>3, <3>5, ConversedAgrees
  <2>. QED
    BY <1>5, <2>3, <2>4, <2>5
<1>. QED
  BY <1>1, <1>2, <1>4, <1>5 DEF CvNext, IsDue

\* For any agents and addresses, whatever the models write, messages without To
\* included, and whichever adapters die or write late: until an agent that it
\* waits for calls it, or a rewind ends some of its calls and leaves others, the
\* stack of LLMAgent (llm_agent.py) and that of LinearService (service.h) tell of
\* the same conversations, but for those that LLMAgent leaves open after a
\* message without To: AccountsAgree.
THEOREM AccountsAgreeCorrect == CvSpec => []AccountsAgree
<1>. DEFINE I == ConversationTypes /\ AgreeInv
<1>1. CvInit => I
  BY AgreeInit, ConversationTypesInit
<1>2. I /\ [CvNext]_cvars => I'
  BY AgreeStep, ConversationTypesStep
<1>3. I => AccountsAgree
  BY AgreedSays DEF AgreeInv, AccountsAgree
<1>. QED
  BY <1>1, <1>2, <1>3, PTL DEF CvSpec

-----------------------------------------------------------------------------
(* Memory: what a list of records has before one of them *)

Memo == [id : Nat, receiving : BOOLEAN]

\* f holds what is kept of the first records of s.
Keeps(f, s, end) ==
  /\ f[0] = <<>>
  /\ \A i \in 1 .. Len(s) : f[i] = IF s[i].id < end THEN Append(f[i - 1], s[i]) ELSE f[i - 1]

LEMMA KeepsExists ==
  ASSUME NEW s \in Seq(Memo), NEW end
  PROVE  \E f \in [0 .. Len(s) -> Seq(Memo)] : Keeps(f, s, end)
<1>. DEFINE n == Len(s)
            S == Seq(Memo)
            prev == [g \in 1 .. n |-> g - 1]
            next == [x \in (1 .. n) \X S |->
                       IF s[x[1]].id < end THEN Append(x[2], s[x[1]]) ELSE x[2]]
<1>1. n \in Nat /\ <<>> \in S
  BY EmptySeq
<1>2. prev \in [1 .. n -> Nat] /\ \A g \in 1 .. n : prev[g] < g
  BY <1>1
<1>3. next \in [(1 .. n) \X S -> S]
  <2>. SUFFICES ASSUME NEW g \in 1 .. n, NEW q \in S
                PROVE  (IF s[g].id < end THEN Append(q, s[g]) ELSE q) \in S
    OBVIOUS
  <2>1. s[g] \in Memo
    OBVIOUS
  <2>2. Append(q, s[g]) \in S
    BY <2>1
  <2>. QED
    BY <2>2
<1>4. PICK h \in [0 .. n -> S] : Recursion(h, n, <<>>, prev, next)
  <2>. HIDE DEF n, prev, next, S
  <2>. QED
    BY <1>1, <1>2, <1>3, RecursionExists
<1>5. ASSUME NEW i \in 1 .. n
      PROVE  h[i] = IF s[i].id < end THEN Append(h[i - 1], s[i]) ELSE h[i - 1]
  <2>1. h[i] = next[<<i, h[prev[i]]>>] /\ prev[i] = i - 1
    BY <1>4 DEF Recursion
  <2>2. i - 1 \in 0 .. n
    BY <1>1
  <2>3. h[i - 1] \in S
    BY <2>2
  <2>. QED
    BY <2>1, <2>3
<1>. QED
  BY <1>4, <1>5 DEF Recursion, Keeps

LEMMA BeforeIs ==
  ASSUME NEW s \in Seq(Memo), NEW end, NEW f, Keeps(f, s, end)
  PROVE  Before(s, end) = f[Len(s)]
<1>. DEFINE n == Len(s)
            Body(d) == [i \in 0 .. n |->
                          IF i = 0 THEN <<>>
                          ELSE IF s[i].id < end THEN Append(d[i - 1], s[i]) ELSE d[i - 1]]
            before == CHOOSE d : d = Body(d)
<1>1. n \in Nat /\ n \in 0 .. n
  OBVIOUS
<1>2. Before(s, end) = before[n]
  BY DEF Before
<1>3. \E d : d = Body(d)
  <2>1. PICK h \in [0 .. n -> Seq(Memo)] : Keeps(h, s, end)
    BY KeepsExists
  <2>2. ASSUME NEW i \in 0 .. n
        PROVE  h[i] = IF i = 0 THEN <<>>
                      ELSE IF s[i].id < end THEN Append(h[i - 1], s[i]) ELSE h[i - 1]
    <3>1. CASE i = 0
      BY <2>1, <3>1 DEF Keeps
    <3>2. CASE i # 0
      <4>1. i \in 1 .. n
        BY <1>1, <3>2
      <4>. QED
        BY <2>1, <3>2, <4>1 DEF Keeps
    <3>. QED
      BY <3>1, <3>2
  <2>3. h = Body(h)
    BY <2>2
  <2>. QED
    BY <2>3
<1>4. before = Body(before)
  <2>. HIDE DEF Body
  <2>. QED
    BY <1>3
<1>. HIDE DEF before
<1>5. PICK h : h = before
  OBVIOUS
<1>6. h = Body(h)
  BY <1>4, <1>5
<1>7. Keeps(h, s, end)
  <2>1. 0 \in 0 .. n /\ \A k \in 1 .. n : k \in 0 .. n /\ k # 0
    BY <1>1
  <2>2. h[0] = <<>>
    BY <1>6, <2>1
  <2>3. ASSUME NEW k \in 1 .. n
        PROVE  h[k] = IF s[k].id < end THEN Append(h[k - 1], s[k]) ELSE h[k - 1]
    <3>1. k \in 0 .. n /\ k # 0
      BY <2>1
    <3>2. h[k] = Body(h)[k]
      BY <1>6
    <3>. QED
      BY <3>1, <3>2
  <2>. QED
    BY <2>2, <2>3 DEF Keeps
<1>8. \A i \in 0 .. n : f[i] = h[i]
  <2>. DEFINE T == {i \in 0 .. n : f[i] # h[i]}
  <2>. SUFFICES ASSUME T # {} PROVE FALSE
    OBVIOUS
  <2>1. PICK i \in T : \A k \in T : i <= k
    <3>. T \subseteq Nat
      OBVIOUS
    <3>. HIDE DEF T
    <3>. QED  BY LeastNat
  <2>2. i # 0
    BY <1>7 DEF Keeps
  <2>3. i \in 1 .. n /\ i - 1 \in 0 .. n /\ i - 1 \notin T
    BY <1>1, <2>1, <2>2
  <2>. QED
    BY <2>3, <1>7 DEF Keeps
<1>. QED
  BY <1>1, <1>2, <1>5, <1>8

LEMMA BeforeType ==
  ASSUME NEW s \in Seq(Memo), NEW end
  PROVE  /\ Before(s, end) \in Seq(Memo)
         /\ Len(s) = 0 => Before(s, end) = <<>>
<1>1. PICK f \in [0 .. Len(s) -> Seq(Memo)] : Keeps(f, s, end)
  BY KeepsExists
<1>2. Before(s, end) = f[Len(s)] /\ Len(s) \in 0 .. Len(s)
  BY <1>1, BeforeIs
<1>. QED
  BY <1>1, <1>2 DEF Keeps

LEMMA ConcatAppend ==
  ASSUME NEW S, NEW x \in Seq(S), NEW y \in Seq(S), NEW z \in S
  PROVE  x \o Append(y, z) = Append(x \o y, z)
OBVIOUS

\* Of two lists in a row, what the first has and then what the second has.
LEMMA BeforeConcat ==
  ASSUME NEW s \in Seq(Memo), NEW t \in Seq(Memo), NEW end
  PROVE  Before(s \o t, end) = Before(s, end) \o Before(t, end)
<1>. DEFINE m == Len(s)
            n == Len(t)
<1>1. PICK q \in Seq(Memo) : q = s \o t
  BY ConcatProperties
<1>2. /\ m \in Nat /\ n \in Nat /\ Len(q) = m + n
      /\ \A i \in 1 .. m : q[i] = s[i]
      /\ \A i \in 1 .. n : q[m + i] = t[i]
  BY <1>1, ConcatProperties
<1>3. PICK f \in [0 .. m -> Seq(Memo)] : Keeps(f, s, end)
  BY KeepsExists
<1>4. PICK g \in [0 .. n -> Seq(Memo)] : Keeps(g, t, end)
  BY KeepsExists
<1>5. PICK h : h = [i \in 0 .. m + n |-> IF i <= m THEN f[i] ELSE f[m] \o g[i - m]]
  OBVIOUS
<1>6. f[m] \in Seq(Memo) /\ m \in 0 .. m /\ n \in 0 .. n
  <2>1. m \in 0 .. m /\ n \in 0 .. n
    BY <1>2
  <2>. QED
    BY <2>1
<1>7. \A i \in 0 .. m : h[i] = f[i]
  BY <1>2, <1>5
<1>8. \A i \in 0 .. n : h[m + i] = f[m] \o g[i]
  <2>1. CASE n = 0
    <3>1. \A i \in 0 .. n : i = 0
      BY <2>1
    <3>2. f[m] \o g[0] = f[m]
      BY <1>4, <1>6, ConcatEmptySeq DEF Keeps
    <3>. QED
      BY <1>2, <1>6, <1>7, <3>1, <3>2
  <2>2. ASSUME NEW i \in 1 .. n  PROVE h[m + i] = f[m] \o g[i]
    BY <1>2, <1>5
  <2>3. h[m + 0] = f[m] \o g[0]
    <3>1. f[m] \o g[0] = f[m]
      BY <1>4, <1>6, ConcatEmptySeq DEF Keeps
    <3>. QED
      BY <1>2, <1>6, <1>7, <3>1
  <2>4. \A i \in 0 .. n : i = 0 \/ i \in 1 .. n
    BY <1>2
  <2>. QED
    BY <2>2, <2>3, <2>4
<1>9. ASSUME NEW i \in 1 .. m + n
      PROVE  h[i] = IF q[i].id < end THEN Append(h[i - 1], q[i]) ELSE h[i - 1]
  <2>1. CASE i <= m
    <3>1. i \in 1 .. m /\ i - 1 \in 0 .. m /\ i \in 0 .. m
      BY <1>2, <2>1
    <3>2. h[i] = f[i] /\ h[i - 1] = f[i - 1] /\ q[i] = s[i]
      BY <1>2, <1>7, <3>1
    <3>. QED
      BY <1>3, <3>1, <3>2 DEF Keeps
  <2>2. CASE i > m
    <3>1. PICK k \in 1 .. n : i = m + k
      <4>1. i - m \in 1 .. n /\ i = m + (i - m)
        BY <1>2, <2>2
      <4>. QED
        BY <4>1
    <3>2. k \in 0 .. n /\ k - 1 \in 0 .. n /\ i - 1 = m + (k - 1)
      BY <1>2, <3>1
    <3>3. h[i] = f[m] \o g[k] /\ h[i - 1] = f[m] \o g[k - 1] /\ q[i] = t[k]
      BY <1>2, <1>8, <3>1, <3>2
    <3>4. g[k] = IF t[k].id < end THEN Append(g[k - 1], t[k]) ELSE g[k - 1]
      BY <1>4, <3>1 DEF Keeps
    <3>5. g[k - 1] \in Seq(Memo) /\ t[k] \in Memo
      BY <3>1, <3>2
    <3>6. f[m] \o Append(g[k - 1], t[k]) = Append(f[m] \o g[k - 1], t[k])
      <4>1. PICK x \in Seq(Memo), y \in Seq(Memo), z \in Memo :
                  x = f[m] /\ y = g[k - 1] /\ z = t[k]
        BY <1>6, <3>5
      <4>2. x \o Append(y, z) = Append(x \o y, z)
        BY ConcatAppend
      <4>. QED
        BY <4>1, <4>2
    <3>. QED
      BY <3>3, <3>4, <3>6
  <2>. QED
    BY <1>2, <2>1, <2>2
<1>10. Keeps(h, q, end)
  <2>1. h[0] = <<>>
    BY <1>2, <1>3, <1>7 DEF Keeps
  <2>. QED
    BY <1>2, <1>9, <2>1 DEF Keeps
<1>11. Before(q, end) = h[m + n]
  BY <1>2, <1>10, BeforeIs
<1>12. Before(s, end) = f[m] /\ Before(t, end) = g[n]
  BY <1>3, <1>4, BeforeIs
<1>. QED
  BY <1>1, <1>6, <1>8, <1>11, <1>12

\* What of a list is kept up to an anchor: all of it, if nothing is past it, and
\* nothing more when it grows past it.
LEMMA UpToAll ==
  ASSUME NEW s \in Seq(Memo), NEW x \in Nat, \A i \in 1 .. Len(s) : s[i].id <= x
  PROVE  UpTo(s, x) = s
<1>. DEFINE past == {i \in DOMAIN s : s[i].id > x}
<1>1. ASSUME NEW i \in 1 .. Len(s)  PROVE ~(s[i].id > x)
  <2>1. s[i] \in Memo /\ s[i].id <= x
    OBVIOUS
  <2>2. s[i].id \in Nat
    BY <2>1 DEF Memo
  <2>. QED
    BY <2>1, <2>2
<1>2. past = {}
  BY <1>1
<1>. QED
  BY <1>2 DEF UpTo

LEMMA FirstPast ==
  ASSUME NEW T, T \subseteq Nat, T # {}
  PROVE  Min(T) \in T /\ \A i \in T : Min(T) <= i
<1>1. \E x \in T : \A y \in T : x <= y
  BY LeastNat
<1>. QED
  BY <1>1 DEF Min

LEMMA UpToType ==
  ASSUME NEW s \in Seq(Memo), NEW x \in Nat
  PROVE  UpTo(s, x) \in Seq(Memo)
<1>. DEFINE past == {i \in DOMAIN s : s[i].id > x}
<1>1. CASE past = {}
  BY <1>1 DEF UpTo
<1>2. CASE past # {}
  <2>1. past \subseteq 1 .. Len(s) /\ past \subseteq Nat /\ Len(s) \in Nat
    OBVIOUS
  <2>2. PICK k \in 1 .. Len(s) : k = Min(past)
    <3>. HIDE DEF past
    <3>. QED
      BY <1>2, <2>1, FirstPast
  <2>3. UpTo(s, x) = SubSeq(s, 1, k - 1)
    BY <1>2, <2>2 DEF UpTo
  <2>4. 1 \in Int /\ k - 1 \in Int /\ \A i \in 1 .. k - 1 : s[i] \in Memo
    BY <2>1
  <2>. QED
    BY <2>3, <2>4, SubSeqProperties
<1>. QED
  BY <1>1, <1>2

LEMMA UpToAppend ==
  ASSUME NEW s \in Seq(Memo), NEW x \in Nat, NEW m \in Memo, m.id > x,
         NEW q, q = Append(s, m)
  PROVE  UpTo(q, x) = UpTo(s, x)
<1>. DEFINE n == Len(s)
            past(r) == {i \in DOMAIN r : r[i].id > x}
<1>1. /\ n \in Nat /\ q \in Seq(Memo) /\ DOMAIN q = 1 .. n + 1 /\ DOMAIN s = 1 .. n
      /\ q[n + 1] = m /\ \A i \in 1 .. n : q[i] = s[i]
  BY AppendProperties
<1>2. past(q) = past(s) \cup {n + 1}
  <2>1. 1 .. n + 1 = (1 .. n) \cup {n + 1}
    BY <1>1
  <2>. QED
    BY <1>1, <2>1
<1>3. past(q) \subseteq 1 .. n + 1 /\ past(s) \subseteq 1 .. n /\ past(q) # {}
  BY <1>1, <1>2
<1>4. PICK k \in 1 .. n + 1 : k = Min(past(q)) /\ k \in past(q) /\ \A i \in past(q) : k <= i
  <2>1. past(q) \subseteq Nat
    BY <1>1, <1>3
  <2>. HIDE DEF past
  <2>. QED
    BY <1>3, <2>1, FirstPast
<1>5. UpTo(q, x) = SubSeq(q, 1, k - 1)
  BY <1>3, <1>4 DEF UpTo
<1>6. /\ SubSeq(q, 1, k - 1) \in Seq(Memo) /\ Len(SubSeq(q, 1, k - 1)) = k - 1
      /\ \A i \in 1 .. k - 1 : SubSeq(q, 1, k - 1)[i] = q[i]
  <2>1. /\ k \in Int /\ 1 <= k /\ 1 \in Int /\ k - 1 \in Int
        /\ \A i \in 1 .. k - 1 : q[i] \in Memo /\ 1 + i - 1 = i
        /\ (k - 1) - 1 + 1 = k - 1
    BY <1>1
  <2>. QED
    BY <2>1, SubSeqProperties
<1>7. CASE past(s) = {}
  <2>1. k = n + 1 /\ UpTo(s, x) = s
    BY <1>2, <1>4, <1>7 DEF UpTo
  <2>2. SubSeq(q, 1, k - 1) = s
    <3>1. PICK e \in Seq(Memo) : e = SubSeq(q, 1, k - 1)
      BY <1>6
    <3>2. Len(e) = Len(s) /\ \A i \in 1 .. Len(e) : e[i] = s[i]
      BY <1>1, <1>6, <2>1, <3>1
    <3>3. e = s
      BY <3>2, SeqEqual
    <3>. QED
      BY <3>1, <3>3
  <2>. QED
    BY <1>5, <2>1, <2>2
<1>8. CASE past(s) # {}
  <2>1. PICK j \in 1 .. n : j = Min(past(s)) /\ j \in past(s) /\ \A i \in past(s) : j <= i
    <3>1. past(s) \subseteq Nat
      BY <1>1, <1>3
    <3>. HIDE DEF past
    <3>. QED
      BY <1>3, <1>8, <3>1, FirstPast
  <2>2. j = k
    <3>. HIDE DEF past
    <3>1. j \in past(q)
      BY <1>2, <2>1
    <3>2. k <= j /\ k # n + 1
      BY <1>1, <1>4, <3>1
    <3>3. k \in past(s)
      BY <1>2, <1>4, <3>2
    <3>4. j <= k
      BY <2>1, <3>3
    <3>. QED
      BY <1>1, <3>2, <3>4
  <2>3. UpTo(s, x) = SubSeq(s, 1, k - 1)
    BY <1>8, <2>1, <2>2 DEF UpTo
  <2>4. /\ SubSeq(s, 1, k - 1) \in Seq(Memo) /\ Len(SubSeq(s, 1, k - 1)) = k - 1
        /\ \A i \in 1 .. k - 1 : SubSeq(s, 1, k - 1)[i] = s[i]
    <3>1. /\ k \in Int /\ 1 <= k /\ k <= n /\ 1 \in Int /\ k - 1 \in Int
          /\ \A i \in 1 .. k - 1 : s[i] \in Memo /\ 1 + i - 1 = i
          /\ (k - 1) - 1 + 1 = k - 1
      BY <1>1, <2>2
    <3>. QED
      BY <3>1, SubSeqProperties
  <2>5. PICK e \in Seq(Memo), d \in Seq(Memo) :
              e = SubSeq(q, 1, k - 1) /\ d = SubSeq(s, 1, k - 1)
    BY <1>6, <2>4
  <2>6. Len(e) = Len(d) /\ \A i \in 1 .. Len(e) : e[i] = d[i]
    BY <1>1, <1>6, <2>1, <2>2, <2>4, <2>5
  <2>7. e = d
    BY <2>6, SeqEqual
  <2>. QED
    BY <1>5, <2>3, <2>5, <2>7
<1>. QED
  BY <1>7, <1>8

-----------------------------------------------------------------------------
(* Memory: the invariant *)

Link == [parent : Nat, anchor : Nat, born : Seq(Memo)]
Remembering ==
  [parent : Nat, anchor : Nat, born : Seq(Memo), memory : Seq(Memo)]

\* What the one at the end of a link was born with is what it is linked to.
Inherits(r, ags) ==
  IF r.parent = Nobody THEN r.born = <<>>
  ELSE r.born = ags[r.parent].born \o UpTo(ags[r.parent].memory, r.anchor)

\* Its anchor is not in the future, its parent older than the n-th agent.
LinkFits(r, ags, n, x) ==
  r.parent < n /\ r.anchor <= x /\ Inherits(r, ags)

\* A memory in order, up to record x.
Ordered(s, x) ==
  /\ \A i \in 1 .. Len(s) : s[i].id <= x
  /\ \A i, j \in 1 .. Len(s) : i <= j => s[i].id <= s[j].id

\* With the last record x, and y while it is being remembered.
MemoriesFit(ags, x, y) ==
  /\ ags \in Seq(Remembering)
  /\ \A a \in 1 .. Len(ags) : LinkFits(ags[a], ags, a, x) /\ Ordered(ags[a].memory, y)

TemplatesFit(tps, ags, x) ==
  /\ tps \in Seq(Link)
  /\ \A i \in 1 .. Len(tps) : LinkFits(tps[i], ags, Len(ags) + 1, x)

MInv ==
  records \in Nat /\ MemoriesFit(agents, records, records) /\ TemplatesFit(templates, agents, records)

LEMMA RememberingFields ==
  ASSUME NEW ags \in Seq(Remembering), NEW a \in 1 .. Len(ags)
  PROVE  /\ ags[a] \in Remembering /\ ags[a].parent \in Nat /\ ags[a].anchor \in Nat
         /\ ags[a].born \in Seq(Memo) /\ ags[a].memory \in Seq(Memo)
<1>1. ags[a] \in Remembering
  OBVIOUS
<1>. QED
  BY <1>1 DEF Remembering

\* Agent r, or agent a, remembers m.
Recalling(r, m) == [r EXCEPT !.memory = Append(@, m)]
Noted(ags, a, m) == ReplaceAt(ags, a, Recalling(ags[a], m))

LEMMA RecallingIs ==
  ASSUME NEW r \in Remembering, NEW m \in Memo
  PROVE  /\ Recalling(r, m) \in Remembering
         /\ Recalling(r, m).memory = Append(r.memory, m)
         /\ Recalling(r, m).parent = r.parent /\ Recalling(r, m).anchor = r.anchor
         /\ Recalling(r, m).born = r.born
<1>1. r.memory \in Seq(Memo)
  BY DEF Remembering
<1>2. PICK s \in Seq(Memo) : s = Append(r.memory, m)
  BY <1>1, AppendProperties
<1>3. Recalling(r, m) = [r EXCEPT !.memory = s]
  BY <1>2 DEF Recalling
<1>. QED
  BY <1>2, <1>3 DEF Remembering

LEMMA RecordFits ==
  ASSUME NEW k \in Nat, NEW b \in BOOLEAN
  PROVE  [id |-> k, receiving |-> b] \in Memo
BY DEF Memo

\* An agent remembers a record that is no older than what it remembers and newer
\* than every anchor.
LEMMA RememberKeeps ==
  ASSUME NEW x \in Nat, NEW y \in Nat, NEW z \in Nat, y <= z, x < z,
         NEW ags, MemoriesFit(ags, x, y), NEW a \in 1 .. Len(ags),
         NEW m \in Memo, m.id = z,
         NEW e, e = Noted(ags, a, m),
         NEW tps, TemplatesFit(tps, ags, x)
  PROVE  MemoriesFit(e, x, z) /\ TemplatesFit(tps, e, x) /\ Len(e) = Len(ags)
<1>1. ags \in Seq(Remembering) /\ Len(ags) \in Nat
  BY DEF MemoriesFit
<1>2. PICK s \in Seq(Memo) : s = Append(ags[a].memory, m)
  BY <1>1, RememberingFields, AppendProperties
<1>5. PICK r \in Remembering :
        /\ r.memory = s /\ r.parent = ags[a].parent /\ r.anchor = ags[a].anchor
        /\ r.born = ags[a].born /\ r = Recalling(ags[a], m)
  BY <1>1, <1>2, RememberingFields, RecallingIs
<1>7. /\ e \in Seq(Remembering) /\ Len(e) = Len(ags) /\ e[a] = r
      /\ \A b \in 1 .. Len(ags) : b # a => e[b] = ags[b]
  <2>1. e = ReplaceAt(ags, a, r)
    BY <1>5 DEF Noted
  <2>2. PICK S : S = Remembering
    OBVIOUS
  <2>3. ags \in Seq(S) /\ r \in S
    BY <1>1, <2>2
  <2>4. /\ ReplaceAt(ags, a, r) \in Seq(S) /\ Len(ReplaceAt(ags, a, r)) = Len(ags)
        /\ ReplaceAt(ags, a, r)[a] = r
        /\ \A b \in 1 .. Len(ags) : b # a => ReplaceAt(ags, a, r)[b] = ags[b]
    BY <2>3 DEF ReplaceAt
  <2>. QED
    BY <2>1, <2>2, <2>4
<1>8. ASSUME NEW b \in 1 .. Len(ags)
      PROVE  e[b].parent = ags[b].parent /\ e[b].anchor = ags[b].anchor /\ e[b].born = ags[b].born
  <2>1. CASE b = a
    BY <1>5, <1>7, <2>1
  <2>2. CASE b # a
    BY <1>7, <2>2
  <2>. QED
    BY <2>1, <2>2
<1>9. ASSUME NEW b \in 1 .. Len(ags), NEW k \in Nat, k <= x
      PROVE  UpTo(e[b].memory, k) = UpTo(ags[b].memory, k)
  <2>1. CASE b = a
    <3>1. PICK q \in Seq(Memo) : q = ags[a].memory
      BY <1>1, RememberingFields
    <3>2. m.id > k /\ s = Append(q, m)
      BY <1>2, <1>9, <3>1
    <3>3. UpTo(s, k) = UpTo(q, k)
      BY <3>2, UpToAppend
    <3>. QED
      BY <1>5, <1>7, <2>1, <3>1, <3>3
  <2>2. CASE b # a
    BY <1>7, <2>2
  <2>. QED
    BY <2>1, <2>2
<1>10. ASSUME NEW p, NEW n \in 1 .. Len(ags) + 1, LinkFits(p, ags, n, x),
              p.parent \in Nat, p.anchor \in Nat
       PROVE  LinkFits(p, e, n, x)
  <2>1. p.parent < n /\ p.anchor <= x /\ Inherits(p, ags)
    BY <1>10 DEF LinkFits
  <2>2. p.parent # Nobody => p.parent \in 1 .. Len(ags)
    BY <1>1, <1>10, <2>1 DEF Nobody
  <2>3. Inherits(p, e)
    BY <1>8, <1>9, <1>10, <2>1, <2>2 DEF Inherits
  <2>. QED
    BY <2>1, <2>3 DEF LinkFits
<1>11. ASSUME NEW b \in 1 .. Len(ags)  PROVE LinkFits(e[b], e, b, x)
  <2>1. LinkFits(ags[b], ags, b, x) /\ b \in 1 .. Len(ags) + 1
    BY <1>1 DEF MemoriesFit
  <2>2. LinkFits(ags[b], e, b, x)
    BY <1>1, <1>10, <2>1, RememberingFields
  <2>. QED
    BY <1>8, <2>2 DEF LinkFits, Inherits
<1>12. ASSUME NEW b \in 1 .. Len(ags)  PROVE Ordered(e[b].memory, z)
  <2>1. PICK q \in Seq(Memo) : q = ags[b].memory
    BY <1>1, RememberingFields
  <2>2. Ordered(q, y)
    BY <2>1 DEF MemoriesFit
  <2>3. ASSUME NEW i \in 1 .. Len(q)  PROVE q[i].id \in Nat /\ q[i].id <= y
    <3>1. q[i] \in Memo
      OBVIOUS
    <3>. QED
      BY <2>2, <3>1 DEF Ordered, Memo
  <2>4. CASE b # a
    <3>1. \A i \in 1 .. Len(q) : q[i].id <= z
      BY <2>3
    <3>2. Ordered(q, z)
      BY <2>2, <3>1 DEF Ordered
    <3>. QED
      BY <1>7, <2>1, <2>4, <3>2
  <2>5. CASE b = a
    <3>1. /\ s = Append(q, m) /\ Len(q) \in Nat /\ Len(s) = Len(q) + 1
          /\ s[Len(q) + 1] = m /\ \A i \in 1 .. Len(q) : s[i] = q[i]
      BY <1>2, <2>1, <2>5, AppendProperties
    <3>2. ASSUME NEW i \in 1 .. Len(s)
          PROVE  s[i].id \in Nat /\ s[i].id <= z /\ (i = Len(s) => s[i].id = z)
      <4>1. CASE i \in 1 .. Len(q)
        BY <2>3, <3>1, <4>1
      <4>2. CASE i = Len(s)
        BY <3>1, <4>2
      <4>. QED
        BY <3>1, <4>1, <4>2
    <3>3. ASSUME NEW i \in 1 .. Len(s), NEW j \in 1 .. Len(s), i <= j
          PROVE  s[i].id <= s[j].id
      <4>1. CASE j = Len(s)
        BY <3>2, <4>1
      <4>2. CASE j # Len(s)
        <5>1. i \in 1 .. Len(q) /\ j \in 1 .. Len(q)
          BY <3>1, <3>3, <4>2
        <5>. QED
          BY <2>2, <3>1, <3>3, <5>1 DEF Ordered
      <4>. QED
        BY <4>1, <4>2
    <3>4. Ordered(s, z)
      BY <3>2, <3>3 DEF Ordered
    <3>. QED
      BY <1>5, <1>7, <2>5, <3>4
  <2>. QED
    BY <2>4, <2>5
<1>13. MemoriesFit(e, x, z)
  BY <1>7, <1>11, <1>12 DEF MemoriesFit
<1>14. TemplatesFit(tps, e, x)
  <2>1. ASSUME NEW i \in 1 .. Len(tps)  PROVE LinkFits(tps[i], e, Len(ags) + 1, x)
    <3>1. tps[i] \in Link /\ LinkFits(tps[i], ags, Len(ags) + 1, x)
      BY DEF TemplatesFit
    <3>2. tps[i].parent \in Nat /\ tps[i].anchor \in Nat
      BY <3>1 DEF Link
    <3>3. Len(ags) + 1 \in 1 .. Len(ags) + 1
      BY <1>1
    <3>. QED
      BY <1>10, <3>1, <3>2, <3>3
  <2>. QED
    BY <1>7, <2>1 DEF TemplatesFit
<1>. QED
  BY <1>7, <1>13, <1>14

\* Anchors that are not in the future stay so.
LEMMA LaterFits ==
  ASSUME NEW x \in Nat, NEW y \in Nat, NEW z \in Nat, x <= z,
         NEW ags, MemoriesFit(ags, x, y), NEW tps, TemplatesFit(tps, ags, x)
  PROVE  MemoriesFit(ags, z, y) /\ TemplatesFit(tps, ags, z)
<1>1. ASSUME NEW p, NEW n, p.anchor \in Nat, LinkFits(p, ags, n, x)
      PROVE  LinkFits(p, ags, n, z)
  BY <1>1 DEF LinkFits
<1>2. MemoriesFit(ags, z, y)
  BY <1>1, RememberingFields DEF MemoriesFit
<1>3. \A i \in 1 .. Len(tps) : tps[i].anchor \in Nat
  <2>. SUFFICES ASSUME NEW i \in 1 .. Len(tps) PROVE tps[i].anchor \in Nat
    OBVIOUS
  <2>1. tps[i] \in Link
    BY DEF TemplatesFit
  <2>. QED
    BY <2>1 DEF Link
<1>. QED
  BY <1>1, <1>2, <1>3 DEF TemplatesFit

\* Nothing remembered changes, but the last record's identifier does.
LEMMA NewerFits ==
  ASSUME NEW x \in Nat, NEW y \in Nat, NEW z \in Nat, y <= z,
         NEW ags, MemoriesFit(ags, x, y)
  PROVE  MemoriesFit(ags, x, z)
<1>1. ASSUME NEW a \in 1 .. Len(ags)  PROVE Ordered(ags[a].memory, z)
  <2>1. ags[a].memory \in Seq(Memo) /\ Ordered(ags[a].memory, y)
    BY RememberingFields DEF MemoriesFit
  <2>2. ASSUME NEW i \in 1 .. Len(ags[a].memory)  PROVE ags[a].memory[i].id <= z
    <3>1. ags[a].memory[i] \in Memo /\ ags[a].memory[i].id <= y
      BY <2>1 DEF Ordered
    <3>2. ags[a].memory[i].id \in Nat
      BY <3>1 DEF Memo
    <3>. QED
      BY <3>1, <3>2
  <2>. QED
    BY <2>1, <2>2 DEF Ordered
<1>. QED
  BY <1>1 DEF MemoriesFit

\* What an agent is made from is what it has, up to its anchor.
LEMMA MadeFromFits ==
  ASSUME MInv, NEW a \in Agent, NEW l, l = MadeFrom(a)
  PROVE  l \in Link /\ LinkFits(l, agents, Len(agents) + 1, records)
<1>1. PICK m \in Seq(Memo), b \in Seq(Memo), x \in Nat :
            m = agents[a].memory /\ b = agents[a].born /\ x = agents[a].anchor
  BY RememberingFields DEF MInv, MemoriesFit, Agent
<1>2. /\ Ordered(m, records) /\ x <= records /\ records \in Nat /\ Len(agents) \in Nat
      /\ a \in 1 .. Len(agents)
  BY <1>1 DEF MInv, MemoriesFit, Agent, LinkFits
<1>3. PICK k : k = Anchor(a)
  OBVIOUS
<1>4. k \in Nat /\ k <= records /\ \A i \in 1 .. Len(m) : m[i].id <= k
  <2>1. CASE m = <<>>
    <3>1. k = x /\ Len(m) = 0
      BY <1>1, <1>3, <2>1 DEF Anchor
    <3>. QED
      BY <1>2, <3>1
  <2>2. CASE m # <<>>
    <3>1. Len(m) \in 1 .. Len(m)
      BY <2>2, EmptySeq
    <3>2. k = m[Len(m)].id
      BY <1>1, <1>3, <2>2 DEF Anchor, Last
    <3>3. m[Len(m)] \in Memo
      BY <3>1
    <3>4. k \in Nat
      BY <3>2, <3>3 DEF Memo
    <3>5. k <= records /\ \A i \in 1 .. Len(m) : m[i].id <= k
      BY <1>2, <3>1, <3>2 DEF Ordered
    <3>. QED
      BY <3>4, <3>5
  <2>. QED
    BY <2>1, <2>2
<1>5. PICK h \in Seq(Memo) : h = b \o m
  BY ConcatProperties
<1>6. l = [parent |-> a, anchor |-> k, born |-> h]
  BY <1>1, <1>3, <1>5 DEF MadeFrom, History
<1>7. l \in Link /\ l.parent = a /\ l.anchor = k /\ l.born = h
  <2>1. a \in Nat
    BY <1>2
  <2>. QED
    BY <1>4, <1>6, <2>1 DEF Link
<1>8. UpTo(m, k) = m
  BY <1>4, UpToAll
<1>9. Inherits(l, agents)
  <2>1. a # Nobody
    BY <1>2 DEF Nobody
  <2>. QED
    BY <1>1, <1>5, <1>7, <1>8, <2>1 DEF Inherits
<1>. QED
  BY <1>2, <1>4, <1>7, <1>9 DEF LinkFits

\* An agent is added at the end of a link.
LEMMA AgentAdded ==
  ASSUME MInv, Commit, NEW l \in Link, LinkFits(l, agents, Len(agents) + 1, records),
         agents' = Append(agents, NewAgent(l)), templates' = templates
  PROVE  MInv'
<1>. DEFINE n == Len(agents)
<1>1. /\ records' = records + 1 /\ records \in Nat /\ records' \in Nat
      /\ agents \in Seq(Remembering) /\ n \in Nat
      /\ MemoriesFit(agents, records, records) /\ TemplatesFit(templates, agents, records)
  BY DEF MInv, MemoriesFit, Commit
<1>2. PICK w \in Seq(Memo) : w = <<>>
  BY EmptySeq
<1>3. PICK r : r = [parent |-> l.parent, anchor |-> l.anchor, born |-> l.born, memory |-> w]
  OBVIOUS
<1>4. l.parent \in Nat /\ l.anchor \in Nat /\ l.born \in Seq(Memo)
  BY DEF Link
<1>5. r \in Remembering /\ r.parent = l.parent /\ r.anchor = l.anchor /\ r.born = l.born /\ r.memory = w
  BY <1>3, <1>4 DEF Remembering
<1>6. agents' = Append(agents, r)
  BY <1>2, <1>3 DEF NewAgent
<1>7. /\ agents' \in Seq(Remembering) /\ Len(agents') = n + 1 /\ agents'[n + 1] = r
      /\ \A b \in 1 .. n : agents'[b] = agents[b]
  BY <1>1, <1>5, <1>6, AppendProperties
<1>8. ASSUME NEW p, NEW k \in 1 .. n + 1, p.parent \in Nat, p.anchor \in Nat,
             LinkFits(p, agents, k, records)
      PROVE  LinkFits(p, agents', k, records')
  <2>1. p.parent < k /\ p.anchor <= records' /\ Inherits(p, agents)
    BY <1>1, <1>8 DEF LinkFits
  <2>2. p.parent # Nobody => p.parent \in 1 .. n
    BY <1>1, <1>8, <2>1 DEF Nobody
  <2>3. Inherits(p, agents')
    BY <1>7, <2>1, <2>2 DEF Inherits
  <2>. QED
    BY <2>1, <2>3 DEF LinkFits
<1>9. ASSUME NEW b \in 1 .. n + 1
      PROVE  LinkFits(agents'[b], agents', b, records') /\ Ordered(agents'[b].memory, records')
  <2>1. CASE b = n + 1
    <3>1. LinkFits(l, agents', n + 1, records')
      BY <1>1, <1>4, <1>8, <2>1
    <3>2. LinkFits(r, agents', n + 1, records')
      BY <1>5, <3>1 DEF LinkFits, Inherits
    <3>3. Ordered(r.memory, records')
      BY <1>2, <1>5 DEF Ordered
    <3>. QED
      BY <1>7, <2>1, <3>2, <3>3
  <2>2. CASE b # n + 1
    <3>1. b \in 1 .. n
      BY <1>1, <2>2
    <3>2. LinkFits(agents[b], agents, b, records)
      BY <1>1, <3>1 DEF MemoriesFit
    <3>3. LinkFits(agents[b], agents', b, records')
      BY <1>1, <1>8, <3>1, <3>2, RememberingFields
    <3>4. MemoriesFit(agents, records, records')
      BY <1>1, NewerFits
    <3>5. Ordered(agents[b].memory, records')
      BY <3>1, <3>4 DEF MemoriesFit
    <3>. QED
      BY <1>7, <3>1, <3>3, <3>5
  <2>. QED
    BY <2>1, <2>2
<1>10. MemoriesFit(agents', records', records')
  BY <1>7, <1>9 DEF MemoriesFit
<1>11. TemplatesFit(templates', agents', records')
  <2>1. ASSUME NEW i \in 1 .. Len(templates)
        PROVE  LinkFits(templates[i], agents', n + 2, records')
    <3>1. templates[i] \in Link /\ LinkFits(templates[i], agents, n + 1, records)
      BY <1>1 DEF TemplatesFit
    <3>2. templates[i].parent \in Nat /\ templates[i].anchor \in Nat /\ n + 1 \in 1 .. n + 1
      BY <1>1, <3>1 DEF Link
    <3>3. LinkFits(templates[i], agents', n + 1, records')
      BY <1>8, <3>1, <3>2
    <3>. QED
      BY <1>1, <3>2, <3>3 DEF LinkFits
  <2>2. Len(agents') + 1 = n + 2
    BY <1>1, <1>7
  <2>. QED
    BY <1>1, <2>1, <2>2 DEF TemplatesFit
<1>. QED
  BY <1>1, <1>10, <1>11 DEF MInv

\* A record is remembered at its sender's or producer's, and at its receiver's.
LEMMA NotedKeeps ==
  ASSUME MInv, NEW from \in Agent, records' = records + 1, templates' = templates,
         NEW m \in Memo, m.id = records + 1,
         NEW e, e = Noted(agents, from, m)
  PROVE  /\ MemoriesFit(e, records, records') /\ TemplatesFit(templates, e, records)
         /\ Len(e) = Len(agents) /\ records \in Nat
<1>1. /\ records \in Nat /\ records' \in Nat /\ records <= records' /\ records < records'
      /\ from \in 1 .. Len(agents)
      /\ MemoriesFit(agents, records, records) /\ TemplatesFit(templates, agents, records)
  BY DEF MInv, Agent
<1>2. m.id = records'
  OBVIOUS
<1>. QED
  BY <1>1, <1>2, RememberKeeps

LEMMA RecordedKeeps ==
  ASSUME MInv, NEW from \in Agent, Recorded(from)
  PROVE  MInv'
<1>1. PICK m \in Memo : m.id = records + 1 /\ m = [id |-> records + 1, receiving |-> FALSE]
  <2>1. records + 1 \in Nat /\ FALSE \in BOOLEAN
    BY DEF MInv
  <2>2. [id |-> records + 1, receiving |-> FALSE] \in Memo
    BY <2>1, RecordFits, Zenon
  <2>. QED
    BY <2>2
<1>2. /\ records' = records + 1 /\ templates' = templates
      /\ agents' = Noted(agents, from, m)
  BY <1>1 DEF Recorded, Noted, Recalling, ReplaceAt
<1>3. /\ MemoriesFit(agents', records, records') /\ TemplatesFit(templates, agents', records)
      /\ records \in Nat
  BY <1>1, <1>2, NotedKeeps
<1>4. records' \in Nat /\ records <= records'
  BY <1>2, <1>3
<1>5. MemoriesFit(agents', records', records') /\ TemplatesFit(templates, agents', records')
  BY <1>3, <1>4, LaterFits
<1>. QED
  BY <1>2, <1>4, <1>5 DEF MInv

LEMMA ExchangedKeeps ==
  ASSUME MInv, NEW from \in Agent, NEW to \in Agent, Exchanged(from, to)
  PROVE  MInv'
<1>1. PICK m \in Memo : m.id = records + 1 /\ m = [id |-> records + 1, receiving |-> FALSE]
  <2>1. records + 1 \in Nat /\ FALSE \in BOOLEAN
    BY DEF MInv
  <2>2. [id |-> records + 1, receiving |-> FALSE] \in Memo
    BY <2>1, RecordFits, Zenon
  <2>. QED
    BY <2>2
<1>2. PICK r \in Memo : r.id = records + 1 /\ r = [id |-> records + 1, receiving |-> TRUE]
  <2>1. records + 1 \in Nat /\ TRUE \in BOOLEAN
    BY DEF MInv
  <2>2. [id |-> records + 1, receiving |-> TRUE] \in Memo
    BY <2>1, RecordFits, Zenon
  <2>. QED
    BY <2>2
<1>3. PICK e : e = Noted(agents, from, m)
  OBVIOUS
<1>4. /\ records' = records + 1 /\ templates' = templates
      /\ agents' = Noted(e, to, r)
  BY <1>1, <1>2, <1>3 DEF Exchanged, Noted, Recalling, ReplaceAt
<1>5. /\ MemoriesFit(e, records, records') /\ TemplatesFit(templates, e, records)
      /\ Len(e) = Len(agents) /\ records \in Nat
  BY <1>1, <1>3, <1>4, NotedKeeps
<1>6. /\ records' \in Nat /\ records <= records' /\ records < records' /\ records' <= records'
      /\ to \in 1 .. Len(e)
  BY <1>4, <1>5 DEF Agent
<1>7. r.id = records'
  BY <1>2, <1>4
<1>8. MemoriesFit(agents', records, records') /\ TemplatesFit(templates, agents', records)
  BY <1>4, <1>5, <1>6, <1>7, RememberKeeps
<1>9. MemoriesFit(agents', records', records') /\ TemplatesFit(templates, agents', records')
  BY <1>5, <1>6, <1>8, LaterFits
<1>. QED
  BY <1>4, <1>6, <1>9 DEF MInv

LEMMA CreateTemplateKeeps ==
  ASSUME MInv, NEW a \in Agent, CreateTemplate(a)
  PROVE  MInv'
<1>1. PICK l : l = MadeFrom(a)
  OBVIOUS
<1>2. l \in Link /\ LinkFits(l, agents, Len(agents) + 1, records)
  BY <1>1, MadeFromFits
<1>3. /\ records' = records + 1 /\ agents' = agents /\ templates' = Append(templates, l)
      /\ records \in Nat
  BY <1>1 DEF CreateTemplate, Commit, MInv
<1>4. templates \in Seq(Link) /\ TemplatesFit(templates, agents, records)
  BY DEF MInv, TemplatesFit
<1>5. /\ templates' \in Seq(Link) /\ Len(templates') = Len(templates) + 1
      /\ templates'[Len(templates) + 1] = l
      /\ \A i \in 1 .. Len(templates) : templates'[i] = templates[i]
  BY <1>2, <1>3, <1>4, AppendProperties
<1>6. ASSUME NEW i \in 1 .. Len(templates')
      PROVE  LinkFits(templates'[i], agents, Len(agents) + 1, records)
  <2>1. i \in 1 .. Len(templates) \/ i = Len(templates) + 1
    BY <1>4, <1>5
  <2>. QED
    BY <1>2, <1>4, <1>5, <2>1 DEF TemplatesFit
<1>7. TemplatesFit(templates', agents, records)
  BY <1>5, <1>6 DEF TemplatesFit
<1>8. records' \in Nat /\ records <= records' /\ MemoriesFit(agents, records, records)
  BY <1>3 DEF MInv
<1>9. MemoriesFit(agents, records, records')
  BY <1>3, <1>8, NewerFits
<1>10. MemoriesFit(agents, records', records') /\ TemplatesFit(templates', agents, records')
  BY <1>3, <1>7, <1>8, <1>9, LaterFits
<1>. QED
  BY <1>3, <1>8, <1>10 DEF MInv

LEMMA CreateKeeps ==
  ASSUME MInv, NEW a \in Agent, Create(a)
  PROVE  MInv'
<1>1. PICK l : l = MadeFrom(a)
  OBVIOUS
<1>2. l \in Link /\ LinkFits(l, agents, Len(agents) + 1, records)
  BY <1>1, MadeFromFits
<1>3. Commit /\ agents' = Append(agents, NewAgent(l)) /\ templates' = templates
  BY <1>1 DEF Create
<1>. QED
  BY <1>2, <1>3, AgentAdded

LEMMA InstantiateKeeps ==
  ASSUME MInv, NEW i \in 1 .. Len(templates), Instantiate(i)
  PROVE  MInv'
<1>1. PICK l : l = templates[i]
  OBVIOUS
<1>2. l \in Link /\ LinkFits(l, agents, Len(agents) + 1, records)
  BY <1>1 DEF MInv, TemplatesFit
<1>3. Commit /\ agents' = Append(agents, NewAgent(l)) /\ templates' = templates
  BY <1>1 DEF Instantiate
<1>. QED
  BY <1>2, <1>3, AgentAdded

LEMMA MemoryStarts ==
  ASSUME MInit
  PROVE  MInv
<1>1. PICK w \in Seq(Memo) : w = <<>>
  BY EmptySeq
<1>2. PICK r : r = [parent |-> 0, anchor |-> 0, born |-> w, memory |-> w]
  OBVIOUS
<1>3. r \in Remembering /\ r.parent = 0 /\ r.anchor = 0 /\ r.born = w /\ r.memory = w
  BY <1>2 DEF Remembering
<1>4. agents = <<r>> /\ templates = <<>> /\ records = 0
  BY <1>1, <1>2 DEF MInit, NewAgent, Nobody, Nothing
<1>5. agents \in Seq(Remembering) /\ Len(agents) = 1 /\ agents[1] = r
  BY <1>3, <1>4
<1>6. LinkFits(r, agents, 1, 0) /\ Ordered(w, 0)
  BY <1>1, <1>3 DEF LinkFits, Inherits, Ordered, Nobody
<1>7. ASSUME NEW a \in 1 .. Len(agents)
      PROVE  LinkFits(agents[a], agents, a, 0) /\ Ordered(agents[a].memory, 0)
  <2>1. a = 1
    BY <1>5
  <2>. QED
    BY <1>3, <1>5, <1>6, <2>1
<1>8. MemoriesFit(agents, 0, 0)
  BY <1>5, <1>7 DEF MemoriesFit
<1>9. TemplatesFit(templates, agents, 0)
  <2>1. templates \in Seq(Link) /\ Len(templates) = 0
    BY <1>4, EmptySeq
  <2>. QED
    BY <2>1 DEF TemplatesFit
<1>. QED
  BY <1>4, <1>8, <1>9 DEF MInv

LEMMA MemoryStep ==
  ASSUME MInv, [MNext]_mvars
  PROVE  MInv'
<1>1. ASSUME NEW a \in Agent, Recorded(a) PROVE MInv'
  BY <1>1, RecordedKeeps
<1>2. ASSUME NEW a \in Agent, NEW b \in Agent, Exchanged(a, b) PROVE MInv'
  BY <1>2, ExchangedKeeps
<1>3. ASSUME NEW a \in Agent, Create(a) PROVE MInv'
  BY <1>3, CreateKeeps
<1>4. ASSUME NEW a \in Agent, CreateTemplate(a) PROVE MInv'
  BY <1>4, CreateTemplateKeeps
<1>5. ASSUME NEW i \in 1 .. Len(templates), Instantiate(i) PROVE MInv'
  BY <1>5, InstantiateKeeps
<1>6. CASE UNCHANGED mvars
  BY <1>6 DEF mvars, MInv, MemoriesFit, LinkFits, Inherits, Ordered, TemplatesFit
<1>. QED
  BY <1>1, <1>2, <1>3, <1>4, <1>5, <1>6 DEF MNext

\* An agent was born with what it is linked to: what its parent was born with, and
\* what the parent remembers up to the anchor of the link, which is in the past.
THEOREM MemoryInvariant == MSpec => []MInv
<1>1. MInit => MInv
  BY MemoryStarts
<1>2. MInv /\ [MNext]_mvars => MInv'
  BY MemoryStep
<1>. QED
  BY <1>1, <1>2, PTL DEF MSpec

-----------------------------------------------------------------------------
(* Memory: what is read along the links *)

Step == [agent : Nat, anchor : Nat]

LEMMA StepIs ==
  ASSUME NEW p \in Nat, NEW k \in Nat
  PROVE  \E l \in Step : l = [agent |-> p, anchor |-> k] /\ l.agent = p /\ l.anchor = k
<1>1. PICK l : l = [agent |-> p, anchor |-> k]
  OBVIOUS
<1>2. l \in Step /\ l.agent = p /\ l.anchor = k
  BY <1>1 DEF Step
<1>. QED
  BY <1>1, <1>2

\* f[b] are the links from the oldest ancestor of b to its parent.
Follows(f) ==
  /\ f[0] = <<>>
  /\ \A b \in 1 .. Len(agents) :
       f[b] = IF agents[b].parent = Nobody THEN <<>>
              ELSE Append(f[agents[b].parent],
                          [agent |-> agents[b].parent, anchor |-> agents[b].anchor])

LEMMA ParentFits ==
  ASSUME MInv, NEW b \in 1 .. Len(agents)
  PROVE  /\ agents[b].parent \in 0 .. b - 1 /\ agents[b].anchor \in Nat
         /\ agents[b].born \in Seq(Memo) /\ agents[b].memory \in Seq(Memo)
         /\ Inherits(agents[b], agents)
<1>1. agents[b].parent < b /\ Inherits(agents[b], agents) /\ agents \in Seq(Remembering)
  BY DEF MInv, MemoriesFit, LinkFits
<1>. QED
  BY <1>1, RememberingFields

LEMMA FollowsExists ==
  ASSUME MInv
  PROVE  \E f \in [0 .. Len(agents) -> Seq(Step)] : Follows(f)
<1>. DEFINE n == Len(agents)
            S == Seq(Step)
            prev == [g \in 1 .. n |-> agents[g].parent]
            next == [x \in (1 .. n) \X S |->
                       IF agents[x[1]].parent = Nobody THEN <<>>
                       ELSE Append(x[2], [agent |-> agents[x[1]].parent,
                                          anchor |-> agents[x[1]].anchor])]
<1>1. n \in Nat /\ <<>> \in S
  BY EmptySeq DEF MInv, MemoriesFit
<1>2. prev \in [1 .. n -> Nat] /\ \A g \in 1 .. n : prev[g] < g
  BY <1>1, ParentFits
<1>3. next \in [(1 .. n) \X S -> S]
  <2>. SUFFICES ASSUME NEW g \in 1 .. n, NEW q \in S
                PROVE  (IF agents[g].parent = Nobody THEN <<>>
                        ELSE Append(q, [agent |-> agents[g].parent,
                                        anchor |-> agents[g].anchor])) \in S
    OBVIOUS
  <2>1. [agent |-> agents[g].parent, anchor |-> agents[g].anchor] \in Step
    BY ParentFits DEF Step
  <2>2. Append(q, [agent |-> agents[g].parent, anchor |-> agents[g].anchor]) \in S
    BY <2>1, AppendProperties
  <2>. QED
    BY <1>1, <2>2
<1>4. PICK h \in [0 .. n -> S] : Recursion(h, n, <<>>, prev, next)
  <2>. HIDE DEF n, prev, next, S
  <2>. QED
    BY <1>1, <1>2, <1>3, RecursionExists
<1>5. ASSUME NEW i \in 1 .. n
      PROVE  h[i] = IF agents[i].parent = Nobody THEN <<>>
                    ELSE Append(h[agents[i].parent],
                                [agent |-> agents[i].parent, anchor |-> agents[i].anchor])
  <2>1. h[i] = next[<<i, h[prev[i]]>>] /\ prev[i] = agents[i].parent
    BY <1>4 DEF Recursion
  <2>2. agents[i].parent \in 0 .. n
    BY <1>1, ParentFits
  <2>3. h[agents[i].parent] \in S
    BY <2>2
  <2>. QED
    BY <2>1, <2>3
<1>. QED
  BY <1>4, <1>5 DEF Recursion, Follows

LEMMA LinksIs ==
  ASSUME MInv, NEW f, Follows(f), NEW a \in Agent
  PROVE  Links(a) = Append(f[a], [agent |-> a, anchor |-> Anchor(a)])
<1>. DEFINE n == Len(agents)
            Body(d) == [b \in 0 .. n |->
                          IF b = 0 \/ agents[b].parent = Nobody THEN <<>>
                          ELSE Append(d[agents[b].parent],
                                      [agent |-> agents[b].parent, anchor |-> agents[b].anchor])]
            links == CHOOSE d : d = Body(d)
<1>1. n \in Nat /\ a \in 0 .. n
  BY DEF MInv, MemoriesFit, Agent
<1>2. Links(a) = Append(links[a], [agent |-> a, anchor |-> Anchor(a)])
  BY DEF Links
<1>3. \E d : d = Body(d)
  <2>1. PICK h \in [0 .. n -> Seq(Step)] : Follows(h)
    BY FollowsExists
  <2>2. ASSUME NEW b \in 0 .. n
        PROVE  h[b] = IF b = 0 \/ agents[b].parent = Nobody THEN <<>>
                      ELSE Append(h[agents[b].parent],
                                  [agent |-> agents[b].parent, anchor |-> agents[b].anchor])
    <3>1. CASE b = 0
      BY <2>1, <3>1 DEF Follows
    <3>2. CASE b # 0
      <4>1. b \in 1 .. n
        BY <1>1, <3>2
      <4>. QED
        BY <2>1, <3>2, <4>1 DEF Follows
    <3>. QED
      BY <3>1, <3>2
  <2>3. h = Body(h)
    BY <2>2
  <2>. QED
    BY <2>3
<1>4. links = Body(links)
  <2>. HIDE DEF Body
  <2>. QED
    BY <1>3
<1>. HIDE DEF links
<1>5. PICK h : h = links
  OBVIOUS
<1>6. h = Body(h)
  BY <1>4, <1>5
<1>7. Follows(h)
  <2>1. 0 \in 0 .. n /\ \A k \in 1 .. n : k \in 0 .. n /\ k # 0
    BY <1>1
  <2>2. h[0] = <<>>
    BY <1>6, <2>1
  <2>3. ASSUME NEW k \in 1 .. n
        PROVE  h[k] = IF agents[k].parent = Nobody THEN <<>>
                      ELSE Append(h[agents[k].parent],
                                  [agent |-> agents[k].parent, anchor |-> agents[k].anchor])
    <3>1. k \in 0 .. n /\ k # 0
      BY <2>1
    <3>2. h[k] = Body(h)[k]
      BY <1>6
    <3>. QED
      BY <3>1, <3>2
  <2>. QED
    BY <2>2, <2>3 DEF Follows
<1>8. \A i \in 0 .. n : f[i] = h[i]
  <2>. DEFINE T == {i \in 0 .. n : f[i] # h[i]}
  <2>. SUFFICES ASSUME T # {} PROVE FALSE
    OBVIOUS
  <2>1. PICK i \in T : \A k \in T : i <= k
    <3>. T \subseteq Nat
      OBVIOUS
    <3>. HIDE DEF T
    <3>. QED  BY LeastNat
  <2>2. i # 0
    BY <1>7 DEF Follows
  <2>3. i \in 1 .. n
    BY <1>1, <2>1, <2>2
  <2>4. agents[i].parent \in 0 .. n /\ agents[i].parent < i
    BY <1>1, <2>3, ParentFits
  <2>5. agents[i].parent \notin T
    BY <1>1, <2>1, <2>4
  <2>. QED
    BY <2>3, <2>4, <2>5, <1>7 DEF Follows
<1>. QED
  BY <1>1, <1>2, <1>5, <1>8

\* What the adapter is told of one link, and of several.
Piece(l, end) == Before(UpTo(agents[l.agent].memory, l.anchor), end)
Recounted(q, end) == [i \in 1 .. Len(q) |-> Piece(q[i], end)]

Agents(q) == \A i \in 1 .. Len(q) : q[i].agent \in 1 .. Len(agents)

LEMMA PieceType ==
  ASSUME MInv, NEW l \in Step, l.agent \in 1 .. Len(agents), NEW end
  PROVE  Piece(l, end) \in Seq(Memo)
<1>1. agents[l.agent].memory \in Seq(Memo) /\ l.anchor \in Nat
  BY ParentFits DEF Step
<1>2. UpTo(agents[l.agent].memory, l.anchor) \in Seq(Memo)
  BY <1>1, UpToType
<1>. QED
  BY <1>2, BeforeType DEF Piece

LEMMA RecountedAppend ==
  ASSUME MInv, NEW q \in Seq(Step), Agents(q), NEW l \in Step, l.agent \in 1 .. Len(agents),
         NEW end
  PROVE  /\ FlattenSeq(Recounted(Append(q, l), end)) = FlattenSeq(Recounted(q, end)) \o Piece(l, end)
         /\ Agents(Append(q, l))
<1>. DEFINE n == Len(q)
<1>1. PICK r : r = Append(q, l)
  OBVIOUS
<1>2. /\ r \in Seq(Step) /\ Len(r) = n + 1 /\ n \in Nat /\ r[n + 1] = l
      /\ \A i \in 1 .. n : r[i] = q[i]
  BY <1>1, AppendProperties
<1>3. Agents(r)
  BY <1>2 DEF Agents
<1>4. PICK p \in Seq(Memo) : p = Piece(l, end)
  BY PieceType
<1>5. PICK t \in Seq(Seq(Memo)) : t = Recounted(q, end)
  <2>1. ASSUME NEW i \in 1 .. n  PROVE Piece(q[i], end) \in Seq(Memo)
    <3>1. q[i] \in Step /\ q[i].agent \in 1 .. Len(agents)
      BY DEF Agents
    <3>. QED
      BY <3>1, PieceType
  <2>2. Recounted(q, end) \in Seq(Seq(Memo))
    BY <1>2, <2>1 DEF Recounted
  <2>. QED
    BY <2>2
<1>6. Len(t) = n /\ \A i \in 1 .. n : t[i] = Piece(q[i], end)
  BY <1>2, <1>5 DEF Recounted
<1>7. Recounted(r, end) = Append(t, p)
  <2>1. PICK u \in Seq(Seq(Memo)) : u = Append(t, p)
    BY AppendProperties
  <2>2. Len(u) = n + 1 /\ u[n + 1] = p /\ \A i \in 1 .. n : u[i] = t[i]
    BY <1>6, <2>1, AppendProperties
  <2>3. ASSUME NEW i \in 1 .. n + 1  PROVE u[i] = Piece(r[i], end)
    <3>1. CASE i = n + 1
      BY <1>2, <1>4, <2>2, <3>1
    <3>2. CASE i # n + 1
      <4>1. i \in 1 .. n
        BY <1>2, <3>2
      <4>. QED
        BY <1>2, <1>6, <2>2, <4>1
    <3>. QED
      BY <3>1, <3>2
  <2>4. u = [i \in 1 .. n + 1 |-> Piece(r[i], end)]
    <3>1. PICK w : w = [i \in 1 .. n + 1 |-> Piece(r[i], end)]
      OBVIOUS
    <3>2. \A i \in 1 .. n + 1 : w[i] = u[i]
      BY <2>3, <3>1
    <3>3. u = [i \in 1 .. n + 1 |-> u[i]] /\ w = [i \in 1 .. n + 1 |-> u[i]]
      BY <2>2, <3>1, <3>2
    <3>. QED
      BY <3>1, <3>3
  <2>. QED
    BY <1>2, <2>1, <2>4 DEF Recounted
<1>8. FlattenSeq(Append(t, p)) = FlattenSeq(t) \o p
  BY FlattenSeqAppend
<1>. QED
  BY <1>1, <1>3, <1>4, <1>5, <1>7, <1>8

\* Along the links to an agent is what it was born with.
LEMMA RecountedIsBorn ==
  ASSUME MInv, NEW end, NEW f \in [0 .. Len(agents) -> Seq(Step)], Follows(f)
  PROVE  \A b \in 1 .. Len(agents) :
           /\ FlattenSeq(Recounted(f[b], end)) = Before(agents[b].born, end)
           /\ Agents(f[b])
<1>. DEFINE n == Len(agents)
            Recounts(b) == FlattenSeq(Recounted(f[b], end)) = Before(agents[b].born, end) /\ Agents(f[b])
            T == {b \in 1 .. n : ~Recounts(b)}
<1>. SUFFICES ASSUME T # {} PROVE FALSE
  OBVIOUS
<1>0. n \in Nat
  BY DEF MInv, MemoriesFit
<1>1. PICK b \in T : \A k \in T : b <= k
  <2>. T \subseteq Nat
    OBVIOUS
  <2>. HIDE DEF T
  <2>. QED  BY LeastNat
<1>2. b \in 1 .. n /\ ~Recounts(b)
  BY <1>1
<1>3. /\ agents[b].parent \in 0 .. b - 1 /\ agents[b].anchor \in Nat
      /\ agents[b].born \in Seq(Memo) /\ Inherits(agents[b], agents)
  BY <1>2, ParentFits
<1>4. CASE agents[b].parent = Nobody
  <2>1. f[b] = <<>> /\ agents[b].born = <<>>
    BY <1>2, <1>3, <1>4 DEF Follows, Inherits
  <2>2. PICK q \in Seq(Step) : q = <<>> /\ Len(q) = 0
    BY EmptySeq
  <2>3. Recounted(q, end) = <<>> /\ Agents(q)
    BY <2>2 DEF Recounted, Agents
  <2>4. FlattenSeq(Recounted(f[b], end)) = <<>> /\ Agents(f[b])
    BY <2>1, <2>2, <2>3, FlattenSeqEmpty
  <2>5. Before(agents[b].born, end) = <<>>
    <3>1. Len(agents[b].born) = 0
      BY <2>1, EmptySeq
    <3>. QED
      BY <1>3, <3>1, BeforeType
  <2>. QED
    BY <1>2, <2>4, <2>5
<1>5. CASE agents[b].parent # Nobody
  <2>1. PICK p \in 1 .. n : p = agents[b].parent /\ p < b
    BY <1>0, <1>2, <1>3, <1>5 DEF Nobody
  <2>2. Recounts(p)
    <3>1. p \notin T
      <4>. HIDE DEF T
      <4>. QED
        BY <1>0, <1>1, <1>2, <2>1
    <3>. QED
      BY <3>1
  <2>3. PICK l \in Step : l = [agent |-> p, anchor |-> agents[b].anchor]
                          /\ l.agent = p /\ l.anchor = agents[b].anchor
    BY <1>0, <1>3, StepIs
  <2>4. f[b] = Append(f[p], l)
    BY <1>2, <1>5, <2>1, <2>3 DEF Follows
  <2>5. f[p] \in Seq(Step) /\ Agents(f[p])
    BY <2>1, <2>2
  <2>6. FlattenSeq(Recounted(f[b], end)) = FlattenSeq(Recounted(f[p], end)) \o Piece(l, end) /\ Agents(f[b])
    <3>1. PICK q \in Seq(Step) : q = f[p]
      BY <2>5
    <3>2. Agents(q) /\ l.agent \in 1 .. Len(agents)
      BY <2>1, <2>3, <2>5, <3>1
    <3>3. /\ FlattenSeq(Recounted(Append(q, l), end)) = FlattenSeq(Recounted(q, end)) \o Piece(l, end)
          /\ Agents(Append(q, l))
      BY <3>2, RecountedAppend
    <3>. QED
      BY <2>4, <3>1, <3>3
  <2>7. agents[p].born \in Seq(Memo) /\ agents[p].memory \in Seq(Memo)
    BY <2>1, ParentFits
  <2>8. PICK s \in Seq(Memo), t \in Seq(Memo) :
              s = agents[p].born /\ t = UpTo(agents[p].memory, l.anchor)
    BY <1>3, <2>3, <2>7, UpToType
  <2>9. agents[b].born = s \o t
    BY <1>3, <1>5, <2>1, <2>3, <2>8 DEF Inherits
  <2>10. Before(s \o t, end) = Before(s, end) \o Before(t, end)
    BY BeforeConcat
  <2>11. Piece(l, end) = Before(t, end) /\ FlattenSeq(Recounted(f[p], end)) = Before(s, end)
    BY <2>2, <2>3, <2>8 DEF Piece
  <2>12. Recounts(b)
    BY <2>6, <2>9, <2>10, <2>11
  <2>. QED
    BY <1>2, <2>12
<1>. QED
  BY <1>4, <1>5

\* Whenever an adapter is started, what it is replayed is what its agent and those it
\* comes from did, each up to the moment they were parted, in order, and nothing since
\* (updateMemory).
THEOREM ReplayIsHistoryCorrect == MSpec => []ReplayIsHistory
<1>1. MInv => ReplayIsHistory
  <2>. SUFFICES ASSUME MInv, NEW a \in Agent, NEW end \in 1 .. records + 1
                PROVE  Replayed(a, end) = Before(History(a), end)
    BY DEF ReplayIsHistory
  <2>1. PICK f \in [0 .. Len(agents) -> Seq(Step)] : Follows(f)
    BY FollowsExists
  <2>2. a \in 1 .. Len(agents) /\ a \in 0 .. Len(agents) /\ a # Nobody /\ a \in Nat
    BY DEF MInv, MemoriesFit, Agent, Nobody
  <2>3. PICK m : m = MadeFrom(a)
    OBVIOUS
  <2>4. m \in Link /\ LinkFits(m, agents, Len(agents) + 1, records)
    BY <2>3, MadeFromFits
  <2>5. m.parent = a /\ m.anchor = Anchor(a) /\ m.born = History(a)
    BY <2>3 DEF MadeFrom
  <2>6. Anchor(a) \in Nat
    BY <2>4, <2>5 DEF Link
  <2>7. PICK l \in Step : l = [agent |-> a, anchor |-> Anchor(a)]
                          /\ l.agent = a /\ l.anchor = Anchor(a)
    BY <2>2, <2>6, StepIs
  <2>8. Links(a) = Append(f[a], l)
    BY <2>1, <2>7, LinksIs
  <2>9. /\ f[a] \in Seq(Step) /\ Agents(f[a])
        /\ FlattenSeq(Recounted(f[a], end)) = Before(agents[a].born, end)
    BY <2>1, <2>2, RecountedIsBorn
  <2>10. FlattenSeq(Recounted(Links(a), end)) = FlattenSeq(Recounted(f[a], end)) \o Piece(l, end)
    BY <2>2, <2>7, <2>8, <2>9, RecountedAppend
  <2>11. agents[a].born \in Seq(Memo) /\ agents[a].memory \in Seq(Memo)
    BY <2>2, ParentFits
  <2>12. PICK s \in Seq(Memo), t \in Seq(Memo) :
               s = agents[a].born /\ t = UpTo(agents[a].memory, Anchor(a))
    BY <2>6, <2>11, UpToType
  <2>13. History(a) = s \o t
    BY <2>2, <2>4, <2>5, <2>12 DEF LinkFits, Inherits
  <2>14. Before(s \o t, end) = Before(s, end) \o Before(t, end)
    BY BeforeConcat
  <2>15. Piece(l, end) = Before(t, end)
    BY <2>7, <2>12 DEF Piece
  <2>16. Replayed(a, end) = FlattenSeq(Recounted(Links(a), end))
    BY DEF Replayed, Recounted, Piece
  <2>. QED
    BY <2>9, <2>10, <2>12, <2>13, <2>14, <2>15, <2>16
<1>. QED
  BY <1>1, MemoryInvariant, PTL

-----------------------------------------------------------------------------
(* Login: what was typed and shown is the beginning of the message *)

Stripped == [within : BOOLEAN, text : Seq(Text)]

LEMMA StripOneType ==
  ASSUME NEW acc \in Stripped, NEW c \in Char
  PROVE  StripOne(acc, c) \in Stripped
<1>1. acc.within \in BOOLEAN /\ acc.text \in Seq(Text)
  BY DEF Stripped
<1>2. PICK w \in BOOLEAN : w = IF acc.within THEN c = "nl" ELSE c = "csi"
  BY <1>1
<1>3. PICK t \in Seq(Text) : t = IF acc.within \/ c = "csi" THEN acc.text ELSE Append(acc.text, c)
  <2>1. CASE acc.within \/ c = "csi"
    BY <1>1, <2>1
  <2>2. CASE ~(acc.within \/ c = "csi")
    <3>1. c \in Text
      BY <2>2 DEF Char, Text
    <3>. QED
      BY <1>1, <2>2, <3>1, AppendProperties
  <2>. QED
    BY <2>1, <2>2
<1>4. StripOne(acc, c) = [within |-> w, text |-> t]
  BY <1>2, <1>3 DEF StripOne
<1>. QED
  BY <1>4 DEF Stripped

\* What strip_ansi leaves is text.
LEMMA StripAnsiType ==
  ASSUME NEW s \in Seq(Char)
  PROVE  StripAnsi(s) \in Seq(Text)
<1>. DEFINE n == Len(s)
            none == [within |-> FALSE, text |-> <<>>]
            Body(d) == [i \in 0 .. n |-> IF i = 0 THEN none ELSE StripOne(d[i - 1], s[i])]
            stripped == CHOOSE d : d = Body(d)
            prev == [g \in 1 .. n |-> g - 1]
            next == [x \in (1 .. n) \X Stripped |-> StripOne(x[2], s[x[1]])]
<1>1. n \in Nat /\ n \in 0 .. n /\ none \in Stripped
  BY EmptySeq DEF Stripped
<1>2. StripAnsi(s) = stripped[n].text
  BY DEF StripAnsi
<1>3. prev \in [1 .. n -> Nat] /\ \A g \in 1 .. n : prev[g] < g
  BY <1>1
<1>4. next \in [(1 .. n) \X Stripped -> Stripped]
  <2>. SUFFICES ASSUME NEW g \in 1 .. n, NEW q \in Stripped PROVE StripOne(q, s[g]) \in Stripped
    OBVIOUS
  <2>1. s[g] \in Char
    OBVIOUS
  <2>. QED
    BY <2>1, StripOneType
<1>5. PICK h \in [0 .. n -> Stripped] : Recursion(h, n, none, prev, next)
  <2>. HIDE DEF n, none, prev, next
  <2>. QED
    BY <1>1, <1>3, <1>4, RecursionExists
<1>6. ASSUME NEW i \in 1 .. n  PROVE h[i] = StripOne(h[i - 1], s[i])
  <2>1. h[i] = next[<<i, h[prev[i]]>>] /\ prev[i] = i - 1
    BY <1>5 DEF Recursion
  <2>2. i - 1 \in 0 .. n
    BY <1>1
  <2>3. h[i - 1] \in Stripped
    BY <2>2
  <2>. QED
    BY <2>1, <2>3
<1>7. h = Body(h)
  <2>1. h[0] = none
    BY <1>5 DEF Recursion
  <2>2. ASSUME NEW i \in 0 .. n
        PROVE  h[i] = IF i = 0 THEN none ELSE StripOne(h[i - 1], s[i])
    <3>1. i = 0 \/ i \in 1 .. n
      BY <1>1
    <3>. HIDE DEF none
    <3>. QED
      BY <1>6, <2>1, <3>1
  <2>. HIDE DEF none
  <2>. QED
    BY <2>2
<1>8. stripped = Body(stripped)
  <2>. HIDE DEF Body
  <2>. QED
    BY <1>7
<1>. HIDE DEF stripped
<1>9. PICK d : d = stripped
  OBVIOUS
<1>10. d = Body(d)
  BY <1>8, <1>9
<1>11. \A i \in 0 .. n : d[i] \in Stripped
  <2>. DEFINE T == {i \in 0 .. n : d[i] \notin Stripped}
  <2>. SUFFICES ASSUME T # {} PROVE FALSE
    OBVIOUS
  <2>1. PICK i \in T : \A k \in T : i <= k
    <3>. T \subseteq Nat
      OBVIOUS
    <3>. HIDE DEF T
    <3>. QED  BY LeastNat
  <2>2. d[i] = IF i = 0 THEN none ELSE StripOne(d[i - 1], s[i])
    <3>1. d[i] = Body(d)[i]
      BY <1>10
    <3>. QED
      BY <3>1
  <2>3. i \in 1 .. n /\ i - 1 \in 0 .. n /\ i - 1 \notin T
    <3>. HIDE DEF none
    <3>. QED
      BY <1>1, <2>1, <2>2
  <2>4. d[i - 1] \in Stripped /\ s[i] \in Char
    BY <2>3
  <2>5. d[i] \in Stripped
    <3>. HIDE DEF none
    <3>. QED
      BY <2>2, <2>3, <2>4, StripOneType
  <2>. QED
    BY <2>5
<1>12. stripped[n] \in Stripped
  BY <1>1, <1>9, <1>11
<1>. QED
  BY <1>2, <1>12 DEF Stripped

Said == Text \cup {"gone"}

LEMMA TextSaid ==
  ASSUME NEW s \in Seq(Text)
  PROVE  s \in Seq(Said)
BY DEF Said

LEMMA Joined ==
  ASSUME NEW S, NEW s \in Seq(S), NEW k \in 0 .. Len(s), NEW b \in Seq(S), NEW r \in Seq(S),
         Len(b) = k, Len(r) = Len(s) - k, \A i \in 1 .. k : b[i] = s[i],
         \A i \in 1 .. Len(s) - k : r[i] = s[k + i]
  PROVE  b \o r = s
<1>. DEFINE n == Len(s)
<1>1. n \in Nat /\ k \in Nat /\ k <= n
  OBVIOUS
<1>2. PICK e \in Seq(S) : e = b \o r
  BY ConcatProperties
<1>3. Len(e) = n
  <2>1. Len(e) = Len(b) + Len(r)
    BY <1>2, ConcatProperties
  <2>. QED
    BY <1>1, <2>1
<1>4. ASSUME NEW i \in 1 .. n  PROVE e[i] = s[i]
  <2>1. e[i] = IF i <= k THEN b[i] ELSE r[i - k]
    BY <1>1, <1>2, ConcatProperties
  <2>2. CASE i <= k
    BY <2>1, <2>2
  <2>3. CASE ~(i <= k)
    <3>1. i - k \in 1 .. n - k /\ k + (i - k) = i
      BY <1>1, <2>3
    <3>. QED
      BY <2>1, <2>3, <3>1
  <2>. QED
    BY <2>2, <2>3
<1>. QED
  BY <1>2, <1>3, <1>4, SeqEqual

\* A sequence is its beginning and then the rest.
LEMMA CutAt ==
  ASSUME NEW S, NEW s \in Seq(S), NEW k \in 0 .. Len(s)
  PROVE  \E b \in Seq(S), r \in Seq(S) :
           /\ b = SubSeq(s, 1, k) /\ r = SubSeq(s, k + 1, Len(s)) /\ b \o r = s
           /\ Len(b) = k /\ \A i \in 1 .. k : b[i] = s[i]
<1>. DEFINE n == Len(s)
<1>1. n \in Nat /\ k \in Nat /\ k <= n
  OBVIOUS
<1>2. PICK b \in Seq(S) :
        b = SubSeq(s, 1, k) /\ Len(b) = k /\ \A i \in 1 .. k : b[i] = s[i]
  <2>1. 1 \in Int /\ k \in Int /\ (\A i \in 1 .. k : s[i] \in S /\ 1 + i - 1 = i) /\ k - 1 + 1 = k
    BY <1>1
  <2>2. /\ SubSeq(s, 1, k) \in Seq(S) /\ Len(SubSeq(s, 1, k)) = IF 1 <= k THEN k - 1 + 1 ELSE 0
        /\ \A i \in 1 .. k - 1 + 1 : SubSeq(s, 1, k)[i] = s[1 + i - 1]
    BY <2>1, SubSeqProperties
  <2>3. PICK b \in Seq(S) : b = SubSeq(s, 1, k)
    BY <2>2
  <2>4. Len(b) = k /\ \A i \in 1 .. k : b[i] = s[i]
    BY <1>1, <2>1, <2>2, <2>3
  <2>. QED
    BY <2>3, <2>4
<1>3. PICK r \in Seq(S) :
        r = SubSeq(s, k + 1, n) /\ Len(r) = n - k /\ \A i \in 1 .. n - k : r[i] = s[k + i]
  <2>1. PICK m \in Int : m = k + 1
    BY <1>1
  <2>2. n \in Int /\ \A i \in m .. n : s[i] \in S
    BY <1>1, <2>1
  <2>3. /\ SubSeq(s, m, n) \in Seq(S)
        /\ Len(SubSeq(s, m, n)) = IF m <= n THEN n - m + 1 ELSE 0
        /\ \A i \in 1 .. n - m + 1 : SubSeq(s, m, n)[i] = s[m + i - 1]
    BY <2>2, SubSeqProperties
  <2>4. PICK r \in Seq(S) : r = SubSeq(s, m, n)
    BY <2>3
  <2>5. Len(r) = n - k
    BY <1>1, <2>1, <2>3, <2>4
  <2>6. ASSUME NEW i \in 1 .. n - k  PROVE r[i] = s[k + i]
    <3>1. i \in 1 .. n - m + 1 /\ m + i - 1 = k + i
      BY <1>1, <2>1
    <3>2. SubSeq(s, m, n)[i] = s[m + i - 1]
      BY <2>3, <3>1
    <3>. QED
      BY <2>4, <3>1, <3>2
  <2>. QED
    BY <2>1, <2>4, <2>5, <2>6
<1>4. PICK c \in Seq(S), d \in Seq(S) : c = b /\ d = r
  OBVIOUS
<1>5. c \o d = s
  <2>1. /\ Len(c) = k /\ Len(d) = n - k /\ \A i \in 1 .. k : c[i] = s[i]
        /\ \A i \in 1 .. n - k : d[i] = s[k + i]
    BY <1>2, <1>3, <1>4
  <2>. QED
    BY <2>1, Joined
<1>. QED
  BY <1>2, <1>3, <1>4, <1>5

\* Of two in a row, the first is the beginning, and the last of the second the end.
LEMMA InARow ==
  ASSUME NEW S, NEW b \in Seq(S), NEW r \in Seq(S)
  PROVE  /\ SubSeq(b \o r, 1, Len(b)) = b /\ \A i \in 1 .. Len(b) : (b \o r)[i] = b[i]
         /\ Len(b) \in 0 .. Len(b \o r)
         /\ r # <<>> => b \o r # <<>> /\ r[Len(r)] = (b \o r)[Len(b \o r)]
<1>0. PICK s \in Seq(S) : s = b \o r
  BY ConcatProperties
<1>1. /\ Len(s) = Len(b) + Len(r) /\ Len(b) \in Nat /\ Len(r) \in Nat
      /\ \A i \in 1 .. Len(b) + Len(r) : s[i] = IF i <= Len(b) THEN b[i] ELSE r[i - Len(b)]
  BY <1>0, ConcatProperties
<1>2. Len(b) \in 0 .. Len(s) /\ \A i \in 1 .. Len(b) : s[i] = b[i]
  BY <1>1
<1>3. PICK c \in Seq(S) : c = SubSeq(s, 1, Len(b)) /\ Len(c) = Len(b)
                          /\ \A i \in 1 .. Len(b) : c[i] = s[i]
  <2>1. PICK k \in 0 .. Len(s) : k = Len(b)
    BY <1>2
  <2>2. \E c \in Seq(S), d \in Seq(S) :
          /\ c = SubSeq(s, 1, k) /\ d = SubSeq(s, k + 1, Len(s)) /\ c \o d = s
          /\ Len(c) = k /\ \A i \in 1 .. k : c[i] = s[i]
    BY CutAt, Zenon
  <2>. QED
    BY <2>1, <2>2, Zenon
<1>4. c = b
  BY <1>2, <1>3, SeqEqual
<1>5. ASSUME r # <<>>  PROVE s # <<>> /\ r[Len(r)] = s[Len(s)]
  <2>1. Len(r) # 0
    BY <1>5, EmptySeq
  <2>2. Len(s) \in 1 .. Len(b) + Len(r) /\ ~(Len(s) <= Len(b)) /\ Len(s) - Len(b) = Len(r)
    BY <1>1, <2>1
  <2>3. s # <<>>
    BY <1>1, <2>1, EmptySeq
  <2>. QED
    BY <1>1, <2>2, <2>3
<1>. QED
  BY <1>0, <1>2, <1>3, <1>4, <1>5

EndsLine(s) == s # <<>> => s[Len(s)] = "nl"

\* What is at the beginning of what is left is said, and the rest is left.
Moves(s, b, r) ==
  /\ (s \o b) \o r = s \o (b \o r) /\ s \o b \in Seq(Said)
  /\ EndsLine(b \o r) => EndsLine(r)
  /\ b # <<>> => s \o b # <<>> /\ b[Len(b)] = (s \o b)[Len(s \o b)]

LEMMA MovesSaid ==
  ASSUME NEW s \in Seq(Said), NEW b \in Seq(Said), NEW r \in Seq(Said)
  PROVE  Moves(s, b, r)
<1>1. (s \o b) \o r = s \o (b \o r)
  BY ConcatAssociative
<1>2. r # <<>> => b \o r # <<>> /\ r[Len(r)] = (b \o r)[Len(b \o r)]
  BY InARow
<1>3. s \o b \in Seq(Said)
  BY ConcatProperties
<1>4. b # <<>> => s \o b # <<>> /\ b[Len(b)] = (s \o b)[Len(s \o b)]
  BY InARow
<1>5. EndsLine(b \o r) => EndsLine(r)
  BY <1>2 DEF EndsLine
<1>. QED
  BY <1>1, <1>3, <1>4, <1>5 DEF Moves

LEMMA LineTyped ==
  ASSUME NEW S, NEW x \in Seq(S), NEW r \in Seq(S), x # <<>>, x[Len(x)] = "nl"
  PROVE  \E n \in DOMAIN (x \o r) : (x \o r)[n] = "nl" /\ x = SubSeq(x \o r, 1, n)
<1>1. PICK w \in Seq(S) :
        /\ w = x \o r /\ SubSeq(w, 1, Len(x)) = x /\ \A i \in 1 .. Len(x) : w[i] = x[i]
        /\ Len(x) \in 0 .. Len(w)
  BY ConcatProperties, InARow
<1>2. Len(x) \in Nat /\ Len(x) # 0 /\ Len(w) \in Nat
  BY EmptySeq
<1>3. Len(x) \in 1 .. Len(w) /\ Len(x) \in 1 .. Len(x)
  BY <1>1, <1>2
<1>4. w[Len(x)] = "nl" /\ x = SubSeq(w, 1, Len(x)) /\ Len(x) \in DOMAIN w
  BY <1>1, <1>3
<1>. QED
  BY <1>1, <1>4

\* x is the beginning of the script, up to the end of a line.
UpToLine(x) == \E n \in DOMAIN script : script[n] = "nl" /\ x = SubSeq(script, 1, n)

SaidTypes ==
  /\ out \in Seq(Char) /\ delta \in Seq(Char)
  /\ input \in Seq(Said) /\ script \in Seq(Said) /\ said \in Seq(Said)
  /\ at \in Calling \cup {"idle", "ended"}

\* Between two lines, what was said and what is left are the script; a line was typed
\* before anything is read.
InCall ==
  IF script = <<>> THEN at # "line"
  ELSE /\ said \o input = script /\ EndsLine(input)
       /\ IF at = "line" THEN input # <<>> ELSE UpToLine(said)

ScriptInv ==
  /\ SaidTypes /\ EndsLine(script)
  /\ IF at \in Calling THEN InCall ELSE ScriptFollowed

LEMMA TerminatedEnds ==
  ASSUME NEW body \in Bodies, NEW t, t = Terminated(body)
  PROVE  t \in Seq(Said) /\ t # <<>> /\ EndsLine(t)
<1>1. body \in Seq(Text)
  BY LoginAssumption DEF Text
<1>2. "nl" \in Text
  BY DEF Text
<1>3. CASE body = <<>> \/ Last(body) # "nl"
  <2>1. t = Append(body, "nl")
    BY <1>3 DEF Terminated
  <2>2. t \in Seq(Text) /\ Len(t) = Len(body) + 1 /\ t[Len(body) + 1] = "nl"
    BY <1>1, <1>2, <2>1, AppendProperties
  <2>3. t # <<>>
    BY TerminatedTyped
  <2>. QED
    BY <2>2, <2>3, TextSaid DEF EndsLine
<1>4. CASE ~(body = <<>> \/ Last(body) # "nl")
  <2>1. t = body /\ body # <<>> /\ Last(body) = "nl"
    BY <1>4 DEF Terminated
  <2>. QED
    BY <1>1, <2>1, TextSaid DEF EndsLine, Last
<1>. QED
  BY <1>3, <1>4

LEMMA ScriptInit == LgInit => ScriptInv
<1>. SUFFICES ASSUME LgInit PROVE ScriptInv
  OBVIOUS
<1>1. /\ out = <<>> /\ delta = <<>> /\ input = <<>> /\ script = <<>> /\ said = <<>> /\ at = "idle"
  BY DEF LgInit
<1>2. SaidTypes /\ EndsLine(script) /\ at \notin Calling
  BY <1>1, EmptySeq DEF SaidTypes, EndsLine, Calling
<1>. QED
  BY <1>1, <1>2 DEF ScriptInv, ScriptFollowed

LEMMA ScriptBegins ==
  ASSUME ScriptInv, NEW body \in Bodies, Begin(body)
  PROVE  ScriptInv'
<1>1. PICK t : t = Terminated(body)
  OBVIOUS
<1>2. t \in Seq(Said) /\ t # <<>> /\ EndsLine(t)
  BY <1>1, TerminatedEnds
<1>3. /\ delta' = <<>> /\ said' = <<>> /\ out \in Seq(Char) /\ <<>> \in Seq(Char) /\ <<>> \in Seq(Said)
  BY EmptySeq DEF Begin, ScriptInv, SaidTypes
<1>4. CASE terminal = "none"
  <2>1. at' = "read" /\ script' = <<>> /\ input' = <<>> /\ out' = <<>>
    BY <1>4 DEF Begin, Started
  <2>. QED
    BY <1>3, <2>1 DEF ScriptInv, SaidTypes, EndsLine, InCall, Calling
<1>5. CASE terminal # "none"
  <2>1. at' = "line" /\ script' = t /\ input' = t /\ out' = out
    BY <1>1, <1>5 DEF Begin, shell
  <2>2. said' \o input' = script'
    <3>1. <<>> \o t = t
      BY <1>2, ConcatEmptySeq
    <3>. QED
      BY <1>3, <2>1, <3>1
  <2>3. SaidTypes' /\ EndsLine(script')
    BY <1>2, <1>3, <2>1 DEF SaidTypes, Calling
  <2>4. InCall'
    BY <1>2, <2>1, <2>2 DEF InCall
  <2>. QED
    BY <2>1, <2>3, <2>4 DEF ScriptInv, Calling, EndsLine
<1>. QED
  BY <1>4, <1>5

\* A line is typed.
LEMMA ScriptTyped ==
  ASSUME ScriptInv, TypeLine
  PROVE  ScriptInv'
<1>1. /\ at = "line" /\ at \in Calling /\ input \in Seq(Said) /\ said \in Seq(Said)
      /\ script \in Seq(Said) /\ delta' = <<>> /\ out' = out /\ script' = script
      /\ out \in Seq(Char) /\ EndsLine(script)
  BY DEF TypeLine, ScriptInv, SaidTypes, Calling, shell
<1>2. script # <<>> /\ said \o input = script /\ EndsLine(input) /\ input # <<>>
  BY <1>1 DEF ScriptInv, InCall
<1>3. PICK k \in 1 .. Len(input) : k = LineEnd /\ input[k] = "nl"
  <2>. DEFINE I == {i \in 1 .. Len(input) : input[i] = "nl"}
  <2>1. Len(input) \in I
    <3>1. Len(input) \in Nat /\ Len(input) # 0
      BY <1>1, <1>2, EmptySeq
    <3>. QED
      BY <1>2, <3>1 DEF EndsLine
  <2>2. LineEnd = Min(I)
    BY <2>1 DEF LineEnd, SelectInSeq
  <2>3. Min(I) \in I
    <3>1. I \subseteq Nat /\ I # {}
      BY <2>1
    <3>. HIDE DEF I
    <3>. QED
      BY <3>1, FirstPast
  <2>. QED
    BY <2>2, <2>3
<1>4. k # 0 /\ k \in 0 .. Len(input) /\ Len(input) \in Nat
  BY <1>1
<1>5. PICK i \in Seq(Said), s \in Seq(Said), w \in Seq(Said) :
            i = input /\ s = said /\ w = script
  BY <1>1
<1>6. PICK b \in Seq(Said), r \in Seq(Said) :
        /\ b = SubSeq(i, 1, k) /\ r = SubSeq(i, k + 1, Len(i)) /\ b \o r = i
        /\ Len(b) = k /\ \A j \in 1 .. k : b[j] = i[j]
  BY <1>4, <1>5, CutAt
<1>7. PICK x \in Seq(Said) : x = s \o b
  BY ConcatProperties
<1>8. at' = "read" /\ said' = x /\ input' = r
  BY <1>3, <1>4, <1>5, <1>6, <1>7 DEF TypeLine
<1>9. b # <<>> /\ b[Len(b)] = "nl"
  <2>1. b # <<>>
    BY <1>4, <1>6, EmptySeq
  <2>2. k \in 1 .. k /\ i[k] = "nl"
    BY <1>3, <1>4, <1>5
  <2>3. b[k] = "nl"
    BY <1>6, <2>2
  <2>. QED
    BY <1>6, <2>1, <2>3
<1>10. b \o r = i /\ s \o i = w /\ EndsLine(i)
  BY <1>2, <1>5, <1>6
<1>11. x \o r = w /\ EndsLine(r) /\ x # <<>> /\ x[Len(x)] = "nl"
  <2>1. Moves(s, b, r)
    BY MovesSaid
  <2>. QED
    BY <1>7, <1>9, <1>10, <2>1 DEF Moves
<1>12. \E n \in DOMAIN w : w[n] = "nl" /\ x = SubSeq(w, 1, n)
  <2>1. x # <<>> /\ x[Len(x)] = "nl"
    BY <1>11
  <2>2. \E n \in DOMAIN (x \o r) : (x \o r)[n] = "nl" /\ x = SubSeq(x \o r, 1, n)
    BY <2>1, LineTyped
  <2>. QED
    BY <1>11, <2>2
<1>13. SaidTypes' /\ EndsLine(script')
  BY <1>1, <1>5, <1>8, EmptySeq DEF SaidTypes, Calling
<1>14. InCall'
  BY <1>1, <1>2, <1>5, <1>8, <1>11, <1>12 DEF InCall, UpToLine
<1>. QED
  BY <1>8, <1>13, <1>14 DEF ScriptInv, Calling, EndsLine

\* A call ends with what the last read showed.
LEMMA ScriptAnswered ==
  ASSUME ScriptInv, at \in {"quiet", "eof"}, NEW tail,
         at' = "idle", delta' = delta, script' = script, out' \in Seq(Char), input' = input,
         tail = (IF answer' = "exit" THEN <<"gone">> ELSE <<>>),
         said' = said \o (StripAnsi(delta) \o tail)
  PROVE  ScriptInv'
<1>1. /\ delta \in Seq(Char) /\ input \in Seq(Said) /\ script \in Seq(Said) /\ said \in Seq(Said)
      /\ EndsLine(script) /\ InCall
  BY DEF ScriptInv, SaidTypes, Calling
<1>2. PICK shown \in Seq(Said) : shown = StripAnsi(delta)
  BY <1>1, StripAnsiType, TextSaid
<1>3. PICK t \in Seq(Said), s \in Seq(Said) : t = tail /\ s = said
  <2>1. <<>> \in Seq(Said) /\ <<"gone">> \in Seq(Said)
    BY EmptySeq DEF Said
  <2>2. tail \in Seq(Said)
    <3>1. CASE answer' = "exit"
      BY <2>1, <3>1
    <3>2. CASE answer' # "exit"
      BY <2>1, <3>2
    <3>. QED
      BY <3>1, <3>2
  <2>. QED
    BY <1>1, <2>2
<1>4. said' \in Seq(Said) /\ said' = (said \o shown) \o tail
  <2>1. shown \o t \in Seq(Said)
    BY ConcatProperties
  <2>2. s \o (shown \o t) \in Seq(Said)
    BY <2>1, ConcatProperties
  <2>3. (s \o shown) \o t = s \o (shown \o t)
    BY ConcatAssociative
  <2>. QED
    BY <1>2, <1>3, <2>2, <2>3
<1>5. SaidTypes' /\ EndsLine(script') /\ ~(at' \in Calling)
  BY <1>1, <1>4 DEF SaidTypes, Calling
<1>6. ScriptFollowed'
  <2>1. script = <<>> \/ UpToLine(said)
    BY <1>1 DEF InCall
  <2>. QED
    BY <1>2, <1>4, <1>5, <2>1 DEF ScriptFollowed, UpToLine
<1>. QED
  BY <1>5, <1>6 DEF ScriptInv, EndsLine

LEMMA ScriptReturns ==
  ASSUME ScriptInv, ReadReturns
  PROVE  ScriptInv'
<1>. DEFINE exited == at = "eof" \/ ChildExited
<1>1. /\ at \in {"quiet", "eof"} /\ at \in Calling /\ at # "line" /\ delta \in Seq(Char)
      /\ input \in Seq(Said) /\ script \in Seq(Said) /\ said \in Seq(Said) /\ out \in Seq(Char)
      /\ EndsLine(script) /\ InCall
  BY DEF ReadReturns, ScriptInv, SaidTypes, Calling
<1>2. PICK shown \in Seq(Said) : shown = StripAnsi(delta)
  BY <1>1, StripAnsiType, TextSaid
<1>3. /\ out' \in Seq(Char) /\ delta' = delta /\ script' = script
  BY <1>1, EmptySeq DEF ReadReturns, Stopped, Answers, Goes, shell
<1>4. CASE script # <<>> /\ exited
  <2>1. /\ at' = "idle" /\ answer' = "exit" /\ said' = said \o Append(shown, "gone") /\ input' = input
    BY <1>2, <1>4 DEF ReadReturns, Answers
  <2>2. Append(shown, "gone") = shown \o <<"gone">>
    <3>1. "gone" \in Said
      BY DEF Said
    <3>. QED
      BY <3>1
  <2>. QED
    BY <1>1, <1>2, <1>3, <2>1, <2>2, ScriptAnswered
<1>5. CASE ~(script # <<>> /\ exited) /\ script = <<>>
  <2>1. /\ at' = "idle" /\ answer' = "login" /\ said' = said \o shown /\ input' = input
    BY <1>2, <1>5 DEF ReadReturns, Answers
  <2>2. shown = shown \o <<>>
    BY ConcatEmptySeq
  <2>. QED
    BY <1>1, <1>2, <1>3, <2>1, <2>2, ScriptAnswered
<1>6. CASE ~(script # <<>> /\ exited) /\ script # <<>>
  <2>1. PICK rest : rest = SubSeq(input, Len(shown) + 1, Len(input))
    OBVIOUS
  <2>2. Goes(shown, rest)
    BY <1>2, <1>6, <2>1 DEF ReadReturns
  <2>3. CASE Matches(shown) /\ rest # <<>>
    <3>1. at' = "line" /\ input' = rest /\ said' = said \o shown
      BY <2>2, <2>3 DEF Goes
    <3>2. Len(shown) \in 0 .. Len(input) /\ SubSeq(shown, 1, Len(shown)) = SubSeq(input, 1, Len(shown))
      <4>1. Len(shown) \in Nat /\ Len(input) \in Nat
        BY <1>1
      <4>. QED
        BY <2>3, <4>1 DEF Matches, IsPrefix
    <3>3. SubSeq(shown, 1, Len(shown)) = shown
      <4>1. shown \o <<>> = shown /\ <<>> \in Seq(Said)
        BY ConcatEmptySeq, EmptySeq
      <4>. QED
        BY <4>1, InARow
    <3>4. PICK i \in Seq(Said), s \in Seq(Said), w \in Seq(Said) :
                i = input /\ s = said /\ w = script
      BY <1>1
    <3>5. PICK b \in Seq(Said), r \in Seq(Said) :
            /\ b = SubSeq(i, 1, Len(shown)) /\ r = SubSeq(i, Len(shown) + 1, Len(i))
            /\ b \o r = i
      <4>1. PICK k \in 0 .. Len(i) : k = Len(shown)
        BY <3>2, <3>4
      <4>2. \E b \in Seq(Said), r \in Seq(Said) :
              /\ b = SubSeq(i, 1, k) /\ r = SubSeq(i, k + 1, Len(i)) /\ b \o r = i
              /\ Len(b) = k /\ \A j \in 1 .. k : b[j] = i[j]
        BY CutAt, Zenon
      <4>. QED
        BY <4>1, <4>2
    <3>6. b = shown /\ r = rest
      BY <2>1, <3>2, <3>3, <3>4, <3>5
    <3>7. PICK x \in Seq(Said) : x = s \o b
      BY ConcatProperties
    <3>8. b \o r = i /\ s \o i = w /\ EndsLine(i)
      BY <1>1, <1>6, <3>4, <3>5 DEF InCall
    <3>9. x \o r = w /\ EndsLine(r)
      <4>1. Moves(s, b, r)
        BY MovesSaid
      <4>. QED
        BY <3>7, <3>8, <4>1 DEF Moves
    <3>10. SaidTypes' /\ EndsLine(script')
      BY <1>1, <1>3, <3>1, <3>4, <3>6, <3>7 DEF SaidTypes, Calling
    <3>11. InCall'
      BY <1>3, <1>6, <2>3, <3>1, <3>4, <3>6, <3>7, <3>9 DEF InCall
    <3>. QED
      BY <3>1, <3>10, <3>11 DEF ScriptInv, Calling, EndsLine
  <2>4. CASE ~(Matches(shown) /\ rest # <<>>)
    <3>1. /\ at' = "idle" /\ answer' = "terminal" /\ said' = said \o shown /\ input' = input
      BY <2>2, <2>4 DEF Goes, Answers
    <3>2. shown = shown \o <<>>
      BY ConcatEmptySeq
    <3>. QED
      BY <1>1, <1>2, <1>3, <3>1, <3>2, ScriptAnswered
  <2>. QED
    BY <2>3, <2>4
<1>. QED
  BY <1>4, <1>5, <1>6

LEMMA ScriptStep ==
  ASSUME ScriptInv, [LgNext]_lgvars
  PROVE  ScriptInv'
<1>1. /\ out \in Seq(Char) /\ delta \in Seq(Char) /\ <<>> \in Seq(Char) /\ Printed \subseteq Char
  BY LoginAssumption, EmptySeq DEF ScriptInv, SaidTypes
<1>2. ASSUME at' = at, input' = input, said' = said, script' = script, answer' = answer,
             delta' = delta, out' \in Seq(Char)
      PROVE  ScriptInv'
  BY <1>2 DEF ScriptInv, SaidTypes, EndsLine, InCall, UpToLine, ScriptFollowed
<1>3. CASE Read
  <2>1. /\ at = "read" /\ at' = at /\ input' = input /\ said' = said /\ script' = script
        /\ delta' = delta \o out /\ out' = <<>>
    BY <1>3 DEF Read
  <2>2. delta' \in Seq(Char)
    BY <1>1, <2>1, ConcatProperties
  <2>. QED
    BY <1>1, <2>1, <2>2 DEF ScriptInv, SaidTypes, EndsLine, InCall, UpToLine, Calling
<1>4. CASE ReadEnds \/ Silence
  <2>1. /\ at = "read" /\ at' \in {"eof", "quiet"} /\ input' = input /\ said' = said
        /\ script' = script /\ delta' = delta /\ out' = out
    BY <1>4 DEF ReadEnds, Silence, shell, call
  <2>. QED
    BY <2>1 DEF ScriptInv, SaidTypes, EndsLine, InCall, UpToLine, Calling
<1>5. CASE OnExit
  <2>1. /\ at = "idle" /\ at' = "ended" /\ input' = input /\ said' = said /\ answer' = answer
        /\ script' = script /\ delta' = delta /\ out' = <<>>
    BY <1>5 DEF OnExit, Stopped, call
  <2>. QED
    BY <1>1, <2>1 DEF ScriptInv, SaidTypes, EndsLine, ScriptFollowed, Calling
<1>6. CASE HangUp \/ Die \/ UNCHANGED lgvars
  BY <1>1, <1>2, <1>6 DEF HangUp, Die, lgvars, shell, call
<1>7. ASSUME NEW c \in Printed, Shows(c)  PROVE ScriptInv'
  <2>1. out' = Append(out, c) /\ c \in Char
    BY <1>1, <1>7 DEF Shows
  <2>2. out' \in Seq(Char)
    BY <1>1, <2>1, AppendProperties
  <2>. QED
    BY <1>2, <1>7, <2>2 DEF Shows, call
<1>. QED
  BY <1>3, <1>4, <1>5, <1>6, <1>7, ScriptBegins, ScriptTyped, ScriptReturns DEF LgNext, LoginSteps

\* Whatever is printed, and whenever, what a call typed and was shown is, up to the
\* last line it typed, the beginning of its message, and all of it while lines are
\* left to type (Login::call).
THEOREM ScriptFollowedCorrect == LgSpec => []ScriptFollowed
<1>1. ScriptInv => ScriptFollowed
  BY DEF ScriptInv, InCall, ScriptFollowed
<1>2. ScriptInv /\ [LgNext]_lgvars => ScriptInv'
  BY ScriptStep
<1>. QED
  BY ScriptInit, <1>1, <1>2, PTL DEF LgSpec

-----------------------------------------------------------------------------
(* Shell: the type invariant *)

Contents == [in : 0 .. Capacity, out : 0 .. Capacity, err : 0 .. Capacity]

LEMMA ShellNumbers ==
  /\ Capacity \in Nat /\ Capacity > 0 /\ MaxCommands \in Nat /\ MaxMail \in Nat
  /\ Sizes \subseteq Nat /\ Commands \subseteq Seq(Effects)
BY ShellAssumption

\* One more in a pipe that has room, one less in one that has something, and
\* nothing in one that was read.
LEMMA ContentsKept ==
  ASSUME NEW p \in Contents, NEW e \in {"in", "out", "err"}, NEW n \in 0 .. Capacity
  PROVE  [p EXCEPT ![e] = n] \in Contents
BY DEF Contents

LEMMA CountsKept ==
  ASSUME NEW c \in Counts, NEW e \in {"out", "err"}, NEW n \in Nat
  PROVE  [c EXCEPT ![e] = n] \in Counts
BY DEF Counts

\* ShTypeOK, with names for the contents of the pipes and what was counted.
LEMMA ShellTypes ==
  ShTypeOK <=>
    /\ stage \in Busy \cup {"idle", "failed"}
    /\ todo \in Seq(Effects) /\ running \in BOOLEAN /\ own \in BOOLEAN
    /\ unfed \in Nat /\ pipe \in Contents
    /\ mail \in 0 .. MaxMail /\ wrote \in Counts /\ collected \in Counts
    /\ commands \in 0 .. MaxCommands
BY Zenon DEF ShTypeOK, Contents, Counts

LEMMA ShellTyped == ShInit => ShTypeOK
<1>. SUFFICES ASSUME ShInit  PROVE ShTypeOK
  OBVIOUS
<1>1. pipe \in Contents /\ wrote \in Counts /\ collected \in Counts
  BY ShellNumbers DEF ShInit, Contents, Counts, NothingYet
<1>2. stage = "idle" /\ unfed = 0 /\ mail = 0 /\ commands = 0
  BY DEF ShInit
<1>3. unfed \in Nat /\ mail \in 0 .. MaxMail /\ commands \in 0 .. MaxCommands
  BY <1>2, ShellNumbers
<1>4. running = FALSE /\ own = FALSE /\ todo = <<>> /\ <<>> \in Seq(Effects)
  BY EmptySeq, Zenon DEF ShInit
<1>5. running \in BOOLEAN /\ own \in BOOLEAN
  BY <1>4, Zenon
<1>. QED
  BY <1>1, <1>2, <1>3, <1>4, <1>5, ShellTypes

\* What a command does is one of its effects.
LEMMA EffectTyped ==
  ASSUME ShTypeOK, NEW e, Done(e)
  PROVE  /\ todo' \in Seq(Effects) /\ stage' = stage /\ running' = running /\ own' = own
         /\ collected' = collected /\ commands' = commands
<1>1. todo \in Seq(Effects) /\ todo # <<>> /\ todo' = Tail(todo)
  BY ShellTypes DEF Done
<1>. QED
  BY <1>1, HeadTailProperties DEF Done

\* Its own and the command's steps keep the pipes within their capacity.
LEMMA ShellKeepsTypes ==
  ASSUME ShTypeOK, [ShNext]_shvars
  PROVE  ShTypeOK'
<1>1. /\ stage \in Busy \cup {"idle", "failed"}
      /\ todo \in Seq(Effects) /\ running \in BOOLEAN /\ own \in BOOLEAN
      /\ unfed \in Nat /\ pipe \in Contents
      /\ mail \in 0 .. MaxMail /\ wrote \in Counts /\ collected \in Counts
      /\ commands \in 0 .. MaxCommands
  BY ShellTypes
<1>2. /\ pipe.in \in 0 .. Capacity /\ pipe.out \in 0 .. Capacity /\ pipe.err \in 0 .. Capacity
      /\ \A e \in {"in", "out", "err"} : pipe[e] \in 0 .. Capacity
      /\ \A e \in {"out", "err"} : wrote[e] \in Nat /\ collected[e] \in Nat
  BY <1>1 DEF Contents, Counts
<1>3. (/\ stage \in Busy \cup {"idle", "failed"}
       /\ todo \in Seq(Effects) /\ running \in BOOLEAN /\ own \in BOOLEAN
       /\ unfed \in Nat /\ pipe \in Contents
       /\ mail \in 0 .. MaxMail /\ wrote \in Counts /\ collected \in Counts
       /\ commands \in 0 .. MaxCommands)' => ShTypeOK'
  BY Zenon DEF ShTypeOK, Contents, Counts
<1>4. ASSUME NEW e \in {"out", "err"}, Writes(e)  PROVE ShTypeOK'
  <2>1. /\ pipe' = [pipe EXCEPT ![e] = pipe[e] + 1] /\ wrote' = [wrote EXCEPT ![e] = wrote[e] + 1]
        /\ pipe[e] < Capacity /\ Done(e) /\ unfed' = unfed /\ mail' = mail
    BY <1>4 DEF Writes
  <2>2. pipe[e] + 1 \in 0 .. Capacity /\ wrote[e] + 1 \in Nat
    BY <1>2, <2>1, ShellNumbers
  <2>3. pipe' \in Contents /\ wrote' \in Counts
    BY <1>1, <2>1, <2>2, ContentsKept, CountsKept
  <2>. QED
    BY <1>1, <1>3, <2>1, <2>3, EffectTyped
<1>5. CASE ReadsBody
  <2>1. /\ pipe' \in {pipe, [pipe EXCEPT !["in"] = pipe["in"] - 1]} /\ (pipe' # pipe => pipe.in > 0)
        /\ Done("in") /\ unfed' = unfed /\ mail' = mail /\ wrote' = wrote
    BY <1>5 DEF ReadsBody
  <2>2. pipe' \in Contents
    <3>1. CASE pipe' = pipe  BY <1>1, <3>1
    <3>2. CASE pipe' # pipe
      <4>1. pipe["in"] - 1 \in 0 .. Capacity
        BY <1>2, <2>1, <3>2, ShellNumbers
      <4>. QED  BY <1>1, <2>1, <3>2, <4>1, ContentsKept
    <3>. QED  BY <3>1, <3>2
  <2>. QED
    BY <1>1, <1>3, <2>1, <2>2, EffectTyped
<1>6. CASE ReadsMail
  <2>1. mail' = mail - 1 /\ mail > 0 /\ Done("in") /\ unfed' = unfed /\ pipe' = pipe /\ wrote' = wrote
    BY <1>6 DEF ReadsMail
  <2>2. mail' \in 0 .. MaxMail
    BY <1>1, <2>1, ShellNumbers
  <2>. QED
    BY <1>1, <1>3, <2>1, <2>2, EffectTyped
<1>7. CASE Exits \/ Replies \/ UNCHANGED shvars
  BY <1>1, <1>3, <1>7 DEF Exits, Replies, shvars, Busy
<1>8. CASE Feeds
  <2>1. /\ \/ running /\ pipe.in < Capacity /\ unfed' = unfed - 1
              /\ pipe' = [pipe EXCEPT !["in"] = pipe["in"] + 1]
           \/ unfed' = 0 /\ pipe' = pipe
        /\ unfed > 0 /\ UNCHANGED <<stage, todo, running, own, mail, wrote, collected, commands>>
    BY <1>1, <1>8 DEF Feeds
  <2>2. unfed' \in Nat
    BY <1>1, <2>1
  <2>3. pipe' \in Contents
    <3>1. CASE pipe' = pipe  BY <1>1, <3>1
    <3>2. CASE pipe' # pipe
      <4>1. pipe["in"] + 1 \in 0 .. Capacity
        BY <1>2, <2>1, <3>2, ShellNumbers
      <4>. QED  BY <1>1, <2>1, <3>2, <4>1, ContentsKept
    <3>. QED  BY <3>1, <3>2
  <2>. QED
    BY <1>1, <1>3, <2>1, <2>2, <2>3
<1>9. ASSUME NEW steps \in Commands, NEW size \in Sizes, RunCommand(steps, size)
      PROVE  ShTypeOK'
  <2>1. commands' \in 0 .. MaxCommands
    BY <1>1, <1>9, ShellNumbers DEF RunCommand
  <2>2. steps \in Seq(Effects) /\ size \in Nat /\ 0 \in 0 .. Capacity
    BY ShellNumbers
  <2>3. [in |-> 0, out |-> 0, err |-> 0] \in Contents /\ NothingYet \in Counts
    BY <2>2 DEF Contents, Counts, NothingYet
  <2>4. \/ /\ stage' = "stdout" /\ todo' = steps /\ running' = TRUE
           /\ unfed' = size /\ own' = (size = 0)
           /\ pipe' = [in |-> 0, out |-> 0, err |-> 0]
           /\ wrote' = NothingYet /\ collected' = NothingYet
           /\ mail' = mail
        \/ stage' = "failed" /\ UNCHANGED <<todo, running, unfed, pipe, own, mail, wrote, collected>>
    BY <1>9 DEF RunCommand
  <2>5. stage' \in Busy \cup {"idle", "failed"} /\ own' \in BOOLEAN /\ running' \in BOOLEAN
    BY <1>1, <2>4 DEF Busy
  <2>6. pipe' \in Contents /\ wrote' \in Counts /\ collected' \in Counts
    BY <1>1, <2>3, <2>4
  <2>7. todo' \in Seq(Effects) /\ unfed' \in Nat /\ mail' \in 0 .. MaxMail
    BY <1>1, <2>2, <2>4
  <2>. QED
    BY <1>3, <2>1, <2>5, <2>6, <2>7
<1>10. ASSUME NEW e \in {"out", "err"}, NEW while, NEW then \in Busy, Collects(e, while, then)
       PROVE  ShTypeOK'
  <2>1. /\ \/ stage' = then /\ pipe' = pipe /\ collected' = collected
           \/ /\ pipe' = [pipe EXCEPT ![e] = 0]
              /\ collected' = [collected EXCEPT ![e] = collected[e] + pipe[e]]
              /\ stage' = stage
        /\ UNCHANGED <<todo, running, unfed, own, mail, wrote, commands>>
    BY <1>10 DEF Collects
  <2>2. 0 \in 0 .. Capacity /\ collected[e] + pipe[e] \in Nat
    BY <1>2, ShellNumbers
  <2>3. /\ [pipe EXCEPT ![e] = 0] \in Contents
        /\ [collected EXCEPT ![e] = collected[e] + pipe[e]] \in Counts
    BY <1>1, <2>2, ContentsKept, CountsKept
  <2>4. pipe' \in Contents /\ collected' \in Counts /\ stage' \in Busy \cup {"idle", "failed"}
    BY <1>1, <2>1, <2>3
  <2>. QED
    BY <1>1, <1>3, <2>1, <2>4
<1>11. CASE MailComes
  BY <1>1, <1>3, <1>11, ShellNumbers DEF MailComes
<1>12. "stderr" \in Busy /\ "wait" \in Busy
  BY DEF Busy
<1>. QED
  BY <1>4, <1>5, <1>6, <1>7, <1>8, <1>9, <1>10, <1>11, <1>12 DEF ShNext, ShellSteps

-----------------------------------------------------------------------------
(* Login: the type invariant *)

\* The types of what ScriptInv does not say, and narrower ones of what it does.
LoginTypes ==
  /\ child \in {"none", "running", "dead"} /\ held \in BOOLEAN
  /\ out \in Seq(Printed) /\ delta \in Seq(Printed) /\ printed \in 0 .. MaxPrinted
  /\ terminal \in {"none", "known", "reaped"}
  /\ input \in Seq(Text) /\ script \in Seq(Text)
  /\ doomed \in BOOLEAN /\ answer \in {"none", "login", "terminal", "exit"}
  /\ calls \in 0 .. MaxCalls

LEMMA LoginTyped == ScriptInv /\ LoginTypes => LgTypeOK
BY Zenon DEF ScriptInv, SaidTypes, LoginTypes, LgTypeOK, Said

LEMMA LoginTypesInit == LgInit => LoginTypes
<1>. SUFFICES ASSUME LgInit  PROVE LoginTypes
  OBVIOUS
<1>1. /\ out = <<>> /\ delta = <<>> /\ input = <<>> /\ script = <<>>
      /\ child = "none" /\ terminal = "none" /\ answer = "none" /\ printed = 0 /\ calls = 0
  BY DEF LgInit
<1>2. held \in BOOLEAN /\ doomed \in BOOLEAN
  BY Zenon DEF LgInit
<1>3. printed \in 0 .. MaxPrinted /\ calls \in 0 .. MaxCalls
  BY <1>1, LoginAssumption
<1>. QED
  BY <1>1, <1>2, <1>3, EmptySeq DEF LoginTypes

\* What is left of a sequence that starts as late as its end is one of the same type.
LEMMA RestTyped ==
  ASSUME NEW S, NEW s \in Seq(S), NEW k \in 0 .. Len(s)
  PROVE  SubSeq(s, k + 1, Len(s)) \in Seq(S)
<1>1. \A i \in k + 1 .. Len(s) : s[i] \in S
  OBVIOUS
<1>2. k + 1 \in Int /\ Len(s) \in Int
  OBVIOUS
<1>. QED
  BY <1>1, <1>2, SubSeqProperties

LEMMA TerminatedText ==
  ASSUME NEW body \in Bodies
  PROVE  Terminated(body) \in Seq(Text)
<1>1. body \in Seq(Text) /\ "nl" \in Text
  BY LoginAssumption DEF Text
<1>2. Append(body, "nl") \in Seq(Text)
  BY <1>1, AppendProperties
<1>. QED
  BY <1>1, <1>2 DEF Terminated

LEMMA LineEndWithin ==
  ASSUME input \in Seq(Text)
  PROVE  LineEnd \in 0 .. Len(input)
<1>. DEFINE I == {i \in 1 .. Len(input) : input[i] = "nl"}
<1>1. CASE I = {}
  <2>1. LineEnd = 0
    BY <1>1 DEF LineEnd, SelectInSeq
  <2>. QED
    BY <2>1
<1>2. CASE I # {}
  <2>1. LineEnd = Min(I)
    BY <1>2 DEF LineEnd, SelectInSeq
  <2>2. I \subseteq Nat /\ I \subseteq 0 .. Len(input)
    OBVIOUS
  <2>. HIDE DEF I
  <2>3. Min(I) \in I
    BY <1>2, <2>2, FirstPast
  <2>. QED
    BY <2>1, <2>2, <2>3
<1>. QED
  BY <1>1, <1>2

LEMMA LoginBeginTyped ==
  ASSUME LoginTypes, NEW body \in Bodies, Begin(body)
  PROVE  LoginTypes'
<1>1. calls' \in 0 .. MaxCalls
  BY LoginAssumption DEF Begin, LoginTypes
<1>2. delta' = <<>> /\ answer' = answer /\ <<>> \in Seq(Printed) /\ <<>> \in Seq(Text)
  BY EmptySeq DEF Begin
<1>3. doomed' \in BOOLEAN
  BY Zenon DEF Begin
<1>4. CASE terminal = "none"
  <2>1. /\ terminal' = "known" /\ child' = "running" /\ held' = TRUE /\ out' = <<>>
        /\ printed' = printed /\ script' = <<>> /\ input' = <<>>
    BY <1>4 DEF Begin, Started
  <2>. QED
    BY <1>1, <1>2, <1>3, <2>1 DEF LoginTypes
<1>5. CASE terminal # "none"
  <2>1. /\ UNCHANGED <<shell, terminal>>
        /\ script' = Terminated(body) /\ input' = Terminated(body)
    BY <1>5 DEF Begin
  <2>2. script' \in Seq(Text) /\ input' \in Seq(Text)
    BY <2>1, TerminatedText
  <2>. QED
    BY <1>1, <1>2, <1>3, <2>1, <2>2 DEF LoginTypes, shell
<1>. QED
  BY <1>4, <1>5

LEMMA LoginReturnsTyped ==
  ASSUME LoginTypes, ReadReturns
  PROVE  LoginTypes'
<1>. DEFINE shown == StripAnsi(delta)
            rest == SubSeq(input, Len(shown) + 1, Len(input))
<1>1. delta' = delta /\ script' = script /\ doomed' = doomed /\ calls' = calls
  BY DEF ReadReturns, Answers, Goes
<1>2. /\ child' \in {"none", "running", "dead"} /\ terminal' \in {"none", "known", "reaped"}
      /\ out' \in Seq(Printed) /\ printed' = printed
  BY EmptySeq DEF ReadReturns, Stopped, shell, LoginTypes
<1>3. held' \in BOOLEAN
  BY Zenon DEF ReadReturns, Stopped, shell, LoginTypes
<1>4. answer' \in {"none", "login", "terminal", "exit"}
  BY DEF ReadReturns, Answers, Goes, LoginTypes
<1>5. input' \in Seq(Text)
  <2>1. input' = input \/ (input' = rest /\ Matches(shown))
    BY DEF ReadReturns, Goes
  <2>2. ASSUME Matches(shown)  PROVE rest \in Seq(Text)
    <3>1. delta \in Seq(Char) /\ input \in Seq(Text)
      <4>1. Printed \subseteq Char /\ delta \in Seq(Printed)
        BY LoginAssumption DEF LoginTypes
      <4>. QED
        BY <4>1 DEF LoginTypes
    <3>2. Len(shown) \in Nat /\ Len(input) \in Nat
      BY <3>1, StripAnsiType
    <3>3. Len(shown) \in 0 .. Len(input)
      BY <2>2, <3>2 DEF Matches, IsPrefix
    <3>. HIDE DEF shown
    <3>. QED
      BY <3>1, <3>3, RestTyped
  <2>. QED
    BY <2>1, <2>2 DEF LoginTypes
<1>. QED
  BY <1>1, <1>2, <1>3, <1>4, <1>5 DEF LoginTypes

\* What is read, typed and answered keeps its type, whatever is printed.
LEMMA LoginTypesStep ==
  ASSUME LoginTypes, [LgNext]_lgvars
  PROVE  LoginTypes'
<1>1. CASE Read
  <2>1. /\ delta' = delta \o out /\ out' = <<>>
        /\ UNCHANGED <<child, held, printed, terminal, input, script, doomed, answer, calls>>
    BY <1>1 DEF Read
  <2>2. delta' \in Seq(Printed) /\ out' \in Seq(Printed)
    BY <2>1, ConcatProperties, EmptySeq DEF LoginTypes
  <2>. QED
    BY <2>1, <2>2 DEF LoginTypes
<1>2. CASE ReadEnds \/ Silence \/ UNCHANGED lgvars
  BY <1>2 DEF ReadEnds, Silence, LoginTypes, lgvars, shell, call
<1>3. CASE TypeLine
  <2>1. /\ input' = SubSeq(input, LineEnd + 1, Len(input)) /\ delta' = <<>>
        /\ UNCHANGED <<child, held, out, printed, terminal, script, doomed, answer, calls>>
    BY <1>3 DEF TypeLine, shell
  <2>2. input' \in Seq(Text)
    BY <2>1, LineEndWithin, RestTyped DEF LoginTypes
  <2>. QED
    BY <2>1, <2>2, EmptySeq DEF LoginTypes
<1>4. CASE OnExit
  <2>1. /\ child' = "none" /\ terminal' = "none" /\ out' = <<>> /\ printed' = printed
        /\ UNCHANGED call
    BY <1>4 DEF OnExit, Stopped
  <2>2. held' \in BOOLEAN
    BY <1>4, Zenon DEF OnExit, Stopped
  <2>. QED
    BY <2>1, <2>2, EmptySeq DEF LoginTypes, call
<1>5. CASE HangUp
  <2>1. held' \in BOOLEAN
    BY <1>5, Zenon DEF HangUp
  <2>. QED
    BY <1>5, <2>1 DEF HangUp, LoginTypes, call
<1>6. CASE Die
  BY <1>6 DEF Die, LoginTypes, call
<1>7. ASSUME NEW c \in Printed, Shows(c)  PROVE LoginTypes'
  <2>1. out' \in Seq(Printed) /\ printed' \in 0 .. MaxPrinted
    BY <1>7, AppendProperties, LoginAssumption DEF Shows, LoginTypes
  <2>. QED
    BY <1>7, <2>1 DEF Shows, LoginTypes, call
<1>. QED
  BY <1>1, <1>2, <1>3, <1>4, <1>5, <1>6, <1>7, LoginBeginTyped, LoginReturnsTyped
  DEF LgNext, LoginSteps

-----------------------------------------------------------------------------
(* Memory: the type invariant *)

Remembrance == [id : 1 .. MaxRecords, receiving : BOOLEAN]

\* What the agents remember are records that there were.
Written(ags) ==
  \A a \in 1 .. Len(ags) : ags[a].born \in Seq(Remembrance) /\ ags[a].memory \in Seq(Remembrance)

\* A template has a parent, which an agent need not have.
Templated(tps) ==
  \A i \in 1 .. Len(tps) : tps[i].parent # Nobody /\ tps[i].born \in Seq(Remembrance)

MemoryTypes == records \in 0 .. MaxRecords /\ Written(agents) /\ Templated(templates)

LEMMA MemoryTyped ==
  ASSUME MInv, MemoryTypes
  PROVE  MTypeOK
<1>1. /\ records \in 0 .. MaxRecords /\ records <= MaxRecords /\ records \in Nat /\ MaxRecords \in Nat
      /\ agents \in Seq(Remembering) /\ templates \in Seq(Link) /\ Len(agents) \in Nat
  BY MemoryAssumption DEF MInv, MemoryTypes, MemoriesFit, TemplatesFit
<1>. DEFINE T == [parent : 0 .. Len(agents), anchor : 0 .. MaxRecords,
                  born : Seq(Remembrance), memory : Seq(Remembrance)]
            L == [parent : 1 .. Len(agents), anchor : 0 .. MaxRecords, born : Seq(Remembrance)]
<1>2. ASSUME NEW a \in 1 .. Len(agents)  PROVE agents[a] \in T
  <2>1. agents[a] \in Remembering /\ agents[a].parent \in Nat /\ agents[a].anchor \in Nat
    BY <1>1, RememberingFields
  <2>2. agents[a].parent < a /\ agents[a].anchor <= records
    BY DEF MInv, MemoriesFit, LinkFits
  <2>3. agents[a].parent \in 0 .. Len(agents) /\ agents[a].anchor \in 0 .. MaxRecords
    BY <1>1, <2>1, <2>2
  <2>4. agents[a].born \in Seq(Remembrance) /\ agents[a].memory \in Seq(Remembrance)
    BY DEF MemoryTypes, Written
  <2>. QED
    BY <2>1, <2>3, <2>4 DEF Remembering
<1>3. ASSUME NEW i \in 1 .. Len(templates)  PROVE templates[i] \in L
  <2>1. templates[i] \in Link /\ templates[i].parent < Len(agents) + 1 /\ templates[i].anchor <= records
    BY <1>1 DEF MInv, TemplatesFit, LinkFits
  <2>2. templates[i].parent \in Nat /\ templates[i].anchor \in Nat
    BY <2>1 DEF Link
  <2>3. templates[i].parent # 0 /\ templates[i].born \in Seq(Remembrance)
    BY DEF MemoryTypes, Templated, Nobody
  <2>4. templates[i].parent \in 1 .. Len(agents) /\ templates[i].anchor \in 0 .. MaxRecords
    BY <1>1, <2>1, <2>2, <2>3
  <2>. QED
    BY <2>1, <2>3, <2>4 DEF Link
<1>4. agents \in Seq(T) /\ templates \in Seq(L)
  <2>. HIDE DEF T, L
  <2>. QED
    BY <1>1, <1>2, <1>3
<1>. QED
  BY <1>1, <1>4 DEF MTypeOK, Memories, Remembrance, Agent

LEMMA MemoryTypesInit ==
  ASSUME MInit
  PROVE  MemoryTypes
<1>1. PICK w \in Seq(Remembrance) : w = <<>>
  BY EmptySeq
<1>2. PICK r : r = [parent |-> 0, anchor |-> 0, born |-> w, memory |-> w]
  OBVIOUS
<1>3. agents = <<r>> /\ templates = <<>> /\ records = 0
  BY <1>1, <1>2 DEF MInit, NewAgent, Nobody, Nothing
<1>4. r.born = w /\ r.memory = w
  BY <1>2
<1>5. Len(agents) = 1 /\ agents[1] = r /\ Len(templates) = 0
  BY <1>3
<1>6. records \in 0 .. MaxRecords
  BY <1>3, MemoryAssumption
<1>. QED
  BY <1>4, <1>5, <1>6 DEF MemoryTypes, Written, Templated

\* An agent remembers a record that is new.
LEMMA NotedWritten ==
  ASSUME NEW ags \in Seq(Remembering), Written(ags), NEW a \in 1 .. Len(ags),
         NEW m \in Memo, m \in Remembrance
  PROVE  /\ Noted(ags, a, m) \in Seq(Remembering) /\ Len(Noted(ags, a, m)) = Len(ags)
         /\ Written(Noted(ags, a, m))
<1>1. PICK r \in Remembering : r = ags[a]
  OBVIOUS
<1>2. PICK s : s = Recalling(r, m)
  OBVIOUS
<1>3. s \in Remembering /\ s.memory = Append(r.memory, m) /\ s.born = r.born
  BY <1>2, RecallingIs
<1>4. s.memory \in Seq(Remembrance) /\ s.born \in Seq(Remembrance)
  BY <1>1, <1>3, AppendProperties DEF Written
<1>5. PICK e : e = ReplaceAt(ags, a, s)
  OBVIOUS
<1>6. /\ e \in Seq(Remembering) /\ Len(e) = Len(ags) /\ e[a] = s
      /\ \A j \in 1 .. Len(ags) : j # a => e[j] = ags[j]
  <2>1. PICK S : S = Remembering
    OBVIOUS
  <2>2. ags \in Seq(S) /\ s \in S
    BY <1>3, <2>1
  <2>3. /\ ReplaceAt(ags, a, s) \in Seq(S) /\ Len(ReplaceAt(ags, a, s)) = Len(ags)
        /\ ReplaceAt(ags, a, s)[a] = s
        /\ \A j \in 1 .. Len(ags) : j # a => ReplaceAt(ags, a, s)[j] = ags[j]
    BY <2>2 DEF ReplaceAt
  <2>. QED
    BY <1>5, <2>1, <2>3
<1>7. Noted(ags, a, m) = e
  BY <1>1, <1>2, <1>5 DEF Noted
<1>. QED
  BY <1>4, <1>6, <1>7 DEF Written

\* A new agent, or a template, remembers what is remembered where it comes from.
LEMMA LinkWritten ==
  ASSUME MInv, MemoryTypes, NEW a \in Agent, NEW l, l = MadeFrom(a)
  PROVE  l.born \in Seq(Remembrance) /\ l.parent # Nobody
<1>1. a \in 1 .. Len(agents)
  BY DEF Agent
<1>2. PICK b \in Seq(Remembrance), m \in Seq(Remembrance) : b = agents[a].born /\ m = agents[a].memory
  BY <1>1 DEF MemoryTypes, Written
<1>3. PICK h \in Seq(Remembrance) : h = b \o m
  BY ConcatProperties
<1>4. PICK k : k = Anchor(a)
  OBVIOUS
<1>5. l = [parent |-> a, anchor |-> k, born |-> h]
  BY <1>2, <1>3, <1>4 DEF MadeFrom, History
<1>. QED
  BY <1>1, <1>5 DEF Nobody

LEMMA AgentWritten ==
  ASSUME MInv, MemoryTypes, Commit, NEW l, l.born \in Seq(Remembrance),
         agents' = Append(agents, NewAgent(l)), templates' = templates
  PROVE  MemoryTypes'
<1>1. PICK w \in Seq(Remembrance) : w = <<>>
  BY EmptySeq
<1>2. PICK r : r = [parent |-> l.parent, anchor |-> l.anchor, born |-> l.born, memory |-> w]
  OBVIOUS
<1>3. r.born = l.born /\ r.memory = w
  BY <1>2
<1>4. agents' = Append(agents, r) /\ agents \in Seq(Remembering)
  BY <1>1, <1>2 DEF NewAgent, MInv, MemoriesFit
<1>5. /\ Len(agents') = Len(agents) + 1 /\ agents'[Len(agents) + 1] = r
      /\ \A b \in 1 .. Len(agents) : agents'[b] = agents[b]
      /\ Len(agents) \in Nat
  BY <1>4
<1>6. Written(agents')
  <2>. SUFFICES ASSUME NEW b \in 1 .. Len(agents')
                PROVE  agents'[b].born \in Seq(Remembrance) /\ agents'[b].memory \in Seq(Remembrance)
    BY DEF Written
  <2>1. b \in 1 .. Len(agents) \/ b = Len(agents) + 1
    BY <1>5
  <2>. QED
    BY <1>3, <1>5, <2>1 DEF MemoryTypes, Written
<1>7. records' \in 0 .. MaxRecords
  BY MemoryAssumption DEF Commit, MemoryTypes
<1>. QED
  BY <1>6, <1>7 DEF MemoryTypes

\* Memories are of the records there were, also of agents that were cloned.
LEMMA MemoryTypesStep ==
  ASSUME MInv, MemoryTypes, [MNext]_mvars
  PROVE  MemoryTypes'
<1>1. /\ agents \in Seq(Remembering) /\ Written(agents) /\ Templated(templates)
      /\ records \in 0 .. MaxRecords /\ MaxRecords \in Nat
  BY MemoryAssumption DEF MInv, MemoriesFit, MemoryTypes
<1>2. ASSUME records < MaxRecords, NEW b \in BOOLEAN
      PROVE  [id |-> records + 1, receiving |-> b] \in Remembrance
             /\ [id |-> records + 1, receiving |-> b] \in Memo /\ records + 1 \in 0 .. MaxRecords
  BY <1>1, <1>2 DEF Remembrance, Memo
<1>3. ASSUME NEW a \in Agent, Recorded(a)  PROVE MemoryTypes'
  <2>1. records < MaxRecords /\ FALSE \in BOOLEAN /\ a \in 1 .. Len(agents)
    BY <1>3 DEF Recorded, Agent
  <2>2. PICK m \in Memo : m \in Remembrance /\ m = [id |-> records + 1, receiving |-> FALSE]
    BY <1>2, <2>1
  <2>3. records' = records + 1 /\ templates' = templates /\ agents' = Noted(agents, a, m)
    BY <1>3, <2>2 DEF Recorded, Noted, Recalling, ReplaceAt
  <2>4. Written(agents')
    BY <1>1, <2>1, <2>2, <2>3, NotedWritten
  <2>. QED
    BY <1>1, <1>2, <2>1, <2>3, <2>4 DEF MemoryTypes
<1>4. ASSUME NEW from \in Agent, NEW to \in Agent, Exchanged(from, to)  PROVE MemoryTypes'
  <2>1. records < MaxRecords /\ FALSE \in BOOLEAN /\ TRUE \in BOOLEAN
        /\ from \in 1 .. Len(agents) /\ to \in 1 .. Len(agents)
    BY <1>4 DEF Exchanged, Agent
  <2>2. PICK m \in Memo : m \in Remembrance /\ m = [id |-> records + 1, receiving |-> FALSE]
    BY <1>2, <2>1
  <2>3. PICK r \in Memo : r \in Remembrance /\ r = [id |-> records + 1, receiving |-> TRUE]
    BY <1>2, <2>1
  <2>4. PICK e : e = Noted(agents, from, m)
    OBVIOUS
  <2>5. records' = records + 1 /\ templates' = templates /\ agents' = Noted(e, to, r)
    BY <1>4, <2>2, <2>3, <2>4 DEF Exchanged, Noted, Recalling, ReplaceAt
  <2>6. e \in Seq(Remembering) /\ Len(e) = Len(agents) /\ Written(e)
    BY <1>1, <2>1, <2>2, <2>4, NotedWritten
  <2>7. Written(agents')
    BY <2>1, <2>3, <2>5, <2>6, NotedWritten
  <2>. QED
    BY <1>1, <1>2, <2>1, <2>5, <2>7 DEF MemoryTypes
<1>5. ASSUME NEW a \in Agent, Create(a)  PROVE MemoryTypes'
  <2>1. PICK l : l = MadeFrom(a)
    OBVIOUS
  <2>2. Commit /\ agents' = Append(agents, NewAgent(l)) /\ templates' = templates
    BY <1>5, <2>1 DEF Create
  <2>. QED
    BY <2>1, <2>2, LinkWritten, AgentWritten
<1>6. ASSUME NEW a \in Agent, CreateTemplate(a)  PROVE MemoryTypes'
  <2>1. PICK l : l = MadeFrom(a)
    OBVIOUS
  <2>2. Commit /\ templates' = Append(templates, l) /\ agents' = agents
    BY <1>6, <2>1 DEF CreateTemplate
  <2>3. l.born \in Seq(Remembrance) /\ l.parent # Nobody
    BY <2>1, LinkWritten
  <2>4. templates \in Seq(Link)
    BY DEF MInv, TemplatesFit
  <2>5. /\ Len(templates') = Len(templates) + 1 /\ templates'[Len(templates) + 1] = l
        /\ \A i \in 1 .. Len(templates) : templates'[i] = templates[i]
        /\ Len(templates) \in Nat
    BY <2>2, <2>4
  <2>6. Templated(templates')
    <3>. SUFFICES ASSUME NEW i \in 1 .. Len(templates')
                  PROVE  templates'[i].parent # Nobody /\ templates'[i].born \in Seq(Remembrance)
      BY DEF Templated
    <3>1. i \in 1 .. Len(templates) \/ i = Len(templates) + 1
      BY <2>5
    <3>. QED
      BY <1>1, <2>3, <2>5, <3>1 DEF Templated
  <2>7. records' \in 0 .. MaxRecords
    BY <1>1, <2>2 DEF Commit
  <2>. QED
    BY <1>1, <2>2, <2>6, <2>7 DEF MemoryTypes
<1>7. ASSUME NEW i \in 1 .. Len(templates), Instantiate(i)  PROVE MemoryTypes'
  <2>1. PICK l : l = templates[i]
    OBVIOUS
  <2>2. Commit /\ agents' = Append(agents, NewAgent(l)) /\ templates' = templates
    BY <1>7, <2>1 DEF Instantiate
  <2>3. l.born \in Seq(Remembrance)
    BY <1>1, <2>1 DEF Templated
  <2>. QED
    BY <2>2, <2>3, AgentWritten
<1>8. CASE UNCHANGED mvars
  BY <1>1, <1>8 DEF mvars, MemoryTypes
<1>. QED
  BY <1>3, <1>4, <1>5, <1>6, <1>7, <1>8 DEF MNext

-----------------------------------------------------------------------------
(* Pipes: the type invariant *)

LEMMA PipeNumbers ==
  /\ PeerCount \in Nat /\ PeerCount > 0 /\ PipeSize \in Nat /\ PipeSize > 0
  /\ Lengths \subseteq Nat /\ \A n \in Lengths : n > 0
  /\ MaxAsked \in Nat /\ MaxDeaths \in Nat
BY PipesAssumption

\* The calls among the parts, or the todos, of a sequence.
CallsAt(s) == {i \in DOMAIN s : s[i].kind = "call"}
Calls(s) == Cardinality(CallsAt(s))
One(m) == IF m.kind = "call" THEN 1 ELSE 0

LEMMA CallsFinite ==
  ASSUME NEW S, NEW s \in Seq(S)
  PROVE  IsFiniteSet(CallsAt(s)) /\ Calls(s) \in Nat
<1>1. IsFiniteSet(1 .. Len(s))
  BY FS_Interval
<1>2. CallsAt(s) \subseteq 1 .. Len(s)
  BY DEF CallsAt
<1>3. IsFiniteSet(CallsAt(s))
  BY <1>1, <1>2, FS_Subset
<1>. QED
  BY <1>3, FS_CardinalityType DEF Calls

LEMMA CallsNone == Calls(<<>>) = 0
<1>1. CallsAt(<<>>) = {}
  BY DEF CallsAt
<1>. QED
  BY <1>1, FS_EmptySet DEF Calls

\* One is put behind them, or the first of them taken.
LEMMA CallsAppend ==
  ASSUME NEW S, NEW s \in Seq(S), NEW m \in S
  PROVE  Calls(Append(s, m)) = Calls(s) + One(m)
<1> DEFINE n == Len(s) + 1
<1>1. IsFiniteSet(CallsAt(s)) /\ Calls(s) \in Nat
  BY CallsFinite
<1>2. /\ Len(s) \in Nat /\ DOMAIN s = 1 .. Len(s) /\ DOMAIN Append(s, m) = 1 .. n
      /\ Append(s, m)[n] = m /\ \A i \in 1 .. Len(s) : Append(s, m)[i] = s[i]
  BY AppendProperties
<1>3. n \notin CallsAt(s)
  BY <1>2 DEF CallsAt
<1>4. CASE m.kind = "call"
  <2>1. CallsAt(Append(s, m)) = CallsAt(s) \cup {n}
    BY <1>2, <1>4 DEF CallsAt
  <2>2. Cardinality(CallsAt(s) \cup {n}) = Cardinality(CallsAt(s)) + 1
    BY <1>1, <1>3, FS_AddElement
  <2>. QED
    BY <1>4, <2>1, <2>2 DEF Calls, One
<1>5. CASE m.kind # "call"
  <2>1. CallsAt(Append(s, m)) = CallsAt(s)
    BY <1>2, <1>5 DEF CallsAt
  <2>. QED
    BY <1>1, <1>5, <2>1 DEF Calls, One
<1>. QED
  BY <1>4, <1>5

LEMMA CallsTail ==
  ASSUME NEW S, NEW s \in Seq(S), s # <<>>
  PROVE  Calls(s) = Calls(Tail(s)) + One(Head(s))
<1> DEFINE later == CallsAt(s) \ {1}
           f == [i \in CallsAt(Tail(s)) |-> i + 1]
<1>1. /\ Len(s) \in Nat /\ DOMAIN s = 1 .. Len(s) /\ Tail(s) \in Seq(S) /\ Head(s) = s[1]
      /\ Len(Tail(s)) = Len(s) - 1 /\ 1 \in DOMAIN s /\ DOMAIN Tail(s) = 1 .. Len(s) - 1
      /\ \A i \in 1 .. Len(s) - 1 : Tail(s)[i] = s[i + 1]
  BY HeadTailProperties
<1>2. IsFiniteSet(CallsAt(s)) /\ IsFiniteSet(CallsAt(Tail(s))) /\ Calls(Tail(s)) \in Nat
  BY <1>1, CallsFinite
<1>3. CallsAt(Tail(s)) = {i \in 1 .. Len(s) - 1 : s[i + 1].kind = "call"}
  BY <1>1 DEF CallsAt
<1>4. CallsAt(s) = {i \in 1 .. Len(s) : s[i].kind = "call"}
  BY <1>1 DEF CallsAt
<1>5. f \in Bijection(CallsAt(Tail(s)), later)
  <2>1. \A i \in CallsAt(Tail(s)) : i \in Int /\ i + 1 \in later
    BY <1>1, <1>3, <1>4
  <2>2. f \in [CallsAt(Tail(s)) -> later]
    BY <2>1
  <2>3. \A i, j \in CallsAt(Tail(s)) : f[i] = f[j] => i = j
    BY <2>1
  <2>4. \A j \in later : \E i \in CallsAt(Tail(s)) : f[i] = j
    <3>. SUFFICES ASSUME NEW j \in later  PROVE j - 1 \in CallsAt(Tail(s)) /\ (j - 1) + 1 = j
      OBVIOUS
    <3>. QED
      BY <1>1, <1>3, <1>4
  <2>. QED
    BY <2>2, <2>3, <2>4 DEF Bijection, Injection, Surjection, IsInjective
<1>6. ExistsBijection(CallsAt(Tail(s)), later)
  BY <1>5 DEF ExistsBijection
<1>7. Cardinality(later) = Calls(Tail(s))
  BY <1>2, <1>6, FS_Bijection DEF Calls
<1>8. CASE s[1].kind = "call"
  <2>1. 1 \in CallsAt(s)
    BY <1>1, <1>4, <1>8
  <2>2. Cardinality(later) = Cardinality(CallsAt(s)) - 1 /\ Cardinality(CallsAt(s)) \in Nat
    BY <1>2, <2>1, FS_RemoveElement, FS_CardinalityType
  <2>. QED
    BY <1>1, <1>7, <1>8, <2>2 DEF Calls, One
<1>9. CASE s[1].kind # "call"
  <2>1. later = CallsAt(s)
    BY <1>4, <1>9
  <2>2. Cardinality(CallsAt(s)) = Calls(Tail(s)) /\ One(Head(s)) = 0
    BY <1>1, <1>7, <1>9, <2>1 DEF One
  <2>. QED
    BY <1>2, <2>2 DEF Calls
<1>. QED
  BY <1>8, <1>9

\* From low calls to high ones there is room for those of every adapter.
LeavesRoom(low, high, load) ==
  \E w \in [0 .. PeerCount -> Nat] :
    low <= w[0] /\ w[PeerCount] <= high /\ \A a \in Peers : w[a - 1] + load[a] <= w[a]

\* One adapter's load changes, by what is asked for at the end or gone from the
\* beginning; another's may be dropped.
LEMMA RoomStill ==
  ASSUME NEW low \in Nat, NEW high \in Nat, NEW load \in [Peers -> Nat], LeavesRoom(low, high, load),
         NEW new \in [Peers -> Nat], NEW a \in Peers, NEW d \in Nat, NEW e \in Nat,
         NEW lower \in Nat, NEW higher \in Nat, lower <= low + d, high + e <= higher,
         \A b \in Peers : b # a => new[b] <= load[b], new[a] + d <= load[a] + e
  PROVE  LeavesRoom(lower, higher, new)
<1>1. PICK w \in [0 .. PeerCount -> Nat] :
        low <= w[0] /\ w[PeerCount] <= high /\ \A b \in Peers : w[b - 1] + load[b] <= w[b]
  BY DEF LeavesRoom
<1>2. PeerCount \in Nat /\ a \in 1 .. PeerCount /\ PeerCount > 0
  BY PipeNumbers DEF Peers
<1>3. PICK v \in [0 .. PeerCount -> Nat] :
        \A b \in 0 .. PeerCount : v[b] = IF b < a THEN w[b] + d ELSE w[b] + e
  <2>1. ASSUME NEW b \in 0 .. PeerCount  PROVE (IF b < a THEN w[b] + d ELSE w[b] + e) \in Nat
    <3>1. w[b] \in Nat
      OBVIOUS
    <3>. QED
      BY <3>1
  <2>2. [b \in 0 .. PeerCount |-> IF b < a THEN w[b] + d ELSE w[b] + e] \in [0 .. PeerCount -> Nat]
    BY <2>1
  <2>. QED
    BY <2>2
<1>4. lower <= v[0] /\ v[PeerCount] <= higher
  <2>1. /\ w[0] \in Nat /\ w[PeerCount] \in Nat /\ v[0] = w[0] + d /\ v[PeerCount] = w[PeerCount] + e
    <3>1. 0 \in 0 .. PeerCount /\ PeerCount \in 0 .. PeerCount /\ 0 < a /\ ~(PeerCount < a)
      BY <1>2
    <3>. QED
      BY <1>3, <3>1
  <2>. QED
    BY <1>1, <2>1
<1>5. ASSUME NEW b \in Peers  PROVE v[b - 1] + new[b] <= v[b]
  <2>1. b \in 1 .. PeerCount /\ b \in 0 .. PeerCount /\ b - 1 \in 0 .. PeerCount
    BY <1>2 DEF Peers
  <2>2. PICK k \in 0 .. PeerCount : k = b - 1
    BY <2>1
  <2>. SUFFICES v[k] + new[b] <= v[b]
    BY <2>2
  <2>3. w[b] \in Nat /\ w[k] \in Nat /\ load[b] \in Nat /\ new[b] \in Nat /\ w[k] + load[b] <= w[b]
    BY <1>1, <2>1, <2>2
  <2>4. CASE b = a
    <3>1. b < a <=> FALSE
      BY <1>2, <2>4
    <3>2. k < a
      BY <1>2, <2>1, <2>2, <2>4
    <3>3. v[b] = w[b] + e /\ v[k] = w[k] + d /\ new[b] + d <= load[b] + e
      BY <1>3, <2>1, <2>4, <3>1, <3>2
    <3>. QED
      BY <2>3, <3>3, SMTT(60)
  <2>5. CASE b # a
    <3>1. new[b] <= load[b]
      BY <2>5
    <3>3. a \in Int /\ b \in Int /\ k = b - 1 /\ b # a
      BY <1>2, <2>1, <2>2, <2>5
    <3>4. (b < a /\ k < a) \/ (~(b < a) /\ ~(k < a))
      BY <3>3, SMTT(60)
    <3>2. \/ v[b] = w[b] + e /\ v[k] = w[k] + e
          \/ v[b] = w[b] + d /\ v[k] = w[k] + d
      BY <1>3, <2>1, <3>4
    <3>. QED
      BY <2>3, <3>1, <3>2, SMTT(60)
  <2>. QED
    BY <2>4, <2>5
<1>. QED
  BY <1>3, <1>4, <1>5 DEF LeavesRoom

\* What the adapters ask for lies between what the loop has and what was asked for.
LEMMA RoomBetween ==
  ASSUME NEW low \in Nat, NEW high \in Nat, NEW load \in [Peers -> Nat], LeavesRoom(low, high, load)
  PROVE  low <= high
<1>1. PICK w \in [0 .. PeerCount -> Nat] :
        low <= w[0] /\ w[PeerCount] <= high /\ \A b \in Peers : w[b - 1] + load[b] <= w[b]
  BY DEF LeavesRoom
<1>2. PeerCount \in Nat /\ \A b \in 0 .. PeerCount : w[b] \in Nat
  BY PipeNumbers
<1> DEFINE T == {b \in 0 .. PeerCount : w[b] < w[0]}
<1>3. T = {}
  <2>. SUFFICES ASSUME T # {}  PROVE FALSE
    OBVIOUS
  <2>1. PICK b \in T : \A c \in T : b <= c
    <3>. T \subseteq Nat
      OBVIOUS
    <3>. HIDE DEF T
    <3>. QED BY LeastNat
  <2>2. b \in Peers /\ b - 1 \in 0 .. PeerCount /\ b - 1 \notin T
    BY <1>2, <2>1 DEF Peers
  <2>3. w[b - 1] + load[b] <= w[b] /\ load[b] \in Nat /\ w[b - 1] \in Nat /\ w[b] \in Nat /\ w[0] \in Nat
    BY <1>1, <1>2, <2>2
  <2>. QED
    BY <2>1, <2>2, <2>3
<1>4. PeerCount \in 0 .. PeerCount /\ PeerCount \notin T
  BY <1>2, <1>3
<1>. QED
  BY <1>1, <1>2, <1>4
InPart == [kind : {"memory", "bye", "call", "reply"}, id : 0 .. MaxAsked, to : 0 .. PeerCount,
           last : BOOLEAN]
OutPart == {p \in [kind : {"data", "answer", "call"}, id : 0 .. MaxAsked, to : 0 .. PeerCount,
                   last : BOOLEAN] : p.kind = "call" => p.to \in Peers}
Todo == {m \in [kind : {"call", "data", "answer", "death"}, id : 0 .. MaxAsked,
                to : 0 .. PeerCount, from : Peers] : m.kind = "call" => m.to \in Peers}
Call == [to : Peers, id : 1 .. MaxAsked]

\* The calls an adapter has written, or is about to write.
Load == [a \in Peers |-> Calls(outward[a]) + Calls(writing[a])]

\* The loop writes or waits for an adapter, with something to write.
LoopTyped ==
  /\ chain \in Seq(Call)
  /\ step \in {"poll", "receive", "process", "write", "drain", "wait", "ended", "broken"}
  /\ peer \in 0 .. PeerCount /\ (step \in {"write", "wait", "drain"} => peer \in Peers)
  /\ unsent \in Seq(InPart) /\ (step = "write" => unsent # <<>>)
  /\ ready \subseteq Peers /\ drivers \subseteq Peers /\ taken \in Seq(Todo)

\* What goes to adapters is no answer of theirs, and the other way round.
PipesTyped ==
  /\ inward \in [Peers -> Seq(InPart)] /\ outward \in [Peers -> Seq(OutPart)]
  /\ \A a \in Peers : Len(inward[a]) <= PipeSize /\ Len(outward[a]) <= PipeSize

\* An adapter that works serves a call, and one that writes has what it writes.
PeersTyped ==
  /\ doing \in [Peers -> {"read", "work", "write", "gone"}]
  /\ writing \in [Peers -> Seq(OutPart)] /\ entered \in [Peers -> Seq(0 .. MaxAsked)]
  /\ \A a \in Peers : /\ doing[a] = "work" => entered[a] # <<>>
                      /\ doing[a] = "write" => writing[a] # <<>>

\* A call is asked for once: those made, those received and those on their way.
CallsTyped ==
  /\ asked \in Nat /\ spent \in 0 .. MaxAsked /\ deaths \in 0 .. MaxDeaths
  /\ LeavesRoom(asked + Calls(taken), spent, Load)

PipeTypes == LoopTyped /\ PipesTyped /\ PeersTyped /\ CallsTyped

LEMMA LoadTyped ==
  ASSUME PipeTypes
  PROVE  /\ Load \in [Peers -> Nat] /\ Calls(taken) \in Nat
         /\ \A a \in Peers : Calls(outward[a]) \in Nat /\ Calls(writing[a]) \in Nat
<1>1. ASSUME NEW a \in Peers  PROVE Calls(outward[a]) \in Nat /\ Calls(writing[a]) \in Nat
  <2>1. outward[a] \in Seq(OutPart) /\ writing[a] \in Seq(OutPart)
    BY DEF PipeTypes, PipesTyped, PeersTyped
  <2>. QED
    BY <2>1, CallsFinite
<1>2. taken \in Seq(Todo)
  BY DEF PipeTypes, LoopTyped
<1>3. Calls(taken) \in Nat
  BY <1>2, CallsFinite
<1>4. \A a \in Peers : Calls(outward[a]) + Calls(writing[a]) \in Nat
  BY <1>1
<1>. QED
  BY <1>1, <1>3, <1>4 DEF Load

\* No more calls were made than asked for, those the loop has not applied included.
LEMMA CallsBound ==
  ASSUME PipeTypes
  PROVE  asked + Calls(taken) <= spent
<1>1. asked \in Nat /\ spent \in Nat /\ LeavesRoom(asked + Calls(taken), spent, Load)
  BY PipeNumbers DEF PipeTypes, CallsTyped
<1>2. Load \in [Peers -> Nat] /\ asked + Calls(taken) \in Nat
  BY <1>1, LoadTyped
<1>. QED
  BY <1>1, <1>2, RoomBetween

\* The type invariant follows: no call was made that was not asked for.
LEMMA PipesTypeOK ==
  ASSUME PipeTypes
  PROVE  PTypeOK
<1>1. InPart \subseteq APart /\ OutPart \subseteq APart
  BY DEF InPart, OutPart, APart
<1>2. unsent \in Seq(APart)
  BY <1>1 DEF PipeTypes, LoopTyped
<1>3. taken \in Seq([kind : {"call", "data", "answer", "death"}, id : 0 .. MaxAsked,
                    to : 0 .. PeerCount, from : Peers])
  <2>1. PICK S : S = [kind : {"call", "data", "answer", "death"}, id : 0 .. MaxAsked,
                     to : 0 .. PeerCount, from : Peers]
    OBVIOUS
  <2>2. Todo \subseteq S /\ taken \in Seq(Todo)
    BY <2>1 DEF Todo, PipeTypes, LoopTyped
  <2>3. taken \in Seq(S)
    BY <2>2
  <2>. QED
    BY <2>1, <2>3
<1>4. ASSUME NEW a \in Peers
      PROVE  /\ {inward[a], outward[a], writing[a]} \subseteq Seq(APart)
             /\ Len(inward[a]) <= PipeSize /\ Len(outward[a]) <= PipeSize
             /\ entered[a] \in Seq(0 .. MaxAsked)
  <2>1. /\ inward[a] \in Seq(InPart) /\ outward[a] \in Seq(OutPart) /\ writing[a] \in Seq(OutPart)
        /\ entered[a] \in Seq(0 .. MaxAsked)
        /\ Len(inward[a]) <= PipeSize /\ Len(outward[a]) <= PipeSize
    BY DEF PipeTypes, PipesTyped, PeersTyped
  <2>2. inward[a] \in Seq(APart) /\ outward[a] \in Seq(APart) /\ writing[a] \in Seq(APart)
    BY <1>1, <2>1
  <2>. QED
    BY <2>1, <2>2
<1>5. asked \in 0 .. spent
  <2>1. asked \in Nat /\ spent \in Nat /\ Calls(taken) \in Nat /\ asked + Calls(taken) <= spent
    BY LoadTyped, CallsBound, PipeNumbers DEF PipeTypes, CallsTyped
  <2>. QED
    BY <2>1
<1>. QED
  BY <1>2, <1>3, <1>4, <1>5 DEF PTypeOK, PipeTypes, LoopTyped, PipesTyped, PeersTyped, CallsTyped, Call

\* One adapter's calls change, with those the loop has: d more are with the
\* loop, e more are asked for.
LEMMA OwedStill ==
  ASSUME PipeTypes, outward' \in [Peers -> Seq(OutPart)], writing' \in [Peers -> Seq(OutPart)],
         taken' \in Seq(Todo), asked' \in Nat, spent' \in Nat,
         NEW a \in Peers, NEW d \in Nat, NEW e \in Nat,
         asked' + Calls(taken') <= asked + Calls(taken) + d, spent + e <= spent',
         \A b \in Peers : b # a => outward'[b] = outward[b] /\ writing'[b] = writing[b],
         Calls(outward'[a]) + Calls(writing'[a]) + d <= Calls(outward[a]) + Calls(writing[a]) + e
  PROVE  LeavesRoom(asked' + Calls(taken'), spent', Load')
<1>1. asked \in Nat /\ spent \in Nat /\ LeavesRoom(asked + Calls(taken), spent, Load)
  BY PipeNumbers DEF PipeTypes, CallsTyped
<1>2. Load \in [Peers -> Nat] /\ asked + Calls(taken) \in Nat
  BY <1>1, LoadTyped
<1>3. ASSUME NEW b \in Peers  PROVE Calls(outward'[b]) \in Nat /\ Calls(writing'[b]) \in Nat
  <2>1. outward'[b] \in Seq(OutPart) /\ writing'[b] \in Seq(OutPart)
    OBVIOUS
  <2>. QED
    BY <2>1, CallsFinite
<1>4. Calls(taken') \in Nat /\ asked' + Calls(taken') \in Nat
  <2>1. Calls(taken') \in Nat
    BY CallsFinite
  <2>. QED
    BY <2>1
<1>5. \A b \in Peers : /\ Load[b] = Calls(outward[b]) + Calls(writing[b])
                       /\ Load'[b] = Calls(outward'[b]) + Calls(writing'[b])
  BY DEF Load
<1>6. Load' \in [Peers -> Nat]
  <2>1. \A b \in Peers : Calls(outward'[b]) + Calls(writing'[b]) \in Nat
    BY <1>3
  <2>. QED
    BY <2>1 DEF Load
<1>7. \A b \in Peers : b # a => Load'[b] <= Load[b]
  <2>. SUFFICES ASSUME NEW b \in Peers, b # a  PROVE Load'[b] <= Load[b]
    OBVIOUS
  <2>1. Load'[b] = Load[b] /\ Load[b] \in Nat
    BY <1>2, <1>5
  <2>. QED
    BY <2>1
<1>8. Load'[a] + d <= Load[a] + e
  BY <1>5
<1>. QED
  BY <1>1, <1>2, <1>4, <1>6, <1>7, <1>8, RoomStill

LEMMA PartsTyped ==
  ASSUME NEW kind, NEW id \in 0 .. MaxAsked, NEW to \in 0 .. PeerCount, NEW n \in Nat
  PROVE  /\ Len(Parts(kind, id, to, n)) = n
         /\ DOMAIN Parts(kind, id, to, n) = 1 .. n
         /\ \A i \in 1 .. n : Parts(kind, id, to, n)[i].kind = kind
         /\ kind \in {"memory", "bye", "call", "reply"} => Parts(kind, id, to, n) \in Seq(InPart)
         /\ kind \in {"data", "answer"} \/ (kind = "call" /\ to \in Peers) =>
              Parts(kind, id, to, n) \in Seq(OutPart)
<1> DEFINE p(i) == [kind |-> kind, id |-> id, to |-> to, last |-> i = n]
<1>1. Parts(kind, id, to, n) = [i \in 1 .. n |-> p(i)]
  BY DEF Parts
<1>2. \A i \in 1 .. n : p(i).kind = kind
  OBVIOUS
<1>3. \A i \in 1 .. n : (i = n) \in BOOLEAN
  OBVIOUS
<1>4. ASSUME kind \in {"memory", "bye", "call", "reply"}
      PROVE  \A i \in 1 .. n : p(i) \in InPart
  BY <1>3, <1>4 DEF InPart
<1>5. ASSUME kind \in {"data", "answer"} \/ (kind = "call" /\ to \in Peers)
      PROVE  \A i \in 1 .. n : p(i) \in OutPart
  BY <1>3, <1>5 DEF OutPart
<1>. HIDE DEF p
<1>6. Len([i \in 1 .. n |-> p(i)]) = n /\ DOMAIN [i \in 1 .. n |-> p(i)] = 1 .. n
  OBVIOUS
<1>7. ASSUME NEW S, \A i \in 1 .. n : p(i) \in S
      PROVE  [i \in 1 .. n |-> p(i)] \in Seq(S)
  BY <1>7
<1>8. kind \in {"memory", "bye", "call", "reply"} => [i \in 1 .. n |-> p(i)] \in Seq(InPart)
  BY <1>4, <1>7
<1>9. kind \in {"data", "answer"} \/ (kind = "call" /\ to \in Peers) =>
        [i \in 1 .. n |-> p(i)] \in Seq(OutPart)
  BY <1>5, <1>7
<1>10. \A i \in 1 .. n : [j \in 1 .. n |-> p(j)][i].kind = kind
  BY <1>2
<1>. QED
  BY <1>1, <1>6, <1>8, <1>9, <1>10

LEMMA PartsInward ==
  ASSUME NEW kind \in {"memory", "bye", "call", "reply"}, NEW id \in 0 .. MaxAsked, NEW n \in Nat, n > 0
  PROVE  Parts(kind, id, 0, n) \in Seq(InPart) /\ Parts(kind, id, 0, n) # <<>>
<1>1. PICK to \in 0 .. PeerCount : to = 0
  BY PipeNumbers
<1>2. Parts(kind, id, to, n) \in Seq(InPart) /\ Len(Parts(kind, id, to, n)) = n
  BY PartsTyped
<1>3. Parts(kind, id, to, n) # <<>>
  BY <1>2
<1>. QED
  BY <1>1, <1>2, <1>3

LEMMA RememberedTyped == Remembered \in Seq(InPart) /\ Bye \in Seq(InPart) /\ Bye # <<>>
<1>1. PICK kind \in {"memory", "bye", "call", "reply"} : kind = "memory"
  OBVIOUS
<1>2. PICK bye \in {"memory", "bye", "call", "reply"} : bye = "bye"
  OBVIOUS
<1>3. PICK id \in 0 .. MaxAsked : id = 0
  BY PipeNumbers
<1>4. 1 \in Nat /\ 1 > 0 /\ 2 \in Nat /\ 2 > 0
  OBVIOUS
<1>5. Parts(kind, id, 0, 2) \in Seq(InPart)
  BY <1>4, PartsInward
<1>6. Parts(bye, id, 0, 1) \in Seq(InPart) /\ Parts(bye, id, 0, 1) # <<>>
  BY <1>4, PartsInward
<1>. QED
  BY <1>1, <1>2, <1>3, <1>5, <1>6 DEF Remembered, Bye

\* A stack is kept, or extended by a call that may still be made.
LEMMA StackTyped ==
  ASSUME NEW m, chain \in Seq(Call), asked \in Nat, Asks(m) => asked + 1 <= MaxAsked /\ m.to \in Peers
  PROVE  Stack(m) \in Seq(Call)
<1>1. CASE m.kind = "data" /\ Serves(m.from)
  BY <1>1 DEF Stack
<1>2. CASE m.kind = "answer" /\ Current(m)
  <2>1. chain # <<>> /\ Len(chain) \in Nat
    BY <1>2 DEF Current, Serves
  <2>2. Len(chain) > 0
    BY <2>1, EmptySeq
  <2>3. SubSeq(chain, 1, Len(chain) - 1) \in Seq(Call)
    BY <2>1, <2>2
  <2>. QED
    BY <1>2, <2>3 DEF Stack
<1>3. CASE m.kind = "call" /\ Current(m)
  <2>1. asked + 1 \in 1 .. MaxAsked /\ m.to \in Peers
    BY <1>3, PipeNumbers DEF Asks
  <2>2. [to |-> m.to, id |-> asked + 1] \in Call
    BY <2>1 DEF Call
  <2>3. Append(chain, [to |-> m.to, id |-> asked + 1]) \in Seq(Call)
    BY <2>2, AppendProperties
  <2>. QED
    BY <1>3, <2>3 DEF Stack
<1>4. CASE /\ ~(m.kind = "data" /\ Serves(m.from)) /\ ~(m.kind = "answer" /\ Current(m))
           /\ ~(m.kind = "call" /\ Current(m))
  BY <1>4 DEF Stack
<1>. QED
  BY <1>1, <1>2, <1>3, <1>4

\* A message is sent: to an adapter that has to be started, with empty pipes and
\* nothing to write, after what it remembers.
LEMMA PeerSendsTyped ==
  ASSUME PipesTyped, PeersTyped, drivers \subseteq Peers,
         NEW a \in Peers, NEW message \in Seq(InPart), message # <<>>, SendTo(a, message)
  PROVE  /\ step' = "write" /\ peer' = a /\ drivers' \subseteq Peers
         /\ unsent' \in Seq(InPart) /\ unsent' # <<>>
         /\ PipesTyped' /\ PeersTyped'
         /\ \A b \in Peers : b # a => outward'[b] = outward[b] /\ writing'[b] = writing[b]
         /\ Calls(outward'[a]) + Calls(writing'[a]) <= Calls(outward[a]) + Calls(writing[a])
<1>1. step' = "write" /\ peer' = a /\ drivers' \subseteq Peers
  BY DEF SendTo
<1>2. Calls(outward[a]) \in Nat /\ Calls(writing[a]) \in Nat
  <2>1. outward[a] \in Seq(OutPart) /\ writing[a] \in Seq(OutPart)
    BY DEF PipesTyped, PeersTyped
  <2>. QED
    BY <2>1, CallsFinite
<1>3. CASE a \in drivers
  <2>1. unsent' = message /\ inward' = inward /\ outward' = outward /\ doing' = doing
        /\ writing' = writing /\ entered' = entered
    BY <1>3 DEF SendTo, adapterVars
  <2>2. PipesTyped' /\ PeersTyped'
    BY <2>1 DEF PipesTyped, PeersTyped
  <2>. QED
    BY <1>1, <1>2, <2>1, <2>2
<1>4. CASE a \notin drivers
  <2>1. unsent' = Remembered \o message
        /\ inward' = [inward EXCEPT ![a] = <<>>] /\ outward' = [outward EXCEPT ![a] = <<>>]
        /\ doing' = [doing EXCEPT ![a] = "read"] /\ writing' = [writing EXCEPT ![a] = <<>>]
        /\ entered' = [entered EXCEPT ![a] = <<>>]
    BY <1>4 DEF SendTo
  <2>2. unsent' \in Seq(InPart) /\ unsent' # <<>>
    <3>1. Remembered \in Seq(InPart)
      BY RememberedTyped
    <3>2. /\ Remembered \o message \in Seq(InPart)
          /\ Len(Remembered \o message) = Len(Remembered) + Len(message)
      BY <3>1, ConcatProperties
    <3>3. Len(message) > 0 /\ Len(Remembered) \in Nat
      BY <3>1, EmptySeq
    <3>. QED
      BY <2>1, <3>2, <3>3
  <2>3. PipesTyped'
    <3>1. /\ inward \in [Peers -> Seq(InPart)] /\ outward \in [Peers -> Seq(OutPart)]
          /\ \A b \in Peers : Len(inward[b]) <= PipeSize /\ Len(outward[b]) <= PipeSize
      BY DEF PipesTyped
    <3>2. inward' \in [Peers -> Seq(InPart)] /\ outward' \in [Peers -> Seq(OutPart)]
      BY <2>1, <3>1
    <3>3. \A b \in Peers : Len(inward'[b]) <= PipeSize /\ Len(outward'[b]) <= PipeSize
      BY <2>1, <3>1, PipeNumbers
    <3>. QED
      BY <3>2, <3>3 DEF PipesTyped
  <2>4. PeersTyped'
    <3>1. /\ doing \in [Peers -> {"read", "work", "write", "gone"}]
          /\ writing \in [Peers -> Seq(OutPart)] /\ entered \in [Peers -> Seq(0 .. MaxAsked)]
          /\ \A b \in Peers : /\ doing[b] = "work" => entered[b] # <<>>
                              /\ doing[b] = "write" => writing[b] # <<>>
      BY DEF PeersTyped
    <3>2. /\ doing' \in [Peers -> {"read", "work", "write", "gone"}]
          /\ writing' \in [Peers -> Seq(OutPart)] /\ entered' \in [Peers -> Seq(0 .. MaxAsked)]
      BY <2>1, <3>1
    <3>3. \A b \in Peers : /\ doing'[b] = "work" => entered'[b] # <<>>
                           /\ doing'[b] = "write" => writing'[b] # <<>>
      BY <2>1, <3>1
    <3>. QED
      BY <3>2, <3>3 DEF PeersTyped
  <2>5. \A b \in Peers : b # a => outward'[b] = outward[b] /\ writing'[b] = writing[b]
    BY <2>1 DEF PipesTyped, PeersTyped
  <2>6. outward'[a] = <<>> /\ writing'[a] = <<>>
    BY <2>1 DEF PipesTyped, PeersTyped
  <2>. QED
    BY <1>1, <1>2, <2>2, <2>3, <2>4, <2>5, <2>6, CallsNone
<1>. QED
  BY <1>3, <1>4

LEMMA CallsSame ==
  ASSUME CallsTyped, UNCHANGED <<taken, outward, writing, asked, spent, deaths>>
  PROVE  CallsTyped'
BY DEF CallsTyped, LeavesRoom, Load, Calls, CallsAt

LEMMA PeersSame ==
  ASSUME PeersTyped, UNCHANGED <<doing, writing, entered>>
  PROVE  PeersTyped'
BY DEF PeersTyped

LEMMA PipesSame ==
  ASSUME PipesTyped, UNCHANGED <<inward, outward>>
  PROVE  PipesTyped'
BY DEF PipesTyped

\* What is read from an adapter's pipe leaves it, the calls among it with it.
LEMMA PartRead ==
  ASSUME PipesTyped, PeersTyped, NEW a \in Peers, outward[a] # <<>>,
         outward' = [outward EXCEPT ![a] = Tail(@)], inward' = inward, writing' = writing
  PROVE  /\ PipesTyped' /\ Head(outward[a]) \in OutPart
         /\ \A b \in Peers : b # a => outward'[b] = outward[b] /\ writing'[b] = writing[b]
         /\ Calls(outward'[a]) \in Nat /\ Calls(writing[a]) \in Nat
         /\ Calls(outward[a]) = Calls(outward'[a]) + One(Head(outward[a]))
<1>1. /\ outward[a] \in Seq(OutPart) /\ writing[a] \in Seq(OutPart) /\ Len(outward[a]) <= PipeSize
      /\ outward'[a] = Tail(outward[a]) /\ \A b \in Peers : b # a => outward'[b] = outward[b]
  BY DEF PipesTyped, PeersTyped
<1>2. /\ Tail(outward[a]) \in Seq(OutPart) /\ Head(outward[a]) \in OutPart
      /\ Len(Tail(outward[a])) = Len(outward[a]) - 1 /\ Len(outward[a]) \in Nat
  BY <1>1, HeadTailProperties
<1>3. Calls(Tail(outward[a])) \in Nat /\ Calls(writing[a]) \in Nat
  BY <1>1, <1>2, CallsFinite
<1>4. Calls(outward[a]) = Calls(Tail(outward[a])) + One(Head(outward[a]))
  BY <1>1, CallsTail
<1>5. PipesTyped'
  <2>1. outward' \in [Peers -> Seq(OutPart)]
    BY <1>2 DEF PipesTyped
  <2>2. \A b \in Peers : Len(outward'[b]) <= PipeSize
    BY <1>1, <1>2, PipeNumbers DEF PipesTyped
  <2>. QED
    BY <2>1, <2>2 DEF PipesTyped
<1>. QED
  BY <1>1, <1>2, <1>3, <1>4, <1>5

\* The loop reads a part of a message; the last one completes it.
LEMMA TakesPartTyped ==
  ASSUME PipeTypes, NEW a \in Peers, TakesPart(a)
  PROVE  PipeTypes'
<1>1. /\ outward[a] # <<>> /\ outward' = [outward EXCEPT ![a] = Tail(@)] /\ peer' = a
      /\ UNCHANGED <<chain, step, unsent, ready, taken, drivers, inward, doing, writing, entered,
                     asked, spent, deaths>>
  BY DEF TakesPart
<1>2. PipesTyped /\ PeersTyped /\ LoopTyped /\ CallsTyped
  BY DEF PipeTypes
<1>3. /\ PipesTyped' /\ Head(outward[a]) \in OutPart
      /\ \A b \in Peers : b # a => outward'[b] = outward[b] /\ writing'[b] = writing[b]
      /\ Calls(outward'[a]) \in Nat /\ Calls(writing[a]) \in Nat
      /\ Calls(outward[a]) = Calls(outward'[a]) + One(Head(outward[a]))
  BY <1>1, <1>2, PartRead
<1>4. LoopTyped' /\ PeersTyped'
  BY <1>1, <1>2, PipeNumbers DEF LoopTyped, PeersTyped, Peers
<1>5. CallsTyped'
  <2>1. /\ outward' \in [Peers -> Seq(OutPart)] /\ writing' \in [Peers -> Seq(OutPart)]
        /\ taken' \in Seq(Todo) /\ asked' \in Nat /\ spent' \in Nat /\ taken' = taken
        /\ asked' = asked /\ spent' = spent
    BY <1>1, <1>2, <1>3, PipeNumbers DEF PipesTyped, PeersTyped, LoopTyped, CallsTyped
  <2>2. Calls(taken) \in Nat
    BY LoadTyped
  <2>3. One(Head(outward[a])) \in Nat
    BY DEF One
  <2>4. /\ asked' + Calls(taken') <= asked + Calls(taken) + 0 /\ spent + 0 <= spent' /\ 0 \in Nat
        /\ Calls(outward'[a]) + Calls(writing'[a]) + 0 <= Calls(outward[a]) + Calls(writing[a]) + 0
    BY <1>1, <1>3, <2>1, <2>2, <2>3
  <2>5. LeavesRoom(asked' + Calls(taken'), spent', Load')
    BY <1>3, <2>1, <2>4, OwedStill
  <2>. QED
    BY <1>1, <1>2, <2>5 DEF CallsTyped
<1>. QED
  BY <1>3, <1>4, <1>5 DEF PipeTypes

\* It receives from the adapters that are ready, or finds one gone.
LEMMA ReceivesTyped ==
  ASSUME PipeTypes, NEW a \in Peers, Receives(a)
  PROVE  PipeTypes'
<1>. PipesTyped /\ PeersTyped /\ LoopTyped /\ CallsTyped
  BY DEF PipeTypes
<1>0. step = "receive" /\ taken \in Seq(Todo) /\ ready \subseteq Peers
  BY DEF Receives, LoopTyped
<1>1. CASE TakesPart(a)
  BY <1>1, TakesPartTyped
<1>2. CASE /\ outward[a] # <<>> /\ Head(outward[a]).last
           /\ Received(a, [kind |-> Head(outward[a]).kind, id |-> Head(outward[a]).id,
                           to |-> Head(outward[a]).to, from |-> a])
           /\ outward' = [outward EXCEPT ![a] = Tail(@)]
           /\ UNCHANGED <<chain, step, unsent, drivers, inward, doing, writing, entered, asked, spent, deaths>>
  <2>1. PICK p : p = Head(outward[a])
    OBVIOUS
  <2>2. PICK item : item = [kind |-> p.kind, id |-> p.id, to |-> p.to, from |-> a]
    OBVIOUS
  <2>3. /\ PipesTyped' /\ p \in OutPart
        /\ \A b \in Peers : b # a => outward'[b] = outward[b] /\ writing'[b] = writing[b]
        /\ Calls(outward'[a]) \in Nat /\ Calls(writing[a]) \in Nat
        /\ Calls(outward[a]) = Calls(outward'[a]) + One(p)
    BY <1>2, <2>1, PartRead
  <2>4. item \in Todo /\ One(item) = One(p)
    BY <2>2, <2>3 DEF OutPart, Todo, One
  <2>5. taken' = Append(taken, item) /\ ready' \subseteq Peers /\ peer' = 0
    BY <1>0, <1>2, <2>1, <2>2 DEF Received
  <2>6. taken' \in Seq(Todo) /\ Calls(taken') = Calls(taken) + One(p) /\ Calls(taken) \in Nat
    BY <1>0, <2>4, <2>5, AppendProperties, CallsAppend, CallsFinite
  <2>7. LoopTyped' /\ PeersTyped'
    BY <1>0, <1>2, <2>5, <2>6, PipeNumbers DEF LoopTyped, PeersTyped
  <2>8. CallsTyped'
    <3>1. /\ outward' \in [Peers -> Seq(OutPart)] /\ writing' \in [Peers -> Seq(OutPart)]
          /\ asked' \in Nat /\ spent' \in Nat /\ asked' = asked /\ spent' = spent /\ writing' = writing
      BY <1>2, <2>3, PipeNumbers DEF PipesTyped, PeersTyped, CallsTyped
    <3>2. PICK d \in Nat : d = One(p)
      BY DEF One
    <3>3. /\ asked' + Calls(taken') <= asked + Calls(taken) + d /\ spent + 0 <= spent' /\ 0 \in Nat
          /\ Calls(outward'[a]) + Calls(writing'[a]) + d <= Calls(outward[a]) + Calls(writing[a]) + 0
      BY <2>3, <2>6, <3>1, <3>2
    <3>4. LeavesRoom(asked' + Calls(taken'), spent', Load')
      BY <2>3, <2>6, <3>1, <3>3, OwedStill
    <3>. QED
      BY <1>2, <3>4 DEF CallsTyped
  <2>. QED
    BY <2>3, <2>7, <2>8 DEF PipeTypes
<1>3. CASE /\ outward[a] = <<>> /\ doing[a] = "gone"
           /\ Received(a, [kind |-> "death", id |-> 0, to |-> 0, from |-> a])
           /\ drivers' = drivers \ {a}
           /\ UNCHANGED <<chain, step, unsent, inward, adapterVars, asked, spent, deaths>>
  <2>1. PICK item : item = [kind |-> "death", id |-> 0, to |-> 0, from |-> a]
    OBVIOUS
  <2>2. item \in Todo /\ One(item) = 0
    BY <2>1, PipeNumbers DEF Todo, One
  <2>3. taken' = Append(taken, item) /\ ready' \subseteq Peers /\ peer' = 0 /\ drivers' \subseteq Peers
    BY <1>0, <1>3, <2>1 DEF Received, LoopTyped
  <2>4. taken' \in Seq(Todo) /\ Calls(taken') = Calls(taken)
    <3>1. Calls(taken) \in Nat /\ Calls(taken') = Calls(taken) + One(item) /\ taken' \in Seq(Todo)
      BY <1>0, <2>2, <2>3, AppendProperties, CallsAppend, CallsFinite
    <3>. QED
      BY <2>2, <3>1
  <2>5. LoopTyped'
    BY <1>0, <1>3, <2>3, <2>4, PipeNumbers DEF LoopTyped
  <2>6. PipesTyped' /\ PeersTyped'
    BY <1>3, PipesSame, PeersSame DEF adapterVars
  <2>7. CallsTyped'
    BY <1>3, <2>4 DEF adapterVars, CallsTyped, LeavesRoom, Load
  <2>. QED
    BY <2>5, <2>6, <2>7 DEF PipeTypes
<1>. QED
  BY <1>1, <1>2, <1>3 DEF Receives

\* A message is applied: a call of an adapter that is current becomes one made.
LEMMA AppliesTyped ==
  ASSUME NEW m, chain \in Seq(Call), asked \in Nat, AppliesTo(m), m.kind = "call" => m.to \in Peers,
         asked + One(m) <= MaxAsked
  PROVE  Stack(m) \in Seq(Call) /\ chain' = Stack(m) /\ asked' \in Nat /\ asked' <= asked + One(m)
<1>1. One(m) = (IF m.kind = "call" THEN 1 ELSE 0) /\ One(m) \in Nat
  BY DEF One
<1>2. Asks(m) => asked + 1 <= MaxAsked /\ m.to \in Peers
  BY <1>1 DEF Asks
<1>3. Stack(m) \in Seq(Call)
  BY <1>2, StackTyped
<1>4. asked' \in Nat /\ asked' <= asked + One(m)
  BY <1>1 DEF AppliesTo, Asks
<1>. QED
  BY <1>3, <1>4 DEF AppliesTo

\* It processes what it took: a call, a reply, a death.
LEMMA ProcessesTyped ==
  ASSUME PipeTypes, Processes
  PROVE  PipeTypes'
<1>. PipesTyped /\ PeersTyped /\ LoopTyped /\ CallsTyped
  BY DEF PipeTypes
<1>1. PICK m : m = Head(taken)
  OBVIOUS
<1>2. /\ step = "process" /\ taken # <<>> /\ taken' = Tail(taken) /\ AppliesTo(m)
      /\ IF Receiver(m) # 0 THEN \E n \in Lengths : SendTo(Receiver(m), Delivery(m, n))
         ELSE /\ step' = IF chain = <<>> THEN "broken" ELSE step
              /\ UNCHANGED <<peer, unsent, drivers, inward, adapterVars>>
      /\ UNCHANGED <<ready, spent, deaths>>
  BY <1>1 DEF Processes
<1>3. /\ chain \in Seq(Call) /\ taken \in Seq(Todo) /\ drivers \subseteq Peers /\ asked \in Nat
      /\ spent \in Nat /\ spent <= MaxAsked
  BY PipeNumbers DEF LoopTyped, CallsTyped
<1>4. m \in Todo /\ taken' \in Seq(Todo) /\ Calls(taken) = Calls(taken') + One(m)
  BY <1>1, <1>2, <1>3, HeadTailProperties, CallsTail
<1>5. Calls(taken') \in Nat /\ One(m) \in Nat /\ asked + One(m) <= MaxAsked
  <2>1. Calls(taken') \in Nat /\ One(m) \in Nat
    BY <1>4, CallsFinite DEF One
  <2>2. asked + Calls(taken) <= spent
    BY CallsBound
  <2>. QED
    BY <1>3, <1>4, <2>1, <2>2, PipeNumbers
<1>6. m.from \in Peers /\ (m.kind = "call" => m.to \in Peers)
  BY <1>4 DEF Todo
<1>7. Stack(m) \in Seq(Call) /\ chain' = Stack(m) /\ asked' \in Nat /\ asked' <= asked + One(m)
  BY <1>2, <1>3, <1>5, <1>6, AppliesTyped
<1>8. asked' + Calls(taken') <= asked + Calls(taken)
  BY <1>3, <1>4, <1>5, <1>7
<1>9. CASE Receiver(m) = 0
  <2>1. /\ step' \in {"broken", "process"} /\ UNCHANGED <<peer, unsent, drivers, inward, ready, spent, deaths>>
        /\ UNCHANGED <<outward, doing, writing, entered>>
    BY <1>2, <1>9 DEF adapterVars
  <2>2. LoopTyped'
    BY <1>4, <1>7, <2>1 DEF LoopTyped
  <2>3. PipesTyped' /\ PeersTyped'
    BY <2>1, PipesSame, PeersSame
  <2>4. CallsTyped'
    <3>1. /\ outward' \in [Peers -> Seq(OutPart)] /\ writing' \in [Peers -> Seq(OutPart)]
          /\ spent' \in Nat /\ spent' = spent
      BY <1>3, <2>1, <2>3 DEF PipesTyped, PeersTyped
    <3>2. /\ asked' + Calls(taken') <= asked + Calls(taken) + 0 /\ spent + 0 <= spent' /\ 0 \in Nat
      BY <1>3, <1>4, <1>5, <1>7, <1>8, <3>1
    <3>3. PICK a \in Peers : a = 1
      BY PipeNumbers DEF Peers
    <3>4. Calls(outward'[a]) + Calls(writing'[a]) + 0 <= Calls(outward[a]) + Calls(writing[a]) + 0
      BY <2>1, LoadTyped
    <3>5. LeavesRoom(asked' + Calls(taken'), spent', Load')
      BY <1>4, <1>7, <2>1, <3>1, <3>2, <3>4, OwedStill
    <3>. QED
      BY <1>7, <2>1, <3>5 DEF CallsTyped
  <2>. QED
    BY <2>2, <2>3, <2>4 DEF PipeTypes
<1>10. CASE Receiver(m) # 0
  <2>1. PICK n \in Lengths : SendTo(Receiver(m), Delivery(m, n))
    BY <1>2, <1>10
  <2>2. PICK a : a = Receiver(m)
    OBVIOUS
  <2>3. a \in Peers
    <3>1. CASE Stack(m) # <<>> /\ m.kind # "data"
      <4>1. Stack(m)[Len(Stack(m))] \in Call
        BY <1>7, <3>1, EmptySeq
      <4>2. Stack(m)[Len(Stack(m))].to \in Peers
        BY <4>1 DEF Call
      <4>3. chain # <<>>
        BY <3>1 DEF Stack, Serves, Current
      <4>4. Receiver(m) = Stack(m)[Len(Stack(m))].to
        BY <3>1, <4>3 DEF Receiver
      <4>. QED
        BY <2>2, <4>2, <4>4
    <3>2. CASE ~(Stack(m) # <<>> /\ m.kind # "data")
      BY <1>6, <1>10, <2>2, <3>2 DEF Receiver
    <3>. QED
      BY <3>1, <3>2
  <2>4. PICK message : message = Delivery(m, n)
    OBVIOUS
  <2>5. message \in Seq(InPart) /\ message # <<>>
    <3>1. PICK kind \in {"memory", "bye", "call", "reply"} : kind = IF m.kind = "answer" THEN "reply" ELSE "call"
      OBVIOUS
    <3>2. PICK id : id = IF Stack(m) = <<>> THEN 0 ELSE Stack(m)[Len(Stack(m))].id
      OBVIOUS
    <3>3. id \in 0 .. MaxAsked
      <4>1. CASE Stack(m) = <<>>
        BY <3>2, <4>1, PipeNumbers
      <4>2. CASE Stack(m) # <<>>
        <5>1. Stack(m)[Len(Stack(m))] \in Call
          BY <1>7, <4>2, EmptySeq
        <5>. QED
          BY <3>2, <4>2, <5>1 DEF Call
      <4>. QED
        BY <4>1, <4>2
    <3>4. message = Parts(kind, id, 0, n)
      BY <2>4, <3>1, <3>2 DEF Delivery
    <3>5. n \in Nat /\ n > 0
      BY PipeNumbers
    <3>6. Parts(kind, id, 0, n) \in Seq(InPart) /\ Parts(kind, id, 0, n) # <<>>
      BY <3>3, <3>5, PartsInward
    <3>. QED
      BY <3>4, <3>6
  <2>6. /\ step' = "write" /\ peer' = a /\ drivers' \subseteq Peers
        /\ unsent' \in Seq(InPart) /\ unsent' # <<>> /\ PipesTyped' /\ PeersTyped'
        /\ \A b \in Peers : b # a => outward'[b] = outward[b] /\ writing'[b] = writing[b]
        /\ Calls(outward'[a]) + Calls(writing'[a]) <= Calls(outward[a]) + Calls(writing[a])
    <3>1. SendTo(a, message)
      BY <2>1, <2>2, <2>4
    <3>. QED
      BY <1>3, <2>3, <2>5, <3>1, PeerSendsTyped
  <2>7. LoopTyped'
    BY <1>2, <1>4, <1>7, <2>3, <2>6, PipeNumbers DEF LoopTyped, Peers
  <2>8. CallsTyped'
    <3>1. /\ outward' \in [Peers -> Seq(OutPart)] /\ writing' \in [Peers -> Seq(OutPart)]
          /\ spent' \in Nat /\ spent' = spent
      BY <1>2, <1>3, <2>6 DEF PipesTyped, PeersTyped
    <3>2. /\ asked' + Calls(taken') <= asked + Calls(taken) + 0 /\ spent + 0 <= spent' /\ 0 \in Nat
      BY <1>3, <1>4, <1>5, <1>7, <1>8, <3>1
    <3>3. Calls(outward'[a]) \in Nat /\ Calls(writing'[a]) \in Nat
      <4>1. outward'[a] \in Seq(OutPart) /\ writing'[a] \in Seq(OutPart)
        BY <2>3, <3>1
      <4>. QED
        BY <4>1, CallsFinite
    <3>4. Calls(outward'[a]) + Calls(writing'[a]) + 0 <= Calls(outward[a]) + Calls(writing[a]) + 0
      BY <2>3, <2>6, <3>3, LoadTyped
    <3>5. LeavesRoom(asked' + Calls(taken'), spent', Load')
      BY <1>4, <1>7, <2>3, <2>6, <3>1, <3>2, <3>4, OwedStill
    <3>. QED
      BY <1>2, <1>7, <3>5 DEF CallsTyped
  <2>. QED
    BY <2>6, <2>7, <2>8 DEF PipeTypes
<1>. QED
  BY <1>9, <1>10

\* A call of the user's, which was asked for by nobody else.
LEMMA UserAsksTyped ==
  ASSUME PipeTypes, NEW a \in Peers, NEW n \in Lengths, UserAsks(a, n)
  PROVE  PipeTypes'
<1>. PipesTyped /\ PeersTyped /\ LoopTyped /\ CallsTyped
  BY DEF PipeTypes
<1>1. /\ asked' = asked + 1 /\ spent < MaxAsked /\ spent' = spent + 1
      /\ chain' = <<[to |-> a, id |-> asked']>> /\ SendTo(a, Parts("call", asked', 0, n))
      /\ UNCHANGED <<ready, taken, deaths>>
  BY DEF UserAsks
<1>2. /\ taken \in Seq(Todo) /\ drivers \subseteq Peers /\ asked \in Nat /\ spent \in Nat
      /\ Calls(taken) \in Nat /\ asked + Calls(taken) <= spent
  BY PipeNumbers, LoadTyped, CallsBound DEF LoopTyped, CallsTyped
<1>3. asked' \in 1 .. MaxAsked /\ spent' \in 0 .. MaxAsked
  BY <1>1, <1>2, PipeNumbers
<1>4. chain' \in Seq(Call)
  <2>1. [to |-> a, id |-> asked'] \in Call
    BY <1>3 DEF Call
  <2>. QED
    BY <1>1, <2>1
<1>5. PICK message : message = Parts("call", asked', 0, n)
  OBVIOUS
<1>6. message \in Seq(InPart) /\ message # <<>>
  <2>1. PICK kind \in {"memory", "bye", "call", "reply"} : kind = "call"
    OBVIOUS
  <2>2. PICK id \in 0 .. MaxAsked : id = asked'
    BY <1>3, PipeNumbers
  <2>3. n \in Nat /\ n > 0
    BY PipeNumbers
  <2>4. Parts(kind, id, 0, n) \in Seq(InPart) /\ Parts(kind, id, 0, n) # <<>>
    BY <2>3, PartsInward
  <2>. QED
    BY <1>5, <2>1, <2>2, <2>4
<1>7. /\ step' = "write" /\ peer' = a /\ drivers' \subseteq Peers
      /\ unsent' \in Seq(InPart) /\ unsent' # <<>> /\ PipesTyped' /\ PeersTyped'
      /\ \A b \in Peers : b # a => outward'[b] = outward[b] /\ writing'[b] = writing[b]
      /\ Calls(outward'[a]) + Calls(writing'[a]) <= Calls(outward[a]) + Calls(writing[a])
  <2>1. SendTo(a, message)
    BY <1>1, <1>5
  <2>. QED
    BY <1>2, <1>6, <2>1, PeerSendsTyped
<1>8. LoopTyped'
  BY <1>1, <1>4, <1>7, PipeNumbers DEF LoopTyped, Peers
<1>9. CallsTyped'
  <2>1. /\ outward' \in [Peers -> Seq(OutPart)] /\ writing' \in [Peers -> Seq(OutPart)]
        /\ taken' \in Seq(Todo) /\ asked' \in Nat /\ spent' \in Nat /\ taken' = taken
    BY <1>1, <1>2, <1>3, <1>7, PipeNumbers DEF PipesTyped, PeersTyped
  <2>2. asked' + Calls(taken') <= asked + Calls(taken) + 1 /\ spent + 1 <= spent' /\ 1 \in Nat
    BY <1>1, <1>2, <2>1
  <2>3. Calls(outward'[a]) \in Nat /\ Calls(writing'[a]) \in Nat
    <3>1. outward'[a] \in Seq(OutPart) /\ writing'[a] \in Seq(OutPart)
      BY <2>1
    <3>. QED
      BY <3>1, CallsFinite
  <2>4. Calls(outward'[a]) + Calls(writing'[a]) + 1 <= Calls(outward[a]) + Calls(writing[a]) + 1
    BY <1>7, <2>3, LoadTyped
  <2>5. LeavesRoom(asked' + Calls(taken'), spent', Load')
    BY <1>7, <2>1, <2>2, <2>4, OwedStill
  <2>. QED
    BY <1>1, <1>3, <2>1, <2>5 DEF CallsTyped
<1>. QED
  BY <1>7, <1>8, <1>9 DEF PipeTypes

\* It writes to an adapter, as long as the pipe has room.
LEMMA WritesPartTyped ==
  ASSUME PipeTypes, WritesPart
  PROVE  PipeTypes'
<1>. PipesTyped /\ PeersTyped /\ LoopTyped /\ CallsTyped
  BY DEF PipeTypes
<1>1. /\ step = "write" /\ peer \in Peers /\ unsent \in Seq(InPart) /\ unsent # <<>>
      /\ UNCHANGED <<chain, ready, taken, drivers, outward, doing, writing, entered, asked, spent, deaths>>
  BY DEF WritesPart, LoopTyped, adapterVars
<1>2. PeersTyped' /\ CallsTyped'
  BY <1>1, PeersSame, CallsSame
<1>3. CASE doing[peer] = "gone"
  <2>1. step' = "broken" /\ UNCHANGED <<peer, unsent, inward>>
    BY <1>3 DEF WritesPart
  <2>. QED
    BY <1>1, <1>2, <2>1, PipesSame DEF PipeTypes, LoopTyped
<1>4. CASE doing[peer] # "gone"
  <2>1. /\ Len(inward[peer]) < PipeSize
        /\ inward' = [inward EXCEPT ![peer] = Append(@, Head(unsent))]
        /\ unsent' = Tail(unsent)
        /\ \/ unsent' # <<>> /\ step' = step /\ peer' = peer
           \/ unsent' = <<>> /\ step' = "wait" /\ peer' = peer
           \/ unsent' = <<>> /\ step' = "process" /\ peer' = 0
    BY <1>4 DEF WritesPart
  <2>2. Head(unsent) \in InPart /\ unsent' \in Seq(InPart)
    BY <1>1, <2>1, HeadTailProperties
  <2>3. PICK p \in InPart : p = Head(unsent)
    BY <2>2
  <2>4. inward[peer] \in Seq(InPart)
    BY <1>1 DEF PipesTyped
  <2>5. /\ Append(inward[peer], p) \in Seq(InPart) /\ Len(Append(inward[peer], p)) = Len(inward[peer]) + 1
        /\ Len(inward[peer]) \in Nat
    BY <2>4, AppendProperties
  <2>6. inward' = [inward EXCEPT ![peer] = Append(inward[peer], p)]
    BY <2>1, <2>3
  <2>7. PipesTyped'
    <3>1. inward' \in [Peers -> Seq(InPart)]
      BY <1>1, <2>5, <2>6 DEF PipesTyped
    <3>2. \A b \in Peers : inward'[b] = IF b = peer THEN Append(inward[peer], p) ELSE inward[b]
      BY <2>6 DEF PipesTyped
    <3>3. \A b \in Peers : Len(inward'[b]) <= PipeSize
      BY <2>1, <2>5, <3>2, PipeNumbers DEF PipesTyped
    <3>. QED
      BY <1>1, <3>1, <3>3 DEF PipesTyped
  <2>8. LoopTyped'
    BY <1>1, <2>1, <2>2, PipeNumbers DEF LoopTyped
  <2>. QED
    BY <1>2, <2>7, <2>8 DEF PipeTypes
<1>. QED
  BY <1>3, <1>4

\* The shutdown receives what an agent owes, and delivers it to nobody.
LEMMA DrainsTyped ==
  ASSUME PipeTypes, Drains
  PROVE  PipeTypes'
<1>. PipesTyped /\ PeersTyped /\ LoopTyped /\ CallsTyped
  BY DEF PipeTypes
<1>0. /\ step = "drain" /\ peer \in Peers /\ chain \in Seq(Call) /\ asked \in Nat
      /\ spent \in Nat /\ spent <= MaxAsked /\ taken \in Seq(Todo)
      /\ Calls(taken) \in Nat /\ asked + Calls(taken) <= spent
  BY PipeNumbers, LoadTyped, CallsBound DEF Drains, LoopTyped, CallsTyped
<1>1. CASE TakesPart(peer)
  BY <1>0, <1>1, TakesPartTyped
<1>2. CASE /\ outward[peer] # <<>> /\ Head(outward[peer]).last
           /\ AppliesTo([kind |-> Head(outward[peer]).kind, id |-> Head(outward[peer]).id,
                         to |-> Head(outward[peer]).to, from |-> peer])
           /\ outward' = [outward EXCEPT ![peer] = Tail(@)]
           /\ UNCHANGED <<step, peer, unsent, ready, taken, drivers, inward, doing, writing, entered,
                          spent, deaths>>
  <2>1. PICK p : p = Head(outward[peer])
    OBVIOUS
  <2>2. PICK m : m = [kind |-> p.kind, id |-> p.id, to |-> p.to, from |-> peer]
    OBVIOUS
  <2>3. /\ PipesTyped' /\ p \in OutPart
        /\ \A b \in Peers : b # peer => outward'[b] = outward[b] /\ writing'[b] = writing[b]
        /\ Calls(outward'[peer]) \in Nat /\ Calls(writing[peer]) \in Nat
        /\ Calls(outward[peer]) = Calls(outward'[peer]) + One(p)
    BY <1>0, <1>2, <2>1, PartRead
  <2>4. (m.kind = "call" => m.to \in Peers) /\ One(m) = One(p) /\ One(p) \in Nat /\ AppliesTo(m)
    BY <1>2, <2>1, <2>2, <2>3 DEF OutPart, One
  <2>5. asked + One(p) <= spent
    <3>1. /\ LeavesRoom(asked + Calls(taken), spent, Load) /\ Load \in [Peers -> Nat]
          /\ asked + Calls(taken) \in Nat
      BY <1>0, LoadTyped DEF CallsTyped
    <3>2. Load[peer] = Calls(outward[peer]) + Calls(writing[peer])
      BY <1>0 DEF Load
    <3>3. \A b \in Peers : Load[b] \in Nat
      BY <3>1
    <3>4. PICK new \in [Peers -> Nat] : \A b \in Peers : new[b] = IF b = peer THEN 0 ELSE Load[b]
      <4>1. [b \in Peers |-> IF b = peer THEN 0 ELSE Load[b]] \in [Peers -> Nat]
        BY <3>3
      <4>. QED
        BY <4>1
    <3>5. PICK d \in Nat : d = One(p)
      BY <2>4
    <3>6. PICK lower \in Nat : lower = asked + Calls(taken) + d
      BY <1>0
    <3>7. \A b \in Peers : b # peer => new[b] <= Load[b]
      BY <3>3, <3>4
    <3>8. lower <= asked + Calls(taken) + d /\ spent + 0 <= spent /\ 0 \in Nat
          /\ new[peer] + d <= Load[peer] + 0
      BY <1>0, <2>3, <3>2, <3>4, <3>5, <3>6
    <3>9. LeavesRoom(lower, spent, new)
      BY <1>0, <3>1, <3>7, <3>8, RoomStill
    <3>10. lower <= spent
      BY <1>0, <3>9, RoomBetween
    <3>. QED
      BY <1>0, <3>5, <3>6, <3>10
  <2>6. chain' \in Seq(Call) /\ asked' \in Nat /\ asked' <= asked + One(p)
    <3>1. asked + One(m) <= MaxAsked
      BY <1>0, <2>4, <2>5, PipeNumbers
    <3>. QED
      BY <1>0, <2>4, <3>1, AppliesTyped
  <2>7. LoopTyped' /\ PeersTyped'
    BY <1>0, <1>2, <2>6, PipeNumbers DEF LoopTyped, PeersTyped
  <2>8. CallsTyped'
    <3>1. /\ outward' \in [Peers -> Seq(OutPart)] /\ writing' \in [Peers -> Seq(OutPart)]
          /\ spent' \in Nat /\ taken' \in Seq(Todo) /\ taken' = taken /\ spent' = spent
          /\ writing' = writing
      BY <1>0, <1>2, <2>3 DEF PipesTyped, PeersTyped
    <3>2. PICK d \in Nat : d = One(p)
      BY <2>4
    <3>3. /\ asked' + Calls(taken') <= asked + Calls(taken) + d /\ spent + 0 <= spent' /\ 0 \in Nat
          /\ Calls(outward'[peer]) + Calls(writing'[peer]) + d <= Calls(outward[peer]) + Calls(writing[peer]) + 0
      <4>1. asked' + Calls(taken') <= asked + Calls(taken) + d
        BY <1>0, <2>6, <3>1, <3>2
      <4>2. Calls(outward'[peer]) + Calls(writing'[peer]) + d <= Calls(outward[peer]) + Calls(writing[peer]) + 0
        BY <2>3, <3>1, <3>2
      <4>. QED
        BY <1>0, <3>1, <4>1, <4>2
    <3>4. LeavesRoom(asked' + Calls(taken'), spent', Load')
      BY <1>0, <2>3, <2>6, <3>1, <3>3, OwedStill
    <3>. QED
      BY <1>2, <2>6, <3>4 DEF CallsTyped
  <2>. QED
    BY <2>3, <2>7, <2>8 DEF PipeTypes
<1>. QED
  BY <1>1, <1>2 DEF Drains

\* What is done with a stack: its last entry, without it, and one more.
LEMMA StackKept ==
  ASSUME NEW S, NEW s \in Seq(S), s # <<>>
  PROVE  s[Len(s)] \in S /\ SubSeq(s, 1, Len(s) - 1) \in Seq(S)
<1>1. Len(s) \in Nat /\ Len(s) > 0
  BY EmptySeq
<1>. QED
  BY <1>1

LEMMA StackPushed ==
  ASSUME NEW S, NEW s \in Seq(S), NEW e \in S
  PROVE  Append(s, e) \in Seq(S) /\ Append(s, e) # <<>>
<1>1. Append(s, e) \in Seq(S) /\ Len(Append(s, e)) = Len(s) + 1 /\ Len(s) \in Nat
  BY AppendProperties
<1>2. Append(s, e) # <<>>
  BY <1>1, EmptySeq
<1>. QED
  BY <1>1, <1>2

\* An adapter reads its pipe.
LEMMA ReadsTyped ==
  ASSUME PipeTypes, NEW a \in Peers, AdapterReads(a)
  PROVE  PipeTypes'
<1>. PipesTyped /\ PeersTyped /\ LoopTyped /\ CallsTyped
  BY DEF PipeTypes
<1>1. PICK p : p = Head(inward[a])
  OBVIOUS
<1>2. /\ inward[a] # <<>> /\ inward' = [inward EXCEPT ![a] = Tail(@)]
      /\ doing' = [doing EXCEPT ![a] =
             IF ~p.last \/ p.kind = "memory" THEN "read"
             ELSE IF p.kind = "bye" \/ (p.kind = "reply" /\ entered[a] = <<>>) THEN "gone"
             ELSE "work"]
      /\ entered' = IF p.last /\ p.kind = "call" THEN [entered EXCEPT ![a] = Append(@, p.id)]
                    ELSE entered
      /\ UNCHANGED <<chain, step, peer, unsent, ready, taken, drivers, outward, writing, asked, spent, deaths>>
  BY <1>1 DEF AdapterReads
<1>3. /\ inward[a] \in Seq(InPart) /\ Len(inward[a]) <= PipeSize
      /\ entered[a] \in Seq(0 .. MaxAsked)
  BY DEF PipesTyped, PeersTyped
<1>4. /\ p \in InPart /\ Tail(inward[a]) \in Seq(InPart)
      /\ Len(Tail(inward[a])) <= PipeSize
  <2>1. /\ p \in InPart /\ Tail(inward[a]) \in Seq(InPart)
        /\ Len(Tail(inward[a])) = Len(inward[a]) - 1 /\ Len(inward[a]) \in Nat
    BY <1>1, <1>2, <1>3, HeadTailProperties
  <2>. QED
    BY <1>3, <2>1, PipeNumbers
<1>5. PipesTyped'
  <2>1. inward' \in [Peers -> Seq(InPart)]
    BY <1>2, <1>4 DEF PipesTyped
  <2>2. \A b \in Peers : inward'[b] = IF b = a THEN Tail(inward[a]) ELSE inward[b]
    BY <1>2 DEF PipesTyped
  <2>3. \A b \in Peers : Len(inward'[b]) <= PipeSize
    BY <1>4, <2>2 DEF PipesTyped
  <2>. QED
    BY <1>2, <2>1, <2>3 DEF PipesTyped
<1>6. PeersTyped'
  <2>1. p.kind \in {"memory", "bye", "call", "reply"} /\ p.id \in 0 .. MaxAsked
    BY <1>4 DEF InPart
  <2>0. PICK S : S = 0 .. MaxAsked
    OBVIOUS
  <2>9. entered[a] \in Seq(S) /\ p.id \in S
    BY <1>3, <2>0, <2>1
  <2>10. Append(entered[a], p.id) \in Seq(S) /\ Append(entered[a], p.id) # <<>>
    BY <2>9, StackPushed
  <2>2. PICK e \in Seq(S) : e = IF p.last /\ p.kind = "call" THEN Append(entered[a], p.id) ELSE entered[a]
    BY <2>9, <2>10
  <2>3. entered' = [entered EXCEPT ![a] = e]
    BY <1>2, <2>2 DEF PeersTyped
  <2>4. PICK what \in {"read", "work", "gone"} :
          what = IF ~p.last \/ p.kind = "memory" THEN "read"
                 ELSE IF p.kind = "bye" \/ (p.kind = "reply" /\ entered[a] = <<>>) THEN "gone"
                 ELSE "work"
    OBVIOUS
  <2>5. what = "work" => e # <<>>
    BY <2>1, <2>2, <2>4, <2>10
  <2>6. doing' = [doing EXCEPT ![a] = what]
    BY <1>2, <2>4
  <2>7. entered' \in [Peers -> Seq(S)] /\ \A b \in Peers : entered'[b] = IF b = a THEN e ELSE entered[b]
    BY <2>0, <2>3 DEF PeersTyped
  <2>8. /\ doing' \in [Peers -> {"read", "work", "write", "gone"}]
        /\ \A b \in Peers : doing'[b] = IF b = a THEN what ELSE doing[b]
    BY <2>6 DEF PeersTyped
  <2>. QED
    BY <1>2, <2>0, <2>5, <2>7, <2>8 DEF PeersTyped
<1>7. LoopTyped' /\ CallsTyped'
  BY <1>2, CallsSame DEF LoopTyped
<1>. QED
  BY <1>5, <1>6, <1>7 DEF PipeTypes

\* One more call for one that was asked for, behind data that is none.
LEMMA BatchTyped ==
  ASSUME NEW id \in 0 .. MaxAsked, NEW n \in Nat, NEW kind \in {"answer", "call"},
         NEW x \in 0 .. PeerCount, kind = "call" => x \in Peers
  PROVE  LET batch == Parts("data", id, 0, n) \o Parts(kind, id, x, 1)
         IN /\ batch \in Seq(OutPart) /\ batch # <<>>
            /\ Calls(batch) = IF kind = "call" THEN 1 ELSE 0
<1>1. PICK data : data = Parts("data", id, 0, n)
  OBVIOUS
<1>2. PICK end : end = Parts(kind, id, x, 1)
  OBVIOUS
<1>3. data \in Seq(OutPart) /\ Len(data) = n /\ \A i \in 1 .. n : data[i].kind = "data"
  <2>1. PICK k : k = "data"
    OBVIOUS
  <2>2. PICK to \in 0 .. PeerCount : to = 0
    BY PipeNumbers
  <2>3. /\ Len(Parts(k, id, to, n)) = n /\ \A i \in 1 .. n : Parts(k, id, to, n)[i].kind = k
        /\ k \in {"data", "answer"} \/ (k = "call" /\ to \in Peers) => Parts(k, id, to, n) \in Seq(OutPart)
    BY PartsTyped
  <2>. QED
    BY <1>1, <2>1, <2>2, <2>3
<1>4. end \in Seq(OutPart) /\ Len(end) = 1 /\ end[1].kind = kind
  <2>1. PICK one \in Nat : one = 1
    OBVIOUS
  <2>2. /\ Len(Parts(kind, id, x, one)) = one /\ \A i \in 1 .. one : Parts(kind, id, x, one)[i].kind = kind
        /\ kind \in {"data", "answer"} \/ (kind = "call" /\ x \in Peers) => Parts(kind, id, x, one) \in Seq(OutPart)
    BY PartsTyped
  <2>. QED
    BY <1>2, <2>1, <2>2
<1>5. PICK batch : batch = data \o end
  OBVIOUS
<1>6. /\ batch \in Seq(OutPart) /\ Len(batch) = n + 1 /\ DOMAIN batch = 1 .. n + 1
      /\ batch[n + 1].kind = kind /\ \A i \in 1 .. n : batch[i].kind = "data"
  <2>1. /\ batch \in Seq(OutPart) /\ Len(batch) = Len(data) + Len(end)
        /\ \A i \in 1 .. Len(data) + Len(end) :
             batch[i] = IF i <= Len(data) THEN data[i] ELSE end[i - Len(data)]
    BY <1>3, <1>4, <1>5, ConcatProperties
  <2>2. n + 1 \in 1 .. n + 1 /\ ~(n + 1 <= n) /\ (n + 1) - n = 1
    OBVIOUS
  <2>3. batch[n + 1] = end[1]
    BY <1>3, <1>4, <2>1, <2>2
  <2>4. \A i \in 1 .. n : batch[i] = data[i]
    BY <1>3, <1>4, <2>1
  <2>. QED
    BY <1>3, <1>4, <2>1, <2>3, <2>4
<1>7. batch # <<>>
  BY <1>6
<1>8. Calls(batch) = IF kind = "call" THEN 1 ELSE 0
  <2>1. CASE kind = "call"
    <3>1. CallsAt(batch) = {n + 1}
      BY <1>6, <2>1 DEF CallsAt
    <3>2. Cardinality({n + 1}) = 1
      BY FS_Singleton
    <3>. QED
      BY <2>1, <3>1, <3>2 DEF Calls
  <2>2. CASE kind # "call"
    <3>1. CallsAt(batch) = {}
      BY <1>6, <2>2 DEF CallsAt
    <3>. QED
      BY <2>2, <3>1, FS_EmptySet DEF Calls
  <2>. QED
    BY <2>1, <2>2
<1>. QED
  BY <1>1, <1>2, <1>5, <1>6, <1>7, <1>8

\* It works on the call it serves: answers it or makes one of its own.
LEMMA WorksTyped ==
  ASSUME PipeTypes, NEW a \in Peers, NEW n \in Nat, NEW x \in 0 .. PeerCount, AdapterWorks(a, n, x)
  PROVE  PipeTypes'
<1>. PipesTyped /\ PeersTyped /\ LoopTyped /\ CallsTyped
  BY DEF PipeTypes
<1>1. PICK id : id = entered[a][Len(entered[a])]
  OBVIOUS
<1>2. /\ doing[a] = "work"
      /\ IF x = 0 THEN spent' = spent ELSE spent < MaxAsked /\ spent' = spent + 1
      /\ doing' = [doing EXCEPT ![a] = "write"]
      /\ writing' = [writing EXCEPT ![a] = Parts("data", id, 0, n) \o
                      IF x = 0 THEN Parts("answer", id, 0, 1) ELSE Parts("call", id, x, 1)]
      /\ entered' = IF x = 0 THEN [entered EXCEPT ![a] = SubSeq(@, 1, Len(@) - 1)] ELSE entered
      /\ UNCHANGED <<chain, step, peer, unsent, ready, taken, drivers, inward, outward, asked, deaths>>
  BY <1>1 DEF AdapterWorks
<1>3. entered[a] \in Seq(0 .. MaxAsked) /\ entered[a] # <<>>
  BY <1>2 DEF PeersTyped
<1>0. PICK S : S = 0 .. MaxAsked
  OBVIOUS
<1>13. /\ entered[a][Len(entered[a])] \in S
       /\ SubSeq(entered[a], 1, Len(entered[a]) - 1) \in Seq(S)
  BY <1>0, <1>3, StackKept
<1>4. id \in 0 .. MaxAsked
  BY <1>0, <1>1, <1>13
<1>5. PICK kind \in {"answer", "call"} : kind = IF x = 0 THEN "answer" ELSE "call"
  OBVIOUS
<1>6. PICK batch : batch = Parts("data", id, 0, n) \o Parts(kind, id, x, 1)
  OBVIOUS
<1>7. batch \in Seq(OutPart) /\ batch # <<>> /\ Calls(batch) = IF kind = "call" THEN 1 ELSE 0
  <2>1. kind = "call" => x \in Peers
    BY <1>5, PipeNumbers DEF Peers
  <2>. QED
    BY <1>4, <1>6, <2>1, BatchTyped
<1>8. writing' = [writing EXCEPT ![a] = batch]
  <2>1. CASE x = 0
    BY <1>2, <1>5, <1>6, <2>1
  <2>2. CASE x # 0
    BY <1>2, <1>5, <1>6, <2>2
  <2>. QED
    BY <2>1, <2>2
<1>9. writing' \in [Peers -> Seq(OutPart)] /\ \A b \in Peers : writing'[b] = IF b = a THEN batch ELSE writing[b]
  BY <1>7, <1>8 DEF PeersTyped
<1>10. PeersTyped'
  <2>1. SubSeq(entered[a], 1, Len(entered[a]) - 1) \in Seq(0 .. MaxAsked)
    BY <1>0, <1>13
  <2>2. PICK e \in Seq(0 .. MaxAsked) : entered' = [entered EXCEPT ![a] = e]
    <3>1. CASE x = 0
      BY <1>2, <2>1, <3>1
    <3>2. CASE x # 0
      BY <1>2, <1>3, <3>2 DEF PeersTyped
    <3>. QED
      BY <3>1, <3>2
  <2>3. entered' \in [Peers -> Seq(0 .. MaxAsked)] /\ \A b \in Peers : b # a => entered'[b] = entered[b]
    BY <2>2 DEF PeersTyped
  <2>4. /\ doing' \in [Peers -> {"read", "work", "write", "gone"}]
        /\ \A b \in Peers : doing'[b] = IF b = a THEN "write" ELSE doing[b]
    BY <1>2 DEF PeersTyped
  <2>. QED
    BY <1>7, <1>9, <2>3, <2>4 DEF PeersTyped
<1>11. LoopTyped' /\ PipesTyped'
  BY <1>2, PipesSame DEF LoopTyped
<1>12. CallsTyped'
  <2>1. /\ outward' \in [Peers -> Seq(OutPart)] /\ taken' \in Seq(Todo) /\ asked' \in Nat
        /\ asked' = asked /\ taken' = taken /\ outward' = outward /\ spent \in Nat /\ asked \in Nat
    BY <1>2, PipeNumbers DEF PipesTyped, LoopTyped, CallsTyped
  <2>2. PICK e \in Nat : e = IF x = 0 THEN 0 ELSE 1
    OBVIOUS
  <2>3. spent' \in 0 .. MaxAsked /\ spent' \in Nat /\ spent + e <= spent'
    BY <1>2, <2>1, <2>2, PipeNumbers DEF CallsTyped
  <2>4. asked' + Calls(taken') <= asked + Calls(taken) + 0 /\ 0 \in Nat
    BY <2>1, LoadTyped
  <2>5. Calls(outward'[a]) + Calls(writing'[a]) + 0 <= Calls(outward[a]) + Calls(writing[a]) + e
    <3>1. Calls(writing'[a]) = e /\ Calls(outward'[a]) = Calls(outward[a])
      BY <1>5, <1>7, <1>9, <2>1, <2>2
    <3>2. Calls(outward[a]) \in Nat /\ Calls(writing[a]) \in Nat
      BY LoadTyped
    <3>. QED
      BY <2>2, <3>1, <3>2
  <2>6. \A b \in Peers : b # a => outward'[b] = outward[b] /\ writing'[b] = writing[b]
    BY <1>9, <2>1
  <2>7. LeavesRoom(asked' + Calls(taken'), spent', Load')
    BY <1>9, <2>1, <2>3, <2>4, <2>5, <2>6, OwedStill
  <2>. QED
    BY <1>2, <2>1, <2>3, <2>7 DEF CallsTyped
<1>. QED
  BY <1>10, <1>11, <1>12 DEF PipeTypes

\* It writes, part by part, as long as there is room.
LEMMA WritesTyped ==
  ASSUME PipeTypes, NEW a \in Peers, AdapterWrites(a)
  PROVE  PipeTypes'
<1>. PipesTyped /\ PeersTyped /\ LoopTyped /\ CallsTyped
  BY DEF PipeTypes
<1>1. PICK p : p = Head(writing[a])
  OBVIOUS
<1>2. /\ doing[a] = "write" /\ Len(outward[a]) < PipeSize
      /\ outward' = [outward EXCEPT ![a] = Append(@, p)]
      /\ writing' = [writing EXCEPT ![a] = Tail(@)]
      /\ doing' = IF Len(writing[a]) = 1 THEN [doing EXCEPT ![a] = "read"] ELSE doing
      /\ UNCHANGED <<chain, step, peer, unsent, ready, taken, drivers, inward, entered, asked, spent, deaths>>
  BY <1>1 DEF AdapterWrites
<1>3. writing[a] \in Seq(OutPart) /\ writing[a] # <<>> /\ outward[a] \in Seq(OutPart)
  BY <1>2 DEF PeersTyped, PipesTyped
<1>4. /\ p \in OutPart /\ Tail(writing[a]) \in Seq(OutPart) /\ Len(Tail(writing[a])) = Len(writing[a]) - 1
      /\ Len(writing[a]) \in Nat /\ Calls(writing[a]) = Calls(Tail(writing[a])) + One(p)
  BY <1>1, <1>3, HeadTailProperties, CallsTail
<1>5. /\ Append(outward[a], p) \in Seq(OutPart) /\ Len(Append(outward[a], p)) = Len(outward[a]) + 1
      /\ Len(outward[a]) \in Nat /\ Calls(Append(outward[a], p)) = Calls(outward[a]) + One(p)
  BY <1>3, <1>4, AppendProperties, CallsAppend
<1>6. /\ outward' \in [Peers -> Seq(OutPart)] /\ writing' \in [Peers -> Seq(OutPart)]
      /\ \A b \in Peers : outward'[b] = IF b = a THEN Append(outward[a], p) ELSE outward[b]
      /\ \A b \in Peers : writing'[b] = IF b = a THEN Tail(writing[a]) ELSE writing[b]
  BY <1>2, <1>4, <1>5 DEF PipesTyped, PeersTyped
<1>7. PipesTyped'
  <2>1. \A b \in Peers : Len(outward'[b]) <= PipeSize
    BY <1>2, <1>5, <1>6, PipeNumbers DEF PipesTyped
  <2>. QED
    BY <1>2, <1>6, <2>1 DEF PipesTyped
<1>8. PeersTyped'
  <2>1. CASE Len(writing[a]) = 1
    BY <1>2, <1>6, <2>1 DEF PeersTyped
  <2>2. CASE Len(writing[a]) # 1
    <3>1. Len(writing[a]) > 0
      BY <1>3, EmptySeq
    <3>3. PICK rest \in Seq(OutPart) : rest = Tail(writing[a])
      BY <1>4
    <3>4. Len(rest) # 0
      BY <1>4, <2>2, <3>1, <3>3
    <3>2. Tail(writing[a]) # <<>>
      BY <3>3, <3>4, EmptySeq
    <3>. QED
      BY <1>2, <1>6, <2>2, <3>2 DEF PeersTyped
  <2>. QED
    BY <2>1, <2>2
<1>9. LoopTyped'
  BY <1>2 DEF LoopTyped
<1>10. CallsTyped'
  <2>1. /\ taken' \in Seq(Todo) /\ asked' \in Nat /\ spent' \in Nat
        /\ asked' = asked /\ taken' = taken /\ spent' = spent
    BY <1>2, PipeNumbers DEF LoopTyped, CallsTyped
  <2>2. asked' + Calls(taken') <= asked + Calls(taken) + 0 /\ spent + 0 <= spent' /\ 0 \in Nat
    BY <2>1, LoadTyped
  <2>3. Calls(outward'[a]) + Calls(writing'[a]) + 0 <= Calls(outward[a]) + Calls(writing[a]) + 0
    <3>1. Calls(Tail(writing[a])) \in Nat /\ Calls(outward[a]) \in Nat /\ One(p) \in Nat
      BY <1>3, <1>4, CallsFinite DEF One
    <3>2. /\ Calls(outward'[a]) = Calls(outward[a]) + One(p)
          /\ Calls(writing[a]) = Calls(writing'[a]) + One(p) /\ Calls(writing'[a]) \in Nat
      BY <1>4, <1>5, <1>6, <3>1
    <3>. QED
      BY <3>1, <3>2
  <2>4. \A b \in Peers : b # a => outward'[b] = outward[b] /\ writing'[b] = writing[b]
    BY <1>6
  <2>5. LeavesRoom(asked' + Calls(taken'), spent', Load')
    BY <1>6, <2>1, <2>2, <2>3, <2>4, OwedStill
  <2>. QED
    BY <1>2, <2>1, <2>5 DEF CallsTyped
<1>. QED
  BY <1>7, <1>8, <1>9, <1>10 DEF PipeTypes

LEMMA PipeTypesInit == PInit => PipeTypes
<1>. SUFFICES ASSUME PInit  PROVE PipeTypes
  OBVIOUS
<1>1. LoopTyped
  BY PipeNumbers DEF PInit, LoopTyped
<1>2. PipesTyped
  BY PipeNumbers DEF PInit, PipesTyped
<1>3. PeersTyped
  BY DEF PInit, PeersTyped
<1>4. CallsTyped
  <2>1. \A a \in Peers : outward[a] = <<>> /\ writing[a] = <<>>
    BY DEF PInit
  <2>2. taken = <<>> /\ asked = 0 /\ spent = 0 /\ deaths = 0
    BY DEF PInit
  <2>3. asked + Calls(taken) = 0 /\ \A a \in Peers : Load[a] = 0
    BY <2>1, <2>2, CallsNone DEF Load
  <2>4. PICK w \in [0 .. PeerCount -> Nat] : \A b \in 0 .. PeerCount : w[b] = 0
    <3>1. [b \in 0 .. PeerCount |-> 0] \in [0 .. PeerCount -> Nat]
      OBVIOUS
    <3>. QED
      BY <3>1
  <2>5. w[0] = 0 /\ w[PeerCount] = 0
    BY <2>4, PipeNumbers
  <2>6. ASSUME NEW a \in Peers  PROVE w[a - 1] + Load[a] <= w[a]
    <3>1. a - 1 \in 0 .. PeerCount /\ a \in 0 .. PeerCount
      BY PipeNumbers DEF Peers
    <3>2. w[a - 1] = 0 /\ w[a] = 0 /\ Load[a] = 0
      BY <2>3, <2>4, <3>1
    <3>. QED
      BY <3>2
  <2>7. LeavesRoom(asked + Calls(taken), spent, Load)
    <3>1. asked + Calls(taken) <= w[0]
      BY <2>3, <2>5
    <3>2. w[PeerCount] <= spent
      BY <2>2, <2>5
    <3>. QED
      BY <2>6, <3>1, <3>2 DEF LeavesRoom
  <2>. QED
    BY <2>2, <2>7, PipeNumbers DEF CallsTyped
<1>. QED
  BY <1>1, <1>2, <1>3, <1>4 DEF PipeTypes

\* Whoever takes the step, the numbers of calls keep agreeing.
LEMMA PipeTypesStep ==
  ASSUME PipeTypes, [PNext]_pvars
  PROVE  PipeTypes'
<1>. PipesTyped /\ PeersTyped /\ LoopTyped /\ CallsTyped
  BY DEF PipeTypes
<1>1. CASE Polls
  <2>1. LoopTyped'
    BY <1>1 DEF Polls, LoopTyped
  <2>. QED
    BY <1>1, <2>1, PipesSame, PeersSame, CallsSame DEF Polls, adapterVars, PipeTypes
<1>2. CASE AllReceived \/ TurnOver \/ DrainFails
  <2>1. LoopTyped'
    BY <1>2 DEF AllReceived, TurnOver, DrainFails, LoopTyped
  <2>. QED
    BY <1>2, <2>1, PipesSame, PeersSame, CallsSame
    DEF AllReceived, TurnOver, DrainFails, adapterVars, PipeTypes
<1>3. CASE SaysBye
  <2>1. LoopTyped'
    BY <1>3, RememberedTyped DEF SaysBye, LoopTyped
  <2>. QED
    BY <1>3, <2>1, PipesSame, PeersSame, CallsSame DEF SaysBye, adapterVars, PipeTypes
<1>4. CASE UserExits
  <2>1. LoopTyped'
    BY <1>4, PipeNumbers DEF UserExits, LoopTyped, Peers
  <2>. QED
    BY <1>4, <2>1, PipesSame, PeersSame, CallsSame DEF UserExits, adapterVars, PipeTypes
<1>5. CASE NextAgent
  <2>1. /\ peer \in Peers /\ drivers' \subseteq Peers
        /\ \/ peer = PeerCount /\ step' = "ended" /\ peer' = 0
           \/ peer # PeerCount /\ step' = "drain" /\ peer' = peer + 1
        /\ UNCHANGED <<chain, unsent, ready, taken, inward, adapterVars, asked, spent, deaths>>
    BY <1>5 DEF NextAgent, LoopTyped
  <2>2. LoopTyped'
    BY <2>1, PipeNumbers DEF LoopTyped, Peers
  <2>. QED
    BY <2>1, <2>2, PipesSame, PeersSame, CallsSame DEF adapterVars, PipeTypes
<1>6. ASSUME NEW a \in Peers, AdapterDies(a)  PROVE PipeTypes'
  <2>1. /\ doing' = [doing EXCEPT ![a] = "gone"] /\ deaths < MaxDeaths /\ deaths' = deaths + 1
        /\ UNCHANGED <<chain, step, peer, unsent, ready, taken, drivers, inward, outward, writing,
                       entered, asked, spent>>
    BY <1>6 DEF AdapterDies
  <2>2. PeersTyped' /\ LoopTyped' /\ PipesTyped'
    BY <2>1, PipesSame DEF PeersTyped, LoopTyped
  <2>3. deaths' \in 0 .. MaxDeaths
    BY <2>1, PipeNumbers DEF CallsTyped
  <2>4. CallsTyped'
    BY <2>1, <2>3 DEF CallsTyped, LeavesRoom, Load, Calls, CallsAt
  <2>. QED
    BY <2>2, <2>4 DEF PipeTypes
<1>7. ASSUME NEW a \in Peers, PeerSteps(a)  PROVE PipeTypes'
  <2>1. ASSUME NEW n \in Lengths \cup {0}, NEW x \in Peers \cup {0}, AdapterWorks(a, n, x)  PROVE PipeTypes'
    <3>1. n \in Nat /\ x \in 0 .. PeerCount
      BY PipeNumbers DEF Peers
    <3>. QED
      BY <2>1, <3>1, WorksTyped
  <2>. QED
    BY <1>7, <2>1, ReadsTyped, WritesTyped DEF PeerSteps
<1>8. CASE UNCHANGED pvars
  <2>1. LoopTyped'
    BY <1>8 DEF pvars, LoopTyped
  <2>. QED
    BY <1>8, <2>1, PipesSame, PeersSame, CallsSame DEF pvars, PipeTypes
<1>. QED
  BY <1>1, <1>2, <1>3, <1>4, <1>5, <1>6, <1>7, <1>8, ReceivesTyped, ProcessesTyped, UserAsksTyped,
     WritesPartTyped, DrainsTyped
  DEF PNext, PipeSteps, LoopSteps

-----------------------------------------------------------------------------
(* The parts together *)

LEMMA PartStarts ==
  Init => TInit /\ LPInit /\ LgInit /\ ShInit /\ MInit /\ CvInit /\ PInit
BY DEF Init

\* A step of the whole is one of each part, or leaves it alone.
LEMMA PartSteps ==
  [Next]_edges => /\ [TNext]_tvars /\ [LPNext]_lpvars /\ [LgNext]_lgvars /\ [ShNext]_shvars
                  /\ [MNext]_mvars /\ [CvNext]_cvars /\ [PNext]_pvars
BY DEF Next, edges, OnScreen, OnLog, OnLogin, OnShell, OnMemory, OnAgent, OnPipes

\* What an adapter answers is all that happened: the lines login typed, in the order
\* of the script, the death of its shell, and what a command printed.
THEOREM AnswersCompleteCorrect == Spec => []AnswersComplete
<1>. DEFINE I == ScriptInv /\ DoomedCall /\ OutputKept
<1>1. Init => I
  BY PartStarts, ScriptInit, DoomedInit, OutputInit
<1>2. I /\ [Next]_edges => I'
  BY PartSteps, ScriptStep, DoomedStep, OutputStep
<1>3. I => AnswersComplete
  <2>1. ScriptInv => ScriptFollowed
    BY DEF ScriptInv, InCall, ScriptFollowed
  <2>2. DoomedCall => DeathReported
    BY DEF DoomedCall
  <2>3. OutputKept => WholeOutput
    BY DEF OutputKept, WholeOutput, Counts
  <2>. QED
    BY <2>1, <2>2, <2>3 DEF AnswersComplete
<1>. QED
  BY <1>1, <1>2, <1>3, PTL DEF Spec

\* The inductive invariants that the types of the parts follow from.
ScreensTyped == ScreenTypes /\ LPInv
AdaptersTyped == ScriptInv /\ LoginTypes /\ ShTypeOK
AgentsTyped == MInv /\ MemoryTypes /\ ConversationTypes

\* Whatever the user, the adapters and the processes they start do, each of the
\* edges keeps to the types and the bounds of its state: pipes hold no more than
\* they can, a stack, a memory or a list only what there was to put there.
THEOREM EdgesTypeCorrect == Spec => []EdgesTypeOK
<1>. DEFINE I == ScreensTyped /\ AdaptersTyped /\ AgentsTyped /\ PipeTypes
<1>1. Init => I
  <2>. SUFFICES ASSUME Init PROVE I
    OBVIOUS
  <2>1. TInit /\ LPInit /\ LgInit /\ ShInit /\ MInit /\ CvInit /\ PInit
    BY PartStarts
  <2>2. ScreensTyped
    BY <2>1, InitScreenTypes, InitLPInv DEF ScreensTyped
  <2>3. AdaptersTyped
    BY <2>1, ScriptInit, LoginTypesInit, ShellTyped DEF AdaptersTyped
  <2>4. AgentsTyped
    BY <2>1, MemoryStarts, MemoryTypesInit, ConversationTypesInit, ConversationAssumption DEF AgentsTyped
  <2>5. PipeTypes
    BY <2>1, PipeTypesInit
  <2>. QED
    BY <2>2, <2>3, <2>4, <2>5
<1>2. I /\ [Next]_edges => I'
  <2>. SUFFICES ASSUME I, [Next]_edges PROVE I'
    OBVIOUS
  <2>1. /\ [TNext]_tvars /\ [LPNext]_lpvars /\ [LgNext]_lgvars /\ [ShNext]_shvars
        /\ [MNext]_mvars /\ [CvNext]_cvars /\ [PNext]_pvars
    BY PartSteps
  <2>2. ScreensTyped'
    BY <2>1, ScreenTypesStep, StepKeeps DEF ScreensTyped
  <2>3. AdaptersTyped'
    BY <2>1, ScriptStep, LoginTypesStep, ShellKeepsTypes DEF AdaptersTyped
  <2>4. AgentsTyped'
    BY <2>1, MemoryStep, MemoryTypesStep, ConversationTypesStep, ConversationAssumption DEF AgentsTyped
  <2>5. PipeTypes'
    BY <2>1, PipeTypesStep
  <2>. QED
    BY <2>2, <2>3, <2>4, <2>5
<1>3. I => EdgesTypeOK
  <2>. SUFFICES ASSUME I PROVE EdgesTypeOK
    OBVIOUS
  <2>1. TTypeOK
    BY ScreenTyped DEF ScreensTyped
  <2>2. LPTypeOK
    BY DEF ScreensTyped, LPInv
  <2>3. LgTypeOK /\ ShTypeOK
    BY LoginTyped DEF AdaptersTyped
  <2>4. MTypeOK /\ CvTypeOK
    BY MemoryTyped, ConversationTyped, ConversationAssumption DEF AgentsTyped
  <2>5. PTypeOK
    BY PipesTypeOK
  <2>. QED
    BY <2>1, <2>2, <2>3, <2>4, <2>5 DEF EdgesTypeOK
<1>. QED
  BY <1>1, <1>2, <1>3, PTL DEF Spec
=============================================================================
