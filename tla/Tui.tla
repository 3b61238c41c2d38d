--------------------------------- MODULE Tui ---------------------------------
(***************************************************************************)
(* The terminal interface's screen: its tabs, what a frame does before it  *)
(* draws one of them, and what the user's keys and clicks do in between.   *)
(*                                                                         *)
(* The runtime goes on while the user looks: records it consumed wait      *)
(* under the observer's mutex until a frame applies them.  Several events  *)
(* may be handled between two frames, and they reach the panes that exist, *)
(* drawn or not: a pane maximised over the others does not take them.      *)
(*                                                                         *)
(* On a thread, the user calls an agent, the agents work, and ask the user *)
(* or return to him; module Program has the rules they follow.  A message  *)
(* is known by its place in the thread's trace.                            *)
(***************************************************************************)
EXTENDS TailList, Sequences, SequencesExt, FiniteSets

CONSTANTS
  TraceKeys,    \* the keys used in a list
  Height,       \* rows of a pane
  MaxTabs, MaxTrace, MaxInputs   \* bounds: threads, messages on one, the user's inputs

ASSUME TuiAssumption ==
  /\ TraceKeys \subseteq Keys
  /\ {Height, MaxTabs, MaxTrace, MaxInputs} \subseteq Nat \ {0}

VARIABLES
  actual,     \* the runtime's threads
  mirrored,   \* Observer::threads
  feed,       \* Observer::pendings
  outgoing,   \* for each thread, the user's message under way, or <<>>
  tabs,       \* the ThreadTabs
  threadList, \* the Global tab's list of threads
  active,     \* tab_index: 0 is Global, 1 Stat, t + 1 thread t
  bar,        \* whether the top bar has the focus
  inputs,     \* how many inputs there were
  drawn,      \* whether the last step was a frame
  sent,       \* for each thread, how many messages the user sent on it
  ended       \* what ended the program, if anything did

world == <<actual, feed>>
screen == <<tabs, threadList, active, bar>>
tvars == <<world, mirrored, outgoing, screen, inputs, drawn, sent, ended>>

Panes == <<"Navigation", "Trace", "Reader", "Composer">>
Pane == ToSet(Panes)

-----------------------------------------------------------------------------
(* Threads, as far as the screen shows them *)

NewThread == [trace |-> <<>>, frames |-> <<>>, due |-> FALSE]

\* Program::apply of a message: the trace, the stack, and Thread::pending.
ApplyTo(th, op) ==
  LET id == Len(th.trace) + 1
      by(a) == [th EXCEPT !.trace = Append(@, a)]
  IN CASE op = "call" -> [by("user") EXCEPT !.frames = Append(@, [to |-> "agent", id |-> id]),
                                            !.due = TRUE]
       [] op = "answer" -> [by("user") EXCEPT !.frames = Front(@), !.due = TRUE]
       [] op = "work" -> by("agent")
       [] op = "ask" -> [by("agent") EXCEPT !.frames = Append(@, [to |-> "user", id |-> id]),
                                            !.due = FALSE]
       [] op = "return" -> [by("agent") EXCEPT !.frames = Front(@), !.due = FALSE]

Applied(ths, r) ==
  IF r.op = "thread" THEN Append(ths, NewThread)
  ELSE [ths EXCEPT ![r.thread] = ApplyTo(@, r.op)]

\* Observer::process, of the records that wait.
Processed(ths, rs) ==
  LET after[i \in 0 .. Len(rs)] == IF i = 0 THEN ths ELSE Applied(after[i - 1], rs[i])
  IN after[Len(rs)]

FromUser(th) == {i \in DOMAIN th.trace : th.trace[i] = "user"}

Asked(th) == th.frames # <<>> /\ Last(th.frames).to = "user"

-----------------------------------------------------------------------------
(* The runtime *)

Consumed(r) ==
  /\ actual' = Applied(actual, r)
  /\ feed' = Append(feed, r)
  /\ drawn' = FALSE

Room(t) == Len(actual[t].trace) < MaxTrace

\* A thread is created.
ThreadCreated ==
  /\ Len(actual) < MaxTabs
  /\ Consumed([op |-> "thread", thread |-> Len(actual) + 1])
  /\ outgoing' = Append(outgoing, <<>>) /\ sent' = Append(sent, 0)
  /\ UNCHANGED <<mirrored, screen, inputs, ended>>

\* The user's message reaches the runtime, which goes by its In-Reply-To.
Delivered(t) ==
  /\ outgoing[t] # <<>> /\ ~actual[t].due /\ Room(t)
  /\ Consumed([op |-> IF outgoing[t][1].reply = 0 THEN "call" ELSE "answer", thread |-> t])
  /\ UNCHANGED <<mirrored, outgoing, screen, inputs, sent, ended>>

Working(t) == actual[t].due /\ Room(t)

\* An agent's message to another one.
AgentWorks(t) ==
  /\ Working(t)
  /\ Consumed([op |-> "work", thread |-> t])
  /\ UNCHANGED <<mirrored, outgoing, screen, inputs, sent, ended>>

\* An agent's message to the user, which UI::on_message takes for the answer to
\* what the user had sent: a question or the return of a call.
UserHears(t) ==
  /\ Working(t)
  /\ \/ Consumed([op |-> "ask", thread |-> t])
     \/ ~Asked(actual[t]) /\ actual[t].frames # <<>> /\ Consumed([op |-> "return", thread |-> t])
  /\ outgoing' = [outgoing EXCEPT ![t] = <<>>]
  /\ UNCHANGED <<mirrored, screen, inputs, sent, ended>>

-----------------------------------------------------------------------------
(* A frame *)

Thread == 1 .. Len(tabs)
Shown(t) == active = t + 1

\* A tab opened on a thread takes what is in its trace for read.
NewTab(th) ==
  [list |-> NewList(0, TRUE), unread |-> {}, observed |-> Len(th.trace),
   current |-> 0, loaded |-> FALSE, scroll |-> 0,
   focus |-> "Navigation", mode |-> "Normal", text |-> FALSE]

\* The message the cursor is on, or 0.
Position(l) == IF Holds(l, l.sel) THEN l.sel + 1 ELSE 0

NewMessages(tab, th) ==
  {i \in tab.observed + 1 .. Len(th.trace) : th.trace[i] = "agent"}

SyncedAll(tab, th, shown) ==   \* mutated: hidden tabs are read too
  LET l == [tab.list EXCEPT !.hi = Len(th.trace)]
  IN [tab EXCEPT !.list = l, !.observed = Len(th.trace),
                 !.unread = (@ \cup NewMessages(tab, th)) \ {Position(l)}]

\* ThreadTab::sync
Synced(tab, th, shown) ==
  LET l == [tab.list EXCEPT !.hi = Len(th.trace)]
  IN [tab EXCEPT !.list = l, !.observed = Len(th.trace),
                 !.unread = (@ \cup NewMessages(tab, th)) \
                            IF shown THEN {Position(l)} ELSE {}]

ReloadedOnce(tab) ==   \* mutated: a deselected message stays
  LET i == Position(tab.list)
  IN IF i \in {0, tab.current} THEN tab ELSE [tab EXCEPT !.current = i, !.loaded = TRUE, !.scroll = 0]

\* reloadCurrentMessage: 0 is NO_ACCESS_ID, which the reader starts with.
Reloaded(tab) ==
  LET i == Position(tab.list)
  IN IF i = tab.current THEN tab
     ELSE [tab EXCEPT !.current = i, !.loaded = TRUE, !.scroll = 0]

\* The tab's renderer: a maximised pane is drawn alone.
DrawnTab(tab) ==
  CASE tab.mode = "Normal" -> Reloaded([tab EXCEPT !.list = Drawn(@, Height)])
    [] tab.mode = "Message" -> Reloaded(tab)
    [] tab.mode = "Editor" -> tab

\* syncObserver, over the threads the observer has by then.
SyncedTabs(ths) ==
  [t \in 1 .. Len(ths) |->
     Synced(IF t \in Thread THEN tabs[t] ELSE NewTab(ths[t]), ths[t], Shown(t))]

\* The reader is drawn without having been given a message: what its pointer
\* holds is undefined.
Undefined(t) == tabs'[t].mode # "Editor" /\ ~tabs'[t].loaded

\* Observer::process, syncObserver, and the tab that is shown.
Frame ==
  LET ths == Processed(mirrored, feed)
      synced == SyncedTabs(ths)
      listed == Extended(threadList, Len(ths) - Len(tabs), MaxTabs)
  IN /\ mirrored' = ths /\ feed' = <<>>
     /\ tabs' = [t \in 1 .. Len(ths) |-> IF Shown(t) THEN DrawnTab(synced[t]) ELSE synced[t]]
     /\ threadList' = IF active = 0 THEN Drawn(listed, Height) ELSE listed
     /\ drawn' = TRUE
     /\ \/ ended' = ended
        \/ \E t \in Thread : Shown(t) /\ Undefined(t) /\ ended' = "reader"
     /\ UNCHANGED <<actual, outgoing, active, bar, inputs, sent>>

-----------------------------------------------------------------------------
(* The user's keys and clicks *)

Input ==
  /\ inputs < MaxInputs
  /\ inputs' = inputs + 1 /\ drawn' = FALSE
  /\ UNCHANGED <<world, mirrored>>

Leaves(tab, t) == tabs' = [tabs EXCEPT ![t] = tab]

\* The tab menu, and the top bar getting or losing the focus.
SelectTab(i) ==
  /\ Input /\ i # active
  /\ active' = i /\ bar' = TRUE
  /\ UNCHANGED <<tabs, threadList, outgoing, sent, ended>>
LeaveBar ==
  /\ Input
  /\ bar' = ~bar
  /\ UNCHANGED <<tabs, threadList, active, outgoing, sent, ended>>

\* Keys in the list of threads; Return opens the tab of the one selected.
ThreadListKey(key) ==
  /\ Input /\ active = 0 /\ ~bar
  /\ IF key = "return" /\ Opens(threadList)
     THEN active' = threadList.sel + 2 /\ threadList' = threadList
     ELSE threadList' = Pressed(threadList, key) /\ active' = active
  /\ UNCHANGED <<tabs, bar, outgoing, sent, ended>>

\* A key goes to the pane that has the focus, whichever panes are drawn.
KeyFor(t, pane) == Input /\ Shown(t) /\ ~bar /\ tabs[t].focus = pane

TraceKey(t, key) ==
  /\ KeyFor(t, "Trace")
  /\ Leaves([tabs[t] EXCEPT !.list = Pressed(@, key)], t)
  /\ UNCHANGED <<threadList, active, bar, outgoing, sent, ended>>

\* The reader's own keys: one line down, as far as there is one, or up.
ReaderKey(t) ==
  /\ KeyFor(t, "Reader")
  /\ \E n \in 0 .. 1 : Leaves([tabs[t] EXCEPT !.scroll = n], t)
  /\ UNCHANGED <<threadList, active, bar, outgoing, sent, ended>>

\* Something is typed as subject or body.
Type(t) ==
  /\ KeyFor(t, "Composer")
  /\ Leaves([tabs[t] EXCEPT !.text = TRUE], t)
  /\ UNCHANGED <<threadList, active, bar, outgoing, sent, ended>>

\* Tab and Shift-Tab, from the pane that really has the focus.
CyclePane(t, step) ==
  /\ \E n \in 1 .. 4 :
       /\ KeyFor(t, Panes[n])
       /\ Leaves([tabs[t] EXCEPT !.focus = Panes[((n - 1 + step) % 4) + 1]], t)
  /\ UNCHANGED <<threadList, active, bar, outgoing, sent, ended>>

\* A click on a pane, where it is or where it was when it was last drawn; in
\* the trace it may hit a row.
ClickPane(t, pane) ==
  /\ Input /\ Shown(t)
  /\ \/ Leaves([tabs[t] EXCEPT !.focus = pane], t)
     \/ /\ pane = "Trace"
        /\ \E i \in tabs[t].list.rows :
             Leaves([tabs[t] EXCEPT !.focus = pane, !.list = Clicked(@, i)], t)
  /\ bar' = FALSE
  /\ UNCHANGED <<threadList, active, outgoing, sent, ended>>

\* F10: toggleMaximizeRightPane.
Maximize(t) ==
  /\ Input /\ Shown(t)
  /\ LET edits == tabs[t].focus = "Composer" /\ ~bar
     IN IF tabs[t].mode # "Normal"
        THEN Leaves([tabs[t] EXCEPT !.mode = "Normal"], t) /\ bar' = bar
        ELSE /\ Leaves([tabs[t] EXCEPT !.mode = IF edits THEN "Editor" ELSE "Message",
                                       !.focus = IF edits THEN "Composer" ELSE "Reader"], t)
             /\ bar' = FALSE
  /\ UNCHANGED <<threadList, active, outgoing, sent, ended>>

ReplyFront(t, toAsker) ==   \* mutated: the oldest frame is answered
  LET frames == mirrored[t].frames
  IN IF toAsker /\ Asked(mirrored[t]) THEN frames[1].id ELSE 0

\* In-Reply-To: a message to the agent that asked is its answer.
Reply(t, toAsker) ==
  IF toAsker /\ Asked(mirrored[t]) THEN Last(mirrored[t].frames).id ELSE 0

DueNever(t) == FALSE   \* mutated: the pending mark is not looked at

\* Whether the observer's thread waits for an answer, and Send is refused.
Due(t) == mirrored[t].due

\* Whether it shows what the user sent before.
Behind(t) == Cardinality(FromUser(mirrored[t])) < sent[t]

\* sendMessageTo, and UI::send with its CHECK(!thread.pending).
Sends(t, toAsker) ==
  /\ Input /\ Shown(t) /\ ~Due(t)
  /\ IF outgoing[t] # <<>>
     THEN /\ ended' = IF Behind(t) THEN "sent_again" ELSE "sent"
          /\ UNCHANGED outgoing
     ELSE /\ outgoing' = [outgoing EXCEPT ![t] = <<[reply |-> Reply(t, toAsker), toAsker |-> toAsker,
                                                    again |-> Behind(t)]>>]
          /\ ended' = ended
  /\ sent' = [sent EXCEPT ![t] = @ + 1]
  /\ Leaves([tabs[t] EXCEPT !.text = FALSE], t)
  /\ UNCHANGED <<threadList, active>>

\* Send and F12 look at the observer's thread; F12 wants some text, too.
SendButton(t, toAsker) == Sends(t, toAsker) /\ bar' = FALSE
SendKey(t, toAsker) == tabs[t].text /\ Sends(t, toAsker) /\ bar' = bar

-----------------------------------------------------------------------------
(* The specification *)

TInit ==
  /\ actual = <<NewThread>> /\ mirrored = <<NewThread>> /\ feed = <<>>
  /\ outgoing = << <<>> >> /\ tabs = <<>>
  /\ threadList = NewList(0, FALSE)
  /\ active = 0 /\ bar = TRUE /\ inputs = 0 /\ drawn = FALSE /\ sent = <<0>> /\ ended = "no"

RuntimeSteps ==
  \/ ThreadCreated
  \/ \E t \in 1 .. Len(actual) : Delivered(t) \/ AgentWorks(t) \/ UserHears(t)

UserSteps ==
  \/ \E i \in 0 .. Len(tabs) + 1 : SelectTab(i)
  \/ LeaveBar
  \/ \E key \in TraceKeys : ThreadListKey(key) \/ \E t \in Thread : TraceKey(t, key)
  \/ \E t \in Thread :
       \/ ReaderKey(t) \/ Type(t) \/ Maximize(t)
       \/ \E step \in {1, 3} : CyclePane(t, step)
       \/ \E pane \in Pane : ClickPane(t, pane)
       \/ \E toAsker \in BOOLEAN : SendButton(t, toAsker) \/ SendKey(t, toAsker)

TNext == ended = "no" /\ (RuntimeSteps \/ Frame \/ UserSteps)

TSpec == TInit /\ [][TNext]_tvars

-----------------------------------------------------------------------------
(* Properties *)

ThreadState ==
  [trace : Seq({"user", "agent"}), frames : Seq([to : {"user", "agent"}, id : 1 .. MaxTrace]),
   due : BOOLEAN]

Listed(max) ==
  [lo : {0}, hi : 0 .. max, sel : None .. max - 1, follow : BOOLEAN, top : 0 .. max,
   height : {1, Height}, rows : SUBSET (0 .. max)]

TTypeOK ==
  /\ {actual, mirrored} \subseteq Seq(ThreadState)
  /\ feed \in Seq([op : {"thread", "call", "answer", "work", "ask", "return"}, thread : 1 .. MaxTabs])
  /\ outgoing \in [DOMAIN actual -> {<<>>} \cup
       {<<m>> : m \in [reply : 0 .. MaxTrace, toAsker : BOOLEAN, again : BOOLEAN]}]
  /\ tabs \in Seq([list : Listed(MaxTrace), unread : SUBSET (1 .. MaxTrace), observed : 0 .. MaxTrace,
                    current : 0 .. MaxTrace, loaded : BOOLEAN, scroll : 0 .. 1, focus : Pane,
                    mode : {"Normal", "Message", "Editor"}, text : BOOLEAN])
  /\ threadList \in Listed(MaxTabs)
  /\ active \in 0 .. Len(tabs) + 1 /\ Len(tabs) <= Len(mirrored)
  /\ {bar, drawn} \subseteq BOOLEAN /\ inputs \in 0 .. MaxInputs
  /\ sent \in [DOMAIN actual -> 0 .. MaxInputs] /\ ended \in {"no", "sent", "sent_again", "reader"}

\* Whatever was selected, hidden or received since the last frame, a frame that
\* draws a thread's reader draws the message that is selected, or the empty one
\* where none is selected any more, and that message no longer counts as unread.
\* A reader that was never given a message, and draws what its pointer happens to
\* hold, is drawn only where nothing is selected: that this happens at all is what
\* ReaderHasMessage denies.
ReaderShowsSelection ==
  \A t \in Thread :
    drawn /\ Shown(t) /\ tabs[t].mode # "Editor" =>
      IF tabs[t].loaded
      THEN tabs[t].current = Position(tabs[t].list) /\ tabs[t].current \notin tabs[t].unread
      ELSE Position(tabs[t].list) = 0

\* The unread messages of a tab, those its next frame will find included.
Unseen(t) == tabs[t].unread \cup NewMessages(tabs[t], mirrored'[t])

\* No agent's message stops being unread, or is never marked so, but by being
\* displayed in the reader of the tab that is shown, or by being selected
\* behind a maximised editor.
ReadWhenShown ==
  [][\A t \in Thread : \A i \in Unseen(t) \ tabs'[t].unread :
       Shown(t)' /\ (tabs'[t].current = i \/ tabs'[t].mode = "Editor")]_tvars

\* Where the observer shows what the user sent before, and no answer due, the
\* next message he sends finds the thread as it was shown to him: UI::send's
\* CHECK holds, and the message is an answer to what is on top of the runtime's
\* stack if it is addressed to the agent that asks, and no answer otherwise.
SendCurrent ==
  /\ ended # "sent"
  /\ \A t \in DOMAIN outgoing :
       outgoing[t] # <<>> /\ ~actual[t].due /\ ~outgoing[t][1].again =>
         outgoing[t][1].reply =
           IF outgoing[t][1].toAsker /\ Asked(actual[t]) THEN Last(actual[t].frames).id ELSE 0
-----------------------------------------------------------------------------
(* What a document says, and the code does not keep *)

\* "If there is no selected message, it swaps in a default-constructed
\* Message": the reader that is drawn has a message.
ReaderHasMessage ==
  \A t \in Thread : drawn /\ Shown(t) /\ tabs[t].mode # "Editor" => tabs[t].loaded
=============================================================================
