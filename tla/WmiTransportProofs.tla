------------------------- MODULE WmiTransportProofs -------------------------
(***************************************************************************)
(* The invariants of the WMI transport for every finite set of commands,   *)
(* every limit and every handler table.                                    *)
(*                                                                         *)
(* CountInv: callers count before they test the limit, so pending_cmds may *)
(* exceed it; the commands past the test do not reach it.                  *)
(*                                                                         *)
(* DownInv: which steps of the tear-down remain on each of its two paths,  *)
(* what is gone after each, and what a lookup keeps while the table is     *)
(* compacted.                                                              *)
(*                                                                         *)
(* PowerInv: the order of the suspend and resume commands, which resumes   *)
(* poll for pending commands, and how long runtime_pm_inprogress stays up. *)
(***************************************************************************)
EXTENDS WmiTransport, FiniteSetTheorems, TLAPS

-----------------------------------------------------------------------------
(* The count of pending commands and its limit.                              *)

CmdStates == {"new", "tested", "counted", "admitted", "queued", "issued",
              "refused", "done"}

\* the commands that have passed the test of the limit and are not completed
Passed == AtHtc \cup {c \in Cmds : cmd[c] = "admitted"}

CountTypeOK == cmd \in [Cmds -> CmdStates] /\ pending_cmds \in Nat

\* A command is admitted when fewer than MaxCmds are counted, itself included,
\* and those that have passed are among them.
PassedBelowLimit == Cardinality(Passed) < MaxCmds

CountInv == CountTypeOK /\ PendingCounted /\ PassedBelowLimit

\* The sets of commands are finite, so their cardinalities are numbers.
LEMMA CmdSetsFinite ==
  /\ IsFiniteSet(Cmds) /\ IsFiniteSet(Counted) /\ IsFiniteSet(Passed)
  /\ IsFiniteSet(AtHtc)
  /\ Cardinality(Counted) \in Nat /\ Cardinality(Passed) \in Nat
  /\ Cardinality(AtHtc) \in Nat
<1>1. IsFiniteSet({"suspend", "resume"})
  <2>1. IsFiniteSet({"suspend"} \cup {"resume"})
    BY FS_Singleton, FS_Union
  <2>2. {"suspend", "resume"} = {"suspend"} \cup {"resume"}
    OBVIOUS
  <2> QED BY <2>1, <2>2
<1>2. IsFiniteSet(Cmds)
  BY <1>1, WmiConstants, FS_Union DEF Cmds
<1>3. Counted \subseteq Cmds /\ Passed \subseteq Cmds /\ AtHtc \subseteq Cmds
  BY DEF Counted, Passed, AtHtc
<1>4. IsFiniteSet(Counted) /\ IsFiniteSet(Passed) /\ IsFiniteSet(AtHtc)
  BY <1>2, <1>3, FS_Subset
<1> QED
  BY <1>2, <1>4, FS_CardinalityType

\* What the move of one command does to the two sets.
LEMMA MoveSets ==
  ASSUME CountTypeOK, NEW c \in Cmds, NEW s \in CmdStates,
         cmd' = [cmd EXCEPT ![c] = s]
  PROVE  /\ Counted' = IF s \in {"counted", "admitted", "queued", "issued"}
                       THEN Counted \cup {c} ELSE Counted \ {c}
         /\ Passed' = IF s \in {"admitted", "queued", "issued"}
                      THEN Passed \cup {c} ELSE Passed \ {c}
  BY DEF CountTypeOK, Counted, Passed, AtHtc

\* A move that neither enters nor leaves the counted commands, and enters the
\* passed ones only from among them, leaves the count alone.
LEMMA MoveKeepsCount ==
  ASSUME CountInv, NEW c \in Cmds, NEW s \in CmdStates,
         cmd' = [cmd EXCEPT ![c] = s], UNCHANGED pending_cmds,
         s \in {"counted", "admitted", "queued", "issued"} <=> c \in Counted,
         s \in {"admitted", "queued", "issued"} <=> c \in Passed
  PROVE  CountInv'
<1>1. Counted' = Counted /\ Passed' = Passed
  BY DEF CountInv, CountTypeOK, Counted, Passed, AtHtc
<1> QED
  BY <1>1 DEF CountInv, CountTypeOK, PendingCounted, PassedBelowLimit

\* A command that is refused or completed after it was counted takes one back.
LEMMA MoveDropsCount ==
  ASSUME CountInv, NEW c \in Counted, NEW s \in {"refused", "done"},
         cmd' = [cmd EXCEPT ![c] = s], pending_cmds' = pending_cmds - 1
  PROVE  CountInv'
<1>0. c \in Cmds /\ s \in CmdStates
  BY DEF Counted, AtHtc, CmdStates
<1>1. Counted' = Counted \ {c} /\ Passed' = Passed \ {c}
  BY <1>0, MoveSets DEF CountInv
<1>2. Cardinality(Counted') = Cardinality(Counted) - 1
  BY <1>1, CmdSetsFinite, FS_RemoveElement
<1>3. Cardinality(Passed') <= Cardinality(Passed) /\ Cardinality(Passed') \in Nat
  <2>1. Passed' \in SUBSET Passed
    BY <1>1
  <2> QED BY <2>1, CmdSetsFinite, FS_Subset, FS_CardinalityType
<1>4. Cardinality(Counted') \in Nat
  BY <1>1, CmdSetsFinite, FS_RemoveElement, FS_CardinalityType
<1>5. CountTypeOK'
  BY <1>0, <1>2, <1>4 DEF CountInv, CountTypeOK, PendingCounted
<1>6. PendingCounted' /\ PassedBelowLimit'
  BY <1>2, <1>3, CmdSetsFinite, WmiConstants
     DEF CountInv, PendingCounted, PassedBelowLimit
<1> QED
  BY <1>5, <1>6 DEF CountInv

\* Every step keeps the count: one step for each action that moves a command.
LEMMA CountStep == CountInv /\ [Next]_vars => CountInv'
<1> SUFFICES ASSUME CountInv, [Next]_vars PROVE CountInv'
  OBVIOUS
<1> USE DEF CountInv
<1>u. ASSUME UNCHANGED <<cmd, pending_cmds>> PROVE CountInv'
  BY <1>u DEF CountTypeOK, PendingCounted, PassedBelowLimit, Counted, Passed, AtHtc
<1>1. ASSUME NEW c \in Cmds, CmdTest(c) PROVE CountInv'
  BY <1>1, MoveKeepsCount DEF CmdTest, Counted, Passed, AtHtc, CmdStates
<1>2. ASSUME NEW c \in Cmds, CmdInvalid(c) PROVE CountInv'
  BY <1>2, MoveKeepsCount DEF CmdInvalid, Counted, Passed, AtHtc, CmdStates
<1>3. ASSUME NEW c \in Cmds, CmdCount(c) PROVE CountInv'
  <2>1. cmd' = [cmd EXCEPT ![c] = "counted"] /\ "counted" \in CmdStates
    BY <1>3 DEF CmdCount, CmdStates
  <2>2. c \notin Counted /\ c \notin Passed
    BY <1>3 DEF CmdCount, Counted, Passed, AtHtc
  <2>3. Counted' = Counted \cup {c} /\ Passed' = Passed \ {c}
    BY <2>1, MoveSets
  <2>4. Passed' = Passed
    BY <2>2, <2>3
  <2>5. Cardinality(Counted') = Cardinality(Counted) + 1
    BY <2>2, <2>3, CmdSetsFinite, FS_AddElement
  <2>6. CountTypeOK'
    BY <1>3, <2>1 DEF CmdCount, CountTypeOK
  <2> QED
    BY <1>3, <2>4, <2>5, <2>6 DEF CmdCount, PendingCounted, PassedBelowLimit
<1>4. ASSUME NEW c \in Cmds, CmdLimit(c) PROVE CountInv'
  <2>0. c \in Counted /\ c \notin Passed
    BY <1>4 DEF CmdLimit, Counted, Passed, AtHtc
  <2>1. CASE LimitReached
    BY <1>4, <2>0, <2>1, MoveDropsCount DEF CmdLimit
  <2>2. CASE ~LimitReached
    <3>1. cmd' = [cmd EXCEPT ![c] = "admitted"] /\ "admitted" \in CmdStates
      BY <1>4, <2>2 DEF CmdLimit, CmdStates
    <3>2. Counted' = Counted \cup {c} /\ Passed' = Passed \cup {c}
      BY <3>1, MoveSets
    <3>3. Counted' = Counted /\ Passed' \in SUBSET Counted
      BY <2>0, <3>2 DEF Counted, Passed, AtHtc
    <3>4. Cardinality(Passed') <= Cardinality(Counted) /\ Cardinality(Passed') \in Nat
      BY <3>3, CmdSetsFinite, FS_Subset, FS_CardinalityType
    <3>5. Cardinality(Counted) < MaxCmds
      BY <2>2, WmiConstants, CmdSetsFinite DEF LimitReached, PendingCounted
    <3>6. CountTypeOK'
      BY <1>4, <2>2, <3>1 DEF CmdLimit, CountTypeOK
    <3> QED
      BY <1>4, <2>2, <3>3, <3>4, <3>5, <3>6, CmdSetsFinite, WmiConstants
         DEF CmdLimit, PendingCounted, PassedBelowLimit
  <2> QED
    BY <2>1, <2>2
<1>5. ASSUME NEW c \in Cmds, CmdNoPacket(c) PROVE CountInv'
  BY <1>5, MoveDropsCount DEF CmdNoPacket, Counted
<1>6. ASSUME NEW c \in Cmds, CmdSend(c) \/ HtcIssue(c) PROVE CountInv'
  BY <1>6, MoveKeepsCount DEF CmdSend, HtcIssue, Issuable, Counted, Passed, AtHtc, CmdStates
<1>7. ASSUME NEW c \in Cmds, TxComplete(c) PROVE CountInv'
  <2>1. cmd' = [cmd EXCEPT ![c] = "done"] /\ c \in Counted
    BY <1>7 DEF TxComplete, Completed, Counted, AtHtc, CountTypeOK
  <2>2. pending_cmds' = pending_cmds - 1
    BY <1>7, FS_Singleton DEF TxComplete, Completed
  <2> QED
    BY <2>1, <2>2, MoveDropsCount
<1>8. CASE StopHtc
  <2>1. Counted' = Counted \ AtHtc /\ Passed' \in SUBSET Passed /\ CountTypeOK!1'
    <3>1. cmd' = [c \in Cmds |-> IF c \in AtHtc THEN "done" ELSE cmd[c]]
      BY <1>8 DEF StopHtc, Completed
    <3>2. Counted' = Counted \ AtHtc
      <4>1. ASSUME NEW c PROVE c \in Counted' <=> c \in Counted \ AtHtc
        BY <3>1 DEF Counted, AtHtc
      <4> QED
        BY <4>1, Zenon
    <3>3. Passed' \in SUBSET Passed
      BY <3>1 DEF Passed, AtHtc
    <3>4. CountTypeOK!1'
      BY <3>1 DEF CountTypeOK, CmdStates
    <3> QED
      BY <3>2, <3>3, <3>4
  <2>2. Counted \cap AtHtc = AtHtc
    BY DEF Counted
  <2>3. Cardinality(Counted') = Cardinality(Counted) - Cardinality(AtHtc)
    <3>1. Cardinality(Counted \ AtHtc) = Cardinality(Counted) - Cardinality(Counted \cap AtHtc)
      BY CmdSetsFinite, FS_Difference
    <3> QED
      BY <2>1, <2>2, <3>1
  <2>4. Cardinality(Counted') \in Nat
    BY <2>1, CmdSetsFinite, FS_Difference, FS_CardinalityType
  <2>5. Cardinality(Passed') <= Cardinality(Passed) /\ Cardinality(Passed') \in Nat
    BY <2>1, CmdSetsFinite, FS_Subset, FS_CardinalityType
  <2> QED
    BY <1>8, <2>1, <2>3, <2>4, <2>5, CmdSetsFinite, WmiConstants
       DEF StopHtc, Completed, CountTypeOK, PendingCounted, PassedBelowLimit
<1>9. ASSUME Power \/ Receive \/ Work \/ TearDown \/ RemoveWork \/ UnregisterClear
             \/ UnregisterMove \/ Detach
      PROVE  UNCHANGED <<cmd, pending_cmds>>
  BY <1>9 DEF Power, Receive, Work, TearDown, RemoveWork, UnregisterClear, UnregisterMove, Detach,
       RuntimeSuspend, SystemSuspend, SuspendNotSent, SuspendSent, SuspendTimeout, SuspendAcked,
       SuspendFailsLate, SuspendBacksOut, Resume, ResumeSent, PollEnds, ResumeEnds,
       ResumeIndication, TaskletRx, QueueRx, Register, RxSchedule, WorkStart, WorkTake, WorkEnd,
       WorkDrop, WorkLookup, WorkCall, cmdVars
<1>10. CASE UNCHANGED vars
  BY <1>10, <1>u DEF vars, cmdVars
<1> QED
  BY <1>u, <1>1, <1>2, <1>3, <1>4, <1>5, <1>6, <1>7, <1>8, <1>9, <1>10 DEF Next, Command, Down

\* Nothing is counted at the start.
LEMMA CountInit == Init => CountInv
<1> SUFFICES ASSUME Init PROVE CountInv
  OBVIOUS
<1>1. Counted = {} /\ Passed = {}
  BY DEF Init, Counted, Passed, AtHtc
<1> QED
  BY <1>1, FS_EmptySet, WmiConstants
     DEF Init, CountInv, CountTypeOK, PendingCounted, PassedBelowLimit, CmdStates

\* The number of pending commands is exact, for any set of commands: CountInv is inductive.
THEOREM CountAlways == Spec => []CountInv
  BY CountInit, CountStep, PTL DEF Spec

\* pending_cmds counts exactly the commands between its increment and their completion.
THEOREM PendingCountedAlways == Spec => []PendingCounted
<1>1. CountInv => PendingCounted
  BY DEF CountInv
<1> QED
  BY <1>1, CountAlways, PTL

\* HTC never holds WMI_MAX_CMDS commands, however many callers test the limit at once.
THEOREM BelowLimitAlways == Spec => []BelowLimit
<1>1. CountInv => BelowLimit
  <2>1. AtHtc \in SUBSET Passed
    BY DEF Passed
  <2>2. Cardinality(AtHtc) <= Cardinality(Passed)
    BY <2>1, CmdSetsFinite, FS_Subset
  <2> QED
    BY <2>2, CmdSetsFinite, WmiConstants DEF CountInv, PassedBelowLimit, BelowLimit
<1> QED
  BY <1>1, CountAlways, PTL

-----------------------------------------------------------------------------
(* The events and the work.                                                  *)

\* Every step keeps a queued event from being stranded.
LEMMA EventStep == EventNotStranded /\ [Next]_vars => EventNotStranded'
<1> SUFFICES ASSUME EventNotStranded, [Next]_vars PROVE EventNotStranded'
  OBVIOUS
<1> USE DEF EventNotStranded
<1>u. ASSUME UNCHANGED <<event_queue, scheduled, work, rx>> PROVE EventNotStranded'
  BY <1>u
<1>1. ASSUME (\E c \in Cmds : Command(c)) \/ Power \/ TearDown \/ StopHtc
             \/ UnregisterClear \/ UnregisterMove
             \/ (\E i \in Ids : Register(i)) \/ (\E i \in Ids \cup Unhandled : TaskletRx(i))
             \/ UNCHANGED vars
      PROVE  UNCHANGED <<event_queue, scheduled, work, rx>>
  BY <1>1 DEF Command, Power, TearDown, StopHtc, UnregisterClear, UnregisterMove, Register,
       TaskletRx, CmdTest, CmdInvalid, CmdCount, CmdLimit, CmdNoPacket, CmdSend, HtcIssue,
       TxComplete, RuntimeSuspend, SystemSuspend, SuspendNotSent, SuspendSent, SuspendTimeout,
       SuspendAcked, SuspendFailsLate, SuspendBacksOut, Resume, ResumeSent, PollEnds, ResumeEnds,
       ResumeIndication, vars, workVars, rxVars
<1>2. CASE \E i \in Ids \cup Unhandled : QueueRx(i)
  BY <1>2 DEF QueueRx
<1>3. CASE RxSchedule
  BY <1>3 DEF RxSchedule, ScheduleWork
<1>4. CASE Work
  BY <1>4 DEF Work, WorkStart, WorkTake, WorkEnd, WorkDrop, WorkLookup, WorkCall, rxVars
<1>5. CASE RemoveWork \/ Detach
  BY <1>5 DEF RemoveWork, Detach
<1> QED
  BY <1>u, <1>1, <1>2, <1>3, <1>4, <1>5 DEF Next, Receive, Down

\* No event is stranded: schedule_work in the tasklet and the work's loop never both miss it.
THEOREM EventNotStrandedAlways == Spec => []EventNotStranded
<1>1. Init => EventNotStranded
  BY DEF Init, EventNotStranded
<1> QED
  BY <1>1, EventStep, PTL DEF Spec

-----------------------------------------------------------------------------
(* The teardown: how far it has come is read off its remaining steps.         *)

\* the remaining steps of the removal, and of the restart, after one or more
UnloadTodo1 == {<<"htc", "clear", "move", "detach">>}
UnloadTodo2 == {<<"clear", "move", "detach">>, <<"move", "detach">>, <<"detach">>}
SsrTodo1 == {<<"clear", "move", "work", "htc", "detach">>, <<"move", "work", "htc", "detach">>,
             <<"work", "htc", "detach">>, <<"htc", "detach">>}

TodoOK ==
  \/ order = "none" /\ todo = <<>>
  \/ order = "unload" /\ todo \in {TeardownSteps("unload")} \cup UnloadTodo1 \cup UnloadTodo2
  \/ order = "ssr" /\ todo \in SsrTodo1 \cup {<<"detach">>}
  \/ order = "detached" /\ todo = <<>>

\* the work has been cancelled, and HTC stopped
WorkGone == order = "detached" \/ (order = "unload" /\ todo \in UnloadTodo1 \cup UnloadTodo2)
HtcGone == order = "detached" \/ todo \in UnloadTodo2

WorkTypeOK ==
  /\ work \in {"idle", "taking", "lookup", "call", "called", "ending"}
  /\ max_event_idx \in 0 .. MaxEvent /\ DOMAIN event_id = 0 .. MaxEvent - 1

\* nobody sends and nothing is received once the teardown has begun
NoneInside == order # "none" => ~isr /\ ~rx /\ \A c \in Cmds : ~Calling(c)

Quiet == ~scheduled /\ work = "idle" /\ event_queue = <<>>

\* the slot found is still the event's when the handler is called
LookupHolds ==
  order # "ssr" /\ work = "call" => idx \in 0 .. max_event_idx - 1 /\ event_id[idx] = event

DownInv ==
  /\ cmd \in [Cmds -> CmdStates] /\ WorkTypeOK /\ TodoOK /\ NoneInside
  /\ WorkGone => Quiet
  /\ HtcGone => AtHtc = {}
  /\ LookupHolds /\ HandlerIsForEvent

\* A step of the teardown removes the first of the remaining steps.
LEMMA TodoStep ==
  ASSUME TodoOK, NEW s, Step(s)
  PROVE  /\ s = "work" => \/ order = "unload" /\ todo' \in UnloadTodo1
                          \/ order = "ssr" /\ todo' = <<"htc", "detach">>
         /\ s = "htc" => \/ order = "unload" /\ todo' = <<"clear", "move", "detach">>
                         \/ order = "ssr" /\ todo' = <<"detach">>
         /\ s = "clear" => \/ order = "unload" /\ todo' = <<"move", "detach">>
                                /\ todo \in UnloadTodo2
                           \/ order = "ssr" /\ todo' = <<"move", "work", "htc", "detach">>
         /\ s = "move" => \/ order = "unload" /\ todo' = <<"detach">> /\ todo \in UnloadTodo2
                          \/ order = "ssr" /\ todo' = <<"work", "htc", "detach">>
         /\ s = "detach" => order \in {"unload", "ssr"} /\ todo' = <<>> /\ todo = <<"detach">>
<1> DEFINE Tailed(t, h, r) == t # <<>> /\ Head(t) = h /\ Tail(t) = r
<1>1. /\ Tailed(<<"work", "htc", "clear", "move", "detach">>, "work",
                <<"htc", "clear", "move", "detach">>)
      /\ Tailed(<<"htc", "clear", "move", "detach">>, "htc",
                <<"clear", "move", "detach">>)
      /\ Tailed(<<"clear", "move", "detach">>, "clear",
                <<"move", "detach">>)
      /\ Tailed(<<"move", "detach">>, "move",
                <<"detach">>)
      /\ Tailed(<<"detach">>, "detach",
                <<>>)
      /\ Tailed(<<"clear", "move", "work", "htc", "detach">>, "clear",
                <<"move", "work", "htc", "detach">>)
      /\ Tailed(<<"move", "work", "htc", "detach">>, "move",
                <<"work", "htc", "detach">>)
      /\ Tailed(<<"work", "htc", "detach">>, "work",
                <<"htc", "detach">>)
      /\ Tailed(<<"htc", "detach">>, "htc",
                <<"detach">>)
  OBVIOUS
<1> QED
  BY <1>1 DEF TodoOK, Step, TeardownSteps, UnloadTodo1, UnloadTodo2, SsrTodo1

\* A step that leaves the work, the table and the teardown alone, and once the teardown has begun
\* brings no command to HTC and nobody into wmi_unified_cmd_send, keeps the invariant.
LEMMA DownFrame ==
  ASSUME DownInv, UNCHANGED <<workVars, tableVars, event_queue, rx, downVars>>,
         cmd' \in [Cmds -> CmdStates],
         order # "none" => \A c \in Cmds : /\ ~Calling(c)'
                                           /\ c \in AtHtc' => c \in AtHtc
  PROVE  DownInv'
<1> USE DEF DownInv, workVars, tableVars, downVars
<1>1. WorkTypeOK' /\ TodoOK' /\ LookupHolds' /\ HandlerIsForEvent'
  BY DEF WorkTypeOK, TodoOK, LookupHolds, HandlerIsForEvent
<1>2. NoneInside'
  BY DEF NoneInside
<1>3. WorkGone' => Quiet'
  BY DEF WorkGone, Quiet
<1>4. HtcGone' => AtHtc' = {}
  <2>1. HtcGone' => HtcGone /\ order # "none"
    <3>1. <<>> \notin UnloadTodo2
      BY DEF UnloadTodo2
    <3> QED
      BY <3>1 DEF HtcGone, TodoOK
  <2>2. AtHtc' \subseteq Cmds
    BY DEF AtHtc
  <2> QED
    BY <2>1, <2>2
<1> QED
  BY <1>1, <1>2, <1>3, <1>4

\* Every step keeps the state of the teardown.
LEMMA DownStep == DownInv /\ [Next]_vars => DownInv'
<1> SUFFICES ASSUME DownInv, [Next]_vars PROVE DownInv'
  OBVIOUS
<1> USE DEF DownInv
<1>t. /\ <<>> \notin UnloadTodo1 /\ <<>> \notin UnloadTodo2 /\ <<>> \notin SsrTodo1
      /\ TeardownSteps("unload") # <<>>
  BY DEF UnloadTodo1, UnloadTodo2, SsrTodo1, TeardownSteps
<1>n. Up => order = "none" /\ ~WorkGone /\ ~HtcGone
  BY <1>t DEF Up, Attached, TodoOK, WorkGone, HtcGone, TeardownSteps
\* commands
<1>1. ASSUME NEW c \in Cmds, Command(c) PROVE DownInv'
  <2>1. UNCHANGED <<workVars, tableVars, event_queue, rx, downVars>>
    BY <1>1 DEF Command, CmdTest, CmdInvalid, CmdCount, CmdLimit, CmdNoPacket, CmdSend, HtcIssue,
         TxComplete, rxVars
  <2>2. cmd' \in [Cmds -> CmdStates]
    BY <1>1 DEF Command, CmdTest, CmdInvalid, CmdCount, CmdLimit, CmdNoPacket, CmdSend, HtcIssue,
         TxComplete, Completed, CmdStates
  <2>3. ASSUME order # "none", NEW d \in Cmds
        PROVE  ~Calling(d)' /\ (d \in AtHtc' => d \in AtHtc)
    <3>0. ~Calling(c) /\ ~Calling(d)
      BY <2>3 DEF NoneInside
    <3>1. CASE CmdTest(c)
      <4>1. order = "ssr"
        <5>1. order # "unload"
          BY <1>t, <3>1 DEF CmdTest, TodoOK
        <5> QED
          BY <2>3, <3>1, <5>1 DEF CmdTest, Attached, TodoOK
      <4>2. cmd' = [cmd EXCEPT ![c] = "refused"]
        BY <3>1, <4>1 DEF CmdTest, Refused
      <4> QED
        BY <3>0, <4>2 DEF Calling, AtHtc
    <3>2. CASE HtcIssue(c)
      BY <3>0, <3>2 DEF HtcIssue, Issuable, Calling, AtHtc
    <3>3. CASE TxComplete(c)
      BY <3>0, <3>3 DEF TxComplete, Completed, Calling, AtHtc
    <3> QED
      BY <1>1, <3>0, <3>1, <3>2, <3>3
         DEF Command, CmdInvalid, CmdCount, CmdLimit, CmdNoPacket, CmdSend, Calling
  <2> QED
    BY <2>1, <2>2, <2>3, DownFrame
\* power management touches none of this
<1>2. ASSUME Power \/ (\E i \in Ids \cup Unhandled : TaskletRx(i)) \/ UNCHANGED vars
      PROVE  DownInv'
  <2>1. UNCHANGED <<workVars, tableVars, event_queue, rx, downVars, cmd>>
    BY <1>2 DEF Power, RuntimeSuspend, SystemSuspend, SuspendNotSent, SuspendSent,
         SuspendTimeout, SuspendAcked, SuspendFailsLate, SuspendBacksOut, Resume, ResumeSent,
         PollEnds, ResumeEnds, ResumeIndication, TaskletRx, vars, rxVars, cmdVars
  <2>2. AtHtc' = AtHtc /\ \A c \in Cmds : Calling(c)' = Calling(c)
    BY <2>1 DEF AtHtc, Calling
  <2> QED
    BY <2>1, <2>2, DownFrame DEF NoneInside
\* events and handlers: only before the teardown
<1>3. ASSUME NEW i \in Ids \cup Unhandled, QueueRx(i) PROVE DownInv'
  <2>1. order = "none" /\ ~WorkGone /\ ~HtcGone
    BY <1>3, <1>n DEF QueueRx
  <2> QED
    BY <1>3, <2>1 DEF QueueRx, cmdVars, tableVars, workVars, downVars, WorkTypeOK, TodoOK,
         NoneInside, WorkGone, HtcGone, LookupHolds, HandlerIsForEvent
<1>4. ASSUME NEW i \in Ids, Register(i) PROVE DownInv'
  <2>1. order = "none" /\ ~WorkGone /\ ~HtcGone
    BY <1>4, <1>n DEF Register
  <2>2. WorkTypeOK'
    BY <1>4, WmiConstants DEF Register, workVars, WorkTypeOK
  <2>3. LookupHolds'
    BY <1>4, <2>1 DEF Register, workVars, downVars, WorkTypeOK, LookupHolds
  <2> QED
    BY <1>4, <2>1, <2>2, <2>3 DEF Register, cmdVars, workVars, rxVars, downVars, TodoOK,
         NoneInside, WorkGone, HtcGone, HandlerIsForEvent
<1>5. CASE RxSchedule
  <2>1. order = "none" /\ ~WorkGone /\ ~HtcGone
    <3>1. order = "none"
      BY <1>5 DEF RxSchedule, NoneInside
    <3> QED
      BY <1>t, <3>1 DEF TodoOK, WorkGone, HtcGone
  <2> QED
    BY <1>5, <2>1 DEF RxSchedule, cmdVars, tableVars, downVars, WorkTypeOK, TodoOK,
         NoneInside, WorkGone, HtcGone, LookupHolds, HandlerIsForEvent
\* the work: it does not run once it is gone
<1>6. CASE Work
  <2>1. ~WorkGone
    BY <1>6 DEF Work, WorkStart, WorkTake, WorkEnd, WorkDrop, WorkLookup, WorkCall, Quiet
  <2>2. UNCHANGED <<cmd, tableVars, downVars, rx>>
    BY <1>6 DEF Work, WorkStart, WorkTake, WorkEnd, WorkDrop, WorkLookup, WorkCall, cmdVars, rxVars
  <2>3. WorkTypeOK' /\ TodoOK' /\ NoneInside' /\ ~WorkGone' /\ (HtcGone' => AtHtc' = {})
    BY <1>6, <2>1, <2>2 DEF Work, WorkStart, WorkTake, WorkEnd, WorkDrop, WorkLookup, WorkCall,
         tableVars, downVars, WorkTypeOK, TodoOK, NoneInside, Calling, WorkGone, HtcGone, AtHtc
  <2>4. LookupHolds' /\ HandlerIsForEvent'
    BY <1>6, <2>2 DEF Work, WorkStart, WorkTake, WorkEnd, WorkDrop, WorkLookup, WorkCall, Slots,
         tableVars, downVars, LookupHolds, HandlerIsForEvent
  <2> QED
    BY <2>2, <2>3, <2>4
\* the teardown, step by step
<1>7. CASE TearDown
  <2>1. order = "none" /\ order' \in {"unload", "ssr"} /\ ~isr' /\ ~rx' /\ todo' = TeardownSteps(order')
    BY <1>7, <1>n DEF TearDown, rxVars
  <2>2. TeardownSteps("unload") \notin UnloadTodo1 \cup UnloadTodo2 /\ TeardownSteps("ssr") \notin UnloadTodo2
    BY DEF TeardownSteps, UnloadTodo1, UnloadTodo2
  <2>3. TeardownSteps("ssr") \in SsrTodo1
    BY DEF TeardownSteps, SsrTodo1
  <2>4. TodoOK'
    BY <2>1, <2>3 DEF TodoOK
  <2>5. ~WorkGone' /\ ~HtcGone'
    BY <2>1, <2>2 DEF WorkGone, HtcGone
  <2> QED
    BY <1>7, <2>1, <2>4, <2>5 DEF TearDown, cmdVars, tableVars, workVars, rxVars, WorkTypeOK,
         NoneInside, Calling, LookupHolds, HandlerIsForEvent
<1>8. CASE RemoveWork
  <2>1. \/ order = "unload" /\ todo' \in UnloadTodo1
        \/ order = "ssr" /\ todo' = <<"htc", "detach">>
    BY <1>8, TodoStep DEF RemoveWork
  <2>2. TodoOK' /\ ~HtcGone'
    BY <1>8, <2>1 DEF RemoveWork, TodoOK, HtcGone, UnloadTodo1, UnloadTodo2, SsrTodo1
  <2> QED
    BY <1>8, <2>1, <2>2 DEF RemoveWork, Step, Cancelled, cmdVars, tableVars, WorkTypeOK,
         NoneInside, Calling, Quiet, LookupHolds, HandlerIsForEvent
<1>9. CASE StopHtc
  <2>1. \/ order = "unload" /\ todo' = <<"clear", "move", "detach">>
        \/ order = "ssr" /\ todo' = <<"detach">>
    BY <1>9, TodoStep DEF StopHtc
  <2>2. TodoOK'
    BY <1>9, <2>1 DEF StopHtc, TodoOK, UnloadTodo2
  <2>3. cmd' \in [Cmds -> CmdStates] /\ AtHtc' = {} /\ NoneInside'
    BY <1>9, <2>1 DEF StopHtc, Step, Completed, AtHtc, NoneInside, Calling, CmdStates, rxVars
  <2>4. WorkGone' => WorkGone
    <3>1. order = "unload" => todo \in UnloadTodo1
      BY <1>9, <2>1 DEF StopHtc, Step, TodoOK, TeardownSteps, UnloadTodo1, UnloadTodo2
    <3> QED
      BY <1>9, <3>1 DEF StopHtc, WorkGone
  <2> QED
    BY <1>9, <2>2, <2>3, <2>4 DEF StopHtc, tableVars, workVars, rxVars, WorkTypeOK,
         WorkGone, Quiet, LookupHolds, HandlerIsForEvent
<1>10. CASE UnregisterClear \/ UnregisterMove
  <2>1. \/ order = "unload" /\ todo' \in UnloadTodo2 /\ todo \in UnloadTodo2
        \/ order = "ssr" /\ todo' \in SsrTodo1 \ UnloadTodo2
    BY <1>10, TodoStep DEF UnregisterClear, UnregisterMove, UnloadTodo2, SsrTodo1
  <2>2. TodoOK' /\ (HtcGone' => HtcGone) /\ (WorkGone' => WorkGone)
    BY <1>10, <2>1 DEF UnregisterClear, UnregisterMove, TodoOK, HtcGone, WorkGone
  <2>3. WorkTypeOK'
    <3>1. max_event_idx' \in {max_event_idx, max_event_idx - 1}
          /\ (max_event_idx' # max_event_idx => Slots(NULL) # {})
      BY <1>10 DEF UnregisterClear, UnregisterMove, tableVars
    <3>2. Slots(NULL) # {} => max_event_idx \in 1 .. MaxEvent
      BY WmiConstants DEF Slots, WorkTypeOK
    <3>3. max_event_idx' \in 0 .. MaxEvent
      BY <3>1, <3>2, WmiConstants DEF WorkTypeOK
    <3>4. DOMAIN event_id' = DOMAIN event_id /\ work' = work
      BY <1>10 DEF UnregisterClear, UnregisterMove, tableVars, workVars
    <3> QED
      BY <3>3, <3>4 DEF WorkTypeOK
  <2>4. order = "unload" => work' = "idle"
    BY <1>10, <2>1 DEF UnregisterClear, UnregisterMove, WorkGone, Quiet, workVars
  <2> QED
    BY <1>10, <2>1, <2>2, <2>3, <2>4 DEF UnregisterClear, UnregisterMove, Step, cmdVars, workVars,
         rxVars, NoneInside, Calling, AtHtc, Quiet, LookupHolds, HandlerIsForEvent
<1>11. CASE Detach
  <2>1. order \in {"unload", "ssr"} /\ todo' = <<>> /\ todo = <<"detach">>
    BY <1>11, TodoStep DEF Detach
  <2>2. HtcGone
    BY <2>1 DEF HtcGone, UnloadTodo2
  <2> QED
    BY <1>11, <2>1, <2>2 DEF Detach, Step, Cancelled, cmdVars, tableVars, rxVars, TodoOK,
         WorkTypeOK, NoneInside, Calling, AtHtc, Quiet, LookupHolds, HandlerIsForEvent
<1> QED
  BY <1>1, <1>2, <1>3, <1>4, <1>5, <1>6, <1>7, <1>8, <1>9, <1>10, <1>11 DEF Next, Receive, Down

\* The teardown leaves nothing behind: DownInv is inductive.
THEOREM DownAlways == Spec => []DownInv
<1>1. Init => DownInv
  <2> SUFFICES ASSUME Init PROVE DownInv
    OBVIOUS
  <2>1. <<>> \notin UnloadTodo2
    BY DEF UnloadTodo2
  <2> QED
    BY <2>1, WmiConstants DEF Init, DownInv, CmdStates, WorkTypeOK, TodoOK, NoneInside, WorkGone,
         HtcGone, LookupHolds, HandlerIsForEvent
<1> QED
  BY <1>1, DownStep, PTL DEF Spec

\* The handler that is called is the one registered for the event, unless a restart has begun.
THEOREM HandlerIsForEventAlways == Spec => []HandlerIsForEvent
<1>1. DownInv => HandlerIsForEvent
  BY DEF DownInv
<1> QED
  BY <1>1, DownAlways, PTL

\* After the detach HTC holds no command and the work neither runs nor is scheduled.
THEOREM NothingAfterDetachAlways == Spec => []NothingAfterDetach
<1>1. DownInv => NothingAfterDetach
  BY DEF DownInv, NothingAfterDetach, Attached, WorkGone, HtcGone, Quiet
<1> QED
  BY <1>1, DownAlways, PTL

-----------------------------------------------------------------------------
(* Suspend and resume.                                                        *)

\* Until a resume is under way nobody has sent the resume command, and until a suspend is nobody
\* has sent the suspend command, which is sent once: what a suspend finds it left itself.
SuspendOnce ==
  /\ cmd["suspend"] = "new" => /\ pm \in {"awake", "suspending"} /\ cmd["resume"] = "new"
                               /\ ~resumeInd /\ (runtime_pm => pm = "suspending")
  /\ pm \in {"suspending", "waiting", "asleep"} => cmd["resume"] = "new"

\* A runtime resume does not poll, so that only a system resume fails undelivered.
RuntimeSkipsPoll == runtime_pm => pm \notin {"polling", "undelivered"}

\* runtime_pm_inprogress stays up until wma_resume_req, which is posted at the end ...
InProgressHeld ==
  /\ resumeInd => pm \in {"awake", "failed"}
  /\ runtime_pm /\ pm \notin {"awake", "failed"} => runtime_pm_inprogress

\* ... so that it is up when the two commands pass the test that tags them.
PowerTagged ==
  runtime_pm => \A c \in {"suspend", "resume"} :
    cmd[c] \in {"tested", "counted", "admitted", "queued"} => c \in tag

\* the host takes the target for suspended only if no resume command was sent
ResumeLifts ==
  runtime_pm /\ pm \in {"awake", "failed"} /\ is_target_suspended =>
    cmd["resume"] \in {"new", "refused"}

PowerInv == /\ cmd \in [Cmds -> CmdStates]
            /\ SuspendOnce /\ RuntimeSkipsPoll /\ InProgressHeld /\ PowerTagged /\ ResumeLifts

\* The commands of the callers and of HTC keep the handshake.
LEMMA PowerCommand ==
  ASSUME PowerInv, NEW c \in Cmds, Command(c) PROVE PowerInv'
<1> USE DEF PowerInv
<1>r. "suspend" \in Cmds /\ "resume" \in Cmds
  BY DEF Cmds
<1>1. UNCHANGED <<pmVars, flagVars>>
  BY DEF Command, CmdTest, CmdInvalid, CmdCount, CmdLimit, CmdNoPacket, CmdSend, HtcIssue, TxComplete
<1>2. PICK s \in CmdStates : cmd' = [cmd EXCEPT ![c] = s] /\ s # "new"
  BY DEF Command, CmdTest, CmdInvalid, CmdCount, CmdLimit, CmdNoPacket, CmdSend, HtcIssue, TxComplete,
         Completed, CmdStates
<1>3. /\ cmd[c] = "new" => Caller(c)
      /\ cmd[c] # "refused"
      /\ tag \subseteq tag'
  BY DEF Command, CmdTest, CmdInvalid, CmdCount, CmdLimit, CmdNoPacket, CmdSend, HtcIssue, TxComplete,
         Issuable
<1>4. cmd'[c] \in {"tested", "counted", "admitted", "queued"} /\ c \in {"suspend", "resume"}
        /\ runtime_pm_inprogress /\ cmd[c] = "new" => c \in tag'
  BY WmiConstants DEF Command, CmdTest, CmdInvalid, CmdCount, CmdLimit, CmdNoPacket, CmdSend, HtcIssue,
         TxComplete
<1>5. cmd'[c] \in {"tested", "counted", "admitted", "queued"} /\ cmd[c] # "new" =>
        cmd[c] \in {"tested", "counted", "admitted", "queued"}
  BY <1>2 DEF Command, CmdTest, CmdInvalid, CmdCount, CmdLimit, CmdNoPacket, CmdSend, HtcIssue,
         TxComplete, Issuable, Completed
<1>6. cmd' \in [Cmds -> CmdStates]
  BY <1>2
<1>7. SuspendOnce'
  BY <1>1, <1>2, <1>3, <1>r DEF SuspendOnce, Caller, pmVars
<1>8. RuntimeSkipsPoll' /\ InProgressHeld'
  BY <1>1 DEF RuntimeSkipsPoll, InProgressHeld, pmVars, flagVars
<1>9. PowerTagged'
  <2> SUFFICES ASSUME runtime_pm, NEW d \in {"suspend", "resume"},
                      cmd'[d] \in {"tested", "counted", "admitted", "queued"}
               PROVE  d \in tag'
    BY <1>1 DEF PowerTagged, pmVars
  <2>1. CASE d # c
    BY <1>2, <1>3, <1>r, <2>1 DEF PowerTagged
  <2>2. CASE d = c /\ cmd[c] = "new"
    <3>1. pm \notin {"awake", "failed"}
      BY <1>3, <2>2 DEF Caller
    <3> QED
      BY <1>4, <2>2, <3>1 DEF InProgressHeld
  <2>3. CASE d = c /\ cmd[c] # "new"
    BY <1>3, <1>5, <2>3 DEF PowerTagged
  <2> QED
    BY <2>1, <2>2, <2>3
<1>10. ResumeLifts'
  BY <1>1, <1>2, <1>3, <1>r DEF ResumeLifts, Caller, pmVars, flagVars
<1> QED
  BY <1>6, <1>7, <1>8, <1>9, <1>10

\* Every step keeps the handshake.
LEMMA PowerStep == PowerInv /\ [Next]_vars => PowerInv'
<1> SUFFICES ASSUME PowerInv, [Next]_vars PROVE PowerInv'
  OBVIOUS
<1> USE DEF PowerInv
<1>r. "suspend" \in Cmds /\ "resume" \in Cmds
  BY DEF Cmds
<1>1. ASSUME NEW c \in Cmds, Command(c) PROVE PowerInv'
  BY <1>1, PowerCommand
<1>2. CASE StopHtc
  BY <1>2, <1>r DEF StopHtc, Completed, AtHtc, CmdStates, pmVars, flagVars, SuspendOnce,
       RuntimeSkipsPoll, InProgressHeld, PowerTagged, ResumeLifts
<1>3. CASE Receive \/ Work \/ TearDown \/ RemoveWork \/ UnregisterClear \/ UnregisterMove
           \/ Detach \/ UNCHANGED vars
  <2>1. UNCHANGED <<cmdVars, pmVars, flagVars>>
    BY <1>3 DEF Receive, Work, TearDown, RemoveWork, UnregisterClear, UnregisterMove, Detach,
         TaskletRx, QueueRx, Register, RxSchedule, WorkStart, WorkTake, WorkEnd, WorkDrop,
         WorkLookup, WorkCall, vars
  <2> QED
    BY <2>1 DEF cmdVars, pmVars, flagVars, SuspendOnce, RuntimeSkipsPoll, InProgressHeld,
         PowerTagged, ResumeLifts
<1>4. ASSUME Power PROVE UNCHANGED <<cmd, tag>>
  BY <1>4 DEF Power, RuntimeSuspend, SystemSuspend, SuspendNotSent, SuspendSent, SuspendTimeout,
       SuspendAcked, SuspendFailsLate, SuspendBacksOut, Resume, ResumeSent, PollEnds, ResumeEnds,
       ResumeIndication, cmdVars
<1>5. CASE RuntimeSuspend \/ SystemSuspend
  <2>0. UNCHANGED <<cmd, tag>>
    BY <1>4, <1>5 DEF Power
  <2>1. CASE RuntimeSuspend
    BY <2>0, <2>1 DEF RuntimeSuspend, flagVars, SuspendOnce, RuntimeSkipsPoll, InProgressHeld, PowerTagged, ResumeLifts
  <2>2. CASE SystemSuspend
    BY <2>0, <2>2 DEF SystemSuspend, flagVars, SuspendOnce, RuntimeSkipsPoll, InProgressHeld, PowerTagged, ResumeLifts
  <2> QED
    BY <1>5, <2>1, <2>2
<1>6. CASE SuspendNotSent \/ SuspendTimeout \/ SuspendFailsLate
  <2>0. UNCHANGED <<cmd, tag>>
    BY <1>4, <1>6 DEF Power
  <2>1. CASE SuspendNotSent
    BY <2>0, <2>1 DEF SuspendNotSent, GiveUp, flagVars, SuspendOnce, RuntimeSkipsPoll, InProgressHeld, PowerTagged, ResumeLifts
  <2>2. CASE SuspendTimeout
    BY <2>0, <2>2 DEF SuspendTimeout, GiveUp, flagVars, SuspendOnce, RuntimeSkipsPoll, InProgressHeld, PowerTagged, ResumeLifts
  <2>3. CASE SuspendFailsLate
    BY <2>0, <2>3 DEF SuspendFailsLate, GiveUp, flagVars, SuspendOnce, RuntimeSkipsPoll, InProgressHeld, PowerTagged, ResumeLifts
  <2> QED
    BY <1>6, <2>1, <2>2, <2>3
<1>7. CASE SuspendSent \/ SuspendAcked \/ SuspendBacksOut \/ Resume
  <2>0. UNCHANGED <<cmd, tag>>
    BY <1>4, <1>7 DEF Power
  <2>1. CASE SuspendSent
    BY <2>0, <2>1 DEF SuspendSent, flagVars, SuspendOnce, RuntimeSkipsPoll, InProgressHeld, PowerTagged, ResumeLifts
  <2>2. CASE SuspendAcked
    BY <2>0, <2>2 DEF SuspendAcked, flagVars, SuspendOnce, RuntimeSkipsPoll, InProgressHeld, PowerTagged, ResumeLifts
  <2>3. CASE SuspendBacksOut
    BY <2>0, <2>3 DEF SuspendBacksOut, flagVars, SuspendOnce, RuntimeSkipsPoll, InProgressHeld, PowerTagged, ResumeLifts
  <2>4. CASE Resume
    BY <2>0, <2>4 DEF Resume, flagVars, SuspendOnce, RuntimeSkipsPoll, InProgressHeld, PowerTagged, ResumeLifts
  <2> QED
    BY <1>7, <2>1, <2>2, <2>3, <2>4
<1>8. CASE ResumeSent
  BY <1>4, <1>8 DEF Power, ResumeSent, AwaitsDrain, SuspendOnce, RuntimeSkipsPoll, InProgressHeld,
       PowerTagged, ResumeLifts, flagVars
<1>9. CASE PollEnds
  BY <1>4, <1>9 DEF Power, PollEnds, SuspendOnce, RuntimeSkipsPoll, InProgressHeld, PowerTagged,
       ResumeLifts, flagVars
<1>10. CASE ResumeEnds
  BY <1>4, <1>10 DEF Power, ResumeEnds, GiveUp, SuspendOnce, RuntimeSkipsPoll, InProgressHeld,
       PowerTagged, ResumeLifts
<1>11. CASE ResumeIndication
  BY <1>4, <1>11 DEF Power, ResumeIndication, SuspendOnce, RuntimeSkipsPoll, InProgressHeld,
       PowerTagged, ResumeLifts
<1> QED
  BY <1>1, <1>2, <1>3, <1>5, <1>6, <1>7, <1>8, <1>9, <1>10, <1>11 DEF Next, Power, Down

\* A runtime resume whose command was sent takes effect, and HTC keeps neither it nor the suspend
\* command back, whatever is pending.
THEOREM AwakeIsUsableAlways == Spec => []AwakeIsUsable
<1>1. Init => PowerInv
  BY DEF Init, PowerInv, Cmds, CmdStates, SuspendOnce, RuntimeSkipsPoll, InProgressHeld, PowerTagged,
       ResumeLifts
<1>2. PowerInv => AwakeIsUsable
  BY DEF PowerInv, PowerTagged, ResumeLifts, AwakeIsUsable, Issuable
<1> QED
  BY <1>1, <1>2, PowerStep, PTL DEF Spec
=============================================================================
