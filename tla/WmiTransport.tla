---------------------------- MODULE WmiTransport ----------------------------
(* The WMI transport (SERVICES/WMI/wmi_unified.c) and its three surroundings: *)
(*   - callers of wmi_unified_cmd_send on any thread, HTC below them, which   *)
(*     completes a command later or keeps it back while the bus sleeps;       *)
(*   - the suspend and resume paths of WMA and HIF, which set the flags that  *)
(*     wmi_unified_cmd_send tests and poll its count of pending commands;     *)
(*   - the receive tasklet, the work item that calls the event handlers, and  *)
(*     the two orders in which the driver takes all of this down.             *)
(* A command is one wmi buffer, sent at most once per attachment; "suspend"   *)
(* and "resume" are the WMI_PDEV_SUSPEND and WMI_PDEV_RESUME commands.        *)
EXTENDS Naturals, FiniteSets, Sequences

CONSTANTS Ordinary,      \* the other commands
          MaxCmds,       \* WMI_MAX_CMDS
          Ids,           \* event ids with a handler in the table
          Unhandled,     \* event ids nobody registers
          TaskletIds,    \* ids handled in tasklet context (subset of Ids)
          FwLog,         \* the id unregistered by WDA_close
          MaxEvent,      \* WMI_UNIFIED_MAX_EVENT
          NULL           \* no handler, no event

ASSUME WmiConstants == /\ IsFiniteSet(Ordinary) /\ {"suspend", "resume"} \cap Ordinary = {}
                       /\ MaxCmds \in Nat \ {0} /\ MaxEvent \in Nat \ {0}
                       /\ TaskletIds \subseteq Ids /\ FwLog \in Ids \ TaskletIds
                       /\ NULL \notin Ids \cup Unhandled

VARIABLES
  cmd,                   \* progress of each command's wmi_unified_cmd_send
  tag,                   \* commands tagged HTC_TX_PACKET_TAG_AUTO_PM
  pending_cmds, is_target_suspended, runtime_pm_inprogress,
  recovery,              \* a self recovery was started
  pm,                    \* progress of the suspend or resume
  runtime_pm,            \* that suspend is a runtime suspend
  backOut,               \* that suspend resumes the target itself
  pm_state,              \* HIF's runtime power state
  resumeInd,             \* WDA_RUNTIME_PM_RESUME_IND is in the MC queue
  event_id, max_event_idx,                     \* the handler table
  event_queue, arrived,
  rx,                    \* the receive tasklet queued an event
  scheduled, work, event, idx,                 \* rx_event_work
  called,                \* the handler the work has called for its event
  isr,                   \* interrupts and tasklets are on
  order, todo            \* which teardown, and its remaining steps

cmdVars == <<cmd, tag, pending_cmds, recovery>>
pmVars == <<pm, runtime_pm, backOut, pm_state, resumeInd>>
flagVars == <<is_target_suspended, runtime_pm_inprogress>>
tableVars == <<event_id, max_event_idx>>
workVars == <<scheduled, work, event, idx, called>>
rxVars == <<event_queue, arrived, rx>>
downVars == <<isr, order, todo>>
vars == <<cmdVars, pmVars, flagVars, tableVars, workVars, rxVars, downVars>>

Cmds == Ordinary \cup {"suspend", "resume"}
AtHtc == {c \in Cmds : cmd[c] \in {"queued", "issued"}}
Counted == AtHtc \cup {c \in Cmds : cmd[c] \in {"counted", "admitted"}}
Attached == order # "detached"
Up == Attached /\ todo = <<>>
Calling(c) == cmd[c] \in {"tested", "counted", "admitted"}

-----------------------------------------------------------------------------
(* wmi_unified_attach zeroes the handle; HTC and HIF are started after it.   *)
Init ==
  /\ cmd = [c \in Cmds |-> "new"] /\ tag = {} /\ pending_cmds = 0
  /\ recovery = FALSE
  /\ is_target_suspended = FALSE /\ runtime_pm_inprogress = FALSE
  /\ pm = "awake" /\ runtime_pm = FALSE /\ backOut = FALSE
  /\ pm_state = "ON" /\ resumeInd = FALSE
  /\ event_id = [k \in 0 .. MaxEvent - 1 |-> NULL] /\ max_event_idx = 0
  /\ event_queue = <<>> /\ arrived = {} /\ rx = FALSE
  /\ scheduled = FALSE /\ work = "idle" /\ event = NULL /\ idx = 0
  /\ called = NULL /\ isr = TRUE /\ order = "none" /\ todo = <<>>

-----------------------------------------------------------------------------
(* wmi_unified_cmd_send, in the steps between which other threads matter.    *)

\* The suspend test is skipped while a runtime suspend is in progress, and
\* only then is the command that suspends or resumes the target tagged.
Refused(c) ==
  \/ order = "ssr"
  \/ ~runtime_pm_inprogress /\ is_target_suspended /\ c # "resume"

Caller(c) == CASE c = "suspend" -> pm = "suspending"
               [] c = "resume" -> pm = "resuming"
               [] OTHER -> TRUE

\* Entry: the shutdown and suspend tests, the tag, the check of the TLVs and
\* the room for the header, which fail for want of either.
CmdTest(c) ==
  /\ cmd[c] = "new" /\ Caller(c) /\ Attached /\ (todo # <<>> => order = "ssr")
  /\ cmd' = [cmd EXCEPT ![c] = IF Refused(c) THEN "refused" ELSE "tested"]
  /\ tag' = IF ~Refused(c) /\ runtime_pm_inprogress /\ c \notin Ordinary
            THEN tag \cup {c} ELSE tag
  /\ UNCHANGED <<pending_cmds, recovery, pmVars, flagVars, tableVars,
                 workVars, rxVars, downVars>>

CmdInvalid(c) ==
  /\ cmd[c] = "tested"
  /\ cmd' = [cmd EXCEPT ![c] = "refused"]
  /\ UNCHANGED <<tag, pending_cmds, recovery, pmVars, flagVars, tableVars,
                 workVars, rxVars, downVars>>

CmdCount(c) ==
  /\ cmd[c] = "tested"
  /\ cmd' = [cmd EXCEPT ![c] = "counted"]
  /\ pending_cmds' = pending_cmds + 1
  /\ UNCHANGED <<tag, recovery, pmVars, flagVars, tableVars, workVars,
                 rxVars, downVars>>

\* A plausible slip: the limit itself is let through.
LimitPassed == pending_cmds > MaxCmds
LimitReached == pending_cmds >= MaxCmds

\* Above the limit the count is taken back and a recovery is started.
CmdLimit(c) ==
  /\ cmd[c] = "counted"
  /\ IF LimitReached
     THEN /\ cmd' = [cmd EXCEPT ![c] = "refused"]
          /\ pending_cmds' = pending_cmds - 1 /\ recovery' = TRUE
     ELSE /\ cmd' = [cmd EXCEPT ![c] = "admitted"]
          /\ UNCHANGED <<pending_cmds, recovery>>
  /\ UNCHANGED <<tag, pmVars, flagVars, tableVars, workVars, rxVars, downVars>>

\* A plausible slip: the count stays.
CmdNoPacketKept(c) ==
  /\ cmd[c] = "admitted"
  /\ cmd' = [cmd EXCEPT ![c] = "refused"]
  /\ UNCHANGED <<tag, pending_cmds, recovery, pmVars, flagVars, tableVars,
                 workVars, rxVars, downVars>>
\* No memory for the HTC packet.
CmdNoPacket(c) ==
  /\ cmd[c] = "admitted"
  /\ cmd' = [cmd EXCEPT ![c] = "refused"]
  /\ pending_cmds' = pending_cmds - 1
  /\ UNCHANGED <<tag, recovery, pmVars, flagVars, tableVars, workVars,
                 rxVars, downVars>>

\* HTCSendPkt accepts every packet of a connected endpoint.
CmdSend(c) ==
  /\ cmd[c] = "admitted"
  /\ cmd' = [cmd EXCEPT ![c] = "queued"]
  /\ UNCHANGED <<tag, pending_cmds, recovery, pmVars, flagVars, tableVars,
                 workVars, rxVars, downVars>>

\* HTC issues a command when the bus is on, and a tagged one in any state
\* (module HtcTx); nothing is transferred while the link is down.
Issuable(c) == cmd[c] = "queued" /\ (c \in tag \/ pm_state = "ON")
HtcIssue(c) ==
  /\ Issuable(c) /\ pm # "asleep" /\ isr
  /\ cmd' = [cmd EXCEPT ![c] = "issued"]
  /\ UNCHANGED <<tag, pending_cmds, recovery, pmVars, flagVars, tableVars,
                 workVars, rxVars, downVars>>

\* wmi_htc_tx_complete frees the buffer and the packet and counts down.
Completed(S) ==
  /\ cmd' = [c \in Cmds |-> IF c \in S THEN "done" ELSE cmd[c]]
  /\ pending_cmds' = pending_cmds - Cardinality(S)

TxComplete(c) ==
  /\ cmd[c] = "issued" /\ pm # "asleep" /\ isr
  /\ Completed({c})
  /\ UNCHANGED <<tag, recovery, pmVars, flagVars, tableVars, workVars,
                 rxVars, downVars>>

-----------------------------------------------------------------------------
(* Suspend and resume: __hif_pci_suspend, __hif_pci_resume and their runtime  *)
(* callers, with wma_suspend_target and wma_resume_target.                    *)

\* The runtime suspend has WMA, on the MC thread, set runtime_pm_inprogress.
RuntimeSuspend ==
  /\ Up /\ pm = "awake" /\ cmd["suspend"] = "new" /\ ~recovery
  /\ pm' = "suspending" /\ runtime_pm' = TRUE /\ pm_state' = "INPROGRESS"
  /\ runtime_pm_inprogress' = TRUE
  /\ UNCHANGED <<backOut, resumeInd, is_target_suspended, cmdVars, tableVars,
                 workVars, rxVars, downVars>>

SystemSuspend ==
  /\ Up /\ pm = "awake" /\ cmd["suspend"] = "new" /\ ~recovery
  /\ pm' = "suspending"
  /\ UNCHANGED <<runtime_pm, backOut, pm_state, resumeInd, flagVars, cmdVars,
                 tableVars, workVars, rxVars, downVars>>

\* A suspend that fails posts the resume indication and goes back to ON.
GiveUp == /\ pm' = "awake" /\ pm_state' = "ON" /\ resumeInd' = runtime_pm
          /\ UNCHANGED <<runtime_pm, backOut>>

SuspendNotSent ==
  /\ pm = "suspending" /\ cmd["suspend"] = "refused"
  /\ GiveUp
  /\ UNCHANGED <<flagVars, cmdVars, tableVars, workVars, rxVars, downVars>>

\* The flag is raised after the command was sent.
SuspendSent ==
  /\ pm = "suspending" /\ cmd["suspend"] \in {"queued", "issued", "done"}
  /\ pm' = "waiting" /\ is_target_suspended' = TRUE
  /\ UNCHANGED <<runtime_pm, backOut, pm_state, resumeInd,
                 runtime_pm_inprogress, cmdVars, tableVars, workVars, rxVars,
                 downVars>>

\* No acknowledgement within WMA_TGT_SUSPEND_COMPLETE_TIMEOUT.
SuspendTimeout ==
  /\ pm = "waiting"
  /\ GiveUp /\ is_target_suspended' = FALSE /\ recovery' = TRUE
  /\ UNCHANGED <<runtime_pm_inprogress, cmd, tag, pending_cmds, tableVars,
                 workVars, rxVars, downVars>>

\* The acknowledgement; the link goes down when the copy engine is idle.
SuspendAcked ==
  /\ pm = "waiting" /\ cmd["suspend"] = "done"
  /\ pm' = "asleep" /\ pm_state' = IF runtime_pm THEN "SUSPENDED" ELSE pm_state
  /\ UNCHANGED <<runtime_pm, backOut, resumeInd, flagVars, cmdVars, tableVars,
                 workVars, rxVars, downVars>>

\* After the acknowledgement the target cannot be woken to mask its interrupts,
\* which starts a recovery, or the platform refuses a runtime suspend of the
\* link: the suspend fails and nobody resumes the target.
SuspendFailsLate ==
  /\ pm = "waiting" /\ cmd["suspend"] = "done"
  /\ GiveUp
  /\ recovery' = TRUE \/ (runtime_pm /\ UNCHANGED recovery)
  /\ UNCHANGED <<flagVars, cmd, tag, pending_cmds, tableVars, workVars, rxVars,
                 downVars>>

\* The copy engine is not idle in time: the target is resumed at once.
SuspendBacksOut ==
  /\ pm = "waiting" /\ cmd["suspend"] = "done"
  /\ pm' = "resuming" /\ backOut' = TRUE
  /\ UNCHANGED <<runtime_pm, pm_state, resumeInd, flagVars, cmdVars,
                 tableVars, workVars, rxVars, downVars>>

Resume ==
  /\ pm = "asleep"
  /\ pm' = "resuming"
  /\ pm_state' = IF runtime_pm THEN "INPROGRESS" ELSE pm_state
  /\ UNCHANGED <<runtime_pm, backOut, resumeInd, flagVars, cmdVars, tableVars,
                 workVars, rxVars, downVars>>

\* A plausible slip: every resume does.
AwaitsDrainAlways == TRUE
\* A runtime resume does not wait for the pending commands to drain.
AwaitsDrain == ~runtime_pm

ResumeSent ==
  /\ pm = "resuming"
  /\ cmd["resume"] \in {"queued", "issued", "done", "refused"}
  /\ pm' = IF AwaitsDrain THEN "polling" ELSE "delivered"
  /\ UNCHANGED <<runtime_pm, backOut, pm_state, resumeInd, flagVars, cmdVars,
                 tableVars, workVars, rxVars, downVars>>

\* The poll of wmi_get_pending_cmds ends when nothing is pending, or fails when
\* something still is after WMA_MAX_RESUME_RETRY sleeps of 10 ms.
PollEnds ==
  /\ pm = "polling"
  /\ pm' = IF pending_cmds = 0 THEN "delivered" ELSE "undelivered"
  /\ UNCHANGED <<runtime_pm, backOut, pm_state, resumeInd, flagVars, cmdVars,
                 tableVars, workVars, rxVars, downVars>>

\* The flag falls when the command was sent and delivered. A failed runtime
\* resume is fatal (VOS_BUG), a failed system resume leaves the device asleep
\* for the kernel; one that only backed a suspend out has no consequence.
ResumeEnds ==
  /\ pm \in {"delivered", "undelivered"}
  /\ LET ok == pm = "delivered" /\ cmd["resume"] # "refused" IN
     /\ is_target_suspended' = (is_target_suspended /\ ~ok)
     /\ IF ok \/ backOut THEN GiveUp
        ELSE pm' = "failed" /\ UNCHANGED <<runtime_pm, backOut, pm_state, resumeInd>>
  /\ UNCHANGED <<runtime_pm_inprogress, cmdVars, tableVars, workVars, rxVars,
                 downVars>>

\* wma_resume_req on the MC thread.
ResumeIndication ==
  /\ resumeInd
  /\ resumeInd' = FALSE /\ runtime_pm_inprogress' = FALSE
  /\ UNCHANGED <<pm, runtime_pm, backOut, pm_state, is_target_suspended,
                 cmdVars, tableVars, workVars, rxVars, downVars>>

-----------------------------------------------------------------------------
(* The handler table and the events.                                          *)
\* wmi_unified_get_event_handler_ix: the slots that hold a handler for the id.
Slots(i) == {k \in 0 .. max_event_idx - 1 : event_id[k] = i}

Register(i) ==
  /\ Up /\ Slots(i) = {} /\ max_event_idx # MaxEvent
  /\ event_id' = [event_id EXCEPT ![max_event_idx] = i]
  /\ max_event_idx' = max_event_idx + 1
  /\ UNCHANGED <<cmdVars, pmVars, flagVars, workVars, rxVars, downVars>>

\* wmi_control_rx in the tasklet. Three ids are handled there and then, or
\* dropped; the table cannot change meanwhile, since it is changed with the
\* tasklets off.
TaskletRx(i) ==
  /\ Up /\ isr /\ ~rx /\ pm # "asleep" /\ i \in TaskletIds \ arrived
  /\ arrived' = arrived \cup {i}
  /\ UNCHANGED <<event_queue, rx, cmdVars, pmVars, flagVars, tableVars,
                 workVars, downVars>>

QueueRx(i) ==
  /\ Up /\ isr /\ ~rx /\ pm # "asleep"
  /\ i \in (Ids \cup Unhandled) \ (TaskletIds \cup arrived)
  /\ arrived' = arrived \cup {i} /\ event_queue' = Append(event_queue, i)
  /\ rx' = TRUE
  /\ UNCHANGED <<cmdVars, pmVars, flagVars, tableVars, workVars, downVars>>

\* A plausible slip: it is not scheduled again while it runs.
ScheduleWorkIfIdle == scheduled' = (scheduled \/ work = "idle")
\* schedule_work does nothing when the work is already scheduled.
ScheduleWork == scheduled' = TRUE

RxSchedule ==
  /\ rx /\ rx' = FALSE /\ ScheduleWork
  /\ UNCHANGED <<event_queue, arrived, work, event, idx, called, cmdVars,
                 pmVars, flagVars, tableVars, downVars>>

WorkStart ==
  /\ scheduled /\ work = "idle"
  /\ scheduled' = FALSE /\ work' = "taking"
  /\ UNCHANGED <<event, idx, called, rxVars, cmdVars, pmVars, flagVars,
                 tableVars, downVars>>

WorkTake ==
  /\ work \in {"taking", "called"} /\ called' = NULL
  /\ IF event_queue = <<>>
     THEN work' = "ending" /\ event' = NULL /\ UNCHANGED event_queue
     ELSE /\ work' = "lookup" /\ event' = Head(event_queue)
          /\ event_queue' = Tail(event_queue)
  /\ UNCHANGED <<scheduled, idx, arrived, rx, cmdVars, pmVars, flagVars,
                 tableVars, downVars>>

WorkEnd ==
  /\ work = "ending" /\ work' = "idle"
  /\ UNCHANGED <<scheduled, event, idx, called, rxVars, cmdVars, pmVars,
                 flagVars, tableVars, downVars>>

\* __wmi_control_rx: a malformed event, or one without a handler, is freed.
WorkDrop ==
  /\ work = "lookup" /\ work' = "taking" /\ event' = NULL
  /\ UNCHANGED <<scheduled, idx, called, rxVars, cmdVars, pmVars, flagVars,
                 tableVars, downVars>>

WorkLookup ==
  /\ work = "lookup" /\ \E k \in Slots(event) : idx' = k
  /\ work' = "call"
  /\ UNCHANGED <<scheduled, event, called, rxVars, cmdVars, pmVars, flagVars,
                 tableVars, downVars>>

WorkCall ==
  /\ work = "call" /\ work' = "called" /\ called' = event_id[idx] /\ idx' = 0
  /\ UNCHANGED <<scheduled, event, rxVars, cmdVars, pmVars, flagVars, tableVars,
                 downVars>>

-----------------------------------------------------------------------------
(* Taking it down: vos_stop and vos_close when the driver is removed,         *)
(* vos_shutdown when the subsystem restarts. Nobody is inside                 *)
(* wmi_unified_cmd_send then (module VosSched).                               *)
\* A plausible slip: HTC is stopped after the handle was released.
TeardownStepsLateStop(o) ==
  IF o = "unload" THEN <<"work", "clear", "move", "detach", "htc">>
                  ELSE <<"clear", "move", "work", "detach", "htc">>
TeardownSteps(o) ==
  IF o = "unload" THEN <<"work", "htc", "clear", "move", "detach">>
                  ELSE <<"clear", "move", "work", "htc", "detach">>

TearDown ==
  /\ Up /\ pm \in {"awake", "failed"} /\ ~rx /\ ~\E c \in Cmds : Calling(c)
  /\ isr' = FALSE
  /\ order' \in {"unload", "ssr"} /\ todo' = TeardownSteps(order')
  /\ UNCHANGED <<cmdVars, pmVars, flagVars, tableVars, workVars, rxVars>>

Step(s) == todo # <<>> /\ Head(todo) = s /\ todo' = Tail(todo) /\ UNCHANGED isr

\* A plausible slip: it does not wait.
CancelledAtOnce == TRUE
\* vos_flush_work cancels the work and waits for it if it runs.
Cancelled == work = "idle"

\* wmi_unified_remove_work, the queue drained.
RemoveWork ==
  /\ Step("work") /\ Cancelled
  /\ scheduled' = FALSE /\ event_queue' = <<>>
  /\ UNCHANGED <<order, work, event, idx, called, arrived, rx, cmdVars,
                 pmVars, flagVars, tableVars>>

\* HTCStop completes what it still holds, as cancelled.
StopHtc ==
  /\ Step("htc")
  /\ Completed(AtHtc)
  /\ UNCHANGED <<order, tag, recovery, pmVars, flagVars, tableVars, workVars,
                 rxVars>>

\* wmi_unified_unregister_event_handler, by dbglog_deinit in WDA_close: the
\* slot is cleared, then filled with the last entry, which stays where it is.
UnregisterClear ==
  /\ Step("clear")
  /\ event_id' = [k \in DOMAIN event_id |->
                    IF k \in Slots(FwLog) THEN NULL ELSE event_id[k]]
  /\ UNCHANGED <<order, max_event_idx, workVars, rxVars, cmdVars, pmVars,
                 flagVars>>

UnregisterMove ==
  /\ Step("move")
  /\ LET last == max_event_idx - 1 IN
     IF Slots(NULL) = {} THEN UNCHANGED tableVars
     ELSE /\ max_event_idx' = last
          /\ event_id' = [k \in DOMAIN event_id |->
                IF k \in Slots(NULL) THEN event_id[last] ELSE event_id[k]]
  /\ UNCHANGED <<order, workVars, rxVars, cmdVars, pmVars, flagVars>>

\* wmi_unified_detach: once more the work and the queue, then the handle.
Detach ==
  /\ Step("detach") /\ Cancelled
  /\ scheduled' = FALSE /\ event_queue' = <<>> /\ order' = "detached"
  /\ UNCHANGED <<work, event, idx, called, arrived, rx, cmdVars, pmVars,
                 flagVars, tableVars>>

-----------------------------------------------------------------------------
Command(c) ==
  \/ CmdTest(c) \/ CmdInvalid(c) \/ CmdCount(c) \/ CmdLimit(c)
  \/ CmdNoPacket(c) \/ CmdSend(c) \/ HtcIssue(c) \/ TxComplete(c)
Power ==
  \/ RuntimeSuspend \/ SystemSuspend \/ SuspendNotSent \/ SuspendSent
  \/ SuspendTimeout \/ SuspendAcked \/ SuspendFailsLate \/ SuspendBacksOut
  \/ Resume
  \/ ResumeSent \/ PollEnds \/ ResumeEnds \/ ResumeIndication
Receive == \/ \E i \in Ids \cup Unhandled : TaskletRx(i) \/ QueueRx(i)
           \/ \E i \in Ids : Register(i)
           \/ RxSchedule
Work == WorkStart \/ WorkTake \/ WorkEnd \/ WorkDrop \/ WorkLookup \/ WorkCall
Down == \/ TearDown \/ RemoveWork \/ StopHtc \/ UnregisterClear
        \/ UnregisterMove \/ Detach
Next == (\E c \in Cmds : Command(c)) \/ Power \/ Receive \/ Work \/ Down

Spec == Init /\ [][Next]_vars

-----------------------------------------------------------------------------
(* Properties.                                                                *)

\* pending_cmds counts the callers between its increment and HTC, and what
\* HTC holds: every refusal after the increment, every completion and the
\* cancelling HTCStop takes exactly one back, whatever the interleaving.
PendingCounted == pending_cmds = Cardinality(Counted)

\* HTC never holds WMI_MAX_CMDS commands, though the test of the limit comes
\* after the increment and other callers count between the two.
BelowLimit == Cardinality(AtHtc) < MaxCmds

\* A queued event has work coming for it: the work is scheduled, or runs and
\* looks at the queue again, or the tasklet is about to schedule it.
EventNotStranded ==
  event_queue # <<>> => scheduled \/ work \notin {"idle", "ending"} \/ rx

\* __wmi_control_rx calls the handler registered for the event's id, though
\* it reads the table twice and without a lock. A restart unregisters a
\* handler before the work is cancelled, so only the driver's removal, which
\* does it after, is covered.
HandlerIsForEvent ==
  order # "ssr" /\ work = "called" => called = event

\* After wmi_unified_detach nobody has the handle: no command HTC could still
\* complete, no work, no queued event.
NothingAfterDetach ==
  ~Attached => AtHtc = {} /\ ~scheduled /\ work = "idle" /\ event_queue = <<>>

\* "In Resume we should never fail" (__hif_pci_runtime_resume): a runtime resume whose command
\* was sent lifts is_target_suspended, although HTC keeps commands pending until that resume is
\* over; and HTC never keeps back the two commands that resume and suspend wait for. A resume of
\* the system polls the pending commands and may fail: the flag then stays up.
AwakeIsUsable ==
  runtime_pm =>
    /\ pm \in {"awake", "failed"} /\ is_target_suspended => cmd["resume"] \in {"new", "refused"}
    /\ \A c \in {"suspend", "resume"} : cmd[c] = "queued" => Issuable(c)
=============================================================================
