------------------------------ MODULE VosSched ------------------------------
(***************************************************************************)
(* The VOSS scheduler (VOSS/src/vos_sched.c, vos_mq.c, vos_api.c): the     *)
(* main controller thread "mc" serves the message queues in a fixed order, *)
(* the thread "rx" serves the queue of received packets.  Three parties    *)
(* stop them: HDD suspends and resumes both when the system sleeps         *)
(* (wlan_hdd_cfg80211.c), subsystem restart (SSR) ends both, tears the     *)
(* driver down and opens it again (hif_pci_shutdown, hdd_wlan_shutdown,    *)
(* hif_pci_reinit), and SSR is kept out of the driver's entry points by    *)
(* ssr_protect_entry_count and isLogpInProgress.                           *)
(***************************************************************************)
EXTENDS Integers, Sequences, FiniteSets, SequencesExt, FiniteSetsExt

CONSTANTS
    McQueues,      \* the queues of the MC thread, in the order it serves them
    Wrappers,      \* aMsgWrappers: VOS_CORE_MAX_MESSAGES of them
    Packets,       \* VosTlshimPktFreeQ: VOSS_MAX_TLSHIM_PKT of them
    Calls,         \* contexts that call entry points of HDD other than suspend and resume
    Posters,       \* bound: contexts that post to one thread at a time
    MaxEntries,    \* bound: calls of entry points at a time
    LateAnswers    \* a thread may answer a suspend request just when the wait for it expires

Threads == {"mc", "rx"}
Procs == Threads \cup {"pm", "ssr"} \cup Calls
QueuesOf(t) == IF t = "mc" THEN McQueues ELSE <<"rxQueue">>
Queues == Range(McQueues) \cup {"rxQueue"}
ItemsOf(t) == IF t = "mc" THEN Wrappers ELSE Packets

ASSUME SchedAssumption ==
    /\ IsFiniteSet(Wrappers) /\ IsFiniteSet(Packets) /\ IsFiniteSet(Calls) /\ Wrappers \cap Packets = {}
    /\ McQueues \in Seq(STRING) /\ McQueues # <<>> /\ "rxQueue" \notin Range(McQueues)
    /\ Posters \in Nat /\ MaxEntries \in Nat
    /\ Calls \cap {"mc", "rx", "pm", "ssr"} = {} /\ LateAnswers \in BOOLEAN

VARIABLES
    pc,                         \* [Procs -> place in the code]
    eventFlag,                  \* [Threads -> set of POST, SUSPEND, SHUTDOWN]
    queue,                      \* [Queues -> Seq of wrappers or packets]
    free,                       \* [Threads -> set]: freeVosMq, VosTlshimPktFreeQ
    posting,                    \* [Threads -> Nat]: posters about to set POST
    hand,                       \* [Threads -> the item being processed, as <<i>> or <<>>]
    scan,                       \* [Threads -> the next of its queues to look at]
    suspended, resume, exited,  \* [Threads -> Nat]: the completions mc_sus_event_var and
                                \* SuspndTlshimRxEvent, Resume*Event, *Shutdown
    isThreadSuspended,          \* isMcThreadSuspended, isTlshimRxThreadSuspended
    isWiphySuspended,
    sleeping,                   \* the last suspend call succeeded and was not resumed
    givenUp,                    \* history: the threads HDD stopped waiting for when they had taken
                                \* the request, so that an answer nobody asked for is about
    ssr_protect_entry_count, isLogpInProgress,
    forced                      \* this restart did not wait for all entry points

flowVars == <<queue, free, posting, hand>>
evVars   == <<suspended, resume, exited>>
hddVars  == <<isThreadSuspended, isWiphySuspended, sleeping, givenUp>>
ssrVars  == <<ssr_protect_entry_count, isLogpInProgress, forced>>
vars     == <<pc, eventFlag, scan, flowVars, evVars, hddVars, ssrVars>>

Goto(p, label) == pc' = [pc EXCEPT ![p] = label]
Set(t, bits)   == eventFlag' = [eventFlag EXCEPT ![t] = @ \cup bits]
Clear(t, bits) == eventFlag' = [eventFlag EXCEPT ![t] = @ \ bits]
Complete(ev, t) == [ev EXCEPT ![t] = @ + 1]
Consume(ev, t)  == [ev EXCEPT ![t] = @ - 1]

----------------------------------------------------------------------------
\* vos_open and vos_sched_open have run, both threads wait
Init ==
    /\ pc = [p \in Procs |-> IF p \in Threads THEN "wait" ELSE "idle"]
    /\ eventFlag = [t \in Threads |-> {}] /\ scan = [t \in Threads |-> 1]
    /\ queue = [q \in Queues |-> <<>>] /\ free = [t \in Threads |-> ItemsOf(t)]
    /\ posting = [t \in Threads |-> 0] /\ hand = [t \in Threads |-> <<>>]
    /\ suspended = [t \in Threads |-> 0] /\ resume = [t \in Threads |-> 0]
    /\ exited = [t \in Threads |-> 0]
    /\ isThreadSuspended = [t \in Threads |-> FALSE] /\ isWiphySuspended = FALSE
    /\ sleeping = FALSE /\ givenUp = {}
    /\ ssr_protect_entry_count = 0 /\ isLogpInProgress = FALSE /\ forced = FALSE

----------------------------------------------------------------------------
(* Posters: vos_mq_post_message from any context, tlshim_data_rx_handler   *)
(* from the interrupt tasklet, which SSR stops.  A poster that finds no    *)
(* free item drops the message.                                            *)

InterruptsOn == pc["ssr"] \in {"idle", "waitReady"}

\* a free wrapper or packet is taken, filled in and put in the queue
Post(t) ==
    /\ posting[t] < Posters
    /\ t = "rx" => InterruptsOn
    /\ \E q \in Range(QueuesOf(t)), i \in free[t] :
          /\ queue' = [queue EXCEPT ![q] = Append(@, i)]
          /\ free' = [free EXCEPT ![t] = @ \ {i}]
    /\ posting' = [posting EXCEPT ![t] = @ + 1]
    /\ UNCHANGED <<pc, eventFlag, scan, hand, evVars, hddVars, ssrVars>>

\* seeded fault: the thread is not told
NotifyForgotten(t) ==
    /\ posting[t] > 0
    /\ posting' = [posting EXCEPT ![t] = @ - 1]
    /\ UNCHANGED <<pc, eventFlag, scan, queue, free, hand, evVars, hddVars, ssrVars>>

Notify(t) ==
    /\ posting[t] > 0
    /\ posting' = [posting EXCEPT ![t] = @ - 1]
    /\ Set(t, {"POST"})
    /\ UNCHANGED <<pc, scan, queue, free, hand, evVars, hddVars, ssrVars>>

----------------------------------------------------------------------------
(* VosMCThread and VosTlshimRxThread                                       *)

WaitEvent(t) ==
    /\ pc[t] = "wait" /\ eventFlag[t] \cap {"POST", "SUSPEND"} # {}
    /\ Clear(t, {"POST"})
    /\ Goto(t, "testShutdown")
    /\ UNCHANGED <<scan, flowVars, evVars, hddVars, ssrVars>>

\* the thread told to shut down answers a pending suspend request; only rx clears SHUTDOWN
Shutdown(t) ==
    /\ pc[t] = "testShutdown" /\ "SHUTDOWN" \in eventFlag[t]
    /\ Clear(t, {"SUSPEND"} \cup (IF t = "rx" THEN {"SHUTDOWN"} ELSE {}))
    /\ suspended' = IF "SUSPEND" \in eventFlag[t] THEN Complete(suspended, t) ELSE suspended
    /\ exited' = Complete(exited, t)
    /\ Goto(t, "exited")
    /\ UNCHANGED <<scan, flowVars, resume, hddVars, ssrVars>>

KeepRunning(t) ==
    /\ pc[t] = "testShutdown" /\ "SHUTDOWN" \notin eventFlag[t]
    /\ scan' = [scan EXCEPT ![t] = 1]
    /\ Goto(t, "scan")
    /\ UNCHANGED <<eventFlag, flowVars, evVars, hddVars, ssrVars>>

NextQueue(t) == QueuesOf(t)[scan[t]]

\* vos_is_mq_empty: on to the next queue, after the last one to the SUSPEND bit
Skip(t) ==
    /\ pc[t] = "scan" /\ queue[NextQueue(t)] = <<>>
    /\ scan' = [scan EXCEPT ![t] = IF @ = Len(QueuesOf(t)) THEN 1 ELSE @ + 1]
    /\ Goto(t, IF scan[t] = Len(QueuesOf(t)) THEN "testSuspend" ELSE "scan")
    /\ UNCHANGED <<eventFlag, flowVars, evVars, hddVars, ssrVars>>

Take(t) ==
    /\ pc[t] = "scan" /\ queue[NextQueue(t)] # <<>>
    /\ hand' = [hand EXCEPT ![t] = <<Head(queue[NextQueue(t)])>>]
    /\ queue' = [queue EXCEPT ![NextQueue(t)] = Tail(@)]
    /\ Goto(t, "process")
    /\ UNCHANGED <<eventFlag, scan, free, posting, evVars, hddVars, ssrVars>>

\* the message's handler or the packet's callback runs, then the item is free again; mc looks
\* at SHUTDOWN before the next message, rx when its queue is empty
ReturnedNever(t) == free[t]   \* seeded fault
Returned(t) == free[t] \cup Range(hand[t])

Process(t) ==
    /\ pc[t] = "process"
    /\ free' = [free EXCEPT ![t] = Returned(t)]
    /\ hand' = [hand EXCEPT ![t] = <<>>]
    /\ Goto(t, IF t = "mc" THEN "testShutdown" ELSE "scan")
    /\ UNCHANGED <<eventFlag, scan, queue, posting, evVars, hddVars, ssrVars>>

AllBitsCleared(t) == Clear(t, {"SUSPEND", "POST"})   \* seeded fault
SuspendBitCleared(t) == Clear(t, {"SUSPEND"})

TestSuspend(t) ==
    /\ pc[t] = "testSuspend"
    /\ SuspendBitCleared(t)
    /\ Goto(t, IF "SUSPEND" \in eventFlag[t] THEN "answer" ELSE "wait")
    /\ UNCHANGED <<scan, flowVars, evVars, hddVars, ssrVars>>

\* INIT_COMPLETION of the resume event, then the answer to HDD
Answer(t) ==
    /\ pc[t] = "answer"
    /\ resume' = [resume EXCEPT ![t] = 0]
    /\ suspended' = Complete(suspended, t)
    /\ Goto(t, "blocked")
    /\ UNCHANGED <<eventFlag, scan, flowVars, exited, hddVars, ssrVars>>

Resumed(t) ==
    /\ pc[t] = "blocked" /\ resume[t] > 0
    /\ resume' = Consume(resume, t)
    /\ Goto(t, "wait")
    /\ UNCHANGED <<eventFlag, scan, flowVars, suspended, exited, hddVars, ssrVars>>

Thread(t) ==
    \/ WaitEvent(t) \/ Shutdown(t) \/ KeepRunning(t) \/ Skip(t) \/ Take(t) \/ Process(t)
    \/ TestSuspend(t) \/ Answer(t) \/ Resumed(t)

----------------------------------------------------------------------------
(* Entry points.  Every one calls vos_ssr_protect, then                    *)
(* wlan_hdd_validate_context, and vos_ssr_unprotect when it returns.       *)

Enter(p, label) ==
    /\ ssr_protect_entry_count < MaxEntries
    /\ ssr_protect_entry_count' = ssr_protect_entry_count + 1
    /\ Goto(p, label)

\* wlan_hdd_validate_context refuses during a restart
Allowed == ~isLogpInProgress

Exit(p) ==
    /\ ssr_protect_entry_count' = ssr_protect_entry_count - 1
    /\ Goto(p, "idle")

Call(c) ==
    /\ pc[c] = "idle"
    /\ Enter(c, "validate")
    /\ UNCHANGED <<eventFlag, scan, flowVars, evVars, hddVars, isLogpInProgress, forced>>

Validate(c) ==
    /\ pc[c] = "validate"
    /\ IF Allowed THEN Goto(c, "inside") /\ UNCHANGED ssr_protect_entry_count ELSE Exit(c)
    /\ UNCHANGED <<eventFlag, scan, flowVars, evVars, hddVars, isLogpInProgress, forced>>

\* WLANTL_ClearSTAClient: vos_drop_rxpkt_by_staid frees the queued packets of a station; those
\* that are kept stay in their order
Dropped(S) ==
    LET q == queue["rxQueue"]
        kept == {i \in DOMAIN q : q[i] \notin S}
    IN /\ \E place \in [1..Cardinality(kept) -> kept] :
              /\ Range(place) = kept /\ \A j, k \in DOMAIN place : j < k => place[j] < place[k]
              /\ queue' = [queue EXCEPT !["rxQueue"] = [k \in DOMAIN place |-> q[place[k]]]]
       /\ free' = [free EXCEPT !["rx"] = @ \cup (S \cap Range(q))]

\* the body of a call: any work, here dropping the packets S of a station
Return(c, S) ==
    /\ pc[c] = "inside"
    /\ Dropped(S)
    /\ Exit(c)
    /\ UNCHANGED <<eventFlag, scan, posting, hand, evVars, hddVars, isLogpInProgress, forced>>

----------------------------------------------------------------------------
(* System sleep: wlan_hdd_cfg80211_suspend_wlan and _resume_wlan, called   *)
(* in turn by the thread "pm" of cfg80211.                                 *)

SuspendCall ==
    /\ pc["pm"] = "idle" /\ ~sleeping
    /\ Enter("pm", "suspendCalled")
    /\ UNCHANGED <<eventFlag, scan, flowVars, evVars, hddVars, isLogpInProgress, forced>>

\* refused during a restart, by an adapter that may not sleep or by a target that is not ready
SuspendRefused ==
    /\ pc["pm"] = "suspendCalled"
    /\ Exit("pm")
    /\ UNCHANGED <<eventFlag, scan, flowVars, evVars, hddVars, isLogpInProgress, forced>>

Await(t) == IF t = "mc" THEN "awaitMc" ELSE "awaitRx"

\* the target is ready to suspend: the MC thread is asked first
SuspendAllowed ==
    /\ pc["pm"] = "suspendCalled" /\ Allowed
    /\ Set("mc", {"SUSPEND"})
    /\ Goto("pm", "awaitMc")
    /\ UNCHANGED <<scan, flowVars, evVars, hddVars, ssrVars>>

\* the thread has answered: MC is followed by rx
Answered(t) ==
    /\ pc["pm"] = Await(t) /\ suspended[t] > 0
    /\ suspended' = Consume(suspended, t)
    /\ isThreadSuspended' = [isThreadSuspended EXCEPT ![t] = TRUE]
    /\ \/ t = "mc" /\ Set("rx", {"SUSPEND"}) /\ Goto("pm", "awaitRx") /\ UNCHANGED isWiphySuspended
       \/ t = "rx" /\ isWiphySuspended' = TRUE /\ Goto("pm", "suspendFw") /\ UNCHANGED eventFlag
    /\ UNCHANGED <<scan, flowVars, resume, exited, sleeping, givenUp, ssrVars>>

RequestLeft(t) == UNCHANGED eventFlag   \* seeded fault
RequestWithdrawn(t) == Clear(t, {"SUSPEND"})

\* wait_for_completion_timeout expired and the SUSPEND bit is taken back: too late, if the thread
\* has taken the request and is about to answer
Expired(t) ==
    /\ pc["pm"] = Await(t) /\ suspended[t] = 0
    /\ LateAnswers \/ "SUSPEND" \in eventFlag[t]
    /\ RequestWithdrawn(t)
    /\ givenUp' = IF "SUSPEND" \in eventFlag[t] THEN givenUp ELSE givenUp \cup {t}
    /\ IF t = "mc" THEN Exit("pm") ELSE Goto("pm", "resumeMc") /\ UNCHANGED ssr_protect_entry_count
    /\ UNCHANGED <<scan, flowVars, evVars, isThreadSuspended, isWiphySuspended, sleeping,
                   isLogpInProgress, forced>>

SuspendFwOk ==
    /\ pc["pm"] = "suspendFw"
    /\ sleeping' = TRUE
    /\ Exit("pm")
    /\ UNCHANGED <<eventFlag, scan, flowVars, evVars, isThreadSuspended, isWiphySuspended, givenUp,
                   isLogpInProgress, forced>>

\* seeded fault: fail_suspend jumps over resume_all
SuspendFwFailedTx ==
    /\ pc["pm"] = "suspendFw"
    /\ isWiphySuspended' = FALSE
    /\ resume' = Complete(resume, "rx")
    /\ isThreadSuspended' = [isThreadSuspended EXCEPT !["rx"] = FALSE]
    /\ Exit("pm")
    /\ UNCHANGED <<eventFlag, scan, flowVars, suspended, exited, sleeping, givenUp,
                   isLogpInProgress, forced>>

\* wma_suspend_fw failed: label fail_suspend
SuspendFwFailed ==
    /\ pc["pm"] = "suspendFw"
    /\ isWiphySuspended' = FALSE
    /\ resume' = Complete(resume, "rx")
    /\ isThreadSuspended' = [isThreadSuspended EXCEPT !["rx"] = FALSE]
    /\ Goto("pm", "resumeMc")
    /\ UNCHANGED <<eventFlag, scan, flowVars, suspended, exited, sleeping, givenUp, ssrVars>>

\* seeded fault: the record is kept
WakeUnrecorded(T) ==
    /\ resume' = [t \in Threads |-> resume[t] + (IF t \in T /\ isThreadSuspended[t] THEN 1 ELSE 0)]
    /\ UNCHANGED isThreadSuspended

\* complete the resume event of the threads that are recorded as suspended
Wake(T) ==
    /\ resume' = [t \in Threads |-> resume[t] + (IF t \in T /\ isThreadSuspended[t] THEN 1 ELSE 0)]
    /\ isThreadSuspended' = [t \in Threads |-> t \notin T /\ isThreadSuspended[t]]

\* label resume_all
ResumeMc ==
    /\ pc["pm"] = "resumeMc"
    /\ Wake({"mc"})
    /\ Exit("pm")
    /\ UNCHANGED <<eventFlag, scan, flowVars, suspended, exited, isWiphySuspended,
                   sleeping, givenUp, isLogpInProgress, forced>>

ResumeCall ==
    /\ pc["pm"] = "idle" /\ sleeping
    /\ sleeping' = FALSE
    /\ Enter("pm", "resumeCalled")
    /\ UNCHANGED <<eventFlag, scan, flowVars, evVars, isThreadSuspended, isWiphySuspended, givenUp,
                   isLogpInProgress, forced>>

\* refused during a restart, nothing to do after one
ResumeRefused ==
    /\ pc["pm"] = "resumeCalled" /\ (~Allowed \/ ~isWiphySuspended)
    /\ Exit("pm")
    /\ UNCHANGED <<eventFlag, scan, flowVars, evVars, hddVars, isLogpInProgress, forced>>

ResumeAllowed ==
    /\ pc["pm"] = "resumeCalled" /\ Allowed /\ isWiphySuspended
    /\ Goto("pm", "resumeFw")
    /\ UNCHANGED <<eventFlag, scan, flowVars, evVars, hddVars, ssrVars>>

ResumeFwOk ==
    /\ pc["pm"] = "resumeFw"
    /\ Wake(Threads)
    /\ isWiphySuspended' = FALSE
    /\ Exit("pm")
    /\ UNCHANGED <<eventFlag, scan, flowVars, suspended, exited, sleeping, givenUp,
                   isLogpInProgress, forced>>

\* a target that does not resume is fatal (VOS_BUG) unless a restart has begun
ResumeFwFailed ==
    /\ pc["pm"] = "resumeFw" /\ isLogpInProgress
    /\ Exit("pm")
    /\ UNCHANGED <<eventFlag, scan, flowVars, evVars, hddVars, isLogpInProgress, forced>>

\* the labels at which the call is past wlan_hdd_validate_context
PmInside == {"awaitMc", "awaitRx", "suspendFw", "resumeMc", "resumeFw"}

PmReturns ==
    \/ \E t \in Threads : Answered(t) \/ Expired(t)
    \/ SuspendRefused \/ SuspendAllowed \/ SuspendFwOk
    \/ SuspendFwFailed \/ ResumeMc \/ ResumeRefused \/ ResumeAllowed \/ ResumeFwOk
    \/ ResumeFwFailed

----------------------------------------------------------------------------
(* Subsystem restart: hif_pci_shutdown with hdd_wlan_shutdown, then        *)
(* hif_pci_reinit with hdd_wlan_re_init, called in turn by the platform.   *)

\* seeded fault: entry points are not told
SsrStartUnannounced ==
    /\ pc["ssr"] = "idle"
    /\ Goto("ssr", "waitReady")
    /\ UNCHANGED <<eventFlag, scan, flowVars, evVars, hddVars, ssrVars>>

SsrStart ==
    /\ pc["ssr"] = "idle"
    /\ isLogpInProgress' = TRUE
    /\ Goto("ssr", "waitReady")
    /\ UNCHANGED <<eventFlag, scan, flowVars, evVars, hddVars, ssr_protect_entry_count, forced>>

\* vos_is_ssr_ready
SsrReady ==
    /\ pc["ssr"] = "waitReady" /\ ssr_protect_entry_count = 0
    /\ Goto("ssr", "wakeThreads")
    /\ UNCHANGED <<eventFlag, scan, flowVars, evVars, hddVars, ssrVars>>

\* after MAX_SSR_WAIT_ITERATIONS the restart goes on whatever calls are in the driver; the
\* waits of suspend and resume are shorter than that
SsrNotReady ==
    /\ pc["ssr"] = "waitReady"
    /\ ssr_protect_entry_count > 0 /\ pc["pm"] \notin PmInside
    /\ forced' = TRUE
    /\ Goto("ssr", "wakeThreads")
    /\ UNCHANGED <<eventFlag, scan, flowVars, evVars, hddVars, ssr_protect_entry_count,
                   isLogpInProgress>>

\* seeded fault: a suspended thread is not woken
WakeNobody ==
    /\ pc["ssr"] = "wakeThreads" /\ posting["rx"] = 0
    /\ Goto("ssr", "stopMc")
    /\ UNCHANGED <<eventFlag, scan, flowVars, evVars, hddVars, ssrVars>>

\* hif_disable_isr frees the interrupts and waits for the tasklet; "Wakeup all driver threads"
WakeThreads ==
    /\ pc["ssr"] = "wakeThreads" /\ posting["rx"] = 0
    /\ Wake(Threads)
    /\ isWiphySuspended' = FALSE
    /\ Goto("ssr", "stopMc")
    /\ UNCHANGED <<eventFlag, scan, flowVars, suspended, exited, sleeping, givenUp, ssrVars>>

\* "Stop all the threads; we do not want any messages to be a processed any more"
StopThread(t, stop, await) ==
    /\ pc["ssr"] = stop
    /\ Set(t, {"SHUTDOWN", "POST"})
    /\ Goto("ssr", await)
    /\ UNCHANGED <<scan, flowVars, evVars, hddVars, ssrVars>>

\* seeded fault: the exit of the thread is not awaited
McNotAwaited ==
    /\ pc["ssr"] = "awaitMc"
    /\ Goto("ssr", "stopRx")
    /\ UNCHANGED <<eventFlag, scan, flowVars, evVars, hddVars, ssrVars>>

McStopped ==
    /\ pc["ssr"] = "awaitMc" /\ exited["mc"] > 0
    /\ exited' = Consume(exited, "mc")
    /\ Goto("ssr", "stopRx")
    /\ UNCHANGED <<eventFlag, scan, flowVars, suspended, resume, hddVars, ssrVars>>

\* the packets still queued and the free ones are freed
RxStopped ==
    /\ pc["ssr"] = "awaitRx" /\ exited["rx"] > 0
    /\ exited' = Consume(exited, "rx")
    /\ queue' = [queue EXCEPT !["rxQueue"] = <<>>]
    /\ free' = [free EXCEPT !["rx"] = {}]
    /\ Goto("ssr", "stopModules")
    /\ UNCHANGED <<eventFlag, scan, posting, hand, suspended, resume, hddVars, ssrVars>>

\* WDA_stop, sme_Stop, macStop and WLANTL_Stop, then vos_sched_flush_mc_mqs
StopModules ==
    /\ pc["ssr"] = "stopModules"
    /\ free' = [free EXCEPT !["mc"] = @ \cup UNION {Range(queue[q]) : q \in Range(McQueues)}]
    /\ queue' = [q \in Queues |-> IF q = "rxQueue" THEN queue[q] ELSE <<>>]
    /\ Goto("ssr", "down")
    /\ UNCHANGED <<eventFlag, scan, posting, hand, evVars, hddVars, ssrVars>>

\* vos_open and vos_sched_open set everything up again but mc_sus_event_var, which is HDD's.
\* The target reboots first, so no poster is still at work on the old queues.
Reopen ==
    /\ pc["ssr"] = "down" /\ posting["mc"] = 0
    /\ queue' = [q \in Queues |-> <<>>] /\ free' = [t \in Threads |-> ItemsOf(t)]
    /\ eventFlag' = [t \in Threads |-> {}] /\ scan' = [t \in Threads |-> 1]
    /\ suspended' = [suspended EXCEPT !["rx"] = 0]
    /\ resume' = [t \in Threads |-> 0] /\ exited' = [t \in Threads |-> 0]
    /\ givenUp' = givenUp \ {"rx"}
    /\ isLogpInProgress' = FALSE /\ forced' = FALSE
    /\ pc' = [p \in Procs |-> IF p \in Threads THEN "wait" ELSE IF p = "ssr" THEN "idle" ELSE pc[p]]
    /\ UNCHANGED <<posting, hand, isThreadSuspended, isWiphySuspended, sleeping, ssr_protect_entry_count>>

SsrGoesOn ==
    \/ SsrReady \/ SsrNotReady \/ WakeThreads
    \/ StopThread("mc", "stopMc", "awaitMc") \/ McStopped
    \/ StopThread("rx", "stopRx", "awaitRx") \/ RxStopped
    \/ StopModules \/ Reopen

----------------------------------------------------------------------------
Next ==
    \/ \E t \in Threads : Post(t) \/ Notify(t) \/ Thread(t)
    \/ \E c \in Calls : \/ Call(c) \/ Validate(c)
                         \/ \E S \in SUBSET Packets : Return(c, S)
    \/ SuspendCall \/ ResumeCall \/ PmReturns
    \/ SsrStart \/ SsrGoesOn

Spec == Init /\ [][Next]_vars

\* Threads that can run do run, a poster ends its post, calls of suspend and resume and a restart
\* that has begun go on.  A call inside the driver may be stuck for good.
FairSpec ==
    /\ Spec
    /\ \A t \in Threads : WF_vars(Thread(t)) /\ WF_vars(Notify(t))
    /\ WF_vars(PmReturns) /\ WF_vars(SsrGoesOn)
    /\ \A c \in Calls : WF_vars(Validate(c))

----------------------------------------------------------------------------
(* Properties *)

\* Every wrapper and every packet is in exactly one place: on the free list, in one queue, or
\* in the hand of the thread that processes it.  Packets are gone while the driver is down.
Places(t, i) ==
    Cardinality({q \in Queues : i \in Range(queue[q])})
    + (IF i \in free[t] THEN 1 ELSE 0) + (IF i \in Range(hand[t]) THEN 1 ELSE 0)

ItemsConserved ==
    \A t \in Threads : \A i \in ItemsOf(t) :
        Places(t, i) = IF t = "rx" /\ pc["ssr"] \in {"stopModules", "down"} THEN 0 ELSE 1

\* No wake-up is lost: a thread that sleeps with nothing to wake it, and that no poster is about
\* to wake, has empty queues, although it looks at its queues one after the other.
NoLostWakeup ==
    \A t \in Threads :
        /\ pc[t] = "wait" /\ eventFlag[t] \cap {"POST", "SUSPEND"} = {} /\ posting[t] = 0
        => \A q \in Range(QueuesOf(t)) : queue[q] = <<>>

\* A thread recorded as suspended is blocked, so nothing is processed while the system sleeps,
\* whatever became of the other thread.  Only the stale answer of a thread that HDD has given up
\* can make a false record of it, the one of mc even after a restart.
SuspendedIsBlocked == \A t \in Threads \ givenUp : isThreadSuspended[t] => pc[t] = "blocked"

\* a thread that is blocked until it is resumed is recorded as suspended, is being resumed, or
\* HDD is still about to take its answer
Known(t) ==
    pc[t] = "blocked" =>
        \/ isThreadSuspended[t] \/ resume[t] > 0
        \/ pc["pm"] = Await(t)

\* "Failed to stop mc thread": HDD knows of every thread that has stopped.
BlockedIsRecorded == \A t \in Threads : Known(t)

\* Giving up a thread that has taken its request is the only way to forget one: no failed
\* suspend, no request withdrawn in time, no restart and no trouble with the other thread does.
OnlyGivenUpForgotten == \A t \in Threads \ givenUp : Known(t)

TearingDown == {"wakeThreads", "stopMc", "awaitMc", "stopRx", "awaitRx", "stopModules", "down"}

\* No entry point is inside the driver while a restart tears it down, unless the restart gave
\* up waiting for a stuck one; suspend and resume never are.
NoEntryDuringTeardown ==
    pc["ssr"] \in TearingDown =>
        /\ pc["pm"] \notin PmInside
        /\ forced \/ \A c \in Calls : pc[c] # "inside"

\* "we do not want any messages to be a processed": from WDA_stop until VOSS is opened again
\* both threads are gone.
ThreadsGone ==
    pc["ssr"] \in {"stopModules", "down"} => \A t \in Threads : pc[t] = "exited"

\* A message or packet in a queue is processed or dropped, unless its thread is suspended or
\* a queue that is served first has work.
Served ==
    \A t \in Threads : \A k \in DOMAIN QueuesOf(t), i \in ItemsOf(t) :
        i \in Range(queue[QueuesOf(t)[k]])
        ~> \/ i \notin Range(queue[QueuesOf(t)[k]])
           \/ pc[t] = "blocked"
           \/ \E j \in 1..k - 1 : queue[QueuesOf(t)[j]] # <<>>

\* A restart ends, whatever thread is suspended, blocked or busy when it begins, and whatever
\* call is stuck.
RestartCompletes == pc["ssr"] # "idle" ~> pc["ssr"] = "idle"

\* A thread does not stay blocked unless the system sleeps: a suspend that fails half-way, a
\* resume and a restart each let both threads go on.
BlockedIsResumed ==
    \A t \in Threads : pc[t] = "blocked" ~> (pc[t] # "blocked" \/ sleeping)
=============================================================================
