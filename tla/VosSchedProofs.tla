--------------------------- MODULE VosSchedProofs ---------------------------
(***************************************************************************)
(* The invariants of the VOSS scheduler for any queues, pools and callers. *)
(*                                                                         *)
(* EntryInv: ssr_protect_entry_count is the number of callers between      *)
(* vos_ssr_protect and vos_ssr_unprotect, so that a restart that reads 0   *)
(* meets nobody inside, and none comes in later.                           *)
(*                                                                         *)
(* GoneInv: what each step of the restart waits for has happened at the    *)
(* later ones; a thread that has ended does not come back before Reopen.   *)
(*                                                                         *)
(* SuspendInv: for each thread, how its SUSPEND bit, its answer, its block *)
(* and HDD's record of it go together at every place of the thread, of HDD *)
(* and of the restart (ThreadInv).  A thread HDD gave up when it was about *)
(* to answer drops out of it: rx until VOSS is opened again, mc for good,  *)
(* because nothing re-initialises the completion of its answer.            *)
(*                                                                         *)
(* WakeupInv: if no post is half done and POST is clear, the queues this   *)
(* scan has passed are empty.  A thread sleeps after a whole scan.         *)
(*                                                                         *)
(* ItemInv: every wrapper and packet is in one of the places free, queue   *)
(* and hand, and no two places share one.                                  *)
(***************************************************************************)
EXTENDS VosSched, FiniteSetTheorems, SequenceTheorems, TLAPS

----------------------------------------------------------------------------
(* Who moves whom: a step changes the place of one process, but for Reopen *)

PcTypeOK == pc = [p \in Procs |-> pc[p]]

\* The processes are different.
LEMMA ProcsDiffer ==
    /\ "mc" \in Procs /\ "rx" \in Procs /\ "pm" \in Procs /\ "ssr" \in Procs
    /\ Threads \subseteq Procs /\ Calls \subseteq Procs
    /\ "pm" \notin Threads /\ "ssr" \notin Threads
    /\ \A c \in Calls : c \notin Threads /\ c # "pm" /\ c # "ssr"
  BY SchedAssumption DEF Procs, Threads

\* A thread's step moves the thread.
LEMMA ThreadMoves ==
    ASSUME NEW t \in Threads, Thread(t)
    PROVE  /\ \E l : pc' = [pc EXCEPT ![t] = l]
           /\ pc[t] # "exited"
           /\ UNCHANGED <<hddVars, ssrVars, posting>>
  BY DEF Thread, WaitEvent, Shutdown, KeepRunning, Skip, Take, Process, TestSuspend, Answer,
         Resumed, Goto, flowVars

\* A poster moves nobody.
LEMMA PosterMoves ==
    ASSUME NEW t \in Threads, Post(t) \/ Notify(t)
    PROVE  UNCHANGED <<pc, scan, hand, evVars, hddVars, ssrVars>>
  BY DEF Post, Notify

\* A call of an entry point moves the caller and leaves the flags alone.
LEMMA CallMoves ==
    ASSUME NEW c \in Calls, Call(c) \/ Validate(c) \/ \E S \in SUBSET Packets : Return(c, S)
    PROVE  /\ \E l \in {"validate", "inside", "idle"} : pc' = [pc EXCEPT ![c] = l]
           /\ UNCHANGED <<eventFlag, scan, posting, hand, evVars, hddVars, isLogpInProgress, forced>>
  BY DEF Call, Validate, Return, Enter, Exit, Goto, flowVars

\* Suspend and resume move "pm".
LEMMA PmMoves ==
    ASSUME SuspendCall \/ ResumeCall \/ PmReturns
    PROVE  /\ \E l : pc' = [pc EXCEPT !["pm"] = l]
           /\ UNCHANGED <<scan, flowVars, exited, isLogpInProgress, forced>>
  BY DEF SuspendCall, ResumeCall, PmReturns, Answered, Expired, SuspendRefused, SuspendAllowed,
         SuspendFwOk, SuspendFwFailed, ResumeMc, ResumeRefused, ResumeAllowed, ResumeFwOk,
         ResumeFwFailed, Enter, Exit, Goto, evVars, ssrVars

----------------------------------------------------------------------------
(* Entry points and the restart                                            *)

\* the calls that hold a count of ssr_protect_entry_count
Protected == {p \in Calls \cup {"pm"} : pc[p] # "idle"}

EntryInv ==
    /\ PcTypeOK /\ ssr_protect_entry_count \in Nat
    /\ ssr_protect_entry_count = Cardinality(Protected)
    /\ pc["ssr"] \in {"idle", "waitReady"} \cup TearingDown
    /\ isLogpInProgress = (pc["ssr"] # "idle")
    /\ NoEntryDuringTeardown

\* Protected is finite, so its cardinality is a number.
LEMMA ProtectedFinite == IsFiniteSet(Protected) /\ Cardinality(Protected) \in Nat
<1>1. IsFiniteSet(Calls \cup {"pm"})
  BY SchedAssumption, FS_Singleton, FS_Union
<1>2. IsFiniteSet(Protected)
  BY <1>1, FS_Subset DEF Protected
<1> QED
  BY <1>2, FS_CardinalityType

\* A caller that enters is counted once and one that returns is counted off; a caller gets inside
\* only when no restart tears the driver down.
LEMMA EntryMove ==
    ASSUME EntryInv, NEW p \in Calls \cup {"pm"}, NEW l, pc' = [pc EXCEPT ![p] = l],
           UNCHANGED <<isLogpInProgress, forced>>,
           ssr_protect_entry_count' =
             IF pc[p] = "idle" /\ l # "idle" THEN ssr_protect_entry_count + 1
             ELSE IF pc[p] # "idle" /\ l = "idle" THEN ssr_protect_entry_count - 1
             ELSE ssr_protect_entry_count,
           l \in PmInside \cup {"inside"} => pc["ssr"] \notin TearingDown
    PROVE  EntryInv'
<1> USE DEF EntryInv
<1>0. PcTypeOK' /\ pc'["ssr"] = pc["ssr"] /\ pc'[p] = l
  BY ProcsDiffer DEF PcTypeOK, Procs
<1>1. Protected' = IF l = "idle" THEN Protected \ {p} ELSE Protected \cup {p}
  BY ProcsDiffer DEF PcTypeOK, Protected, Procs
<1>2. ssr_protect_entry_count' = Cardinality(Protected')
  <2>1. p \in Protected <=> pc[p] # "idle"
    BY DEF Protected
  <2>2. CASE l = "idle"
    BY <1>1, <2>1, <2>2, ProtectedFinite, FS_RemoveElement
  <2>3. CASE l # "idle"
    BY <1>1, <2>1, <2>3, ProtectedFinite, FS_AddElement
  <2> QED
    BY <2>2, <2>3
<1>3. Cardinality(Protected') \in Nat
  BY <1>1, ProtectedFinite, FS_RemoveElement, FS_AddElement, FS_CardinalityType
<1>4. NoEntryDuringTeardown'
  <2> SUFFICES ASSUME pc["ssr"] \in TearingDown
               PROVE  pc'["pm"] \notin PmInside /\ (forced \/ \A c \in Calls : pc'[c] # "inside")
    BY <1>0 DEF NoEntryDuringTeardown
  <2>1. l \notin PmInside /\ l # "inside"
    OBVIOUS
  <2> QED
    BY <2>1, ProcsDiffer DEF NoEntryDuringTeardown, PcTypeOK, Procs
<1> QED
  BY <1>0, <1>2, <1>3, <1>4

\* The restart moves without a caller: it enters the teardown when nobody is inside, or says so.
LEMMA SsrMove ==
    ASSUME EntryInv, PcTypeOK', \A p \in Calls \cup {"pm"} : pc'[p] = pc[p],
           UNCHANGED ssr_protect_entry_count, isLogpInProgress' = (pc'["ssr"] # "idle"),
           pc'["ssr"] \in {"idle", "waitReady"} \cup TearingDown,
           pc'["ssr"] \in TearingDown =>
             \/ pc["ssr"] \in TearingDown /\ forced' = forced
             \/ pc["pm"] \notin PmInside /\ (forced' \/ \A c \in Calls : pc[c] # "inside")
    PROVE  EntryInv'
<1>1. Protected' = Protected
  BY DEF Protected
<1>2. NoEntryDuringTeardown'
  BY ProcsDiffer DEF EntryInv, NoEntryDuringTeardown
<1> QED
  BY <1>1, <1>2 DEF EntryInv

\* Every step keeps the count of calls and the restart out of their way.
LEMMA EntryStep == EntryInv /\ [Next]_vars => EntryInv'
<1> SUFFICES ASSUME EntryInv, [Next]_vars PROVE EntryInv'
  OBVIOUS
<1> USE DEF EntryInv
<1>1. ASSUME NEW t \in Threads, Post(t) \/ Notify(t) \/ Thread(t) PROVE EntryInv'
  <2>1. PcTypeOK' /\ \A p \in Procs \ Threads : pc'[p] = pc[p]
    BY <1>1, ThreadMoves, PosterMoves DEF PcTypeOK
  <2>2. UNCHANGED ssrVars
    BY <1>1, ThreadMoves, PosterMoves
  <2>3. /\ \A p \in Calls \cup {"pm"} : pc'[p] = pc[p]
        /\ pc'["ssr"] = pc["ssr"]
    BY <2>1, ProcsDiffer
  <2> QED
    BY <2>1, <2>2, <2>3, SsrMove DEF ssrVars, NoEntryDuringTeardown
<1>2. ASSUME NEW c \in Calls, Call(c) PROVE EntryInv'
  BY <1>2, EntryMove DEF Call, Enter, Goto, PmInside
<1>3. ASSUME NEW c \in Calls, Validate(c) PROVE EntryInv'
  BY <1>3, EntryMove DEF Validate, Allowed, Exit, Goto, PmInside, TearingDown
<1>4. ASSUME NEW c \in Calls, NEW S, Return(c, S) PROVE EntryInv'
  BY <1>4, EntryMove DEF Return, Exit, Goto, PmInside
<1>5. CASE SuspendCall \/ ResumeCall
  BY <1>5, EntryMove DEF SuspendCall, ResumeCall, Enter, Goto, PmInside
\* past the check of wlan_hdd_validate_context only when no restart has begun
<1>6. CASE SuspendAllowed \/ ResumeAllowed
  BY <1>6, EntryMove DEF SuspendAllowed, ResumeAllowed, Allowed, Goto, PmInside, TearingDown, ssrVars
\* inside already
<1>7. CASE SuspendFwFailed \/ \E t \in Threads : Answered(t)
  <2>1. pc["pm"] \in PmInside
    BY <1>7 DEF SuspendFwFailed, Answered, Await, PmInside
  <2>2. pc["ssr"] \notin TearingDown
    BY <2>1 DEF NoEntryDuringTeardown
  <2> QED
    BY <1>7, <2>1, <2>2, EntryMove DEF SuspendFwFailed, Answered, Await, Goto, PmInside, ssrVars
<1>8. ASSUME NEW t \in Threads, Expired(t) PROVE EntryInv'
  <2>1. pc["pm"] \in PmInside /\ pc["pm"] # "idle"
    BY <1>8 DEF Expired, Await, PmInside
  <2>2. pc["ssr"] \notin TearingDown
    BY <2>1 DEF NoEntryDuringTeardown
  <2> QED
    BY <1>8, <2>1, <2>2, EntryMove DEF Expired, Exit, Goto, PmInside, ssrVars
<1>9. CASE SuspendRefused \/ SuspendFwOk \/ ResumeMc \/ ResumeRefused \/ ResumeFwOk \/ ResumeFwFailed
  BY <1>9, EntryMove DEF SuspendRefused, SuspendFwOk, ResumeMc, ResumeRefused, ResumeFwOk,
       ResumeFwFailed, Exit, Goto, PmInside
\* the restart
<1>s. ASSUME NEW l, pc' = [pc EXCEPT !["ssr"] = l]
      PROVE  /\ PcTypeOK' /\ pc'["ssr"] = l
             /\ \A p \in Calls \cup {"pm"} : pc'[p] = pc[p]
  BY <1>s, ProcsDiffer DEF PcTypeOK, Procs
<1>10. CASE SsrStart
  <2>1. pc' = [pc EXCEPT !["ssr"] = "waitReady"]
    BY <1>10 DEF SsrStart, Goto
  <2>2. pc'["ssr"] = "waitReady" /\ "waitReady" \notin TearingDown
    BY <1>s, <2>1 DEF TearingDown
  <2> QED
    BY <1>10, <1>s, <2>1, <2>2, SsrMove DEF SsrStart
<1>11. CASE SsrReady
  <2>1. Protected = {}
    BY <1>11, ProtectedFinite, FS_EmptySet DEF SsrReady
  <2>2. pc["pm"] = "idle" /\ \A c \in Calls : pc[c] = "idle"
    BY <2>1 DEF Protected
  <2> QED
    BY <1>11, <1>s, <2>2, SsrMove DEF SsrReady, Goto, PmInside, TearingDown, ssrVars
<1>12. CASE SsrNotReady
  BY <1>12, <1>s, SsrMove DEF SsrNotReady, Goto, TearingDown
<1>13. CASE WakeThreads \/ McStopped \/ RxStopped \/ StopModules
            \/ StopThread("mc", "stopMc", "awaitMc") \/ StopThread("rx", "stopRx", "awaitRx")
  BY <1>13, <1>s, SsrMove DEF WakeThreads, McStopped, RxStopped, StopModules, StopThread, Goto,
       TearingDown, ssrVars
<1>14. CASE Reopen
  <2>1. PcTypeOK' /\ pc'["ssr"] = "idle" /\ \A p \in Calls \cup {"pm"} : pc'[p] = pc[p]
    BY <1>14, ProcsDiffer DEF Reopen, PcTypeOK, Procs, Threads
  <2> QED
    BY <1>14, <2>1, SsrMove DEF Reopen, TearingDown
<1>15. CASE UNCHANGED vars
  BY <1>15 DEF vars, ssrVars, PcTypeOK, Protected, NoEntryDuringTeardown
<1> QED
  BY <1>1, <1>2, <1>3, <1>4, <1>5, <1>6, <1>7, <1>8, <1>9, <1>10, <1>11, <1>12, <1>13, <1>14, <1>15
     DEF Next, PmReturns, SsrGoesOn

\* Nobody is protected at the start.
LEMMA EntryInit == Init => EntryInv
<1> SUFFICES ASSUME Init PROVE EntryInv
  OBVIOUS
<1>1. pc["ssr"] = "idle" /\ PcTypeOK /\ Protected = {}
  BY ProcsDiffer DEF Init, PcTypeOK, Protected, Procs, Threads
<1> QED
  BY <1>1, FS_EmptySet DEF Init, EntryInv, NoEntryDuringTeardown, TearingDown

\* A restart never tears the driver down under a suspend or resume, nor under any other call unless
\* it gave up waiting for one, for any number of callers.
THEOREM NoEntryDuringTeardownAlways == Spec => []NoEntryDuringTeardown
<1>1. EntryInv => NoEntryDuringTeardown
  BY DEF EntryInv
<1> QED
  BY <1>1, EntryInit, EntryStep, PTL DEF Spec

----------------------------------------------------------------------------
(* The threads end before the modules are stopped                          *)

\* a thread that has completed its *Shutdown event is gone, and stays gone when SSR has consumed it
GoneInv ==
    /\ PcTypeOK /\ exited \in [Threads -> Nat]
    /\ \A t \in Threads : exited[t] > 0 => pc[t] = "exited"
    /\ pc["ssr"] \in {"stopRx", "awaitRx", "stopModules", "down"} => pc["mc"] = "exited"
    /\ pc["ssr"] \in {"stopModules", "down"} => pc["rx"] = "exited"

\* A step that leaves the exited threads and the restart where they are keeps it.
LEMMA GoneFrame ==
    ASSUME GoneInv, PcTypeOK', UNCHANGED exited, pc'["ssr"] = pc["ssr"],
           \A t \in Threads : pc[t] = "exited" => pc'[t] = "exited"
    PROVE  GoneInv'
  BY DEF GoneInv, Threads

\* Every step keeps it: the restart goes past a thread only when the thread has said it is gone.
LEMMA GoneStep == GoneInv /\ [Next]_vars => GoneInv'
<1> SUFFICES ASSUME GoneInv, [Next]_vars PROVE GoneInv'
  OBVIOUS
<1>p. PcTypeOK /\ exited \in [Threads -> Nat]
  BY DEF GoneInv
<1>m. ASSUME NEW p \in Procs, NEW l, pc' = [pc EXCEPT ![p] = l]
      PROVE  PcTypeOK' /\ pc'[p] = l /\ \A r \in Procs : r # p => pc'[r] = pc[r]
  BY <1>p, <1>m DEF PcTypeOK
<1>1. ASSUME NEW t \in Threads, Post(t) \/ Notify(t) PROVE GoneInv'
  BY <1>1, <1>p, PosterMoves, GoneFrame DEF evVars, PcTypeOK
<1>2. ASSUME NEW t \in Threads, Shutdown(t) PROVE GoneInv'
  <2>1. pc' = [pc EXCEPT ![t] = "exited"] /\ exited' = [exited EXCEPT ![t] = @ + 1]
    BY <1>2 DEF Shutdown, Goto, Complete
  <2>2. PcTypeOK' /\ pc'[t] = "exited" /\ \A r \in Procs : r # t => pc'[r] = pc[r]
    BY <1>m, <2>1, ProcsDiffer
  <2>3. exited' \in [Threads -> Nat] /\ \A r \in Threads : r # t => exited'[r] = exited[r]
    BY <1>p, <2>1
  <2> QED
    BY <2>2, <2>3, ProcsDiffer DEF GoneInv, Threads
<1>3. ASSUME NEW t \in Threads, Thread(t), ~Shutdown(t) PROVE GoneInv'
  <2>1. UNCHANGED exited
    BY <1>3 DEF Thread, WaitEvent, KeepRunning, Skip, Take, Process, TestSuspend, Answer, Resumed,
         evVars
  <2>2. \E l : pc' = [pc EXCEPT ![t] = l] /\ pc[t] # "exited"
    BY <1>3, ThreadMoves
  <2> QED
    BY <1>m, <2>1, <2>2, ProcsDiffer, GoneFrame
<1>4. ASSUME NEW c \in Calls, Call(c) \/ Validate(c) \/ \E S \in SUBSET Packets : Return(c, S)
      PROVE  GoneInv'
  BY <1>4, <1>m, CallMoves, ProcsDiffer, GoneFrame DEF evVars
<1>5. CASE SuspendCall \/ ResumeCall \/ PmReturns
  BY <1>5, <1>m, PmMoves, ProcsDiffer, GoneFrame
<1>s. ASSUME NEW l, pc' = [pc EXCEPT !["ssr"] = l]
      PROVE  PcTypeOK' /\ pc'["ssr"] = l /\ pc'["mc"] = pc["mc"] /\ pc'["rx"] = pc["rx"]
  BY <1>m, <1>s, ProcsDiffer DEF Threads
<1>6. CASE SsrStart \/ SsrReady \/ SsrNotReady \/ WakeThreads \/ StopThread("mc", "stopMc", "awaitMc")
  BY <1>6, <1>s DEF SsrStart, SsrReady, SsrNotReady, WakeThreads, StopThread, Goto, evVars, GoneInv,
       Threads
<1>7. CASE McStopped
  <2>1. exited["mc"] > 0 /\ exited' = [exited EXCEPT !["mc"] = @ - 1] /\ pc' = [pc EXCEPT !["ssr"] = "stopRx"]
    BY <1>7 DEF McStopped, Goto, Consume
  <2>2. PcTypeOK' /\ pc'["ssr"] = "stopRx" /\ pc'["mc"] = pc["mc"] /\ pc'["rx"] = pc["rx"]
    BY <1>s, <2>1
  <2>3. exited' \in [Threads -> Nat] /\ \A t \in Threads : exited'[t] > 0 => exited[t] > 0
    BY <1>p, <2>1 DEF Threads
  <2>4. pc["mc"] = "exited" /\ (pc["ssr"] = "awaitRx" => pc["mc"] = "exited")
    BY <2>1 DEF GoneInv, Threads
  <2> QED
    BY <1>7, <2>2, <2>3, <2>4 DEF McStopped, GoneInv, Threads
<1>8. CASE StopThread("rx", "stopRx", "awaitRx") \/ StopModules
  BY <1>8, <1>s DEF StopThread, StopModules, Goto, evVars, GoneInv, Threads
<1>9. CASE RxStopped
  <2>1. exited["rx"] > 0 /\ exited' = [exited EXCEPT !["rx"] = @ - 1] /\ pc' = [pc EXCEPT !["ssr"] = "stopModules"]
    BY <1>9 DEF RxStopped, Goto, Consume
  <2>2. PcTypeOK' /\ pc'["ssr"] = "stopModules" /\ pc'["mc"] = pc["mc"] /\ pc'["rx"] = pc["rx"]
    BY <1>s, <2>1
  <2>3. exited' \in [Threads -> Nat] /\ \A t \in Threads : exited'[t] > 0 => exited[t] > 0
    BY <1>p, <2>1 DEF Threads
  <2>4. pc["rx"] = "exited" /\ (pc["ssr"] = "awaitRx" => pc["mc"] = "exited")
    BY <2>1 DEF GoneInv, Threads
  <2> QED
    BY <1>9, <2>2, <2>3, <2>4 DEF RxStopped, GoneInv, Threads
<1>10. CASE Reopen
  <2>1. PcTypeOK' /\ pc'["ssr"] = "idle" /\ exited' = [t \in Threads |-> 0]
    BY <1>10, ProcsDiffer DEF Reopen, PcTypeOK
  <2> QED
    BY <2>1 DEF GoneInv
<1>11. CASE UNCHANGED vars
  BY <1>11, <1>p, GoneFrame DEF vars, evVars, PcTypeOK
<1> QED
  BY <1>1, <1>2, <1>3, <1>4, <1>5, <1>6, <1>7, <1>8, <1>9, <1>10, <1>11 DEF Next, SsrGoesOn

\* From WDA_stop until VOSS is opened again both threads are gone.
THEOREM ThreadsGoneAlways == Spec => []ThreadsGone
<1>1. Init => GoneInv
  BY ProcsDiffer DEF Init, GoneInv, PcTypeOK
<1>2. GoneInv => ThreadsGone
  BY DEF GoneInv, ThreadsGone, Threads
<1> QED
  BY <1>1, <1>2, GoneStep, PTL DEF Spec

----------------------------------------------------------------------------
(* Suspend and resume.  HDD's record agrees with every thread but those it *)
(* gave up when they were about to answer.                                 *)

SuspendTypeOK ==
    /\ eventFlag \in [Threads -> SUBSET {"POST", "SUSPEND", "SHUTDOWN"}]
    /\ suspended \in [Threads -> Nat] /\ resume \in [Threads -> Nat]
    /\ isThreadSuspended \in [Threads -> BOOLEAN]
    /\ isWiphySuspended \in BOOLEAN /\ sleeping \in BOOLEAN
    /\ givenUp \subseteq Threads

\* where the call of suspend or resume may be while the thread is recorded as suspended
AfterAnswer(t) ==
    {"suspendFw", "resumeCalled", "resumeFw"} \cup (IF t = "mc" THEN {"awaitRx", "resumeMc"} ELSE {})

\* a request is pending only while HDD waits for it, and an old block is on its way out
Asked(t) ==
    "SUSPEND" \in eventFlag[t] =>
        /\ pc["pm"] = Await(t) /\ suspended[t] = 0 /\ pc[t] # "answer" /\ ~isThreadSuspended[t]
        /\ pc[t] = "blocked" => resume[t] > 0

\* a thread answers only while HDD waits for it
Answering(t) ==
    pc[t] = "answer" => pc["pm"] = Await(t) /\ suspended[t] = 0 /\ ~isThreadSuspended[t]

\* an answer not yet taken is that of the block the thread is in
AnswerLeft(t) ==
    suspended[t] > 0 =>
        /\ pc["pm"] = Await(t) /\ suspended[t] = 1 /\ ~isThreadSuspended[t]
        /\ pc[t] = "blocked" /\ resume[t] = 0

\* a recorded thread is blocked for good, and the call that will resume it knows
Recorded(t) ==
    isThreadSuspended[t] =>
        /\ pc[t] = "blocked" /\ resume[t] = 0
        /\ \/ pc["pm"] \in AfterAnswer(t)
           \/ pc["pm"] = "idle" /\ sleeping
           \/ pc["pm"] \in {"idle", "suspendCalled"} /\ pc["ssr"] \in {"waitReady", "wakeThreads"}
        /\ sleeping \/ pc["pm"] \in {"suspendFw", "resumeCalled", "resumeFw"} => isWiphySuspended
        /\ pc["ssr"] \notin TearingDown \ {"wakeThreads"}

Blocked(t) ==
    pc[t] = "blocked" => isThreadSuspended[t] \/ resume[t] > 0 \/ pc["pm"] = Await(t)

ToldToStop(t) == "SHUTDOWN" \in eventFlag[t] => pc["ssr"] \in TearingDown

ThreadInv(t) ==
    Asked(t) /\ Answering(t) /\ AnswerLeft(t) /\ Recorded(t) /\ Blocked(t) /\ ToldToStop(t)

\* the restart has cleared every record before it stops a thread
Cleared == pc["ssr"] \in TearingDown \ {"wakeThreads"} => \A t \in Threads : ~isThreadSuspended[t]

SuspendInv ==
    /\ EntryInv /\ SuspendTypeOK
    /\ sleeping => pc["pm"] = "idle"
    /\ Cleared
    /\ \A t \in Threads \ givenUp : ThreadInv(t)

\* A step that sets no SUSPEND or SHUTDOWN bit, leaves HDD and the restart where they are, and
\* neither blocks a thread nor lets one go.
LEMMA SuspendFrame ==
    ASSUME SuspendInv, EntryInv', UNCHANGED <<suspended, resume, hddVars>>,
           eventFlag' \in [Threads -> SUBSET {"POST", "SUSPEND", "SHUTDOWN"}],
           \A t \in Threads : /\ "SUSPEND" \in eventFlag'[t] => "SUSPEND" \in eventFlag[t]
                              /\ "SHUTDOWN" \in eventFlag'[t] => "SHUTDOWN" \in eventFlag[t],
           pc'["pm"] = pc["pm"], pc'["ssr"] = pc["ssr"],
           \A t \in Threads : \/ pc'[t] = pc[t]
                              \/ pc[t] # "blocked" /\ pc'[t] \notin {"answer", "blocked"}
    PROVE  SuspendInv'
<1>1. SuspendTypeOK'
  BY DEF SuspendInv, SuspendTypeOK, hddVars
<1>2. ASSUME NEW t \in Threads \ givenUp PROVE ThreadInv(t)'
  BY <1>2 DEF SuspendInv, ThreadInv, Asked, Answering, AnswerLeft, Recorded, Blocked, ToldToStop, hddVars
<1>3. Cleared'
  BY DEF SuspendInv, Cleared, hddVars
<1> QED
  BY <1>1, <1>2, <1>3 DEF SuspendInv, hddVars

\* Every step of a thread keeps the record.
LEMMA SuspendThreadStep ==
    ASSUME SuspendInv, EntryInv', NEW t \in Threads, Thread(t)
    PROVE  SuspendInv'
<1>p. /\ SuspendTypeOK /\ PcTypeOK /\ Cleared /\ \A r \in Threads \ givenUp : ThreadInv(r)
      /\ sleeping => pc["pm"] = "idle"
  BY DEF SuspendInv, EntryInv
<1>m. ASSUME NEW l, pc' = [pc EXCEPT ![t] = l]
      PROVE  /\ pc'[t] = l /\ pc'["pm"] = pc["pm"] /\ pc'["ssr"] = pc["ssr"]
             /\ \A r \in Threads : r # t => pc'[r] = pc[r]
  BY <1>m, <1>p, ProcsDiffer DEF PcTypeOK
\* what becomes of a thread that was given up does not matter, if the other one is left alone
<1>g. CASE t \in givenUp
  <2>1. (\E l : pc' = [pc EXCEPT ![t] = l]) /\ UNCHANGED hddVars
    BY ThreadMoves
  <2>2. \/ UNCHANGED eventFlag
        \/ \E b \in SUBSET {"POST", "SUSPEND", "SHUTDOWN"} : eventFlag' = [eventFlag EXCEPT ![t] = @ \ b]
    BY DEF Thread, WaitEvent, Shutdown, KeepRunning, Skip, Take, Process, TestSuspend, Answer,
           Resumed, Clear, SuspendBitCleared
  <2>3. UNCHANGED suspended \/ suspended' = [suspended EXCEPT ![t] = @ + 1]
    BY DEF Thread, WaitEvent, Shutdown, KeepRunning, Skip, Take, Process, TestSuspend, Answer,
           Resumed, Complete, evVars
  <2>4. \/ UNCHANGED resume \/ resume' = [resume EXCEPT ![t] = 0]
        \/ resume[t] > 0 /\ resume' = [resume EXCEPT ![t] = @ - 1]
    BY DEF Thread, WaitEvent, Shutdown, KeepRunning, Skip, Take, Process, TestSuspend, Answer,
           Resumed, Consume, evVars
  <2>5. SuspendTypeOK'
    BY <1>p, <2>1, <2>2, <2>3, <2>4 DEF SuspendTypeOK, hddVars
  <2>6. pc'["pm"] = pc["pm"] /\ pc'["ssr"] = pc["ssr"] /\ \A r \in Threads : r # t => pc'[r] = pc[r]
    BY <1>m, <2>1
  <2>7. ASSUME NEW r \in Threads \ givenUp PROVE ThreadInv(r)'
    <3>1. /\ r # t /\ pc'[r] = pc[r]
          /\ UNCHANGED <<eventFlag[r], suspended[r], resume[r], isThreadSuspended[r]>>
          /\ UNCHANGED <<sleeping, isWiphySuspended>>
      BY <1>p, <1>g, <2>1, <2>2, <2>3, <2>4, <2>6 DEF SuspendTypeOK, hddVars
    <3> QED
      BY <1>p, <2>6, <3>1 DEF ThreadInv, Asked, Answering, AnswerLeft, Recorded, Blocked, ToldToStop
  <2>8. Cleared'
    BY <1>p, <2>1, <2>6 DEF Cleared, hddVars
  <2> QED
    BY <1>p, <2>1, <2>5, <2>6, <2>7, <2>8 DEF SuspendInv, hddVars
<1>u. SUFFICES ASSUME t \notin givenUp PROVE SuspendInv'
  BY <1>g
<1>c. ASSUME UNCHANGED hddVars, pc'["ssr"] = pc["ssr"] PROVE Cleared'
  BY <1>c, <1>p DEF Cleared, hddVars
<1>1. CASE WaitEvent(t) \/ KeepRunning(t) \/ Skip(t) \/ Take(t) \/ Process(t)
  <2>1. \E l \in {"testShutdown", "scan", "testSuspend", "process"} :
            pc' = [pc EXCEPT ![t] = l] /\ pc[t] # "blocked"
    BY <1>1 DEF WaitEvent, KeepRunning, Skip, Take, Process, Goto
  <2>2. UNCHANGED <<suspended, resume, hddVars>>
    BY <1>1 DEF WaitEvent, KeepRunning, Skip, Take, Process, evVars
  <2>3. eventFlag' = eventFlag \/ eventFlag' = [eventFlag EXCEPT ![t] = @ \ {"POST"}]
    BY <1>1 DEF WaitEvent, KeepRunning, Skip, Take, Process, Clear
  <2>4. /\ eventFlag' \in [Threads -> SUBSET {"POST", "SUSPEND", "SHUTDOWN"}]
        /\ \A r \in Threads : eventFlag'[r] \subseteq eventFlag[r]
    BY <1>p, <2>3 DEF SuspendTypeOK
  <2>5. \A r \in Threads : \/ pc'[r] = pc[r]
                           \/ pc[r] # "blocked" /\ pc'[r] \notin {"answer", "blocked"}
    BY <1>m, <2>1
  <2> QED
    BY <1>m, <2>1, <2>2, <2>4, <2>5, SuspendFrame
\* told to shut down: no request is pending any more
<1>2. CASE Shutdown(t)
  <2>1. "SUSPEND" \notin eventFlag[t]
    <3>1. pc["ssr"] \in TearingDown
      BY <1>2, <1>p, <1>u DEF Shutdown, ThreadInv, ToldToStop
    <3>2. pc["pm"] \notin PmInside
      BY <3>1 DEF SuspendInv, EntryInv, NoEntryDuringTeardown
    <3> QED
      BY <1>p, <1>u, <3>2 DEF ThreadInv, Asked, Await, PmInside
  <2>2. UNCHANGED <<suspended, resume, hddVars>>
    BY <1>2, <2>1 DEF Shutdown
  <2>3. \E b \in SUBSET {"POST", "SUSPEND", "SHUTDOWN"} : eventFlag' = [eventFlag EXCEPT ![t] = @ \ b]
    BY <1>2 DEF Shutdown, Clear
  <2>4. /\ eventFlag' \in [Threads -> SUBSET {"POST", "SUSPEND", "SHUTDOWN"}]
        /\ \A r \in Threads : eventFlag'[r] \subseteq eventFlag[r]
    BY <1>p, <2>3 DEF SuspendTypeOK
  <2>5. pc' = [pc EXCEPT ![t] = "exited"] /\ pc[t] # "blocked"
    BY <1>2 DEF Shutdown, Goto
  <2>6. \A r \in Threads : \/ pc'[r] = pc[r]
                           \/ pc[r] # "blocked" /\ pc'[r] \notin {"answer", "blocked"}
    BY <1>m, <2>5
  <2> QED
    BY <1>m, <2>2, <2>4, <2>5, <2>6, SuspendFrame
<1>3. CASE TestSuspend(t)
  <2>1. /\ eventFlag' = [eventFlag EXCEPT ![t] = @ \ {"SUSPEND"}]
        /\ pc' = [pc EXCEPT ![t] = IF "SUSPEND" \in eventFlag[t] THEN "answer" ELSE "wait"]
        /\ pc[t] = "testSuspend" /\ UNCHANGED <<suspended, resume, hddVars>>
    BY <1>3 DEF TestSuspend, SuspendBitCleared, Clear, Goto, evVars
  <2>2. SuspendTypeOK'
    BY <1>p, <2>1 DEF SuspendTypeOK, hddVars
  <2>3. ASSUME NEW r \in Threads \ givenUp PROVE ThreadInv(r)'
    <3>1. CASE r = t
      <4>1. /\ pc'[t] = (IF "SUSPEND" \in eventFlag[t] THEN "answer" ELSE "wait")
            /\ eventFlag'[t] = eventFlag[t] \ {"SUSPEND"} /\ pc[t] = "testSuspend"
            /\ UNCHANGED <<suspended[t], resume[t], isThreadSuspended[t]>>
            /\ UNCHANGED <<pc["pm"], pc["ssr"], sleeping, isWiphySuspended>>
        BY <1>p, <1>m, <2>1, <1>3 DEF SuspendTypeOK, hddVars, Resumed
      <4>2. suspended[t] \in Nat /\ resume[t] \in Nat
        BY <1>p DEF SuspendTypeOK
      <4> QED
        BY <1>p, <3>1, <4>1, <4>2 DEF ThreadInv, Asked, Answering, AnswerLeft, Recorded, Blocked,
             ToldToStop
    <3>2. CASE r # t
      BY <1>p, <1>m, <2>1, <3>2 DEF SuspendTypeOK, ThreadInv, Asked, Answering, AnswerLeft, Recorded,
           Blocked, ToldToStop, hddVars
    <3> QED
      BY <3>1, <3>2
  <2> QED
    BY <1>p, <1>m, <1>c, <2>1, <2>2, <2>3 DEF SuspendInv, hddVars
<1>4. CASE Answer(t)
  <2>1. /\ resume' = [resume EXCEPT ![t] = 0] /\ suspended' = [suspended EXCEPT ![t] = @ + 1]
        /\ pc' = [pc EXCEPT ![t] = "blocked"] /\ pc[t] = "answer" /\ UNCHANGED <<eventFlag, hddVars>>
    BY <1>4 DEF Answer, Complete, Goto
  <2>2. SuspendTypeOK'
    BY <1>p, <2>1 DEF SuspendTypeOK, hddVars
  <2>3. ASSUME NEW r \in Threads \ givenUp PROVE ThreadInv(r)'
    <3>1. CASE r = t
      <4>1. /\ pc'[t] = "blocked" /\ pc[t] = "answer" /\ resume'[t] = 0 /\ suspended'[t] = suspended[t] + 1
            /\ UNCHANGED <<eventFlag[t], isThreadSuspended[t]>>
            /\ UNCHANGED <<pc["pm"], pc["ssr"], sleeping, isWiphySuspended>>
        BY <1>p, <1>m, <2>1, <1>4 DEF SuspendTypeOK, hddVars, Resumed
      <4>2. suspended[t] \in Nat /\ resume[t] \in Nat
        BY <1>p DEF SuspendTypeOK
      <4> QED
        BY <1>p, <3>1, <4>1, <4>2 DEF ThreadInv, Asked, Answering, AnswerLeft, Recorded, Blocked,
             ToldToStop
    <3>2. CASE r # t
      BY <1>p, <1>m, <2>1, <3>2 DEF SuspendTypeOK, ThreadInv, Asked, Answering, AnswerLeft, Recorded,
           Blocked, ToldToStop, hddVars
    <3> QED
      BY <3>1, <3>2
  <2> QED
    BY <1>p, <1>m, <1>c, <2>1, <2>2, <2>3 DEF SuspendInv, hddVars
<1>5. CASE Resumed(t)
  <2>1. /\ resume[t] > 0 /\ resume' = [resume EXCEPT ![t] = @ - 1]
        /\ pc' = [pc EXCEPT ![t] = "wait"] /\ UNCHANGED <<eventFlag, suspended, hddVars>>
    BY <1>5 DEF Resumed, Consume, Goto
  <2>2. SuspendTypeOK'
    BY <1>p, <2>1 DEF SuspendTypeOK, hddVars
  <2>3. ASSUME NEW r \in Threads \ givenUp PROVE ThreadInv(r)'
    <3>1. CASE r = t
      <4>1. /\ pc'[t] = "wait" /\ pc[t] = "blocked" /\ resume[t] > 0
            /\ UNCHANGED <<eventFlag[t], suspended[t], isThreadSuspended[t]>>
            /\ UNCHANGED <<pc["pm"], pc["ssr"], sleeping, isWiphySuspended>>
        BY <1>p, <1>m, <2>1, <1>5 DEF SuspendTypeOK, hddVars, Resumed
      <4>2. suspended[t] \in Nat /\ resume[t] \in Nat
        BY <1>p DEF SuspendTypeOK
      <4> QED
        BY <1>p, <3>1, <4>1, <4>2 DEF ThreadInv, Asked, Answering, AnswerLeft, Recorded, Blocked,
             ToldToStop
    <3>2. CASE r # t
      BY <1>p, <1>m, <2>1, <3>2 DEF SuspendTypeOK, ThreadInv, Asked, Answering, AnswerLeft, Recorded,
           Blocked, ToldToStop, hddVars
    <3> QED
      BY <3>1, <3>2
  <2> QED
    BY <1>p, <1>m, <1>c, <2>1, <2>2, <2>3 DEF SuspendInv, hddVars
<1> QED
  BY <1>1, <1>2, <1>3, <1>4, <1>5 DEF Thread

\* Waking threads completes the resume event of those recorded and clears their record.
LEMMA WakeEffect ==
    ASSUME SuspendTypeOK, NEW T \in SUBSET Threads, Wake(T)
    PROVE  /\ resume' \in [Threads -> Nat] /\ isThreadSuspended' \in [Threads -> BOOLEAN]
           /\ \A r \in T : ~isThreadSuspended'[r] /\ resume'[r] >= resume[r]
                           /\ (isThreadSuspended[r] => resume'[r] > 0)
           /\ \A r \in Threads \ T : UNCHANGED <<resume[r], isThreadSuspended[r]>>
<1>1. ASSUME NEW r \in Threads
      PROVE  /\ resume'[r] = resume[r] + (IF r \in T /\ isThreadSuspended[r] THEN 1 ELSE 0)
             /\ isThreadSuspended'[r] = (r \notin T /\ isThreadSuspended[r])
             /\ resume[r] \in Nat /\ isThreadSuspended[r] \in BOOLEAN
  BY <1>1 DEF Wake, SuspendTypeOK
<1>2. /\ resume' = [r \in Threads |-> resume'[r]]
      /\ isThreadSuspended' = [r \in Threads |-> isThreadSuspended'[r]]
  BY DEF Wake
<1>3. ASSUME NEW r \in Threads
      PROVE  resume'[r] \in Nat /\ isThreadSuspended'[r] \in BOOLEAN /\ resume'[r] >= resume[r]
  <2>1. resume'[r] \in {resume[r], resume[r] + 1}
    BY <1>1
  <2>2. isThreadSuspended'[r] \in BOOLEAN
    BY <1>1, Zenon
  <2> QED
    BY <1>1, <2>1, <2>2
<1>4. resume' \in [Threads -> Nat]
  BY <1>2, <1>3
<1>4b. isThreadSuspended' \in [Threads -> BOOLEAN]
  BY <1>2, <1>3, Zenon
<1>5. ASSUME NEW r \in T
      PROVE  ~isThreadSuspended'[r] /\ (isThreadSuspended[r] => resume'[r] > 0)
  <2>1. r \in Threads
    BY <1>5
  <2>2. ~isThreadSuspended'[r]
    BY <1>1, <1>5, <2>1, Zenon
  <2>3. isThreadSuspended[r] => resume'[r] = resume[r] + 1
    BY <1>1, <1>5, <2>1
  <2> QED
    BY <1>1, <2>1, <2>2, <2>3
<1>6. ASSUME NEW r \in Threads \ T
      PROVE  resume'[r] = resume[r] /\ isThreadSuspended'[r] = isThreadSuspended[r]
  BY <1>1
<1> QED
  BY <1>3, <1>4, <1>4b, <1>5, <1>6

\* Every step of suspend and resume keeps the record.
LEMMA SuspendPmStep ==
    ASSUME SuspendInv, EntryInv', SuspendCall \/ ResumeCall \/ PmReturns
    PROVE  SuspendInv'
<1>p. /\ SuspendTypeOK /\ PcTypeOK /\ EntryInv /\ Cleared /\ \A r \in Threads \ givenUp : ThreadInv(r)
      /\ sleeping => pc["pm"] = "idle"
  BY DEF SuspendInv, EntryInv
<1>a. Allowed <=> pc["ssr"] = "idle"
  BY <1>p DEF Allowed, EntryInv
<1>i. pc["pm"] \in PmInside => pc["ssr"] \notin TearingDown
  BY <1>p DEF EntryInv, NoEntryDuringTeardown
<1>m. ASSUME NEW l, pc' = [pc EXCEPT !["pm"] = l]
      PROVE  pc'["pm"] = l /\ pc'["ssr"] = pc["ssr"] /\ \A r \in Threads : pc'[r] = pc[r]
  BY <1>m, <1>p, ProcsDiffer DEF PcTypeOK
<1>t. ASSUME NEW r \in Threads PROVE suspended[r] \in Nat /\ resume[r] \in Nat
  BY <1>p DEF SuspendTypeOK
<1>c. ASSUME UNCHANGED isThreadSuspended, pc'["ssr"] = pc["ssr"] PROVE Cleared'
  BY <1>c, <1>p DEF Cleared
\* the call leaves the threads alone and moves only itself
<1>q. ASSUME NEW l, pc' = [pc EXCEPT !["pm"] = l],
             UNCHANGED <<eventFlag, suspended, resume, isThreadSuspended, isWiphySuspended, givenUp>>,
             sleeping' \in BOOLEAN, sleeping' => l = "idle",
             pc["pm"] \notin {"awaitMc", "awaitRx"}, l \notin {"awaitMc", "awaitRx"},
             \A r \in Threads \ givenUp : isThreadSuspended[r] =>
                 /\ \/ l \in AfterAnswer(r)
                    \/ l = "idle" /\ sleeping'
                    \/ l \in {"idle", "suspendCalled"} /\ pc["ssr"] \in {"waitReady", "wakeThreads"}
                 /\ sleeping' \/ l \in {"suspendFw", "resumeCalled", "resumeFw"} => isWiphySuspended
      PROVE  SuspendInv'
  <2>1. SuspendTypeOK'
    BY <1>p, <1>q DEF SuspendTypeOK
  <2>2. ASSUME NEW r \in Threads \ givenUp PROVE ThreadInv(r)'
    BY <1>p, <1>m, <1>q, <2>2 DEF ThreadInv, Asked, Answering, AnswerLeft, Recorded, Blocked, ToldToStop, Await
  <2> QED
    BY <1>m, <1>q, <1>c, <2>1, <2>2 DEF SuspendInv
<1>1. CASE SuspendCall
  <2>1. /\ pc' = [pc EXCEPT !["pm"] = "suspendCalled"] /\ pc["pm"] = "idle"
        /\ UNCHANGED <<eventFlag, suspended, resume, isThreadSuspended, isWiphySuspended, givenUp>>
        /\ ~sleeping /\ UNCHANGED sleeping
    BY <1>1 DEF SuspendCall, Enter, Goto, evVars, hddVars
  <2>2. sleeping' \in BOOLEAN /\ (sleeping' => "suspendCalled" = "idle")
    BY <1>p, <2>1 DEF SuspendTypeOK
  <2>3. ASSUME NEW r \in Threads \ givenUp, isThreadSuspended[r]
        PROVE  /\ \/ "suspendCalled" \in AfterAnswer(r)
                  \/ "suspendCalled" = "idle" /\ sleeping'
                  \/ "suspendCalled" \in {"idle", "suspendCalled"} /\ pc["ssr"] \in {"waitReady", "wakeThreads"}
               /\ sleeping' \/ "suspendCalled" \in {"suspendFw", "resumeCalled", "resumeFw"} => isWiphySuspended
    BY <1>p, <2>1, <2>3 DEF ThreadInv, Recorded, AfterAnswer
  <2> QED
    BY <1>q, <2>1, <2>2, <2>3
<1>2. CASE SuspendRefused
  <2>1. /\ pc' = [pc EXCEPT !["pm"] = "idle"] /\ pc["pm"] = "suspendCalled"
        /\ UNCHANGED <<eventFlag, suspended, resume, isThreadSuspended, isWiphySuspended, givenUp>>
        /\ UNCHANGED sleeping
    BY <1>2 DEF SuspendRefused, Exit, Goto, evVars, hddVars
  <2>2. sleeping' \in BOOLEAN /\ (sleeping' => "idle" = "idle")
    BY <1>p, <2>1 DEF SuspendTypeOK
  <2>3. ASSUME NEW r \in Threads \ givenUp, isThreadSuspended[r]
        PROVE  /\ \/ "idle" \in AfterAnswer(r)
                  \/ "idle" = "idle" /\ sleeping'
                  \/ "idle" \in {"idle", "suspendCalled"} /\ pc["ssr"] \in {"waitReady", "wakeThreads"}
               /\ sleeping' \/ "idle" \in {"suspendFw", "resumeCalled", "resumeFw"} => isWiphySuspended
    BY <1>p, <2>1, <2>3 DEF ThreadInv, Recorded, AfterAnswer
  <2> QED
    BY <1>q, <2>1, <2>2, <2>3
<1>3. CASE ResumeCall
  <2>1. /\ pc' = [pc EXCEPT !["pm"] = "resumeCalled"] /\ pc["pm"] = "idle"
        /\ UNCHANGED <<eventFlag, suspended, resume, isThreadSuspended, isWiphySuspended, givenUp>>
        /\ sleeping /\ sleeping' = FALSE
    BY <1>3 DEF ResumeCall, Enter, Goto, evVars, hddVars
  <2>2. sleeping' \in BOOLEAN /\ (sleeping' => "resumeCalled" = "idle")
    BY <1>p, <2>1 DEF SuspendTypeOK
  <2>3. ASSUME NEW r \in Threads \ givenUp, isThreadSuspended[r]
        PROVE  /\ \/ "resumeCalled" \in AfterAnswer(r)
                  \/ "resumeCalled" = "idle" /\ sleeping'
                  \/ "resumeCalled" \in {"idle", "suspendCalled"} /\ pc["ssr"] \in {"waitReady", "wakeThreads"}
               /\ sleeping' \/ "resumeCalled" \in {"suspendFw", "resumeCalled", "resumeFw"} => isWiphySuspended
    BY <1>p, <2>1, <2>3 DEF ThreadInv, Recorded, AfterAnswer
  <2> QED
    BY <1>q, <2>1, <2>2, <2>3
<1>4. CASE ResumeAllowed
  BY <1>4, <1>p, <1>q DEF ResumeAllowed, Goto, evVars, hddVars, SuspendTypeOK, AfterAnswer
\* refused, with a thread recorded, only when a restart is about to wake it
<1>5. CASE ResumeRefused \/ ResumeFwFailed
  <2>1. pc' = [pc EXCEPT !["pm"] = "idle"] /\ UNCHANGED <<eventFlag, evVars, hddVars>>
        /\ pc["pm"] \in {"resumeCalled", "resumeFw"}
    BY <1>5 DEF ResumeRefused, ResumeFwFailed, Exit, Goto
  <2>2. ASSUME NEW r \in Threads \ givenUp, isThreadSuspended[r]
        PROVE  pc["ssr"] \in {"waitReady", "wakeThreads"}
    <3>1. isWiphySuspended /\ pc["ssr"] \notin TearingDown \ {"wakeThreads"}
      BY <1>p, <2>1, <2>2 DEF ThreadInv, Recorded
    <3>2. pc["ssr"] # "idle"
      BY <1>5, <1>p, <3>1 DEF ResumeRefused, ResumeFwFailed, Allowed, EntryInv
    <3> QED
      BY <1>p, <3>1, <3>2 DEF EntryInv
  <2>3. ~sleeping
    BY <1>p, <2>1
  <2> QED
    <3>1. sleeping' = FALSE
      BY <1>p, <2>1, <2>3 DEF hddVars, SuspendTypeOK
    <3>2. \A r \in Threads \ givenUp : isThreadSuspended[r] =>
             /\ "idle" \in {"idle", "suspendCalled"} /\ pc["ssr"] \in {"waitReady", "wakeThreads"}
             /\ ~(sleeping' \/ "idle" \in {"suspendFw", "resumeCalled", "resumeFw"})
      BY <2>2, <3>1
    <3>3. UNCHANGED <<eventFlag, suspended, resume, isThreadSuspended, isWiphySuspended, givenUp>>
      BY <2>1 DEF evVars, hddVars
    <3> QED
      BY <1>q, <2>1, <3>1, <3>2, <3>3
<1>6. CASE SuspendFwOk
  <2>1. /\ pc' = [pc EXCEPT !["pm"] = "idle"] /\ pc["pm"] = "suspendFw"
        /\ UNCHANGED <<eventFlag, suspended, resume, isThreadSuspended, isWiphySuspended, givenUp>>
        /\ sleeping' = TRUE
    BY <1>6 DEF SuspendFwOk, Exit, Goto, evVars, hddVars
  <2>2. sleeping' \in BOOLEAN /\ (sleeping' => "idle" = "idle")
    BY <1>p, <2>1 DEF SuspendTypeOK
  <2>3. ASSUME NEW r \in Threads \ givenUp, isThreadSuspended[r]
        PROVE  /\ \/ "idle" \in AfterAnswer(r)
                  \/ "idle" = "idle" /\ sleeping'
                  \/ "idle" \in {"idle", "suspendCalled"} /\ pc["ssr"] \in {"waitReady", "wakeThreads"}
               /\ sleeping' \/ "idle" \in {"suspendFw", "resumeCalled", "resumeFw"} => isWiphySuspended
    BY <1>p, <2>1, <2>3 DEF ThreadInv, Recorded, AfterAnswer
  <2> QED
    BY <1>q, <2>1, <2>2, <2>3
\* HDD asks a thread that is neither recorded nor about to answer
<1>n. ASSUME NEW r \in Threads \ givenUp, pc["pm"] # Await(r), pc["ssr"] = "idle" \/ pc["pm"] \in PmInside,
             pc["pm"] \notin AfterAnswer(r) \cup {"idle"}
      PROVE  /\ suspended[r] = 0 /\ pc[r] # "answer" /\ ~isThreadSuspended[r]
             /\ pc[r] = "blocked" => resume[r] > 0
  <2>1. ~isThreadSuspended[r]
    BY <1>n, <1>p DEF ThreadInv, Recorded, PmInside
  <2> QED
    BY <1>n, <1>p, <1>t, <2>1 DEF ThreadInv, Answering, AnswerLeft, Blocked
<1>7. CASE SuspendAllowed
  <2>1. /\ eventFlag' = [eventFlag EXCEPT !["mc"] = @ \cup {"SUSPEND"}]
        /\ pc["pm"] = "suspendCalled" /\ pc' = [pc EXCEPT !["pm"] = "awaitMc"] /\ pc["ssr"] = "idle"
        /\ UNCHANGED <<evVars, hddVars>>
    BY <1>7, <1>a DEF SuspendAllowed, Set, Goto
  <2>2. SuspendTypeOK' /\ ~sleeping'
    BY <1>p, <2>1 DEF SuspendTypeOK, evVars, hddVars, Threads
  <2>3. ASSUME NEW r \in Threads \ givenUp PROVE ThreadInv(r)'
    <3>1. /\ suspended[r] = 0 /\ pc[r] # "answer" /\ ~isThreadSuspended[r]
          /\ pc[r] = "blocked" => resume[r] > 0
      BY <1>n, <2>1 DEF Await, AfterAnswer
    <3>2. /\ pc'["pm"] = "awaitMc" /\ pc'["ssr"] = "idle" /\ pc'[r] = pc[r]
          /\ UNCHANGED <<suspended[r], resume[r], isThreadSuspended[r]>>
      BY <1>m, <2>1 DEF evVars, hddVars
    <3>3. /\ "SHUTDOWN" \in eventFlag'[r] => "SHUTDOWN" \in eventFlag[r]
          /\ "SUSPEND" \in eventFlag'[r] => r = "mc" \/ "SUSPEND" \in eventFlag[r]
      BY <1>p, <2>1 DEF SuspendTypeOK
    <3>4. "SUSPEND" \notin eventFlag[r] /\ "SHUTDOWN" \notin eventFlag[r]
      BY <1>p, <2>1 DEF ThreadInv, Asked, ToldToStop, Await, TearingDown
    <3> QED
      BY <3>1, <3>2, <3>3, <3>4 DEF ThreadInv, Asked, Answering, AnswerLeft, Recorded, Blocked, ToldToStop, Await
  <2> QED
    BY <1>c, <1>m, <2>1, <2>2, <2>3 DEF SuspendInv, hddVars
<1>8. CASE Answered("mc")
  <2>1. /\ pc["pm"] = "awaitMc" /\ suspended["mc"] > 0
        /\ suspended' = [suspended EXCEPT !["mc"] = @ - 1]
        /\ isThreadSuspended' = [isThreadSuspended EXCEPT !["mc"] = TRUE]
        /\ eventFlag' = [eventFlag EXCEPT !["rx"] = @ \cup {"SUSPEND"}]
        /\ pc' = [pc EXCEPT !["pm"] = "awaitRx"]
        /\ UNCHANGED <<resume, sleeping, isWiphySuspended, givenUp>>
    BY <1>8 DEF Answered, Await, Consume, Set, Goto
  <2>2. "mc" \in Threads /\ "rx" \in Threads /\ pc["ssr"] \notin TearingDown /\ ~sleeping
    BY <1>i, <1>p, <2>1 DEF Threads, PmInside
  <2>3. ASSUME "mc" \notin givenUp
        PROVE  suspended["mc"] = 1 /\ pc["mc"] = "blocked" /\ resume["mc"] = 0 /\ "SUSPEND" \notin eventFlag["mc"]
    BY <1>p, <2>1, <2>2, <2>3 DEF ThreadInv, AnswerLeft, Asked
  <2>4. ASSUME "rx" \notin givenUp
        PROVE  /\ suspended["rx"] = 0 /\ pc["rx"] # "answer" /\ ~isThreadSuspended["rx"]
               /\ pc["rx"] = "blocked" => resume["rx"] > 0
    BY <1>n, <2>1, <2>2, <2>4 DEF Await, AfterAnswer, PmInside
  <2>5. SuspendTypeOK'
    BY <1>p, <1>t, <2>1, <2>2 DEF SuspendTypeOK, Threads
  <2>6. ASSUME "mc" \notin givenUp PROVE ThreadInv("mc")'
    <3>1. /\ pc'["pm"] = "awaitRx" /\ pc'["ssr"] = pc["ssr"] /\ pc'["mc"] = "blocked" /\ ~sleeping'
          /\ suspended'["mc"] = 0 /\ isThreadSuspended'["mc"] = TRUE /\ eventFlag'["mc"] = eventFlag["mc"]
          /\ resume'["mc"] = 0
      <4>1. suspended'["mc"] = 0 /\ eventFlag'["mc"] = eventFlag["mc"] /\ resume'["mc"] = 0
        BY <1>p, <2>1, <2>2, <2>3, <2>6 DEF SuspendTypeOK
      <4>2. isThreadSuspended'["mc"] = TRUE
        BY <1>p, <2>1, <2>2 DEF SuspendTypeOK
      <4> QED
        BY <1>m, <2>1, <2>2, <2>3, <2>6, <4>1, <4>2
    <3> QED
      BY <1>p, <2>2, <2>3, <2>6, <3>1 DEF ThreadInv, Asked, Answering, AnswerLeft, Recorded, Blocked, ToldToStop, Await, AfterAnswer
  <2>7. ASSUME "rx" \notin givenUp PROVE ThreadInv("rx")'
    <3>1. /\ pc'["pm"] = "awaitRx" /\ pc'["ssr"] = pc["ssr"] /\ pc'["rx"] = pc["rx"]
          /\ suspended'["rx"] = 0 /\ ~isThreadSuspended'["rx"] /\ resume'["rx"] = resume["rx"]
          /\ "SHUTDOWN" \in eventFlag'["rx"] => "SHUTDOWN" \in eventFlag["rx"]
      BY <1>p, <1>m, <2>1, <2>2, <2>4, <2>7 DEF SuspendTypeOK
    <3> QED
      BY <1>p, <2>2, <2>4, <2>7, <3>1 DEF ThreadInv, Asked, Answering, AnswerLeft, Recorded, Blocked, ToldToStop, Await
  <2> QED
    <3>1. Cleared'
      BY <1>m, <2>1, <2>2 DEF Cleared
    <3> QED
      BY <2>1, <2>2, <2>5, <2>6, <2>7, <3>1 DEF SuspendInv, Threads
<1>9. CASE Answered("rx")
  <2>1. /\ pc["pm"] = "awaitRx" /\ suspended["rx"] > 0
        /\ suspended' = [suspended EXCEPT !["rx"] = @ - 1]
        /\ isThreadSuspended' = [isThreadSuspended EXCEPT !["rx"] = TRUE]
        /\ pc' = [pc EXCEPT !["pm"] = "suspendFw"] /\ isWiphySuspended' = TRUE
        /\ UNCHANGED <<resume, sleeping, eventFlag, givenUp>>
    BY <1>9 DEF Answered, Await, Consume, Goto
  <2>2. "mc" \in Threads /\ "rx" \in Threads /\ pc["ssr"] \notin TearingDown /\ ~sleeping
    BY <1>i, <1>p, <2>1 DEF Threads, PmInside
  <2>3. ASSUME "rx" \notin givenUp
        PROVE  suspended["rx"] = 1 /\ pc["rx"] = "blocked" /\ resume["rx"] = 0 /\ "SUSPEND" \notin eventFlag["rx"]
    BY <1>p, <2>1, <2>2, <2>3 DEF ThreadInv, AnswerLeft, Asked
  <2>5. SuspendTypeOK'
    BY <1>p, <1>t, <2>1, <2>2 DEF SuspendTypeOK, Threads
  <2>6. ASSUME "rx" \notin givenUp PROVE ThreadInv("rx")'
    <3>1. /\ pc'["pm"] = "suspendFw" /\ pc'["ssr"] = pc["ssr"] /\ pc'["rx"] = "blocked" /\ ~sleeping'
          /\ suspended'["rx"] = 0 /\ isThreadSuspended'["rx"] = TRUE /\ eventFlag'["rx"] = eventFlag["rx"]
          /\ resume'["rx"] = 0 /\ isWiphySuspended'
      <4>1. suspended'["rx"] = 0 /\ eventFlag'["rx"] = eventFlag["rx"] /\ resume'["rx"] = 0
        BY <1>p, <2>1, <2>2, <2>3, <2>6 DEF SuspendTypeOK
      <4>2. isThreadSuspended'["rx"] = TRUE
        BY <1>p, <2>1, <2>2 DEF SuspendTypeOK
      <4> QED
        BY <1>m, <2>1, <2>2, <2>3, <2>6, <4>1, <4>2
    <3> QED
      BY <1>p, <2>2, <2>3, <2>6, <3>1 DEF ThreadInv, Asked, Answering, AnswerLeft, Recorded, Blocked, ToldToStop, Await, AfterAnswer
  <2>7. ASSUME "mc" \notin givenUp PROVE ThreadInv("mc")'
    <3>1. /\ pc'["pm"] = "suspendFw" /\ pc'["ssr"] = pc["ssr"] /\ pc'["mc"] = pc["mc"] /\ isWiphySuspended'
          /\ UNCHANGED <<suspended["mc"], isThreadSuspended["mc"], resume["mc"], eventFlag["mc"]>>
      BY <1>p, <1>m, <2>1, <2>2 DEF SuspendTypeOK
    <3> QED
      BY <1>p, <1>t, <2>1, <2>2, <2>7, <3>1 DEF ThreadInv, Asked, Answering, AnswerLeft, Recorded, Blocked, ToldToStop, Await, AfterAnswer
  <2> QED
    <3>1. Cleared'
      BY <1>m, <2>1, <2>2 DEF Cleared
    <3> QED
      BY <2>1, <2>2, <2>5, <2>6, <2>7, <3>1 DEF SuspendInv, Threads
\* the thread is given up, or the request is still there and it has not seen it
<1>10. ASSUME NEW t \in Threads, Expired(t) PROVE SuspendInv'
  <2>1. /\ pc["pm"] = Await(t)
        /\ givenUp' = IF "SUSPEND" \in eventFlag[t] THEN givenUp ELSE givenUp \cup {t}
        /\ eventFlag' = [eventFlag EXCEPT ![t] = @ \ {"SUSPEND"}]
        /\ pc' = [pc EXCEPT !["pm"] = IF t = "mc" THEN "idle" ELSE "resumeMc"]
        /\ UNCHANGED <<evVars, isThreadSuspended, isWiphySuspended, sleeping>>
    BY <1>10 DEF Expired, RequestWithdrawn, Clear, Exit, Goto
  <2>2. SuspendTypeOK' /\ ~sleeping'
    BY <1>p, <2>1 DEF SuspendTypeOK, evVars, Await
  <2>3. ASSUME NEW r \in Threads \ givenUp' PROVE ThreadInv(r)'
    <3>0. r \in Threads \ givenUp /\ (r = t => "SUSPEND" \in eventFlag[t])
      BY <2>1
    <3>1. /\ suspended[r] = 0 /\ pc[r] # "answer" /\ (pc[r] = "blocked" => resume[r] > 0 \/ isThreadSuspended[r])
          /\ isThreadSuspended[r] => r = "mc" /\ t = "rx" /\ pc[r] = "blocked" /\ resume[r] = 0
      <4>1. CASE r = t
        BY <1>p, <2>1, <3>0, <4>1 DEF ThreadInv, Asked
      <4>2. CASE r # t
        BY <1>p, <1>t, <2>1, <2>3, <3>0, <4>2
           DEF ThreadInv, Answering, AnswerLeft, Recorded, Blocked, AfterAnswer, Await, Threads
      <4> QED BY <4>1, <4>2
    <3>2. /\ pc'["pm"] = (IF t = "mc" THEN "idle" ELSE "resumeMc") /\ pc'["ssr"] = pc["ssr"]
          /\ pc'[r] = pc[r] /\ UNCHANGED <<suspended[r], resume[r], isThreadSuspended[r]>>
      BY <1>m, <2>1, <3>0 DEF evVars
    <3>3. /\ "SHUTDOWN" \in eventFlag'[r] => "SHUTDOWN" \in eventFlag[r]
          /\ "SUSPEND" \notin eventFlag'[r]
      BY <1>p, <2>1, <3>0 DEF SuspendTypeOK, ThreadInv, Asked, Await, Threads
    <3>4. pc["ssr"] \notin TearingDown
      BY <1>i, <2>1 DEF Await, PmInside
    <3> QED
      BY <1>p, <2>2, <3>0, <3>1, <3>2, <3>3, <3>4 DEF ThreadInv, Asked, Answering, AnswerLeft, Recorded, Blocked, ToldToStop, AfterAnswer
  <2> QED
    BY <1>c, <1>m, <2>1, <2>2, <2>3 DEF SuspendInv, hddVars
\* threads are woken and their record is cleared
<1>w. ASSUME NEW T \in SUBSET Threads, NEW l \in {"idle", "resumeMc"}, pc' = [pc EXCEPT !["pm"] = l],
             pc["pm"] \notin {"awaitMc", "awaitRx"}, UNCHANGED <<eventFlag, suspended, givenUp>>, sleeping' = FALSE,
             isWiphySuspended' \in BOOLEAN, resume' \in [Threads -> Nat],
             isThreadSuspended' \in [Threads -> BOOLEAN],
             \A r \in T : ~isThreadSuspended'[r] /\ resume'[r] >= resume[r]
                          /\ (isThreadSuspended[r] => resume'[r] > 0),
             \A r \in Threads \ T : UNCHANGED <<resume[r], isThreadSuspended[r]>>
                                    /\ (r \notin givenUp /\ isThreadSuspended[r] => r = "mc" /\ l = "resumeMc")
      PROVE  SuspendInv'
  <2>1. SuspendTypeOK'
    BY <1>p, <1>w DEF SuspendTypeOK
  <2>2. ASSUME NEW r \in Threads \ givenUp PROVE ThreadInv(r)'
    <3>1. pc'["pm"] = l /\ pc'["ssr"] = pc["ssr"] /\ pc'[r] = pc[r] /\ UNCHANGED <<eventFlag[r], suspended[r]>>
      BY <1>m, <1>w
    <3>2. "SUSPEND" \notin eventFlag[r] /\ pc[r] # "answer" /\ suspended[r] = 0
      BY <1>p, <1>t, <1>w DEF ThreadInv, Asked, Answering, AnswerLeft, Await
    <3>3. resume'[r] \in Nat /\ resume[r] \in Nat
      BY <1>t, <1>w
    <3>4. CASE r \in T
      BY <1>p, <1>w, <3>1, <3>2, <3>3, <3>4 DEF ThreadInv, Asked, Answering, AnswerLeft, Recorded, Blocked, ToldToStop, Await
    <3>5. CASE r \notin T
      BY <1>p, <1>w, <3>1, <3>2, <3>3, <3>5 DEF ThreadInv, Asked, Answering, AnswerLeft, Recorded, Blocked, ToldToStop, Await, AfterAnswer
    <3> QED BY <3>4, <3>5
  <2> QED
    <3>1. Cleared'
      BY <1>m, <1>p, <1>w DEF Cleared
    <3> QED
      BY <1>w, <2>1, <2>2, <3>1 DEF SuspendInv
<1>11. CASE SuspendFwFailed
  <2>1. sleeping = FALSE /\ "rx" \in Threads /\ {"rx"} \in SUBSET Threads
    BY <1>11, <1>p DEF SuspendFwFailed, SuspendTypeOK, Threads
  <2>2. /\ resume' = [resume EXCEPT !["rx"] = @ + 1] /\ isThreadSuspended' = [isThreadSuspended EXCEPT !["rx"] = FALSE]
        /\ pc["pm"] = "suspendFw" /\ pc' = [pc EXCEPT !["pm"] = "resumeMc"] /\ UNCHANGED <<eventFlag, suspended, sleeping, givenUp>>
        /\ isWiphySuspended' = FALSE
    BY <1>11 DEF SuspendFwFailed, Complete, Goto
  <2>3. /\ resume' \in [Threads -> Nat] /\ isThreadSuspended' \in [Threads -> BOOLEAN]
        /\ ~isThreadSuspended'["rx"] /\ resume'["rx"] = resume["rx"] + 1
        /\ \A r \in Threads \ {"rx"} : UNCHANGED <<resume[r], isThreadSuspended[r]>> /\ r = "mc"
    BY <1>p, <2>1, <2>2 DEF SuspendTypeOK, Threads
  <2>4. resume["rx"] \in Nat
    BY <1>t, <2>1
  <2>5. \A r \in {"rx"} : ~isThreadSuspended'[r] /\ resume'[r] >= resume[r]
                          /\ (isThreadSuspended[r] => resume'[r] > 0)
    BY <2>3, <2>4
  <2>6. sleeping' = FALSE /\ isWiphySuspended' \in BOOLEAN
    BY <2>1, <2>2
  <2> QED
    BY <1>w, <2>1, <2>2, <2>3, <2>5, <2>6
<1>k. ASSUME NEW T \in SUBSET Threads, Wake(T)
      PROVE  /\ resume' \in [Threads -> Nat] /\ isThreadSuspended' \in [Threads -> BOOLEAN]
             /\ \A r \in T : ~isThreadSuspended'[r] /\ resume'[r] >= resume[r]
                             /\ (isThreadSuspended[r] => resume'[r] > 0)
             /\ \A r \in Threads \ T : UNCHANGED <<resume[r], isThreadSuspended[r]>>
  BY <1>k, <1>p, WakeEffect
<1>12. CASE ResumeMc
  <2>1. sleeping' = FALSE /\ {"mc"} \in SUBSET Threads /\ pc["pm"] = "resumeMc" /\ pc' = [pc EXCEPT !["pm"] = "idle"]
        /\ UNCHANGED <<eventFlag, suspended, isWiphySuspended, givenUp>> /\ Wake({"mc"})
    BY <1>12, <1>p DEF ResumeMc, Exit, Goto, Threads, SuspendTypeOK
  <2>2. \A r \in Threads \ {"mc"} : r \notin givenUp => ~isThreadSuspended[r]
    BY <1>p, <2>1 DEF ThreadInv, Recorded, AfterAnswer, Threads
  <2>3. isWiphySuspended' \in BOOLEAN
    BY <1>p, <2>1 DEF SuspendTypeOK
  <2> QED
    BY <1>k, <1>w, <2>1, <2>2, <2>3
<1>13. CASE ResumeFwOk
  <2>1. sleeping' = FALSE /\ Threads \in SUBSET Threads /\ pc["pm"] = "resumeFw" /\ pc' = [pc EXCEPT !["pm"] = "idle"]
        /\ UNCHANGED <<eventFlag, suspended, givenUp>> /\ isWiphySuspended' = FALSE /\ Wake(Threads)
    BY <1>13, <1>p DEF ResumeFwOk, Exit, Goto, SuspendTypeOK
  <2> QED
    BY <1>k, <1>w, <2>1
<1> QED
  BY <1>1, <1>2, <1>3, <1>4, <1>5, <1>6, <1>7, <1>8, <1>9, <1>10, <1>11, <1>12, <1>13
     DEF PmReturns, Threads
\* Every step of the restart keeps the record: it wakes the threads before it stops them.
LEMMA SuspendSsrStep ==
    ASSUME SuspendInv, EntryInv', SsrStart \/ SsrGoesOn
    PROVE  SuspendInv'
<1>p. /\ SuspendTypeOK /\ PcTypeOK /\ EntryInv /\ Cleared /\ \A r \in Threads \ givenUp : ThreadInv(r)
      /\ sleeping => pc["pm"] = "idle"
  BY DEF SuspendInv, EntryInv
<1>i. pc["ssr"] \in TearingDown => pc["pm"] \notin {"awaitMc", "awaitRx"}
  BY <1>p DEF EntryInv, NoEntryDuringTeardown, PmInside
<1>m. ASSUME NEW l, pc' = [pc EXCEPT !["ssr"] = l]
      PROVE  pc'["ssr"] = l /\ pc'["pm"] = pc["pm"] /\ \A r \in Threads : pc'[r] = pc[r]
  BY <1>m, <1>p, ProcsDiffer DEF PcTypeOK
<1>t. ASSUME NEW r \in Threads PROVE suspended[r] \in Nat /\ resume[r] \in Nat
  BY <1>p DEF SuspendTypeOK
\* the restart moves only itself
<1>q. ASSUME NEW l, pc' = [pc EXCEPT !["ssr"] = l], UNCHANGED <<suspended, resume, hddVars>>,
             eventFlag' \in [Threads -> SUBSET {"POST", "SUSPEND", "SHUTDOWN"}],
             \A r \in Threads \ givenUp :
                 /\ "SUSPEND" \in eventFlag'[r] => "SUSPEND" \in eventFlag[r]
                 /\ "SHUTDOWN" \in eventFlag'[r] => l \in TearingDown,
             \/ l \in {"waitReady", "wakeThreads"} /\ pc["ssr"] \in {"idle", "waitReady"}
             \/ pc["ssr"] \in TearingDown \ {"wakeThreads"}
      PROVE  SuspendInv'
  <2>1. SuspendTypeOK'
    BY <1>p, <1>q DEF SuspendTypeOK, hddVars
  <2>2. ASSUME NEW r \in Threads \ givenUp PROVE ThreadInv(r)'
    <3>1. /\ pc'["ssr"] = l /\ pc'["pm"] = pc["pm"] /\ pc'[r] = pc[r]
          /\ UNCHANGED <<suspended[r], resume[r], isThreadSuspended[r], sleeping, isWiphySuspended>>
      BY <1>m, <1>q DEF hddVars
    <3> QED
      BY <1>p, <1>q, <2>2, <3>1
         DEF ThreadInv, Asked, Answering, AnswerLeft, Recorded, Blocked, ToldToStop, TearingDown
  <2> QED
    <3>1. Cleared'
      BY <1>m, <1>p, <1>q DEF Cleared, TearingDown, hddVars
    <3> QED
      BY <1>m, <1>p, <1>q, <2>1, <2>2, <3>1 DEF SuspendInv, hddVars
<1>1. CASE SsrStart \/ SsrReady \/ SsrNotReady
  <2>1. /\ \E l \in {"waitReady", "wakeThreads"} :
             pc' = [pc EXCEPT !["ssr"] = l] /\ (l = "waitReady" => pc["ssr"] = "idle")
        /\ pc["ssr"] \in {"idle", "waitReady"} /\ UNCHANGED <<eventFlag, suspended, resume, hddVars>>
    BY <1>1 DEF SsrStart, SsrReady, SsrNotReady, Goto, evVars
  <2>2. \A r \in Threads \ givenUp : "SHUTDOWN" \notin eventFlag[r]
    BY <1>p, <2>1 DEF ThreadInv, ToldToStop, TearingDown
  <2>3. eventFlag' \in [Threads -> SUBSET {"POST", "SUSPEND", "SHUTDOWN"}]
    BY <1>p, <2>1 DEF SuspendTypeOK
  <2> QED
    BY <1>q, <2>1, <2>2, <2>3
<1>2. CASE WakeThreads
  <2>1. /\ pc["ssr"] = "wakeThreads" /\ pc' = [pc EXCEPT !["ssr"] = "stopMc"] /\ Wake(Threads)
        /\ isWiphySuspended' = FALSE /\ UNCHANGED <<eventFlag, suspended, sleeping, givenUp>>
    BY <1>2 DEF WakeThreads, Goto
  <2>2. /\ resume' \in [Threads -> Nat] /\ isThreadSuspended' \in [Threads -> BOOLEAN]
        /\ \A r \in Threads : ~isThreadSuspended'[r] /\ resume'[r] >= resume[r]
                              /\ (isThreadSuspended[r] => resume'[r] > 0)
    BY <1>p, <2>1, WakeEffect
  <2>3. SuspendTypeOK'
    BY <1>p, <2>1, <2>2 DEF SuspendTypeOK
  <2>4. ASSUME NEW r \in Threads \ givenUp PROVE ThreadInv(r)'
    <3>1. /\ pc'["ssr"] = "stopMc" /\ pc'["pm"] = pc["pm"] /\ pc'[r] = pc[r]
          /\ UNCHANGED <<eventFlag[r], suspended[r]>>
      BY <1>m, <2>1
    <3>2. "SUSPEND" \notin eventFlag[r] /\ pc[r] # "answer" /\ suspended[r] = 0
          /\ pc["pm"] # Await(r) /\ "stopMc" \in TearingDown
      BY <1>i, <1>p, <1>t, <2>1 DEF ThreadInv, Asked, Answering, AnswerLeft, Await, TearingDown
    <3>3. pc[r] = "blocked" => resume'[r] > 0
      BY <1>p, <1>t, <2>2, <3>2 DEF ThreadInv, Blocked
    <3> QED
      BY <2>2, <3>1, <3>2, <3>3
         DEF ThreadInv, Asked, Answering, AnswerLeft, Recorded, Blocked, ToldToStop, Await
  <2> QED
    BY <1>m, <1>p, <2>1, <2>2, <2>3, <2>4 DEF SuspendInv, Cleared
<1>3. CASE StopThread("mc", "stopMc", "awaitMc") \/ StopThread("rx", "stopRx", "awaitRx")
  <2>1. /\ \E l \in {"awaitMc", "awaitRx"} : pc' = [pc EXCEPT !["ssr"] = l]
        /\ pc["ssr"] \in {"stopMc", "stopRx"}
        /\ \E t \in Threads : eventFlag' = [eventFlag EXCEPT ![t] = @ \cup {"SHUTDOWN", "POST"}]
        /\ UNCHANGED <<suspended, resume, hddVars>>
    BY <1>3 DEF StopThread, Set, Goto, evVars, Threads
  <2>2. /\ eventFlag' \in [Threads -> SUBSET {"POST", "SUSPEND", "SHUTDOWN"}]
        /\ \A r \in Threads : "SUSPEND" \in eventFlag'[r] => "SUSPEND" \in eventFlag[r]
    BY <1>p, <2>1 DEF SuspendTypeOK
  <2> QED
    BY <1>q, <2>1, <2>2 DEF TearingDown
<1>4. CASE McStopped \/ RxStopped \/ StopModules
  <2>1. /\ \E l \in {"stopRx", "stopModules", "down"} : pc' = [pc EXCEPT !["ssr"] = l]
        /\ pc["ssr"] \in {"awaitMc", "awaitRx", "stopModules"}
        /\ UNCHANGED <<eventFlag, suspended, resume, hddVars>>
    BY <1>4 DEF McStopped, RxStopped, StopModules, Goto, evVars
  <2>2. eventFlag' \in [Threads -> SUBSET {"POST", "SUSPEND", "SHUTDOWN"}]
    BY <1>p, <2>1 DEF SuspendTypeOK
  <2> QED
    BY <1>q, <2>1, <2>2 DEF TearingDown
<1>5. CASE Reopen
  <2>1. /\ pc["ssr"] = "down" /\ pc'["pm"] = pc["pm"] /\ pc'["ssr"] = "idle"
        /\ \A r \in Threads : pc'[r] = "wait"
    BY <1>5, ProcsDiffer DEF Reopen
  <2>2. /\ eventFlag' = [r \in Threads |-> {}] /\ resume' = [r \in Threads |-> 0]
        /\ suspended' = [suspended EXCEPT !["rx"] = 0] /\ UNCHANGED <<isThreadSuspended, isWiphySuspended, sleeping>>
        /\ givenUp' = givenUp \ {"rx"}
    BY <1>5 DEF Reopen
  <2>3. SuspendTypeOK'
    BY <1>p, <2>2 DEF SuspendTypeOK
  <2>4. ASSUME NEW r \in Threads \ givenUp' PROVE ThreadInv(r)'
    <3>0. ~isThreadSuspended[r]
      BY <1>p, <2>1 DEF Cleared, TearingDown
    <3>1. r = "rx" \/ suspended[r] = 0
      BY <1>i, <1>p, <1>t, <2>1, <2>2 DEF ThreadInv, AnswerLeft, Await, TearingDown
    <3>2. suspended'[r] = 0
      BY <1>p, <2>2, <3>1 DEF SuspendTypeOK
    <3>3. ~isThreadSuspended'[r] /\ eventFlag'[r] = {} /\ pc'[r] = "wait"
      BY <2>1, <2>2, <3>0
    <3> QED
      BY <3>2, <3>3 DEF ThreadInv, Asked, Answering, AnswerLeft, Recorded, Blocked, ToldToStop
  <2> QED
    <3>1. Cleared'
      BY <2>1 DEF Cleared, TearingDown
    <3> QED
      BY <1>p, <2>1, <2>2, <2>3, <2>4, <3>1 DEF SuspendInv
<1> QED
  BY <1>1, <1>2, <1>3, <1>4, <1>5 DEF SsrGoesOn

\* Every step keeps the record.
LEMMA SuspendStep == SuspendInv /\ [Next]_vars => SuspendInv'
<1> SUFFICES ASSUME SuspendInv, [Next]_vars PROVE SuspendInv'
  OBVIOUS
<1>e. EntryInv'
  BY EntryStep DEF SuspendInv
<1>p. SuspendTypeOK /\ PcTypeOK
  BY DEF SuspendInv, EntryInv
<1>1. ASSUME NEW t \in Threads, Post(t) \/ Notify(t) PROVE SuspendInv'
  <2>1. UNCHANGED <<pc, suspended, resume, hddVars>>
    BY <1>1, PosterMoves DEF evVars
  <2>2. eventFlag' = eventFlag \/ eventFlag' = [eventFlag EXCEPT ![t] = @ \cup {"POST"}]
    BY <1>1 DEF Post, Notify, Set
  <2>3. /\ eventFlag' \in [Threads -> SUBSET {"POST", "SUSPEND", "SHUTDOWN"}]
        /\ \A r \in Threads : /\ "SUSPEND" \in eventFlag'[r] => "SUSPEND" \in eventFlag[r]
                              /\ "SHUTDOWN" \in eventFlag'[r] => "SHUTDOWN" \in eventFlag[r]
    BY <1>p, <2>2 DEF SuspendTypeOK
  <2> QED
    BY <1>e, <2>1, <2>3, SuspendFrame
<1>2. ASSUME NEW c \in Calls, Call(c) \/ Validate(c) \/ \E S \in SUBSET Packets : Return(c, S)
      PROVE  SuspendInv'
  <2>1. (\E l : pc' = [pc EXCEPT ![c] = l]) /\ UNCHANGED <<eventFlag, suspended, resume, hddVars>>
    BY <1>2, CallMoves DEF evVars
  <2>2. pc'["pm"] = pc["pm"] /\ pc'["ssr"] = pc["ssr"] /\ \A r \in Threads : pc'[r] = pc[r]
    BY <1>p, <2>1, ProcsDiffer DEF PcTypeOK
  <2>3. eventFlag' \in [Threads -> SUBSET {"POST", "SUSPEND", "SHUTDOWN"}]
    BY <1>p, <2>1 DEF SuspendTypeOK
  <2> QED
    BY <1>e, <2>1, <2>2, <2>3, SuspendFrame
<1>3. CASE UNCHANGED vars
  BY <1>3, <1>e, <1>p, SuspendFrame DEF vars, evVars, SuspendTypeOK
<1> QED
  BY <1>1, <1>2, <1>3, <1>e, SuspendThreadStep, SuspendPmStep, SuspendSsrStep DEF Next

\* Nobody is suspended at the start.
LEMMA SuspendInit == Init => SuspendInv
<1> SUFFICES ASSUME Init PROVE SuspendInv
  OBVIOUS
<1>1. SuspendTypeOK /\ ~sleeping
  BY DEF Init, SuspendTypeOK
<1>2. ASSUME NEW t \in Threads \ givenUp PROVE ThreadInv(t)
  BY ProcsDiffer DEF Init, ThreadInv, Asked, Answering, AnswerLeft, Recorded, Blocked, ToldToStop
<1> QED
  <2>1. Cleared
    BY ProcsDiffer DEF Init, Cleared
  <2> QED
    BY <1>1, <1>2, <2>1, EntryInit DEF SuspendInv

\* However often and however late HDD's waits expire: a thread HDD has recorded as suspended is
\* blocked, so that nothing is processed while the system sleeps, whatever fails half-way, whenever
\* a restart comes and whatever became of the other thread, unless HDD once gave up this thread
\* when it was about to answer.
THEOREM SuspendedIsBlockedAlways == Spec => []SuspendedIsBlocked
<1>1. SuspendInv => SuspendedIsBlocked
  BY DEF SuspendInv, ThreadInv, Recorded, SuspendedIsBlocked
<1>2. SuspendInv /\ [Next]_vars => SuspendInv'
  BY SuspendStep
<1> QED
  BY <1>1, <1>2, SuspendInit, PTL DEF Spec

\* A blocked thread is one HDD knows of, so that somebody resumes it: a failed suspend, a request
\* withdrawn in time, a restart and the other thread's late answer do not make HDD forget it.  Only
\* giving it up when it was about to answer does, as the code can (run vos_suspend_timeout).
THEOREM OnlyGivenUpForgottenAlways == Spec => []OnlyGivenUpForgotten
<1>1. SuspendInv => OnlyGivenUpForgotten
  BY DEF SuspendInv, ThreadInv, Blocked, Known, OnlyGivenUpForgotten
<1>2. SuspendInv /\ [Next]_vars => SuspendInv'
  BY SuspendStep
<1> QED
  BY <1>1, <1>2, SuspendInit, PTL DEF Spec

----------------------------------------------------------------------------
(* No wake-up is lost                                                      *)

\* nobody has posted to the thread since it last cleared POST
Quiet(t) == posting[t] = 0 /\ "POST" \notin eventFlag[t]

\* then the queues it has passed in this scan, or all when it is past them, are empty
Scanned(t) ==
    Quiet(t) =>
        /\ pc[t] \in {"scan", "process"} =>
             \A k \in 1..scan[t] - 1 : queue[QueuesOf(t)[k]] = <<>>
        /\ pc[t] \in {"wait", "testSuspend", "answer", "blocked"} =>
             \A q \in Range(QueuesOf(t)) : queue[q] = <<>>

WakeTypeOK ==
    /\ PcTypeOK /\ queue = [q \in Queues |-> queue[q]]
    /\ eventFlag = [t \in Threads |-> eventFlag[t]]
    /\ posting \in [Threads -> Nat] /\ scan \in [Threads -> Nat]
    /\ \A t \in Threads : scan[t] \in 1..Len(QueuesOf(t))

WakeupInv == WakeTypeOK /\ \A t \in Threads : Scanned(t)

\* A thread has at least one queue, and shares none with the other.
LEMMA QueuesOfThread ==
    ASSUME NEW t \in Threads
    PROVE  /\ Len(QueuesOf(t)) \in Nat \ {0} /\ DOMAIN QueuesOf(t) = 1..Len(QueuesOf(t))
           /\ \A k \in 1..Len(QueuesOf(t)) : QueuesOf(t)[k] \in Range(QueuesOf(t))
           /\ \A q \in Range(QueuesOf(t)) :
                 q \in Queues /\ \E k \in 1..Len(QueuesOf(t)) : QueuesOf(t)[k] = q
           /\ \A r \in Threads : \A q \in Range(QueuesOf(r)) : q \in Range(QueuesOf(t)) => r = t
<1>1. /\ Len(McQueues) \in Nat \ {0} /\ DOMAIN McQueues = 1..Len(McQueues)
      /\ "rxQueue" \notin Range(McQueues)
  BY SchedAssumption, EmptySeq, LenProperties
<1>2. Len(<<"rxQueue">>) = 1 /\ DOMAIN <<"rxQueue">> = 1..1 /\ <<"rxQueue">>[1] = "rxQueue"
  OBVIOUS
<1>3. Range(<<"rxQueue">>) = {"rxQueue"}
  BY <1>2 DEF Range
<1>4. CASE t = "mc"
  BY <1>1, <1>3, <1>4 DEF QueuesOf, Queues, Threads, Range
<1>5. CASE t = "rx"
  BY <1>1, <1>2, <1>3, <1>5 DEF QueuesOf, Queues, Threads
<1> QED
  BY <1>4, <1>5 DEF Threads

\* A thread that stays where it is keeps Scanned when nobody posts to it or the post is marked.
LEMMA ScannedFrame ==
    ASSUME NEW t \in Threads, Scanned(t), scan'[t] = scan[t],
           \/ pc'[t] = pc[t]
           \/ pc'[t] \in {"testShutdown", "exited"}
           \/ {pc[t], pc'[t]} \subseteq {"scan", "process"}
           \/ {pc[t], pc'[t]} \subseteq {"wait", "testSuspend", "answer", "blocked"},
           Quiet(t)' => /\ Quiet(t)
                        /\ \A q \in Range(QueuesOf(t)) : queue[q] = <<>> => queue'[q] = <<>>,
           scan[t] \in 1..Len(QueuesOf(t))
    PROVE  Scanned(t)'
<1>1. \A k \in 1..scan[t] - 1 : QueuesOf(t)[k] \in Range(QueuesOf(t))
  BY QueuesOfThread
<1>2. QueuesOf(t)' = QueuesOf(t)
  BY DEF QueuesOf
<1>3. pc'[t] \in {"scan", "process", "wait", "testSuspend", "answer", "blocked"} =>
        /\ pc'[t] \in {"scan", "process"} => pc[t] \in {"scan", "process"}
        /\ pc'[t] \in {"wait", "testSuspend", "answer", "blocked"}
             => pc[t] \in {"wait", "testSuspend", "answer", "blocked"}
  OBVIOUS
<1> QED
  BY <1>1, <1>2, <1>3 DEF Scanned

\* Dropping packets from an empty queue leaves it empty.
LEMMA DroppedEmpty ==
    ASSUME NEW S, Dropped(S), queue["rxQueue"] = <<>>
    PROVE  queue'["rxQueue"] = <<>> \/ "rxQueue" \notin DOMAIN queue
<1>1. {i \in DOMAIN queue["rxQueue"] : queue["rxQueue"][i] \notin S} = {}
  OBVIOUS
<1>2. PICK place \in [1..Cardinality({}) -> {}] :
        queue' = [queue EXCEPT !["rxQueue"] = [k \in DOMAIN place |-> queue["rxQueue"][place[k]]]]
  BY <1>1 DEF Dropped
<1>3. DOMAIN place = {}
  OBVIOUS
<1>4. [k \in DOMAIN place |-> queue["rxQueue"][place[k]]] = <<>>
  BY <1>3
<1> QED
  BY <1>2, <1>4

\* Every step keeps what the threads have seen: a post that a thread has passed by is marked by its
\* poster, and only the thread itself clears the mark, before it scans again.
LEMMA WakeupStep == WakeupInv /\ [Next]_vars => WakeupInv'
<1> SUFFICES ASSUME WakeupInv, [Next]_vars PROVE WakeupInv'
  OBVIOUS
<1>p. WakeTypeOK /\ PcTypeOK /\ \A r \in Threads : Scanned(r) /\ scan[r] \in 1..Len(QueuesOf(r))
  BY DEF WakeupInv, WakeTypeOK
<1>t. ASSUME NEW r \in Threads PROVE posting[r] \in Nat /\ scan[r] \in Nat
  BY <1>p DEF WakeTypeOK
<1>m. ASSUME NEW p \in Procs, NEW l, pc' = [pc EXCEPT ![p] = l]
      PROVE  PcTypeOK' /\ pc'[p] = l /\ \A r \in Procs : r # p => pc'[r] = pc[r]
  BY <1>p, <1>m DEF PcTypeOK
\* the threads stay where they are, nothing is posted and no mark is cleared
<1>f. ASSUME PcTypeOK', \A r \in Threads : pc'[r] = pc[r], UNCHANGED <<scan, posting>>,
             queue' = [q \in Queues |-> queue'[q]], eventFlag' = [r \in Threads |-> eventFlag'[r]],
             \A r \in Threads : "POST" \in eventFlag[r] => "POST" \in eventFlag'[r],
             \A q \in Queues : queue[q] = <<>> => queue'[q] = <<>>
      PROVE  WakeupInv'
  <2>1. ASSUME NEW r \in Threads PROVE Scanned(r)'
    <3>1. scan'[r] = scan[r] /\ pc'[r] = pc[r] /\ (Quiet(r)' => Quiet(r))
      BY <1>f DEF Quiet
    <3>2. \A q \in Range(QueuesOf(r)) : queue[q] = <<>> => queue'[q] = <<>>
      BY <1>f, QueuesOfThread
    <3> QED
      BY <1>p, <3>1, <3>2, ScannedFrame
  <2> QED
    BY <1>f, <1>p, <2>1 DEF WakeupInv, WakeTypeOK
<1>1. ASSUME NEW t \in Threads, Post(t) PROVE WakeupInv'
  <2>1. PICK q \in Range(QueuesOf(t)), i \in free[t] : queue' = [queue EXCEPT ![q] = Append(@, i)]
    BY <1>1 DEF Post
  <2>2. UNCHANGED <<pc, eventFlag, scan>> /\ posting' = [posting EXCEPT ![t] = @ + 1]
    BY <1>1 DEF Post
  <2>3. WakeTypeOK'
    <3>1. PcTypeOK'
      BY <1>p, <2>2 DEF PcTypeOK
    <3>2. posting' \in [Threads -> Nat]
      BY <1>p, <1>t, <2>2 DEF WakeTypeOK
    <3>3. queue' = [s \in Queues |-> queue'[s]]
      BY <1>p, <2>1 DEF WakeTypeOK
    <3> QED
      BY <1>p, <2>2, <3>1, <3>2, <3>3 DEF WakeTypeOK
  <2>4. ASSUME NEW r \in Threads PROVE Scanned(r)'
    <3>1. CASE r = t
      BY <1>p, <1>t, <2>2, <3>1 DEF WakeTypeOK, Scanned, Quiet
    <3>2. CASE r # t
      <4>1. \A s \in Range(QueuesOf(r)) : s \in Queues /\ s # q
        BY <3>2, QueuesOfThread
      <4>2. \A s \in Range(QueuesOf(r)) : queue'[s] = queue[s]
        BY <1>p, <2>1, <4>1 DEF WakeTypeOK
      <4>3. posting'[r] = posting[r] /\ eventFlag'[r] = eventFlag[r] /\ scan'[r] = scan[r] /\ pc'[r] = pc[r]
        BY <1>p, <2>2, <3>2 DEF WakeTypeOK
      <4>4. Quiet(r)' => Quiet(r)
        BY <4>3 DEF Quiet
      <4> QED
        BY <1>p, <4>2, <4>3, <4>4, ScannedFrame
    <3> QED
      BY <3>1, <3>2
  <2> QED
    BY <2>3, <2>4 DEF WakeupInv
<1>2. ASSUME NEW t \in Threads, Notify(t) PROVE WakeupInv'
  <2>1. /\ UNCHANGED <<pc, queue, scan>> /\ posting[t] > 0 /\ posting' = [posting EXCEPT ![t] = @ - 1]
        /\ eventFlag' = [eventFlag EXCEPT ![t] = @ \cup {"POST"}]
    BY <1>2 DEF Notify, Set
  <2>2. WakeTypeOK'
    <3>1. PcTypeOK'
      BY <1>p, <2>1 DEF PcTypeOK
    <3>2. posting' \in [Threads -> Nat]
      BY <1>p, <1>t, <2>1 DEF WakeTypeOK
    <3>3. eventFlag' = [r \in Threads |-> eventFlag'[r]]
      BY <1>p, <2>1 DEF WakeTypeOK
    <3> QED
      BY <1>p, <2>1, <3>1, <3>2, <3>3 DEF WakeTypeOK
  <2>3. ASSUME NEW r \in Threads PROVE Scanned(r)'
    <3>1. CASE r = t
      <4>1. "POST" \in eventFlag'[t]
        BY <1>p, <2>1 DEF WakeTypeOK
      <4> QED
        BY <3>1, <4>1 DEF Scanned, Quiet
    <3>2. CASE r # t
      <4>1. posting'[r] = posting[r] /\ eventFlag'[r] = eventFlag[r]
        BY <1>p, <2>1, <3>2 DEF WakeTypeOK
      <4> QED
        BY <1>p, <2>1, <4>1 DEF Scanned, Quiet
    <3> QED
      BY <3>1, <3>2
  <2> QED
    BY <2>2, <2>3 DEF WakeupInv
<1>o. ASSUME NEW t \in Threads, Thread(t), NEW r \in Threads, r # t PROVE Scanned(r)'
  <2>1. scan'[r] = scan[r] /\ pc'[r] = pc[r] /\ posting'[r] = posting[r] /\ eventFlag'[r] = eventFlag[r]
    <3>1. pc'[r] = pc[r]
      BY <1>o, <1>m, ThreadMoves, ProcsDiffer
    <3>2. \/ UNCHANGED eventFlag \/ \E b : eventFlag' = [eventFlag EXCEPT ![t] = @ \ b]
      BY <1>o DEF Thread, WaitEvent, Shutdown, KeepRunning, Skip, Take, Process, TestSuspend,
           SuspendBitCleared, Answer, Resumed, Clear
    <3>3. \/ UNCHANGED scan \/ \E n : scan' = [scan EXCEPT ![t] = n]
      BY <1>o DEF Thread, WaitEvent, Shutdown, KeepRunning, Skip, Take, Process, TestSuspend, Answer,
           Resumed
    <3>4. UNCHANGED posting
      BY <1>o, ThreadMoves
    <3> QED
      BY <1>o, <1>p, <3>1, <3>2, <3>3, <3>4 DEF WakeTypeOK
  <2>2. \A s \in Range(QueuesOf(r)) : queue'[s] = queue[s]
    <3>1. \/ UNCHANGED queue \/ \E e : queue' = [queue EXCEPT ![NextQueue(t)] = e]
      BY <1>o DEF Thread, WaitEvent, Shutdown, KeepRunning, Skip, Take, Process, TestSuspend, Answer,
           Resumed, flowVars
    <3>2. NextQueue(t) \in Range(QueuesOf(t))
      BY <1>o, <1>p, QueuesOfThread DEF NextQueue
    <3>3. \A s \in Range(QueuesOf(r)) : s \in Queues /\ s # NextQueue(t)
      BY <1>o, <3>2, QueuesOfThread
    <3> QED
      BY <1>p, <3>1, <3>3 DEF WakeTypeOK
  <2>3. Quiet(r)' => Quiet(r)
    BY <2>1 DEF Quiet
  <2> QED
    BY <1>p, <2>1, <2>2, <2>3, ScannedFrame
<1>3. ASSUME NEW t \in Threads, WaitEvent(t) \/ Shutdown(t) PROVE WakeupInv'
  <2>1. /\ UNCHANGED <<scan, queue, posting>> /\ Thread(t)
        /\ \E b : eventFlag' = [eventFlag EXCEPT ![t] = @ \ b]
        /\ \E l \in {"testShutdown", "exited"} : pc' = [pc EXCEPT ![t] = l]
    BY <1>3 DEF WaitEvent, Shutdown, Clear, Goto, flowVars, Thread
  <2>2. PcTypeOK' /\ pc'[t] \in {"testShutdown", "exited"}
    BY <1>m, <2>1, ProcsDiffer
  <2>3. WakeTypeOK'
    BY <1>p, <2>1, <2>2 DEF WakeTypeOK
  <2>4. Scanned(t)'
    BY <2>2 DEF Scanned
  <2> QED
    BY <1>o, <2>1, <2>3, <2>4 DEF WakeupInv
<1>4. ASSUME NEW t \in Threads, KeepRunning(t) PROVE WakeupInv'
  <2>1. /\ UNCHANGED <<eventFlag, queue, posting>> /\ Thread(t)
        /\ scan' = [scan EXCEPT ![t] = 1] /\ pc' = [pc EXCEPT ![t] = "scan"]
    BY <1>4 DEF KeepRunning, Goto, flowVars, Thread
  <2>2. PcTypeOK' /\ pc'[t] = "scan" /\ scan'[t] = 1
    BY <1>m, <1>p, <2>1, ProcsDiffer DEF WakeTypeOK
  <2>3. WakeTypeOK'
    BY <1>p, <2>1, <2>2, QueuesOfThread DEF WakeTypeOK
  <2>4. Scanned(t)'
    BY <2>2 DEF Scanned
  <2> QED
    BY <1>o, <2>1, <2>3, <2>4 DEF WakeupInv
<1>5. ASSUME NEW t \in Threads, Skip(t) PROVE WakeupInv'
  <2>1. /\ UNCHANGED <<eventFlag, queue, posting>> /\ Thread(t) /\ pc[t] = "scan"
        /\ queue[QueuesOf(t)[scan[t]]] = <<>>
        /\ scan' = [scan EXCEPT ![t] = IF @ = Len(QueuesOf(t)) THEN 1 ELSE @ + 1]
        /\ pc' = [pc EXCEPT ![t] = IF scan[t] = Len(QueuesOf(t)) THEN "testSuspend" ELSE "scan"]
    BY <1>5 DEF Skip, NextQueue, Goto, flowVars, Thread
  <2>2. /\ PcTypeOK' /\ pc'[t] = (IF scan[t] = Len(QueuesOf(t)) THEN "testSuspend" ELSE "scan")
        /\ scan'[t] = (IF scan[t] = Len(QueuesOf(t)) THEN 1 ELSE scan[t] + 1)
    BY <1>m, <1>p, <2>1, ProcsDiffer DEF WakeTypeOK
  <2>3. WakeTypeOK'
    BY <1>p, <1>t, <2>1, <2>2, QueuesOfThread DEF WakeTypeOK
  <2>4. Scanned(t)'
    <3>1. Quiet(t)' = Quiet(t) /\ QueuesOf(t)' = QueuesOf(t)
      BY <2>1 DEF Quiet, QueuesOf
    <3>2. Quiet(t) => \A k \in 1..scan[t] : queue[QueuesOf(t)[k]] = <<>>
      BY <1>p, <1>t, <2>1 DEF Scanned
    <3>3. CASE scan[t] = Len(QueuesOf(t))
      <4>1. Quiet(t) => \A q \in Range(QueuesOf(t)) : queue[q] = <<>>
        BY <3>2, <3>3, QueuesOfThread
      <4> QED
        BY <2>1, <2>2, <3>1, <3>3, <4>1 DEF Scanned
    <3>4. CASE scan[t] # Len(QueuesOf(t))
      BY <1>t, <2>1, <2>2, <3>1, <3>2, <3>4 DEF Scanned
    <3> QED
      BY <3>3, <3>4
  <2> QED
    BY <1>o, <2>1, <2>3, <2>4 DEF WakeupInv
<1>6. ASSUME NEW t \in Threads, Take(t) PROVE WakeupInv'
  <2>1. /\ UNCHANGED <<eventFlag, scan, posting>> /\ Thread(t) /\ pc[t] = "scan"
        /\ queue[NextQueue(t)] # <<>> /\ pc' = [pc EXCEPT ![t] = "process"]
        /\ queue' = [queue EXCEPT ![NextQueue(t)] = Tail(@)]
    BY <1>6 DEF Take, Goto, Thread
  <2>2. PcTypeOK' /\ pc'[t] = "process" /\ (Quiet(t)' => Quiet(t))
    BY <1>m, <2>1, ProcsDiffer DEF Quiet
  <2>3. WakeTypeOK'
    BY <1>p, <2>1, <2>2 DEF WakeTypeOK
  <2>4. \A q \in Range(QueuesOf(t)) : queue[q] = <<>> => queue'[q] = <<>>
    BY <1>p, <2>1, QueuesOfThread DEF WakeTypeOK
  <2> QED
    BY <1>o, <1>p, <2>1, <2>2, <2>3, <2>4, ScannedFrame DEF WakeupInv
<1>7. ASSUME NEW t \in Threads, Process(t) \/ TestSuspend(t) \/ Answer(t) \/ Resumed(t) PROVE WakeupInv'
  <2>1. UNCHANGED <<scan, posting, queue>> /\ Thread(t)
    BY <1>7 DEF Process, TestSuspend, Answer, Resumed, flowVars, Thread
  <2>2. \E l : /\ pc' = [pc EXCEPT ![t] = l]
               /\ \/ l = "testShutdown"
                  \/ {pc[t], l} \subseteq {"scan", "process"}
                  \/ {pc[t], l} \subseteq {"wait", "testSuspend", "answer", "blocked"}
    BY <1>7 DEF Process, TestSuspend, Answer, Resumed, Goto
  <2>3. UNCHANGED eventFlag \/ eventFlag' = [eventFlag EXCEPT ![t] = @ \ {"SUSPEND"}]
    BY <1>7 DEF Process, TestSuspend, SuspendBitCleared, Clear, Answer, Resumed
  <2>4. /\ PcTypeOK'
        /\ \/ pc'[t] = "testShutdown"
           \/ {pc[t], pc'[t]} \subseteq {"scan", "process"}
           \/ {pc[t], pc'[t]} \subseteq {"wait", "testSuspend", "answer", "blocked"}
    BY <1>m, <2>2, ProcsDiffer
  <2>5. "POST" \in eventFlag[t] => "POST" \in eventFlag'[t]
    BY <1>p, <2>3 DEF WakeTypeOK
  <2>6. Quiet(t)' => Quiet(t)
    BY <2>1, <2>5 DEF Quiet
  <2>7. WakeTypeOK'
    BY <1>p, <2>1, <2>3, <2>4 DEF WakeTypeOK
  <2>8. Scanned(t)'
    BY <1>p, <2>1, <2>4, <2>6, ScannedFrame
  <2> QED
    BY <1>o, <2>1, <2>7, <2>8 DEF WakeupInv
<1>8. ASSUME NEW c \in Calls, Call(c) \/ Validate(c) \/ \E S \in SUBSET Packets : Return(c, S)
      PROVE  WakeupInv'
  <2>1. PcTypeOK' /\ \A r \in Threads : pc'[r] = pc[r]
    BY <1>8, <1>m, CallMoves, ProcsDiffer
  <2>2. UNCHANGED <<eventFlag, scan, posting>>
    BY <1>8, CallMoves
  <2>3. UNCHANGED queue \/ \E S : Dropped(S)
    BY <1>8 DEF Call, Validate, Return, flowVars
  <2>4. /\ queue' = [q \in Queues |-> queue'[q]]
        /\ \A q \in Queues : queue[q] = <<>> => queue'[q] = <<>>
    <3>1. CASE UNCHANGED queue
      BY <1>p, <3>1 DEF WakeTypeOK
    <3>2. ASSUME NEW S, Dropped(S) PROVE <2>4!1 /\ <2>4!2
      <4>1. \E e : queue' = [queue EXCEPT !["rxQueue"] = e]
        BY <3>2 DEF Dropped
      <4>2. "rxQueue" \in Queues /\ DOMAIN queue = Queues
        BY <1>p DEF WakeTypeOK, Queues
      <4>3. queue' = [q \in Queues |-> queue'[q]]
        BY <1>p, <4>1 DEF WakeTypeOK
      <4>4. \A q \in Queues : queue[q] = <<>> => queue'[q] = <<>>
        BY <1>p, <3>2, <4>1, <4>2, DroppedEmpty DEF WakeTypeOK
      <4> QED
        BY <4>3, <4>4
    <3> QED
      BY <2>3, <3>1, <3>2
  <2> QED
    BY <1>f, <1>p, <2>1, <2>2, <2>4 DEF WakeTypeOK
<1>9. CASE SuspendCall \/ ResumeCall \/ PmReturns
  <2>1. PcTypeOK' /\ \A r \in Threads : pc'[r] = pc[r]
    BY <1>9, <1>m, PmMoves, ProcsDiffer
  <2>2. UNCHANGED <<scan, posting, queue>>
    BY <1>9, PmMoves DEF flowVars
  <2>3. \/ UNCHANGED eventFlag
        \/ \E t \in Threads : \/ eventFlag' = [eventFlag EXCEPT ![t] = @ \cup {"SUSPEND"}]
                              \/ eventFlag' = [eventFlag EXCEPT ![t] = @ \ {"SUSPEND"}]
    BY <1>9 DEF SuspendCall, ResumeCall, PmReturns, Answered, Expired, SuspendRefused, SuspendAllowed,
         SuspendFwOk, SuspendFwFailed, ResumeMc, ResumeRefused, ResumeAllowed, ResumeFwOk,
         ResumeFwFailed, Set, RequestWithdrawn, Clear, Threads
  <2>4. /\ eventFlag' = [r \in Threads |-> eventFlag'[r]]
        /\ \A r \in Threads : "POST" \in eventFlag[r] => "POST" \in eventFlag'[r]
    BY <1>p, <2>3 DEF WakeTypeOK
  <2> QED
    BY <1>f, <1>p, <2>1, <2>2, <2>4 DEF WakeTypeOK
<1>10. CASE SsrStart \/ SsrReady \/ SsrNotReady \/ WakeThreads \/ McStopped \/ RxStopped \/ StopModules
            \/ StopThread("mc", "stopMc", "awaitMc") \/ StopThread("rx", "stopRx", "awaitRx")
  <2>1. \E l : pc' = [pc EXCEPT !["ssr"] = l]
    BY <1>10 DEF SsrStart, SsrReady, SsrNotReady, WakeThreads, McStopped, RxStopped, StopModules,
         StopThread, Goto
  <2>2. PcTypeOK' /\ \A r \in Threads : pc'[r] = pc[r]
    BY <1>m, <2>1, ProcsDiffer
  <2>3. UNCHANGED <<scan, posting>>
    BY <1>10 DEF SsrStart, SsrReady, SsrNotReady, WakeThreads, McStopped, RxStopped, StopModules,
         StopThread, flowVars
  <2>4. UNCHANGED eventFlag \/ \E t \in Threads : eventFlag' = [eventFlag EXCEPT ![t] = @ \cup {"SHUTDOWN", "POST"}]
    BY <1>10 DEF SsrStart, SsrReady, SsrNotReady, WakeThreads, McStopped, RxStopped, StopModules,
         StopThread, Set, Threads
  <2>5. \/ UNCHANGED queue \/ queue' = [queue EXCEPT !["rxQueue"] = <<>>]
        \/ queue' = [q \in Queues |-> IF q = "rxQueue" THEN queue[q] ELSE <<>>]
    BY <1>10 DEF SsrStart, SsrReady, SsrNotReady, WakeThreads, McStopped, RxStopped, StopModules,
         StopThread, flowVars
  <2>6. /\ eventFlag' = [r \in Threads |-> eventFlag'[r]]
        /\ \A r \in Threads : "POST" \in eventFlag[r] => "POST" \in eventFlag'[r]
    BY <1>p, <2>4 DEF WakeTypeOK
  <2>7. /\ queue' = [q \in Queues |-> queue'[q]]
        /\ \A q \in Queues : queue[q] = <<>> => queue'[q] = <<>>
    BY <1>p, <2>5 DEF WakeTypeOK
  <2> QED
    BY <1>f, <2>2, <2>3, <2>6, <2>7
<1>11. CASE Reopen
  <2>1. /\ queue' = [q \in Queues |-> <<>>] /\ scan' = [t \in Threads |-> 1]
        /\ eventFlag' = [t \in Threads |-> {}] /\ UNCHANGED posting /\ PcTypeOK'
        /\ \A t \in Threads : pc'[t] = "wait"
    BY <1>11, ProcsDiffer DEF Reopen, PcTypeOK
  <2>2. WakeTypeOK'
    BY <1>p, <2>1, QueuesOfThread DEF WakeTypeOK
  <2>3. ASSUME NEW r \in Threads PROVE Scanned(r)'
    BY <2>1, QueuesOfThread DEF Scanned
  <2> QED
    BY <2>2, <2>3 DEF WakeupInv
<1>12. CASE UNCHANGED vars
  BY <1>12, <1>f, <1>p DEF vars, flowVars, PcTypeOK, WakeTypeOK
<1> QED
  BY <1>1, <1>2, <1>3, <1>4, <1>5, <1>6, <1>7, <1>8, <1>9, <1>10, <1>11, <1>12
     DEF Next, Thread, SsrGoesOn

\* The queues are empty at the start.
LEMMA WakeupInit == Init => WakeupInv
<1> SUFFICES ASSUME Init PROVE WakeupInv
  OBVIOUS
<1>1. WakeTypeOK
  BY QueuesOfThread DEF Init, WakeTypeOK, PcTypeOK
<1>2. ASSUME NEW t \in Threads PROVE Scanned(t)
  BY ProcsDiffer, QueuesOfThread DEF Init, Scanned
<1> QED
  BY <1>1, <1>2 DEF WakeupInv

\* A thread that sleeps with nothing to wake it has empty queues, for any number of queues, however
\* posts, its scan, a suspend and a restart interleave.
THEOREM NoLostWakeupAlways == Spec => []NoLostWakeup
<1>1. WakeupInv => NoLostWakeup
  BY DEF WakeupInv, Scanned, Quiet, NoLostWakeup
<1> QED
  BY <1>1, WakeupInit, WakeupStep, PTL DEF Spec

----------------------------------------------------------------------------
(* Every wrapper and packet is in one place                                *)

Items == Wrappers \cup Packets
Content(q) == Range(queue[q])
Held(t) == Range(hand[t])
PacketsGone == pc["ssr"] \in {"stopModules", "down"}

ItemTypeOK ==
    /\ queue \in [Queues -> Seq(Items)] /\ \A q \in Queues : IsInjective(queue[q])
    /\ free \in [Threads -> SUBSET Items]
    /\ hand = [t \in Threads |-> hand[t]]
    /\ \A t \in Threads : hand[t] # <<>> =>
           pc[t] = "process" /\ \E i \in Items : hand[t] = <<i>>

\* the items of a thread are on its free list, in its hand or in one of its queues ...
Covered(t) ==
    \A i \in ItemsOf(t) : \/ i \in free[t] \/ i \in Held(t)
                          \/ \E q \in Range(QueuesOf(t)) : i \in Content(q)
                          \/ t = "rx" /\ PacketsGone

\* ... in only one of these, and no other items are
Apart(t) ==
    /\ \A i \in free[t] : i \in ItemsOf(t) /\ i \notin Held(t)
    /\ \A i \in Held(t) : i \in ItemsOf(t)
    /\ \A q \in Range(QueuesOf(t)), i \in Items : i \in Content(q) =>
           /\ i \in ItemsOf(t) /\ i \notin free[t] /\ i \notin Held(t)
           /\ \A r \in Range(QueuesOf(t)) : r # q => i \notin Content(r)
    /\ t = "rx" /\ PacketsGone => free[t] = {} /\ queue["rxQueue"] = <<>>

ItemInv ==
    /\ GoneInv /\ WakeupInv /\ ItemTypeOK
    /\ \A t \in Threads : Covered(t) /\ Apart(t)

\* Putting a new item at the end of a queue.
LEMMA AppendContent ==
    ASSUME NEW s \in Seq(Items), NEW i \in Items, IsInjective(s), i \notin Range(s)
    PROVE  /\ Append(s, i) \in Seq(Items) /\ IsInjective(Append(s, i))
           /\ Range(Append(s, i)) = Range(s) \cup {i}
<1>1. /\ Append(s, i) \in Seq(Items) /\ Len(Append(s, i)) = Len(s) + 1
      /\ \A k \in 1..Len(s) : Append(s, i)[k] = s[k]
      /\ Append(s, i)[Len(s) + 1] = i
  BY AppendProperties
<1>2. /\ DOMAIN Append(s, i) = 1..(Len(s) + 1) /\ DOMAIN s = 1..Len(s) /\ Len(s) \in Nat
      /\ \A k \in 1..(Len(s) + 1) : (k \in 1..Len(s) \/ k = Len(s) + 1)
  BY <1>1, LenProperties
<1>3. \A k \in 1..Len(s) : s[k] \in Range(s) /\ s[k] # i
  BY <1>2 DEF Range
<1>4. IsInjective(Append(s, i))
  <2> SUFFICES ASSUME NEW a \in 1..(Len(s) + 1), NEW b \in 1..(Len(s) + 1),
                      Append(s, i)[a] = Append(s, i)[b]
               PROVE  a = b
    BY <1>2 DEF IsInjective
  <2> QED
    BY <1>1, <1>2, <1>3 DEF IsInjective
<1>5. Range(Append(s, i)) = Range(s) \cup {i}
  <2>1. ASSUME NEW x \in Range(Append(s, i)) PROVE x \in Range(s) \cup {i}
    BY <1>1, <1>2, <1>3 DEF Range
  <2>2. ASSUME NEW x \in Range(s) PROVE x \in Range(Append(s, i))
    BY <1>1, <1>2 DEF Range
  <2>3. i \in Range(Append(s, i))
    BY <1>1, <1>2 DEF Range
  <2> QED
    BY <2>1, <2>2, <2>3
<1> QED
  BY <1>1, <1>4, <1>5

\* Taking the first item of a queue.
LEMMA TailContent ==
    ASSUME NEW s \in Seq(Items), s # <<>>, IsInjective(s)
    PROVE  /\ Tail(s) \in Seq(Items) /\ IsInjective(Tail(s))
           /\ Head(s) \in Range(s) /\ Head(s) \in Items
           /\ Range(Tail(s)) = Range(s) \ {Head(s)}
<1>1. /\ Len(s) \in Nat \ {0} /\ DOMAIN s = 1..Len(s) /\ Head(s) = s[1]
      /\ Tail(s) \in Seq(Items) /\ Len(Tail(s)) = Len(s) - 1
      /\ \A k \in 1..(Len(s) - 1) : Tail(s)[k] = s[k + 1]
  BY EmptySeq, LenProperties, HeadTailProperties
<1>2. /\ DOMAIN Tail(s) = 1..(Len(s) - 1) /\ 1 \in 1..Len(s)
      /\ \A k \in 1..Len(s) : k = 1 \/ k - 1 \in 1..(Len(s) - 1)
      /\ \A k \in 1..(Len(s) - 1) : k + 1 \in 1..Len(s)
  BY <1>1, LenProperties
<1>3. IsInjective(Tail(s))
  <2> SUFFICES ASSUME NEW a \in 1..(Len(s) - 1), NEW b \in 1..(Len(s) - 1), Tail(s)[a] = Tail(s)[b]
               PROVE  a = b
    BY <1>2 DEF IsInjective
  <2>1. a + 1 = b + 1
    BY <1>1, <1>2 DEF IsInjective
  <2> QED
    BY <1>1, <2>1
<1>4. ASSUME NEW x \in Range(Tail(s)) PROVE x \in Range(s) \ {Head(s)}
  <2>1. PICK k \in 1..(Len(s) - 1) : x = s[k + 1]
    BY <1>1, <1>2, <1>4 DEF Range
  <2>2. k + 1 # 1 /\ k + 1 \in DOMAIN s /\ 1 \in DOMAIN s
    BY <1>1, <1>2
  <2> QED
    BY <1>1, <2>1, <2>2 DEF Range, IsInjective
<1>5. ASSUME NEW x \in Range(s), x # Head(s) PROVE x \in Range(Tail(s))
  <2>1. PICK k \in 1..Len(s) : x = s[k] /\ k # 1
    BY <1>1, <1>5 DEF Range
  <2>2. k - 1 \in 1..(Len(s) - 1) /\ (k - 1) + 1 = k
    BY <1>1, <1>2, <2>1
  <2>3. Tail(s)[k - 1] = x
    BY <1>1, <2>1, <2>2
  <2> QED
    BY <1>2, <2>2, <2>3 DEF Range
<1>6. Head(s) \in Range(s) /\ Head(s) \in Items
  BY <1>1, <1>2 DEF Range
<1>7. Range(Tail(s)) = Range(s) \ {Head(s)}
  BY <1>4, <1>5
<1> QED
  BY <1>1, <1>3, <1>6, <1>7

\* Dropping packets from the queue keeps the others, each once.
LEMMA DroppedContent ==
    ASSUME ItemTypeOK, NEW S, Dropped(S)
    PROVE  /\ queue' \in [Queues -> Seq(Items)] /\ \A q \in Queues : IsInjective(queue'[q])
           /\ \A q \in Queues : q # "rxQueue" => queue'[q] = queue[q]
           /\ Content("rxQueue")' = Content("rxQueue") \ S
<1> DEFINE q == queue["rxQueue"]
           kept == {i \in DOMAIN q : q[i] \notin S}
           n == Cardinality(kept)
<1>0. "rxQueue" \in Queues /\ q \in Seq(Items) /\ IsInjective(q) /\ DOMAIN q = 1..Len(q) /\ Len(q) \in Nat
  BY LenProperties DEF Queues, ItemTypeOK
<1> HIDE DEF q
<1>1. IsFiniteSet(kept) /\ n \in Nat
  <2>1. IsFiniteSet(1..Len(q)) /\ kept \subseteq 1..Len(q)
    BY <1>0, FS_Interval
  <2> QED
    BY <2>1, FS_Subset, FS_CardinalityType
<1>2. PICK place \in [1..n -> kept] :
        /\ Range(place) = kept /\ \A j, k \in DOMAIN place : j < k => place[j] < place[k]
        /\ queue' = [queue EXCEPT !["rxQueue"] = [k \in DOMAIN place |-> q[place[k]]]]
  BY DEF Dropped, q
<1> DEFINE new == [k \in 1..n |-> q[place[k]]]
<1>3. queue' = [queue EXCEPT !["rxQueue"] = new] /\ \A k \in 1..n : place[k] \in kept
  BY <1>2
<1>4. new \in Seq(Items)
  <2>1. ASSUME NEW k \in 1..n PROVE q[place[k]] \in Items
    BY <1>0, <1>2
  <2> QED
    BY <1>1, <2>1
<1>5. IsInjective(new)
  <2> SUFFICES ASSUME NEW a \in 1..n, NEW b \in 1..n, q[place[a]] = q[place[b]] PROVE a = b
    BY DEF IsInjective
  <2>1. place[a] = place[b]
    BY <1>0, <1>3 DEF IsInjective
  <2>2. a < b => place[a] < place[b]
    BY <1>2
  <2>3. b < a => place[b] < place[a]
    BY <1>2
  <2>4. place[a] \in Nat
    BY <1>0, <1>3
  <2> QED
    BY <1>1, <2>1, <2>2, <2>3, <2>4
<1>6. Range(new) = Range(q) \ S
  <2>1. ASSUME NEW x \in Range(new) PROVE x \in Range(q) \ S
    <3>1. PICK k \in 1..n : x = q[place[k]]
      BY <2>1 DEF Range
    <3> QED
      BY <1>0, <1>3, <3>1 DEF Range
  <2>2. ASSUME NEW x \in Range(q) \ S PROVE x \in Range(new)
    <3>1. PICK i \in kept : x = q[i]
      BY <2>2 DEF Range
    <3>2. PICK k \in 1..n : i = place[k]
      BY <1>2, <3>1 DEF Range
    <3> QED
      BY <3>1, <3>2 DEF Range
  <2> QED
    BY <2>1, <2>2
<1> HIDE DEF new
<1>7. /\ queue'["rxQueue"] = new /\ \A r \in Queues : r # "rxQueue" => queue'[r] = queue[r]
      /\ queue' \in [Queues -> Seq(Items)]
  BY <1>0, <1>3, <1>4 DEF ItemTypeOK
<1> QED
  BY <1>5, <1>6, <1>7 DEF Content, q, ItemTypeOK

\* The packets belong to rx, the wrappers to mc; each thread's queues hold its own items.
LEMMA ItemsOfThread ==
    /\ "mc" \in Threads /\ "rx" \in Threads /\ "rxQueue" \in Queues
    /\ \A t \in Threads : ItemsOf(t) \subseteq Items
    /\ \A t, r \in Threads : \A i \in ItemsOf(t) : i \in ItemsOf(r) => r = t
    /\ \A q \in Queues : q \in Range(QueuesOf(IF q = "rxQueue" THEN "rx" ELSE "mc"))
    /\ \A q \in Range(QueuesOf("rx")) : q = "rxQueue"
    /\ Range(QueuesOf("mc")) = Range(McQueues) /\ "rxQueue" \notin Range(McQueues)
<1>1. Range(<<"rxQueue">>) = {"rxQueue"}
  BY DEF Range
<1> QED
  BY <1>1, SchedAssumption DEF Threads, Queues, QueuesOf, ItemsOf, Items

\* A step that leaves the items where they are.
LEMMA ItemFrame ==
    ASSUME ItemInv, GoneInv', WakeupInv', UNCHANGED <<queue, free, hand>>, PacketsGone' = PacketsGone,
           \A t \in Threads : pc[t] = "process" => pc'[t] = "process"
    PROVE  ItemInv'
<1>1. ItemTypeOK'
  BY DEF ItemInv, ItemTypeOK
<1>2. ASSUME NEW t \in Threads PROVE Covered(t)' /\ Apart(t)'
  <2>1. Covered(t) /\ Apart(t) /\ ItemsOf(t)' = ItemsOf(t) /\ QueuesOf(t)' = QueuesOf(t)
    BY DEF ItemInv, ItemsOf, QueuesOf
  <2>2. Held(t)' = Held(t) /\ \A q : Content(q)' = Content(q)
    BY DEF Held, Content
  <2> QED
    BY <2>1, <2>2 DEF Covered, Apart
<1> QED
  BY <1>1, <1>2 DEF ItemInv

\* A thread's step that moves an item: the other thread is not concerned.
LEMMA ItemOther ==
    ASSUME ItemInv, NEW t \in Threads, free'[t] = free[t], hand'[t] = hand[t],
           \A q \in Range(QueuesOf(t)) : queue'[q] = queue[q],
           t = "rx" => PacketsGone' = PacketsGone
    PROVE  Covered(t)' /\ Apart(t)'
<1>1. Covered(t) /\ Apart(t) /\ ItemsOf(t)' = ItemsOf(t) /\ QueuesOf(t)' = QueuesOf(t)
  BY DEF ItemInv, ItemsOf, QueuesOf
<1>2. Held(t)' = Held(t) /\ \A q \in Range(QueuesOf(t)) : Content(q)' = Content(q)
  BY DEF Held, Content
<1>3. t = "rx" => "rxQueue" \in Range(QueuesOf(t))
  BY ItemsOfThread
<1> QED
  BY <1>1, <1>2, <1>3 DEF Covered, Apart

\* Every step moves an item from one place to another, or leaves all where they are.
LEMMA ItemStep == ItemInv /\ [Next]_vars => ItemInv'
<1> SUFFICES ASSUME ItemInv, [Next]_vars PROVE ItemInv'
  OBVIOUS
<1>g. GoneInv' /\ WakeupInv'
  BY GoneStep, WakeupStep DEF ItemInv
<1>p. /\ ItemTypeOK /\ GoneInv /\ PcTypeOK
      /\ \A r \in Threads : Covered(r) /\ Apart(r) /\ ItemsOf(r)' = ItemsOf(r) /\ QueuesOf(r)' = QueuesOf(r)
  BY DEF ItemInv, GoneInv, ItemsOf, QueuesOf
<1>m. ASSUME NEW p \in Procs, NEW l, pc' = [pc EXCEPT ![p] = l]
      PROVE  pc'[p] = l /\ \A r \in Procs : r # p => pc'[r] = pc[r]
  BY <1>p, <1>m DEF PcTypeOK
<1>e. /\ Range(<<>>) = {} /\ \A i : (Range(<<i>>) = {i} /\ <<i>> # <<>>)
      /\ <<>> \in Seq(Items) /\ IsInjective(<<>>)
  BY DEF Range, IsInjective
\* who is not processing holds nothing
<1>h. ASSUME NEW r \in Threads, pc[r] # "process" PROVE hand[r] = <<>> /\ Held(r) = {}
  BY <1>e, <1>h, <1>p DEF ItemTypeOK, Held
<1>1. ASSUME NEW t \in Threads, Post(t) PROVE ItemInv'
  <2>1. PICK q \in Range(QueuesOf(t)), i \in free[t] :
          queue' = [queue EXCEPT ![q] = Append(@, i)] /\ free' = [free EXCEPT ![t] = @ \ {i}]
    BY <1>1 DEF Post
  <2>2. UNCHANGED <<pc, hand>> /\ (t = "rx" => ~PacketsGone)
    BY <1>1 DEF Post, InterruptsOn, PacketsGone
  <2>3. q \in Queues /\ i \in Items /\ i \in ItemsOf(t) /\ i \notin Content(q) /\ queue[q] \in Seq(Items)
        /\ IsInjective(queue[q])
    BY <1>p, <2>1, QueuesOfThread, ItemsOfThread DEF Apart, ItemTypeOK
  <2>4. /\ Append(queue[q], i) \in Seq(Items) /\ IsInjective(Append(queue[q], i))
        /\ Range(Append(queue[q], i)) = Content(q) \cup {i}
    BY <2>3, AppendContent DEF Content
  <2>5. queue'[q] = Append(queue[q], i) /\ \A r \in Queues : r # q => queue'[r] = queue[r]
    BY <1>p, <2>1, <2>3 DEF ItemTypeOK
  <2>6. ItemTypeOK'
    <3>1. queue' \in [Queues -> Seq(Items)] /\ free' \in [Threads -> SUBSET Items]
      BY <1>p, <2>1, <2>3, <2>4 DEF ItemTypeOK
    <3>2. \A r \in Queues : IsInjective(queue'[r])
      BY <1>p, <2>4, <2>5 DEF ItemTypeOK
    <3> QED
      BY <1>p, <2>2, <3>1, <3>2 DEF ItemTypeOK
  <2>7. /\ Content(q)' = Content(q) \cup {i} /\ \A r \in Queues : r # q => Content(r)' = Content(r)
        /\ free'[t] = free[t] \ {i} /\ Held(t)' = Held(t) /\ PacketsGone' = PacketsGone
    BY <1>p, <2>1, <2>2, <2>4, <2>5 DEF Content, Held, ItemTypeOK, PacketsGone
  <2>8. Covered(t)' /\ Apart(t)'
    <3>1. Covered(t)'
      BY <1>p, <2>1, <2>7, QueuesOfThread DEF Covered
    <3>2. Apart(t)'
      <4>1. Apart(t) /\ ItemsOf(t)' = ItemsOf(t) /\ QueuesOf(t)' = QueuesOf(t)
        BY <1>p
      <4>2. ASSUME NEW r \in Range(QueuesOf(t)), NEW j \in Items, j \in Content(r)'
            PROVE  /\ j \in ItemsOf(t) /\ j \notin free'[t] /\ j \notin Held(t)'
                   /\ \A s \in Range(QueuesOf(t)) : s # r => j \notin Content(s)'
        <5>1. r \in Queues /\ Range(QueuesOf(t)) \subseteq Queues
          BY QueuesOfThread
        <5>2. CASE j = i
          <6>1. r = q /\ \A s \in Range(QueuesOf(t)) : i \notin Content(s)
            BY <2>1, <2>3, <2>7, <4>1, <4>2, <5>1, <5>2 DEF Apart
          <6>2. i \notin Held(t) /\ i \in ItemsOf(t)
            BY <2>1, <4>1 DEF Apart
          <6> QED
            BY <2>7, <5>1, <5>2, <6>1, <6>2
        <5>3. CASE j # i
          <6>1. j \in Content(r) /\ \A s \in Range(QueuesOf(t)) : j \in Content(s)' => j \in Content(s)
            BY <2>7, <4>2, <5>1, <5>3
          <6> QED
            BY <2>7, <4>1, <6>1 DEF Apart
        <5> QED
          BY <5>2, <5>3
      <4>3. /\ \A j \in free'[t] : j \in ItemsOf(t) /\ j \notin Held(t)'
            /\ \A j \in Held(t)' : j \in ItemsOf(t)
        BY <2>7, <4>1 DEF Apart
      <4>4. ~(t = "rx" /\ PacketsGone')
        BY <2>2, <2>7
      <4> QED
        BY <4>1, <4>2, <4>3, <4>4 DEF Apart
    <3> QED
      BY <3>1, <3>2
  <2>9. ASSUME NEW r \in Threads, r # t PROVE Covered(r)' /\ Apart(r)'
    <3>1. \A s \in Range(QueuesOf(r)) : queue'[s] = queue[s]
      BY <2>5, <2>9, QueuesOfThread
    <3>2. free'[r] = free[r] /\ hand'[r] = hand[r]
      BY <1>p, <2>1, <2>2, <2>9 DEF ItemTypeOK
    <3> QED
      BY <2>7, <3>1, <3>2, ItemOther
  <2> QED
    BY <1>g, <2>6, <2>8, <2>9 DEF ItemInv
<1>2. ASSUME NEW t \in Threads, Notify(t) PROVE ItemInv'
  BY <1>2, <1>g, ItemFrame DEF Notify, PacketsGone
<1>3. ASSUME NEW t \in Threads, Thread(t), ~Take(t), ~Process(t) PROVE ItemInv'
  <2>1. UNCHANGED <<queue, free, hand>> /\ pc[t] # "process"
    BY <1>3 DEF Thread, WaitEvent, Shutdown, KeepRunning, Skip, TestSuspend, Answer, Resumed, flowVars
  <2>2. pc'["ssr"] = pc["ssr"] /\ \A r \in Threads : r # t => pc'[r] = pc[r]
    BY <1>3, <1>m, ThreadMoves, ProcsDiffer
  <2> QED
    BY <1>g, <2>1, <2>2, ItemFrame DEF PacketsGone
<1>4. ASSUME NEW t \in Threads, Take(t) PROVE ItemInv'
  <2>1. PICK q \in Range(QueuesOf(t)) : q = NextQueue(t) /\ q \in Queues
    <3>1. scan[t] \in 1..Len(QueuesOf(t))
      BY DEF ItemInv, WakeupInv, WakeTypeOK
    <3> QED
      BY <3>1, QueuesOfThread DEF NextQueue
  <2>0. queue[q] # <<>> /\ pc[t] = "scan" /\ queue[q] \in Seq(Items) /\ IsInjective(queue[q])
    BY <1>4, <1>p, <2>1 DEF Take, ItemTypeOK
  <2>i. PICK i : i = Head(queue[q])
    OBVIOUS
  <2>2. /\ queue' = [queue EXCEPT ![q] = Tail(@)] /\ hand' = [hand EXCEPT ![t] = <<i>>]
        /\ UNCHANGED free /\ pc' = [pc EXCEPT ![t] = "process"]
    BY <1>4, <2>1, <2>i DEF Take, Goto
  <2>3. /\ Tail(queue[q]) \in Seq(Items) /\ IsInjective(Tail(queue[q])) /\ i \in Content(q) /\ i \in Items
        /\ Range(Tail(queue[q])) = Content(q) \ {i}
    BY <2>0, <2>i, TailContent DEF Content
  <2>4. /\ queue'[q] = Tail(queue[q]) /\ \A r \in Queues : r # q => queue'[r] = queue[r]
        /\ hand'[t] = <<i>> /\ \A r \in Threads : r # t => hand'[r] = hand[r]
        /\ hand' = [r \in Threads |-> hand'[r]]
    BY <1>p, <2>1, <2>2 DEF ItemTypeOK
  <2>5. pc'[t] = "process" /\ pc'["ssr"] = pc["ssr"] /\ \A r \in Threads : r # t => pc'[r] = pc[r]
    BY <1>m, <2>2, ProcsDiffer
  <2>6. ItemTypeOK'
    <3>1. queue' \in [Queues -> Seq(Items)] /\ free' \in [Threads -> SUBSET Items]
      BY <1>p, <2>1, <2>2, <2>3 DEF ItemTypeOK
    <3>2. \A r \in Queues : IsInjective(queue'[r])
      BY <1>p, <2>3, <2>4 DEF ItemTypeOK
    <3>3. \A r \in Threads : hand'[r] # <<>> => pc'[r] = "process" /\ \E j \in Items : hand'[r] = <<j>>
      BY <1>p, <2>3, <2>4, <2>5 DEF ItemTypeOK
    <3> QED
      BY <2>4, <3>1, <3>2, <3>3 DEF ItemTypeOK
  <2>7. /\ Content(q)' = Content(q) \ {i} /\ \A r \in Queues : r # q => Content(r)' = Content(r)
        /\ free'[t] = free[t] /\ Held(t) = {} /\ Held(t)' = {i} /\ PacketsGone' = PacketsGone
    <3>1. Content(q)' = Content(q) \ {i} /\ \A r \in Queues : r # q => Content(r)' = Content(r)
      BY <2>3, <2>4 DEF Content
    <3>2. Held(t) = {} /\ Held(t)' = {i}
      BY <1>e, <1>h, <2>0, <2>4 DEF Held
    <3> QED
      BY <2>2, <2>5, <3>1, <3>2 DEF PacketsGone
  <2>8. Covered(t)' /\ Apart(t)'
    <3>1. Covered(t)'
      BY <1>p, <2>1, <2>7, QueuesOfThread DEF Covered
    <3>2. ~(t = "rx" /\ PacketsGone)
      BY <1>p, <2>0, <2>1, ItemsOfThread DEF Apart
    <3>3. Apart(t)'
      BY <1>p, <2>1, <2>3, <2>7, <3>2, QueuesOfThread DEF Apart
    <3> QED
      BY <3>1, <3>3
  <2>9. ASSUME NEW r \in Threads, r # t PROVE Covered(r)' /\ Apart(r)'
    <3>1. \A s \in Range(QueuesOf(r)) : queue'[s] = queue[s]
      BY <2>1, <2>4, <2>9, QueuesOfThread
    <3> QED
      BY <2>2, <2>4, <2>7, <2>9, <3>1, ItemOther
  <2> QED
    BY <1>g, <2>6, <2>8, <2>9 DEF ItemInv
<1>5. ASSUME NEW t \in Threads, Process(t) PROVE ItemInv'
  <2>1. /\ free' = [free EXCEPT ![t] = @ \cup Held(t)] /\ hand' = [hand EXCEPT ![t] = <<>>]
        /\ UNCHANGED queue /\ pc[t] = "process" /\ \E l : pc' = [pc EXCEPT ![t] = l]
    BY <1>5 DEF Process, Returned, Held, Goto
  <2>2. pc'["ssr"] = pc["ssr"] /\ \A r \in Threads : r # t => pc'[r] = pc[r]
    BY <1>m, <2>1, ProcsDiffer
  <2>3. /\ free'[t] = free[t] \cup Held(t) /\ \A r \in Threads : r # t => free'[r] = free[r]
        /\ hand'[t] = <<>> /\ \A r \in Threads : r # t => hand'[r] = hand[r]
        /\ hand' = [r \in Threads |-> hand'[r]]
    BY <1>p, <2>1 DEF ItemTypeOK
  <2>4. ItemTypeOK'
    <3>1. Held(t) \subseteq Items
      BY <1>p, ItemsOfThread DEF Apart
    <3>2. free' \in [Threads -> SUBSET Items]
      BY <1>p, <2>1, <3>1 DEF ItemTypeOK
    <3> QED
      BY <1>p, <2>1, <2>2, <2>3, <3>2 DEF ItemTypeOK
  <2>5. Held(t)' = {} /\ PacketsGone' = PacketsGone /\ \A q : Content(q)' = Content(q)
    BY <1>e, <2>1, <2>2, <2>3 DEF Held, Content, PacketsGone
  <2>6. Covered(t)' /\ Apart(t)'
    <3>1. Covered(t)'
      BY <1>p, <2>3, <2>5 DEF Covered
    <3>2. ~(t = "rx" /\ PacketsGone)
      BY <1>p, <2>1 DEF GoneInv, PacketsGone
    <3>3. Apart(t)'
      BY <1>p, <2>3, <2>5, <3>2 DEF Apart
    <3> QED
      BY <3>1, <3>3
  <2>7. ASSUME NEW r \in Threads, r # t PROVE Covered(r)' /\ Apart(r)'
    BY <2>1, <2>3, <2>5, <2>7, ItemOther
  <2> QED
    BY <1>g, <2>4, <2>6, <2>7 DEF ItemInv
<1>6. ASSUME NEW c \in Calls, Call(c) \/ Validate(c) PROVE ItemInv'
  <2>1. UNCHANGED <<queue, free, hand>>
    BY <1>6 DEF Call, Validate, flowVars
  <2>2. pc'["ssr"] = pc["ssr"] /\ \A r \in Threads : pc'[r] = pc[r]
    BY <1>6, <1>m, CallMoves, ProcsDiffer
  <2> QED
    BY <1>g, <2>1, <2>2, ItemFrame DEF PacketsGone
<1>7. ASSUME NEW c \in Calls, NEW S \in SUBSET Packets, Return(c, S) PROVE ItemInv'
  <2>1. pc'["ssr"] = pc["ssr"] /\ \A r \in Threads : pc'[r] = pc[r]
    BY <1>7, <1>m, CallMoves, ProcsDiffer
  <2>2. /\ Dropped(S) /\ UNCHANGED hand
        /\ free' = [free EXCEPT !["rx"] = @ \cup (S \cap Content("rxQueue"))]
    BY <1>7 DEF Return, Dropped, Content
  <2>3. /\ queue' \in [Queues -> Seq(Items)] /\ \A q \in Queues : IsInjective(queue'[q])
        /\ \A q \in Queues : q # "rxQueue" => queue'[q] = queue[q]
        /\ Content("rxQueue")' = Content("rxQueue") \ S
    BY <1>p, <2>2, DroppedContent
  <2>4. /\ free'["rx"] = free["rx"] \cup (S \cap Content("rxQueue")) /\ free'["mc"] = free["mc"]
        /\ free' \in [Threads -> SUBSET Items]
    BY <1>p, <2>2, ItemsOfThread DEF ItemTypeOK, Items
  <2>5. ItemTypeOK'
    BY <1>p, <2>1, <2>2, <2>3, <2>4 DEF ItemTypeOK
  <2>6. Held("rx")' = Held("rx") /\ PacketsGone' = PacketsGone
    BY <2>1, <2>2 DEF Held, PacketsGone
  <2>7. Covered("rx")' /\ Apart("rx")'
    <3>1. "rxQueue" \in Range(QueuesOf("rx")) /\ "rx" \in Threads
      BY ItemsOfThread
    <3>2. Covered("rx")'
      BY <1>p, <2>3, <2>4, <2>6, <3>1, ItemsOfThread DEF Covered
    <3>3. \A i \in S : i \in Items
      BY DEF Items
    <3>4. PacketsGone => Content("rxQueue") = {} /\ free["rx"] = {} /\ queue["rxQueue"] = <<>>
      BY <1>e, <1>p, <3>1 DEF Apart, Content
    <3>5. PacketsGone => queue'["rxQueue"] = <<>> /\ free'["rx"] = {}
      BY <1>p, <2>2, <2>4, <3>4, DroppedEmpty, ItemsOfThread DEF ItemTypeOK
    <3>6. Apart("rx")'
      BY <1>p, <2>3, <2>4, <2>6, <3>1, <3>3, <3>5, ItemsOfThread DEF Apart
    <3> QED
      BY <3>2, <3>6
  <2>8. Covered("mc")' /\ Apart("mc")'
    <3>1. \A q \in Range(QueuesOf("mc")) : queue'[q] = queue[q]
      BY <2>3, ItemsOfThread, QueuesOfThread
    <3> QED
      BY <2>2, <2>4, <2>6, <3>1, ItemOther, ItemsOfThread
  <2> QED
    BY <1>g, <2>5, <2>7, <2>8 DEF ItemInv, Threads
<1>8. CASE SuspendCall \/ ResumeCall \/ PmReturns
  <2>1. pc'["ssr"] = pc["ssr"] /\ \A r \in Threads : pc'[r] = pc[r]
    BY <1>8, <1>m, PmMoves, ProcsDiffer
  <2> QED
    BY <1>8, <1>g, <2>1, PmMoves, ItemFrame DEF PacketsGone, flowVars
<1>s. ASSUME NEW l, pc' = [pc EXCEPT !["ssr"] = l]
      PROVE  pc'["ssr"] = l /\ \A r \in Threads : pc'[r] = pc[r]
  BY <1>m, <1>s, ProcsDiffer
<1>9. CASE SsrStart \/ SsrReady \/ SsrNotReady \/ WakeThreads \/ McStopped
           \/ StopThread("mc", "stopMc", "awaitMc") \/ StopThread("rx", "stopRx", "awaitRx")
  <2>1. /\ UNCHANGED <<queue, free, hand>> /\ ~PacketsGone
        /\ \E l : pc' = [pc EXCEPT !["ssr"] = l] /\ l \notin {"stopModules", "down"}
    BY <1>9 DEF SsrStart, SsrReady, SsrNotReady, WakeThreads, McStopped, StopThread, Goto, flowVars,
         PacketsGone
  <2>2. pc'["ssr"] \notin {"stopModules", "down"} /\ \A r \in Threads : pc'[r] = pc[r]
    BY <1>s, <2>1
  <2>3. PacketsGone' = PacketsGone
    BY <2>1, <2>2 DEF PacketsGone
  <2> QED
    BY <1>g, <2>1, <2>2, <2>3, ItemFrame
\* the thread is gone, so it holds nothing
<1>10. CASE RxStopped
  <2>1. /\ exited["rx"] > 0 /\ queue' = [queue EXCEPT !["rxQueue"] = <<>>]
        /\ free' = [free EXCEPT !["rx"] = {}] /\ UNCHANGED hand /\ pc' = [pc EXCEPT !["ssr"] = "stopModules"]
    BY <1>10 DEF RxStopped, Goto
  <2>2. pc'["ssr"] = "stopModules" /\ (\A r \in Threads : pc'[r] = pc[r]) /\ pc["rx"] = "exited"
    BY <1>p, <1>s, <2>1, ItemsOfThread DEF GoneInv
  <2>3. /\ queue'["rxQueue"] = <<>> /\ \A q \in Queues : q # "rxQueue" => queue'[q] = queue[q]
        /\ free'["rx"] = {} /\ free'["mc"] = free["mc"]
    BY <1>p, <2>1, ItemsOfThread DEF ItemTypeOK
  <2>4. ItemTypeOK'
    <3>1. queue' \in [Queues -> Seq(Items)] /\ free' \in [Threads -> SUBSET Items]
      BY <1>e, <1>p, <2>1, ItemsOfThread DEF ItemTypeOK
    <3>2. \A q \in Queues : IsInjective(queue'[q])
      BY <1>e, <1>p, <2>3 DEF ItemTypeOK
    <3> QED
      BY <1>p, <2>1, <2>2, <3>1, <3>2 DEF ItemTypeOK
  <2>5. Held("rx")' = {} /\ Content("rxQueue")' = {} /\ PacketsGone'
    BY <1>e, <1>h, <2>1, <2>2, <2>3, ItemsOfThread DEF Held, Content, PacketsGone
  <2>6. Covered("rx")' /\ Apart("rx")'
    BY <1>p, <2>3, <2>5, ItemsOfThread DEF Covered, Apart
  <2>7. Covered("mc")' /\ Apart("mc")'
    <3>1. \A q \in Range(QueuesOf("mc")) : queue'[q] = queue[q]
      BY <2>3, ItemsOfThread, QueuesOfThread
    <3> QED
      BY <2>1, <2>3, <3>1, ItemOther, ItemsOfThread
  <2> QED
    BY <1>g, <2>4, <2>6, <2>7 DEF ItemInv, Threads
<1>11. CASE StopModules
  <2> DEFINE flushed == UNION {Content(q) : q \in Range(McQueues)}
  <2>1. /\ pc["ssr"] = "stopModules" /\ pc' = [pc EXCEPT !["ssr"] = "down"] /\ UNCHANGED hand
        /\ free' = [free EXCEPT !["mc"] = @ \cup flushed]
        /\ queue' = [q \in Queues |-> IF q = "rxQueue" THEN queue[q] ELSE <<>>]
    BY <1>11 DEF StopModules, Goto, Content
  <2>2. pc'["ssr"] = "down" /\ (\A r \in Threads : pc'[r] = pc[r]) /\ pc["mc"] = "exited"
    BY <1>p, <1>s, <2>1 DEF GoneInv
  <2>3. \A i \in flushed : i \in Wrappers
    <3>1. ASSUME NEW q \in Range(McQueues), NEW i \in Content(q) PROVE i \in Wrappers
      <4>0. q \in Queues /\ "mc" \in Threads /\ q \in Range(QueuesOf("mc"))
        BY <3>1, ItemsOfThread, QueuesOfThread
      <4>s. queue[q] \in Seq(Items)
        BY <1>p, <4>0 DEF ItemTypeOK
      <4>1. i \in Items
        BY <3>1, <4>s, LenProperties DEF Content, Range
      <4> QED
        BY <1>p, <3>1, <4>0, <4>1 DEF Apart, ItemsOf
    <3> QED
      BY <3>1
  <2>4. /\ \A q \in Queues : q # "rxQueue" => queue'[q] = <<>>
        /\ queue'["rxQueue"] = queue["rxQueue"]
        /\ free'["mc"] = free["mc"] \cup flushed /\ free'["rx"] = free["rx"]
    BY <1>p, <2>1, ItemsOfThread DEF ItemTypeOK
  <2>5. ItemTypeOK'
    <3>1. queue' \in [Queues -> Seq(Items)]
      BY <1>e, <1>p, <2>1 DEF ItemTypeOK
    <3>2. free' \in [Threads -> SUBSET Items]
      BY <1>p, <2>1, <2>3 DEF ItemTypeOK, Items
    <3>3. \A q \in Queues : IsInjective(queue'[q])
      BY <1>e, <1>p, <2>4 DEF ItemTypeOK
    <3> QED
      BY <1>p, <2>1, <2>2, <3>1, <3>2, <3>3 DEF ItemTypeOK
  <2>6. /\ Held("mc")' = {} /\ Held("mc") = {} /\ PacketsGone' = PacketsGone
        /\ \A q \in Range(McQueues) : Content(q)' = {}
    BY <1>e, <1>h, <2>1, <2>2, <2>4, ItemsOfThread, QueuesOfThread DEF Held, Content, PacketsGone
  <2>7. Covered("mc")' /\ Apart("mc")'
    <3>1. \A q \in Range(McQueues) : \A i \in Content(q) : i \in flushed
      OBVIOUS
    <3> HIDE DEF flushed
    <3>2. Covered("mc")'
      BY <1>p, <2>4, <2>6, <3>1, ItemsOfThread DEF Covered
    <3>3. Apart("mc")'
      BY <1>p, <2>3, <2>4, <2>6, ItemsOfThread DEF Apart, ItemsOf
    <3> QED
      BY <3>2, <3>3
  <2>8. Covered("rx")' /\ Apart("rx")'
    BY <2>1, <2>4, <2>6, ItemOther, ItemsOfThread
  <2> QED
    BY <1>g, <2>5, <2>7, <2>8 DEF ItemInv, Threads
<1>12. CASE Reopen
  <2>1. /\ pc["ssr"] = "down" /\ UNCHANGED hand /\ queue' = [q \in Queues |-> <<>>]
        /\ free' = [t \in Threads |-> ItemsOf(t)] /\ pc'["ssr"] = "idle"
    BY <1>12, ProcsDiffer DEF Reopen
  <2>2. \A r \in Threads : hand[r] = <<>> /\ Held(r)' = {}
    BY <1>e, <1>h, <1>p, <2>1 DEF GoneInv, Threads, Held
  <2>3. ItemTypeOK'
    <3>1. queue' \in [Queues -> Seq(Items)] /\ \A q \in Queues : IsInjective(queue'[q])
      BY <1>e, <2>1
    <3>2. free' \in [Threads -> SUBSET Items]
      BY <2>1, ItemsOfThread
    <3> QED
      BY <1>p, <2>1, <2>2, <3>1, <3>2 DEF ItemTypeOK
  <2>4. /\ \A q \in Queues : Content(q)' = {}
        /\ ~PacketsGone' /\ \A r \in Threads : free'[r] = ItemsOf(r)
    BY <1>e, <2>1 DEF Content, PacketsGone
  <2>5. ASSUME NEW r \in Threads PROVE Covered(r)' /\ Apart(r)'
    BY <1>p, <2>2, <2>4, QueuesOfThread DEF Covered, Apart
  <2> QED
    BY <1>g, <2>3, <2>5 DEF ItemInv
<1>13. CASE UNCHANGED vars
  BY <1>13, <1>g, ItemFrame DEF vars, flowVars, PacketsGone
<1> QED
  BY <1>1, <1>2, <1>3, <1>4, <1>5, <1>6, <1>7, <1>8, <1>9, <1>10, <1>11, <1>12, <1>13
     DEF Next, SsrGoesOn

\* Everything is free at the start.
LEMMA ItemInit == Init => ItemInv
<1> SUFFICES ASSUME Init PROVE ItemInv
  OBVIOUS
<1>e. Range(<<>>) = {} /\ <<>> \in Seq(Items) /\ IsInjective(<<>>)
  BY DEF Range, IsInjective
<1>1. /\ queue = [q \in Queues |-> <<>>] /\ free = [t \in Threads |-> ItemsOf(t)]
      /\ hand = [t \in Threads |-> <<>>] /\ pc["ssr"] = "idle"
  BY ProcsDiffer DEF Init
<1>2. ItemTypeOK
  BY <1>1, <1>e, ItemsOfThread DEF ItemTypeOK
<1>3. /\ \A q \in Queues : Content(q) = {}
      /\ ~PacketsGone /\ \A t \in Threads : Held(t) = {} /\ free[t] = ItemsOf(t)
  BY <1>1, <1>e DEF Content, Held, PacketsGone
<1>4. ASSUME NEW t \in Threads PROVE Covered(t) /\ Apart(t)
  BY <1>3, QueuesOfThread DEF Covered, Apart
<1>5. GoneInv
  BY ProcsDiffer DEF Init, GoneInv, PcTypeOK
<1> QED
  BY <1>2, <1>4, <1>5, WakeupInit DEF ItemInv

\* Each of the sums of ItemsConserved has one summand.
LEMMA OnePlace == ItemInv => ItemsConserved
<1> SUFFICES ASSUME ItemInv, NEW t \in Threads, NEW i \in ItemsOf(t)
             PROVE  Places(t, i) = IF t = "rx" /\ PacketsGone THEN 0 ELSE 1
  BY DEF ItemsConserved, PacketsGone
<1> DEFINE In == {q \in Queues : i \in Range(queue[q])}
<1>p. Covered(t) /\ Apart(t) /\ i \in Items /\ \A r \in Threads : Apart(r)
  BY ItemsOfThread DEF ItemInv
<1>1. \A q \in In : q \in Range(QueuesOf(t)) /\ i \in Content(q)
  <2> SUFFICES ASSUME NEW q \in Queues, i \in Content(q) PROVE q \in Range(QueuesOf(t))
    BY DEF Content
  <2>1. PICK r \in Threads : q \in Range(QueuesOf(r))
    BY ItemsOfThread
  <2>2. i \in ItemsOf(r)
    BY <1>p, <2>1 DEF Apart
  <2> QED
    BY <2>1, <2>2, ItemsOfThread
<1>2. \A q \in Range(QueuesOf(t)) : i \in Content(q) => q \in In
  BY QueuesOfThread DEF Content
<1>3. Places(t, i) = Cardinality(In) + (IF i \in free[t] THEN 1 ELSE 0) + (IF i \in Held(t) THEN 1 ELSE 0)
  BY DEF Places, Held
<1> HIDE DEF In
<1>4. CASE i \in free[t] \/ i \in Held(t)
  <2>1. In = {} /\ ~(i \in free[t] /\ i \in Held(t))
    BY <1>1, <1>4, <1>p DEF Apart
  <2>2. ~(t = "rx" /\ PacketsGone)
    <3>1. ASSUME t = "rx", PacketsGone PROVE FALSE
      <4>1. i \notin free[t] /\ pc["rx"] = "exited" /\ "rx" \in Threads
        BY <1>p, <3>1, ItemsOfThread DEF Apart, ItemInv, GoneInv, PacketsGone
      <4>2. hand["rx"] = <<>>
        BY <4>1 DEF ItemInv, ItemTypeOK
      <4> QED
        BY <1>4, <3>1, <4>1, <4>2 DEF Held, Range
    <3> QED
      BY <3>1
  <2> QED
    BY <1>3, <1>4, <2>1, <2>2, FS_EmptySet
<1>5. CASE i \notin free[t] /\ i \notin Held(t) /\ In # {}
  <2>1. PICK q \in In : TRUE
    BY <1>5
  <2>2. In = {q}
    BY <1>1, <1>p, <2>1 DEF Apart
  <2>3. ~(t = "rx" /\ PacketsGone)
    <3>1. ASSUME t = "rx", PacketsGone PROVE FALSE
      <4>1. queue["rxQueue"] = <<>> /\ q = "rxQueue" /\ i \in Content(q)
        BY <1>1, <1>p, <2>1, <3>1, ItemsOfThread DEF Apart
      <4> QED
        BY <4>1 DEF Content, Range
    <3> QED
      BY <3>1
  <2>4. Cardinality(In) = 1
    BY <2>2, FS_Singleton
  <2> QED
    BY <1>3, <1>5, <2>3, <2>4
<1>6. CASE i \notin free[t] /\ i \notin Held(t) /\ In = {}
  <2>1. t = "rx" /\ PacketsGone
    BY <1>2, <1>6, <1>p DEF Covered
  <2> QED
    BY <1>3, <1>6, <2>1, FS_EmptySet
<1> QED
  BY <1>4, <1>5, <1>6

\* No wrapper and no packet is lost or in two places, for any pool, queues and callers: not when
\* packets are dropped, nor when a restart flushes the queues.
THEOREM ItemsConservedAlways == Spec => []ItemsConserved
<1> QED
  BY ItemInit, ItemStep, OnePlace, PTL DEF Spec
=============================================================================
