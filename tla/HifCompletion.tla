--------------------------- MODULE HifCompletion ---------------------------
(***************************************************************************)
(* Completion processing of the PCIe host interface                        *)
(* (SERVICES/HIF/PCIe/hif_pci.c): finished copy-engine transfers are       *)
(* reaped by HIF_PCI_CE_send_done and HIF_PCI_CE_recv_data, appended to    *)
(* one queue of completion states, and handed to HTC by                    *)
(* hif_completion_thread, which is not a thread but a function that every  *)
(* reaping context calls and that lets one caller in at a time.            *)
(*                                                                         *)
(* hif_pci_configure asks for one interrupt per copy engine (num_msi_intrs *)
(* of them, each with a handler of its own and one for the firmware) and   *)
(* falls back to a single one, whose wlan_tasklet reaps every pipe; which  *)
(* it gets is up to the platform.  A sender that polls a pipe whose        *)
(* interrupt is disabled is one more context.                              *)
(***************************************************************************)
EXTENDS Integers, Sequences, FiniteSets

CONSTANTS
    Contexts,          \* contexts that reap completions
    SendPipes,         \* pipes used to send to the target
    RecvPipes,         \* pipes used to receive from it
    Server,            \* [SendPipes \cup RecvPipes -> Contexts]: with one interrupt per engine
    FwContext,         \* the context that polls for firmware events; wlan_tasklet if alone
    Entries,           \* src_nentries or dest_nentries of every pipe
    MaxTransfers,      \* bound: transfers per pipe
    MaxFwEvents,       \* bound: firmware events
    MaxAllocFailures   \* bound: receive buffers that cannot be allocated

Pipes == SendPipes \cup RecvPipes

ASSUME ContextAssumption ==
    /\ IsFiniteSet(Contexts) /\ FwContext \in Contexts
    /\ SendPipes \cap RecvPipes = {} /\ Server \in [Pipes -> Contexts]

ASSUME BoundAssumption ==
    /\ Entries \in Nat /\ Entries >= 2
    /\ MaxTransfers \in Nat /\ MaxFwEvents \in Nat /\ MaxAllocFailures \in Nat

VARIABLES
    multipleMsi,         \* num_msi_intrs > 1: an interrupt per engine was granted
    hif_thread_idle,     \* 1 when nobody processes completions
    completion_pendingq, \* reaped transfers waiting for hif_completion_thread
    completion_freeq,    \* [Pipes -> Int]: free completion states of a pipe
    num_sends_allowed,   \* [SendPipes -> Int]
    recv_bufs_needed,    \* [RecvPipes -> Int]
    fw_event_pending, target_status,
    pc, compl_queue,     \* [Contexts -> ...]: place in the code, local queue of transfers
    compl_state,         \* [Contexts -> ...]: the transfer being processed, as <<t>> or <<>>
    ring, done,          \* the copy engine: posted entries and finished, unreaped ones
    started, reaped,     \* transfers per pipe that were started and reaped
    handled,             \* transfers per pipe that were handed to HTC
    lateOrEarly,         \* a transfer was handed over out of order
    fwEvents, allocFailures

queueVars == <<hif_thread_idle, completion_pendingq>>
pipeVars  == <<completion_freeq, num_sends_allowed, recv_bufs_needed>>
ctxVars   == <<compl_queue, compl_state>>
ceVars    == <<ring, done, started, reaped>>
htcVars   == <<handled, lateOrEarly>>
envVars   == <<fwEvents, allocFailures, multipleMsi>>
fwVars    == <<fw_event_pending, target_status>>
vars      == <<queueVars, pipeVars, fwVars, pc, ctxVars, ceVars, htcVars, envVars>>

Goto(c, label) == pc' = [pc EXCEPT ![c] = label]

----------------------------------------------------------------------------
\* hif_pci_configure, then HIFStart: hif_completion_thread_startup, then every receive buffer is posted
Init ==
    /\ multipleMsi \in BOOLEAN
    /\ hif_thread_idle = 1 /\ completion_pendingq = <<>>
    /\ completion_freeq = [p \in Pipes |-> Entries]
    /\ num_sends_allowed = [p \in SendPipes |-> Entries - 1]
    /\ recv_bufs_needed = [p \in RecvPipes |-> 0]
    /\ fw_event_pending = 0 /\ target_status = "CONNECTED"
    /\ pc = [c \in Contexts |-> "idle"]
    /\ compl_queue = [c \in Contexts |-> <<>>]
    /\ compl_state = [c \in Contexts |-> <<>>]
    /\ ring = [p \in Pipes |-> IF p \in RecvPipes THEN Entries - 1 ELSE 0]
    /\ done = [p \in Pipes |-> 0]
    /\ started = [p \in Pipes |-> 0] /\ reaped = [p \in Pipes |-> 0]
    /\ handled = [p \in Pipes |-> 0] /\ lateOrEarly = FALSE
    /\ fwEvents = 0 /\ allocFailures = 0

----------------------------------------------------------------------------
(* Senders and the copy engine                                             *)

SendAccepted(p) == num_sends_allowed[p] > 0

HIFSend_head(p) ==
    /\ p \in SendPipes /\ started[p] < MaxTransfers
    /\ SendAccepted(p)
    /\ num_sends_allowed' = [num_sends_allowed EXCEPT ![p] = @ - 1]
    /\ started' = [started EXCEPT ![p] = @ + 1]
    /\ ring' = [ring EXCEPT ![p] = @ + 1]
    /\ UNCHANGED <<queueVars, completion_freeq, recv_bufs_needed, fwVars, pc, ctxVars,
                   done, reaped, htcVars, envVars>>

\* the engine sends the oldest entry, or fills the oldest receive buffer with a message
CopyEngine(p) ==
    /\ ring[p] > 0
    /\ p \in RecvPipes => started[p] < MaxTransfers
    /\ ring' = [ring EXCEPT ![p] = @ - 1]
    /\ done' = [done EXCEPT ![p] = @ + 1]
    /\ started' = IF p \in RecvPipes THEN [started EXCEPT ![p] = @ + 1] ELSE started
    /\ UNCHANGED <<queueVars, pipeVars, fwVars, pc, ctxVars, reaped, htcVars, envVars>>

----------------------------------------------------------------------------
(* HIF_PCI_CE_send_done and HIF_PCI_CE_recv_data reap what the engine has  *)
(* finished, one completion state each, and enqueue the lot.  Only a queue *)
(* found empty is followed by a call of hif_completion_thread.  A reset    *)
(* target makes wlan_tasklet stop reaping.                                 *)

\* the next k transfers of pipe p
Batch(p, k) == [i \in 1..k |-> <<p, reaped[p] + i>>]

\* CE_per_engine_handler of the pipe's engine, or wlan_tasklet for all of them
Serves(c, p) == c = IF multipleMsi THEN Server[p] ELSE FwContext

Reap(c, p) ==
    /\ pc[c] = "idle" /\ Serves(c, p)
    /\ ~multipleMsi => target_status # "RESET"
    /\ \E k \in 1..done[p] :
        /\ compl_queue' = [compl_queue EXCEPT ![c] = Batch(p, k)]
        /\ completion_freeq' = [completion_freeq EXCEPT ![p] = @ - k]
        /\ done' = [done EXCEPT ![p] = @ - k]
        /\ reaped' = [reaped EXCEPT ![p] = @ + k]
    /\ Goto(c, "enqueue")
    /\ UNCHANGED <<queueVars, num_sends_allowed, recv_bufs_needed, fwVars, compl_state,
                   ring, started, htcVars, envVars>>

\* seeded faults: the queue is prepended to; the service is called only for a busy queue
QueueAtHead(c) == compl_queue[c] \o completion_pendingq
CallBusyOnly == completion_pendingq # <<>>

Appended(c) == completion_pendingq \o compl_queue[c]
MustCall == completion_pendingq = <<>>

Enqueue(c) ==
    /\ pc[c] = "enqueue"
    /\ completion_pendingq' = Appended(c)
    /\ compl_queue' = [compl_queue EXCEPT ![c] = <<>>]
    /\ Goto(c, IF MustCall THEN "decAndTest" ELSE "idle")
    /\ UNCHANGED <<hif_thread_idle, pipeVars, fwVars, compl_state, ceVars, htcVars, envVars>>

\* HIF_fw_interrupt_handler found FW_IND_EVENT_PENDING
HIF_fw_interrupt_handler ==
    /\ pc[FwContext] = "idle" /\ fwEvents < MaxFwEvents
    /\ fwEvents' = fwEvents + 1
    /\ fw_event_pending' = 1
    /\ Goto(FwContext, "decAndTest")
    /\ UNCHANGED <<target_status, queueVars, pipeVars, ctxVars, ceVars, htcVars, allocFailures, multipleMsi>>

----------------------------------------------------------------------------
(* hif_completion_thread                                                   *)

\* seeded fault: the counter is read, not tested with the decrement
IsLuckyUntested == hif_thread_idle >= 0

\* adf_os_atomic_dec_and_test: the one caller that takes the counter from 1 to 0 goes on
IsLucky == hif_thread_idle - 1 = 0

DecAndTest(c) ==
    /\ pc[c] = "decAndTest"
    /\ hif_thread_idle' = hif_thread_idle - 1
    /\ Goto(c, IF IsLucky THEN "fwEvent" ELSE "unlucky")
    /\ UNCHANGED <<completion_pendingq, pipeVars, fwVars, ctxVars, ceVars, htcVars, envVars>>

\* "We were not the lucky one"
Unlucky(c) ==
    /\ pc[c] = "unlucky"
    /\ hif_thread_idle' = hif_thread_idle + 1
    /\ Goto(c, "idle")
    /\ UNCHANGED <<completion_pendingq, pipeVars, fwVars, ctxVars, ceVars, htcVars, envVars>>

\* every pending firmware event is cleared before fwEventHandler is called, which is
\* ol_target_failure: a target that asserts counts as reset
FwEvent(c) ==
    /\ pc[c] = "fwEvent" /\ fw_event_pending > 0
    /\ fw_event_pending' = 0 /\ target_status' = "RESET"
    /\ UNCHANGED <<queueVars, pipeVars, pc, ctxVars, ceVars, htcVars, envVars>>

\* with a reset target the function returns at once and leaves hif_thread_idle at 0
EndFwEvents(c) ==
    /\ pc[c] = "fwEvent" /\ fw_event_pending = 0
    /\ Goto(c, IF target_status = "RESET" THEN "idle" ELSE "dequeue")
    /\ UNCHANGED <<queueVars, pipeVars, fwVars, ctxVars, ceVars, htcVars, envVars>>

Dequeue(c) ==
    /\ pc[c] = "dequeue" /\ completion_pendingq # <<>>
    /\ compl_state' = [compl_state EXCEPT ![c] = <<Head(completion_pendingq)>>]
    /\ completion_pendingq' = Tail(completion_pendingq)
    /\ Goto(c, IF Head(completion_pendingq)[1] \in SendPipes THEN "callback" ELSE "needBuffer")
    /\ UNCHANGED <<hif_thread_idle, pipeVars, fwVars, compl_queue, ceVars, htcVars, envVars>>

\* "We are atomically sure that there is no pending work"
Leave(c) ==
    /\ pc[c] = "dequeue" /\ completion_pendingq = <<>>
    /\ hif_thread_idle' = hif_thread_idle + 1
    /\ Goto(c, "idle")
    /\ UNCHANGED <<completion_pendingq, pipeVars, fwVars, ctxVars, ceVars, htcVars, envVars>>

PipeOf(c) == compl_state[c][1][1]

\* a received message needs a buffer in its place
NeededUnchanged(c) == recv_bufs_needed   \* seeded fault
Needed(c) == [recv_bufs_needed EXCEPT ![PipeOf(c)] = @ + 1]

NeedBuffer(c) ==
    /\ pc[c] = "needBuffer"
    /\ recv_bufs_needed' = Needed(c)
    /\ Goto(c, "post")
    /\ UNCHANGED <<queueVars, completion_freeq, num_sends_allowed, fwVars, ctxVars,
                   ceVars, htcVars, envVars>>

\* hif_post_recv_buffers posts buffers on every receive pipe that needs some
PostBuffer(c, p) ==
    /\ pc[c] = "post" /\ p \in RecvPipes /\ recv_bufs_needed[p] > 0
    /\ recv_bufs_needed' = [recv_bufs_needed EXCEPT ![p] = @ - 1]
    /\ ring' = [ring EXCEPT ![p] = @ + 1]
    /\ UNCHANGED <<queueVars, completion_freeq, num_sends_allowed, fwVars, pc, ctxVars,
                   done, started, reaped, htcVars, envVars>>

\* all are posted, or an allocation or mapping failed and what is needed stays needed
EndPost(c) ==
    /\ pc[c] = "post"
    /\ \/ /\ \A p \in RecvPipes : recv_bufs_needed[p] = 0
          /\ UNCHANGED allocFailures
       \/ /\ \E p \in RecvPipes : recv_bufs_needed[p] > 0
          /\ allocFailures < MaxAllocFailures
          /\ allocFailures' = allocFailures + 1
    /\ Goto(c, "callback")
    /\ UNCHANGED <<queueVars, pipeVars, fwVars, ctxVars, ceVars, htcVars, fwEvents, multipleMsi>>

\* txCompletionHandler or rxCompletionHandler of HTC
Callback(c) ==
    /\ pc[c] = "callback"
    /\ handled' = [handled EXCEPT ![PipeOf(c)] = @ + 1]
    /\ lateOrEarly' = (lateOrEarly \/ compl_state[c][1][2] # handled[PipeOf(c)] + 1)
    /\ Goto(c, "recycle")
    /\ UNCHANGED <<queueVars, pipeVars, fwVars, ctxVars, ceVars, envVars>>

\* seeded fault: the completion state is lost
RecycledNever(c) == completion_freeq

\* the completion state goes back to its pipe, a finished send allows another
Recycled(c) == [completion_freeq EXCEPT ![PipeOf(c)] = @ + 1]
Allowed(c) == [p \in SendPipes |-> num_sends_allowed[p] + (IF p = PipeOf(c) THEN 1 ELSE 0)]

Recycle(c) ==
    /\ pc[c] = "recycle"
    /\ completion_freeq' = Recycled(c)
    /\ num_sends_allowed' = Allowed(c)
    /\ compl_state' = [compl_state EXCEPT ![c] = <<>>]
    /\ Goto(c, "dequeue")
    /\ UNCHANGED <<queueVars, recv_bufs_needed, fwVars, compl_queue, ceVars, htcVars, envVars>>

----------------------------------------------------------------------------
Context(c) ==
    \/ \E p \in Pipes : Reap(c, p) \/ PostBuffer(c, p)
    \/ Enqueue(c) \/ DecAndTest(c) \/ Unlucky(c) \/ FwEvent(c) \/ EndFwEvents(c) \/ Dequeue(c) \/ Leave(c)
    \/ NeedBuffer(c) \/ EndPost(c) \/ Callback(c) \/ Recycle(c)

Next ==
    \/ \E p \in Pipes : HIFSend_head(p) \/ CopyEngine(p)
    \/ HIF_fw_interrupt_handler
    \/ \E c \in Contexts : Context(c)

Spec == Init /\ [][Next]_vars

\* interrupts are delivered and a context that runs keeps running
FairSpec == Spec /\ \A c \in Contexts : WF_vars(Context(c))

----------------------------------------------------------------------------
(* Properties *)

Labels == {"idle", "enqueue", "decAndTest", "unlucky", "fwEvent", "dequeue", "needBuffer",
           "post", "callback", "recycle"}

\* the labels at which a context has gone past the test of hif_thread_idle
Inside == {"fwEvent", "dequeue", "needBuffer", "post", "callback", "recycle"}

\* "Allow only one instance of the thread to execute at a time": two contexts are never both
\* past the test of hif_thread_idle, whatever the order of their decrements and increments.
OneInstance ==
    \A b, c \in Contexts : pc[b] \in Inside /\ pc[c] \in Inside => b = c

\* "... to prevent out of order processing of messages": HTC gets the completions of a pipe in
\* the order the copy engine finished the transfers.
InOrder == ~lateOrEarly

\* the places of queue q that hold a transfer of pipe p, and those of all local queues
Places(q, p) == {i \in DOMAIN q : q[i][1] = p}
LocalPlaces(local, p) == UNION {{c} \X Places(local[c], p) : c \in Contexts}

\* transfers of a pipe that hold a completion state
InHif(p) ==
    Cardinality(Places(completion_pendingq, p)) + Cardinality(LocalPlaces(compl_queue, p))
    + Cardinality(LocalPlaces(compl_state, p))

\* No completion state is lost, and there is one for every transfer the engine finishes: the
\* reaping loops never meet an empty free queue ("Out of free buf in hif send completion list").
\* A ring of n entries holds at most n - 1 transfers, so posting to it never fails.
FreeStateAvailable ==
    \A p \in Pipes : /\ completion_freeq[p] + InHif(p) = Entries
                     /\ done[p] <= completion_freeq[p]
                     /\ ring[p] + done[p] <= Entries - 1

\* the received messages whose buffers have not been counted as needed yet
Replacing(p) == {c \in Contexts : pc[c] \in {"post", "callback", "recycle"} /\ PipeOf(c) = p}
Unreplaced(p) == InHif(p) - Cardinality(Replacing(p))

\* No receive slot is lost, whatever allocations fail: each of the n - 1 slots of a pipe has a
\* buffer, holds a message on its way to HTC, or is counted in recv_bufs_needed.
ReceiveSlotsConserved ==
    \A p \in RecvPipes :
        ring[p] + done[p] + Unreplaced(p) + recv_bufs_needed[p] = Entries - 1

\* "All pending completions are handled": no completion waits in the queue while every
\* context is idle, unless the target was reset.
NoStrandedCompletion ==
    (\A c \in Contexts : pc[c] = "idle") /\ target_status # "RESET"
    => completion_pendingq = <<>>

\* every reaped transfer was handed to HTC and no firmware event waits
AllHandled == reaped = handled /\ fw_event_pending = 0

\* With a single interrupt no completion is stranded, and HIF catches up with the engine again
\* and again: every reaped transfer is handed to HTC and no firmware event is overlooked, unless
\* the target is reset.
EventuallyHandled ==
    \/ []multipleMsi
    \/ []NoStrandedCompletion /\ []<>(AllHandled \/ target_status = "RESET")
=============================================================================
