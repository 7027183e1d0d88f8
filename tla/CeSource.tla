------------------------------ MODULE CeSource ------------------------------
(***************************************************************************)
(* The source ring of one copy engine (SERVICES/HIF/PCIe/copy_engine.c):   *)
(* HIFSend_head reserves entries and posts a list of fragments, the target *)
(* copies what the write register announces, and completed entries are     *)
(* reaped by the interrupt service and by pollers.  target_lock guards the *)
(* ring; the target runs beside whoever holds it.                          *)
(***************************************************************************)
EXTENDS Integers, Sequences, FiniteSets

CONSTANTS
    Senders, Pollers,    \* threads in HIFSend_head and in HIFSendCompleteCheck
    nentries,            \* a power of two
    MaxFrags,            \* fragments of one transfer, at most CE_SENDLIST_ITEMS_MAX
    CompCheckThreshold,  \* CE_TXRX_COMP_CHECK_THRESHOLD
    MaxTransfers         \* bound on the transfers

ASSUME RingAssumption ==
    /\ nentries \in Nat /\ nentries > 1
    /\ MaxFrags \in 1..nentries - 1
    /\ CompCheckThreshold \in Nat /\ MaxTransfers \in Nat
    /\ IsFiniteSet(Senders) /\ IsFiniteSet(Pollers)
    /\ Senders \cap Pollers = {} /\ "service" \notin Senders \cup Pollers

VARIABLES
    write_index, sw_index, hw_index,
    per_transfer_context, gather,  \* the entries of the ring
    SR_WR_INDEX, CURRENT_SRRI,     \* the registers of the target
    intr,                          \* copy complete is signalled
    gone,                          \* the device has left the bus
    recovery,                      \* the driver makes no more accesses to the target
    stopped,                       \* HIFStop has stopped the contexts
    num_sends_allowed,
    pc,
    left,                          \* fragments a sender has reserved and not posted
    taken,                         \* the context a reaper has just taken
    more_snd_comp_cnt,
    unreturned,                    \* completions whose entry hif_completion_thread will return
    sent, reaped                   \* history: transfers posted, and handed back in this order

ringVars   == <<write_index, sw_index, hw_index, per_transfer_context, gather>>
targetVars == <<SR_WR_INDEX, CURRENT_SRRI, intr, gone, recovery>>
hifVars    == <<num_sends_allowed, unreturned, stopped>>
localVars  == <<pc, left, taken, more_snd_comp_cnt>>
vars == <<ringVars, targetVars, hifVars, localVars, sent, reaped>>

Reapers == {"service"} \cup Pollers
Threads == Senders \cup Reapers
Entries == 0..nentries - 1

NoContext == 0
CE_SENDLIST_ITEM_CTXT == -1
AllOnes == -1    \* what a register of a device that is gone reads, 0xffffffff

----------------------------------------------------------------------------
(* Operators, each seeded fault before the definition it replaces          *)

\* CE_RING_DELTA and CE_RING_IDX_INCR
CE_RING_DELTA(from, to) == (to - from) % nentries
CE_RING_IDX_INCR(i) == (i + 1) % nentries

\* CE_SRC_RING_READ_IDX_GET
CE_SRC_RING_READ_IDX_GET == IF gone THEN AllOnes ELSE CURRENT_SRRI

\* "Update Source Ring Write Index": the register is written with the last fragment of a list
AnnouncesAlways(gathered) == TRUE
Announces(gathered) == ~gathered

\* entries HIFSend_head reserves for a list
ReserveOne(nfrags) == 1
Reserve(nfrags) == nfrags

\* an entry is completed when the cached index has passed it and is an index
CompletedUntested(hw) == hw # AllOnes
Completed(hw) == hw # sw_index /\ hw # AllOnes

\* entries HIF_PCI_CE_send_done itself returns: "just increment num_sends_allowed"
ReturnNone(context) == 0
ReturnItem(context) == IF context = CE_SENDLIST_ITEM_CTXT THEN 1 ELSE 0

\* "Keep checking until we find no more events to process", CE_TXRX_COMP_CHECK_THRESHOLD times
NeverAgain == FALSE
CheckAgain ==
    /\ CE_RING_DELTA(sw_index, CE_SRC_RING_READ_IDX_GET) # 0
    /\ more_snd_comp_cnt < CompCheckThreshold
NotCounted == more_snd_comp_cnt
Counted == more_snd_comp_cnt + 1

\* target_lock is held over several steps by a sender that posts a list and by the end of
\* CE_per_engine_service
TargetLockFree == \A t \in Threads : pc[t] \notin {"post", "clear", "check"}

Goto(t, label) == pc' = [pc EXCEPT ![t] = label]

----------------------------------------------------------------------------
\* CE_init takes the indices from the registers
Init ==
    /\ write_index \in Entries /\ sw_index = write_index /\ hw_index = write_index
    /\ SR_WR_INDEX = write_index /\ CURRENT_SRRI = write_index
    /\ per_transfer_context = [i \in Entries |-> NoContext]
    /\ gather = [i \in Entries |-> FALSE]
    /\ intr = FALSE /\ gone = FALSE /\ recovery = FALSE /\ stopped = FALSE
    /\ num_sends_allowed = nentries - 1 /\ unreturned = 0
    /\ pc = [t \in Threads |-> "idle"]
    /\ left = [s \in Senders |-> 0] /\ taken = [r \in Reapers |-> NoContext]
    /\ more_snd_comp_cnt = 0
    /\ sent = 0 /\ reaped = <<>>

----------------------------------------------------------------------------
(* Sending                                                                 *)

\* HIFSend_head up to the reservation; with too few entries it returns A_NO_RESOURCE
HIFSend_head(s, nfrags) ==
    /\ pc[s] = "idle" /\ ~stopped /\ sent + Cardinality({x \in Senders : left[x] > 0}) < MaxTransfers
    /\ num_sends_allowed >= Reserve(nfrags)
    /\ num_sends_allowed' = num_sends_allowed - Reserve(nfrags)
    /\ left' = [left EXCEPT ![s] = nfrags]
    /\ Goto(s, "sendlist")
    /\ UNCHANGED <<ringVars, targetVars, unreturned, stopped, taken, more_snd_comp_cnt, sent, reaped>>

\* the lock is taken and the room for the whole list is tested; HIFSend_head asserts success
CE_sendlist_send(s) ==
    /\ pc[s] = "sendlist" /\ TargetLockFree
    /\ Goto(s, IF CE_RING_DELTA(write_index, sw_index - 1) >= left[s] THEN "post" ELSE "refused")
    /\ UNCHANGED <<ringVars, targetVars, hifVars, left, taken, more_snd_comp_cnt, sent, reaped>>

\* A_TARGET_ACCESS_BEGIN_RET fails: this fragment and those after it are not posted, HTC is told
Abandon(s) ==
    /\ left' = [left EXCEPT ![s] = 0]
    /\ Goto(s, "idle")
    /\ UNCHANGED <<ringVars, SR_WR_INDEX, sent>>

\* the last fragment carries the transfer and announces the list
Post(s, gathered) ==
    /\ per_transfer_context' = [per_transfer_context EXCEPT ![write_index] =
           IF gathered THEN CE_SENDLIST_ITEM_CTXT ELSE sent + 1]
    /\ gather' = [gather EXCEPT ![write_index] = gathered]
    /\ write_index' = CE_RING_IDX_INCR(write_index)
    /\ SR_WR_INDEX' = IF Announces(gathered) THEN write_index' ELSE SR_WR_INDEX
    /\ sent' = IF gathered THEN sent ELSE sent + 1
    /\ left' = [left EXCEPT ![s] = @ - 1]
    /\ Goto(s, IF gathered THEN "post" ELSE "idle")
    /\ UNCHANGED <<sw_index, hw_index>>

\* one fragment of a list
CE_send_nolock(s) ==
    /\ pc[s] = "post"
    /\ IF recovery THEN Abandon(s) ELSE Post(s, left[s] > 1)
    /\ UNCHANGED <<CURRENT_SRRI, intr, gone, recovery, hifVars, taken, more_snd_comp_cnt, reaped>>

----------------------------------------------------------------------------
(* The target                                                              *)

TargetCopy ==
    /\ ~gone /\ ~stopped /\ CURRENT_SRRI # SR_WR_INDEX
    /\ CURRENT_SRRI' = CE_RING_IDX_INCR(CURRENT_SRRI)
    /\ intr' = TRUE
    /\ UNCHANGED <<ringVars, SR_WR_INDEX, gone, recovery, hifVars, localVars, sent, reaped>>

TargetGone ==
    /\ ~gone
    /\ gone' = TRUE
    /\ UNCHANGED <<ringVars, SR_WR_INDEX, CURRENT_SRRI, intr, recovery, hifVars, localVars, sent,
                   reaped>>

\* HIFTargetSleepStateAdjust, called by a thread that accesses any pipe, could not wake the target
LinkDown ==
    /\ ~recovery
    /\ recovery' = TRUE
    /\ UNCHANGED <<ringVars, SR_WR_INDEX, CURRENT_SRRI, intr, gone, hifVars, localVars, sent,
                   reaped>>

----------------------------------------------------------------------------
(* Reaping                                                                 *)

\* CE_completed_send_next, the cached hw_index refreshed when it is used up and the target may be
\* accessed
TakeNext(r, otherwise) ==
    LET hw == IF hw_index = sw_index /\ ~recovery THEN CE_SRC_RING_READ_IDX_GET ELSE hw_index
        context == per_transfer_context[sw_index]
    IN /\ hw_index' = hw
       /\ IF Completed(hw)
          THEN /\ sw_index' = CE_RING_IDX_INCR(sw_index)
               /\ per_transfer_context' = [per_transfer_context EXCEPT ![sw_index] = NoContext]
               /\ taken' = [taken EXCEPT ![r] = context]
               /\ reaped' = IF context = CE_SENDLIST_ITEM_CTXT THEN reaped ELSE Append(reaped, context)
               /\ Goto(r, "sendDone")
          ELSE /\ Goto(r, otherwise)
               /\ UNCHANGED <<sw_index, per_transfer_context, taken, reaped>>

\* the interrupt service, or HIFSendCompleteCheck, begins
CE_per_engine_service ==
    /\ pc["service"] = "idle" /\ intr /\ ~recovery /\ ~stopped
    /\ Goto("service", "next") /\ more_snd_comp_cnt' = 0
    /\ UNCHANGED <<ringVars, targetVars, hifVars, left, taken, sent, reaped>>

HIFSendCompleteCheck(p) ==
    /\ pc[p] = "idle" /\ ~recovery /\ ~stopped
    /\ Goto(p, "next")
    /\ UNCHANGED <<ringVars, targetVars, hifVars, left, taken, more_snd_comp_cnt, sent, reaped>>

\* the while loop of either
NextCompleted(r) ==
    /\ pc[r] = "next" /\ TargetLockFree
    /\ TakeNext(r, IF r = "service" THEN "clear" ELSE "idle")
    /\ UNCHANGED <<write_index, gather, targetVars, hifVars, left, more_snd_comp_cnt, sent>>

\* HIF_PCI_CE_send_done, called without the lock, looks for more by itself
HIF_PCI_CE_send_done(r) ==
    /\ pc[r] = "sendDone"
    /\ num_sends_allowed' = num_sends_allowed + ReturnItem(taken[r])
    /\ unreturned' = IF taken[r] = CE_SENDLIST_ITEM_CTXT THEN unreturned ELSE unreturned + 1
    /\ taken' = [taken EXCEPT ![r] = NoContext]
    /\ Goto(r, "more")
    /\ UNCHANGED <<ringVars, targetVars, stopped, left, more_snd_comp_cnt, sent, reaped>>

CE_completed_send_next(r) ==
    /\ pc[r] = "more" /\ TargetLockFree
    /\ TakeNext(r, "next")
    /\ UNCHANGED <<write_index, gather, targetVars, hifVars, left, more_snd_comp_cnt, sent>>

\* the end of CE_per_engine_service: clear the interrupt, then look again
CE_ENGINE_INT_STATUS_CLEAR ==
    /\ pc["service"] = "clear"
    /\ intr' = FALSE
    /\ Goto("service", "check")
    /\ UNCHANGED <<ringVars, SR_WR_INDEX, CURRENT_SRRI, gone, recovery, hifVars, left, taken,
                   more_snd_comp_cnt, sent, reaped>>

CE_send_entries_done_nolock ==
    /\ pc["service"] = "check"
    /\ Goto("service", IF CheckAgain THEN "next" ELSE "idle")
    /\ more_snd_comp_cnt' = IF CheckAgain THEN Counted ELSE more_snd_comp_cnt
    /\ UNCHANGED <<ringVars, targetVars, hifVars, left, taken, sent, reaped>>

\* hif_completion_thread recycles a completion state
ReturnEntry ==
    /\ unreturned > 0
    /\ unreturned' = unreturned - 1 /\ num_sends_allowed' = num_sends_allowed + 1
    /\ UNCHANGED <<ringVars, targetVars, stopped, localVars, sent, reaped>>

----------------------------------------------------------------------------
(* Stopping                                                                *)

\* "asynchronous threads are stopped, The Target should not DMA nor interrupt"
HIFStop ==
    /\ ~stopped /\ \A t \in Threads : pc[t] = "idle"
    /\ stopped' = TRUE
    /\ UNCHANGED <<ringVars, targetVars, num_sends_allowed, unreturned, localVars, sent, reaped>>

\* hif_send_buffer_cleanup_on_pipe takes what is left
CE_cancel_send_next ==
    /\ stopped /\ write_index # sw_index
    /\ sw_index' = CE_RING_IDX_INCR(sw_index)
    /\ per_transfer_context' = [per_transfer_context EXCEPT ![sw_index] = NoContext]
    /\ LET context == per_transfer_context[sw_index] IN
       reaped' = IF context = CE_SENDLIST_ITEM_CTXT THEN reaped ELSE Append(reaped, context)
    /\ UNCHANGED <<write_index, hw_index, gather, targetVars, hifVars, localVars, sent>>

----------------------------------------------------------------------------
Sending(s) == CE_sendlist_send(s) \/ CE_send_nolock(s)
Reaping(r) == NextCompleted(r) \/ HIF_PCI_CE_send_done(r) \/ CE_completed_send_next(r)
Service ==
    \/ CE_per_engine_service \/ Reaping("service")
    \/ CE_ENGINE_INT_STATUS_CLEAR \/ CE_send_entries_done_nolock

Next ==
    \/ \E s \in Senders : Sending(s) \/ \E n \in 1..MaxFrags : HIFSend_head(s, n)
    \/ \E p \in Pollers : HIFSendCompleteCheck(p) \/ Reaping(p)
    \/ Service \/ ReturnEntry
    \/ TargetCopy \/ TargetGone \/ LinkDown
    \/ HIFStop \/ CE_cancel_send_next

Spec == Init /\ [][Next]_vars

\* Threads inside the driver keep running, and interrupts are delivered.  Nobody need poll or
\* send, and the target need not copy.
FairSpec ==
    /\ Spec /\ WF_vars(Service) /\ WF_vars(CE_cancel_send_next)
    /\ \A s \in Senders : WF_vars(Sending(s))
    /\ \A p \in Pollers : WF_vars(Reaping(p))

----------------------------------------------------------------------------
(* Properties *)

\* The target never sees part of a list: the write register stands behind a last fragment, and
\* behind all of them when nobody is posting and no list was abandoned.
ListsWhole ==
    /\ ~gather[(SR_WR_INDEX - 1) % nentries]
    /\ (\A s \in Senders : pc[s] # "post") /\ ~recovery => SR_WR_INDEX = write_index

\* A_ASSERT(status == A_OK) in HIFSend_head: who has reserved entries finds them in the ring,
\* although reservations and the ring are under different locks.
NeverRefused == \A s \in Senders : pc[s] # "refused"

\* Fragments that are reserved and not posted, the k-th last of sender s as <<s, k>>
Reserved == {e \in Senders \X (1..MaxFrags) : e[2] <= left[e[1]]}

\* Entries free to reserve, reserved, posted and completed but not returned add up to the ring,
\* until the link is given up.
EntriesConserved ==
    ~stopped /\ ~recovery =>
        num_sends_allowed + Cardinality(Reserved)
            + CE_RING_DELTA(sw_index, write_index)
            + Cardinality({r \in Reapers : taken[r] # NoContext}) + unreturned = nentries - 1

\* The transfers in the first k entries from index i on, and those between two indices
TransfersFrom(i) ==
    LET among[k \in Entries] ==
            IF k = 0 THEN <<>>
            ELSE LET context == per_transfer_context[(i + k - 1) % nentries]
                 IN IF context = CE_SENDLIST_ITEM_CTXT THEN among[k - 1]
                    ELSE Append(among[k - 1], context)
    IN among
TransfersBetween(i, j) == TransfersFrom(i)[CE_RING_DELTA(i, j)]

Fifo == INSTANCE TransferFifo WITH
            Capacity <- nentries - 1,
            pending  <- TransfersBetween(sw_index, write_index),
            copied   <- IF stopped THEN 0 ELSE Len(TransfersBetween(sw_index, CURRENT_SRRI)),
            finished <- reaped,
            halted   <- stopped

\* The ring is a bounded queue of whole transfers: each is handed back once, in the order they
\* were posted, and only when the target has copied all its fragments or HIFStop has stopped it.
IsFifo == Fifo!FifoSpec

\* CE_per_engine_service leaves or takes another completion: a device that is gone, which always
\* seems to have completed more, cannot hold it. That it leaves is not promised, as long as senders
\* and the target keep up with it: "We may experience potential infinite loop for below While Loop
\* during Sending Stress test".
ServiceMovesOn ==
    pc["service"] # "idle" ~> (pc["service"] = "idle" \/ taken["service"] # NoContext)

\* A copied transfer is handed back by the interrupt service, although it may complete while the
\* service is leaving; or the device goes away or is given up.
CopiedIsHandedBack ==
    \A t \in 1..MaxTransfers :
        Len(reaped) + Len(TransfersBetween(sw_index, CURRENT_SRRI)) >= t /\ ~stopped
            ~> (Len(reaped) >= t \/ gone \/ recovery \/ stopped)
=============================================================================
