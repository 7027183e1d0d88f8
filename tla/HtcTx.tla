------------------------------- MODULE HtcTx -------------------------------
(***************************************************************************)
(* The transmit path of one HTC endpoint (SERVICES/HTC/htc_send.c) on top  *)
(* of its HIF pipe (SERVICES/HIF/PCIe/hif_pci.c) and below the target      *)
(* firmware, which hands transmit credits back.                            *)
(*                                                                         *)
(* Threads call into HTC concurrently: Senders run HTCSendPkt, Completer   *)
(* is the one instance of hif_completion_thread (send completions and      *)
(* received credit reports), Resumer is the work item that runs            *)
(* HTCTxResumeAllHandler after a runtime resume.  lock is LOCK_HTC_TX: a   *)
(* critical section that other threads cannot observe is one step; the     *)
(* drain loop of HTCTrySend, whose queue depth is read without the lock,   *)
(* holds it over several steps.                                            *)
(***************************************************************************)
EXTENDS Integers, Sequences, FiniteSets, SequencesExt, FiniteSetsExt

CONSTANTS
    Packets,             \* the HTC packets the clients of the endpoint will send
    Senders,             \* threads that call HTCSendPkt
    SenderOf,            \* [Packets -> Senders]: the thread that sends each packet
    Completer,           \* the context of hif_completion_thread
    Resumer,             \* the work item of hif_pci_pm_work
    NoThread, NoPacket,
    EndpointKinds,       \* the services that may be connected, as records of these settings:
                         \*   creditFlow: IS_TX_CREDIT_FLOW_ENABLED(pEndpoint)
                         \*   compact: HTT_DATA_MSG_SVC in an ATH_11AC_TXCOMPACT build
                         \*   sendFull: the answers of EpSendFull, {} when it is NULL
                         \*   autoPm: the packets tagged HTC_TX_PACKET_TAG_AUTO_PM
                         \*   runtimePut: those tagged HTC_TX_PACKET_TAG_RUNTIME_PUT
    TotalCredits,        \* txAlloc: pEndpoint->TxCredits after HTCConnectService
    TransferLength,      \* [Packets -> Nat]: ActualLength + HTC_HDR_LENGTH
    TxCreditSize,        \* bytes per credit
    TxCreditsPerMaxMsg,  \* credits of the largest message of the endpoint
    SendEntries,         \* src_nentries - 1 of the pipe's copy engine
    MaxTxQueueDepth,
    MaxSuspends,         \* bound on runtime suspends; 0 without FEATURE_RUNTIME_PM
    SuspendMayFail,      \* __hif_pci_runtime_suspend may take its error exit
    FlushAllowed         \* some client calls HTCFlushEndpoint

Threads == Senders \cup {Completer, Resumer}

ASSUME ThreadAssumption ==
    /\ Completer \notin Senders /\ Resumer \notin Senders
    /\ Completer # Resumer /\ NoThread \notin Threads
    /\ NoPacket \notin Packets

ASSUME ParameterAssumption ==
    /\ {SuspendMayFail, FlushAllowed} \subseteq BOOLEAN
    /\ EndpointKinds \subseteq [creditFlow : BOOLEAN, compact : BOOLEAN,
                                sendFull : SUBSET {"keep", "drop"}, autoPm : SUBSET Packets,
                                runtimePut : SUBSET Packets]
    \* a packet has one tag, and htt_h2t.c alone uses RUNTIME_PUT
    /\ \A kind \in EndpointKinds : /\ kind.autoPm \cap kind.runtimePut = {}
                                   /\ ~kind.compact => kind.runtimePut = {}
    /\ SenderOf \in [Packets -> Senders]
    /\ TotalCredits \in Nat
    /\ TransferLength \in [Packets -> Nat]
    /\ TxCreditSize \in Nat \ {0}
    /\ TxCreditsPerMaxMsg \in Nat
    /\ SendEntries \in Nat \ {0}
    /\ MaxTxQueueDepth \in Nat /\ MaxSuspends \in Nat

VARIABLES
    endpoint,            \* the connected service, fixed by HTCConnectService
    lock,                \* holder of LOCK_HTC_TX, or NoThread
    TxQueue, TxLookupQueue, TxProcessCount, TxCredits, SeqNo, ul_outstanding_cnt,
    creditsUsed, needCredit, seqOf,   \* packet fields CreditsUsed, SendFlags, SeqNo
    pc, overflow, tx_resources,       \* locals of each thread
    callersQueue, sendQueue, tempQueue, issuing, autoPMQueue,
    netbuf,                           \* the transfer HTCTxCompletionHandler is called for
    sendsAllowed, wire, hifDone,      \* the pipe: num_sends_allowed, transfers, completed ones
    tgtDone, tgtCredits, tgtAsked, reports,   \* the target
    answered,                         \* HTT requests it has answered
    rpm, pmUsage, pmRequest,          \* the PM core: status, usage count, a resume asked for,
    suspends,                         \* suspends so far
    pm_state, pm_work,                \* the driver: runtime PM state, hif_pci_pm_work scheduled
    awaitsSend,                       \* a refused packet has only the next send to wait for
    maps, fixup,                      \* DMA mappings of a packet's netbuf, FIXUP_NETBUF flag
    result                            \* what the client was told of each packet

epVars  == <<TxQueue, TxLookupQueue, TxProcessCount, TxCredits, SeqNo, ul_outstanding_cnt>>
pktVars == <<creditsUsed, needCredit, seqOf>>
thVars  == <<overflow, tx_resources, callersQueue, sendQueue, tempQueue, issuing, autoPMQueue>>
hifVars == <<sendsAllowed, wire, hifDone>>
tgtVars == <<endpoint, tgtDone, tgtCredits, tgtAsked, reports, answered>>
pmVars  == <<rpm, pmUsage, pmRequest, suspends, pm_state, pm_work, awaitsSend>>
cliVars == <<maps, fixup, result>>
vars    == <<lock, epVars, pktVars, pc, thVars, netbuf, hifVars, tgtVars, pmVars, cliVars>>

----------------------------------------------------------------------------
(* Helpers *)

CreditFlow      == endpoint.creditFlow
Compact         == endpoint.compact
SendFullActions == endpoint.sendFull
AutoPm          == endpoint.autoPm
RuntimePut      == endpoint.runtimePut

\* credits a message needs: its length in units of TxCreditSize, rounded up
CreditsRequired(p) ==
    IF TransferLength[p] <= TxCreditSize
    THEN 1
    ELSE TransferLength[p] \div TxCreditSize
         + (IF TransferLength[p] % TxCreditSize # 0 THEN 1 ELSE 0)

\* the packets a client has handed to HTCSendPkt
Submitted == {p \in Packets : seqOf[p] # -1}

(* Seeded faults: each is the definition it is named after with one        *)
(* plausible mistake, and replaces it when a run is tried for sensitivity. *)

BusyTooLate == TxProcessCount + 1 > 2
QueuedUnlessBusy(t) == IF TxProcessCount > 0 THEN TxQueue ELSE TxQueue \o sendQueue[t]
PmPutForgotten(usage) == usage
TakeEntryForgotten == sendsAllowed' = sendsAllowed
FlushedSent == ToSet(TxQueue \o TxLookupQueue)
SchedulePmWorkForgotten == pm_work' = pm_work

----------------------------------------------------------------------------
\* the test of TxProcessCount after its increment
Busy == TxProcessCount + 1 > 1

\* TxQueue after the locked entry of HTCTrySend
Queued(t) == TxQueue \o sendQueue[t]

\* "check if we need credits back from the target"
NeedCreditUpdate(credits) == credits <= TxCreditsPerMaxMsg

\* adf_nbuf_map of the packet's netbuf
MapNetbuf(p, when) == maps' = [maps EXCEPT ![p] = IF when THEN @ + 1 ELSE @]

\* HIFSend_head takes one of num_sends_allowed
TakeEntry == sendsAllowed' = sendsAllowed - 1

\* the packets HTCFlushEndpointTX completes
Flushed == ToSet(TxQueue)

\* a runtime resume ends with schedule_work(&sc->pm_work)
SchedulePmWork == pm_work' = TRUE

\* hif_pm_runtime_put: a put with no usage count is refused
PmPut(usage) == IF usage > 0 THEN usage - 1 ELSE 0

\* RestoreTxPacket: undo the mapping and the header of the packets that carry the flag
RestoreTxPacket(P) ==
    /\ maps' = [p \in Packets |-> IF p \in P /\ fixup[p] THEN maps[p] - 1 ELSE maps[p]]
    /\ fixup' = [p \in Packets |-> fixup[p] /\ p \notin P]

\* SendPacketCompletion: the clients get the packets of P back with a status
SendPacketCompletion(P, status) ==
    /\ RestoreTxPacket(P)
    /\ result' = [p \in Packets |-> IF p \notin P THEN result[p]
                                    ELSE IF result[p] = "none" THEN status ELSE "twice"]

\* HTC_PACKET_REMOVE: unlink a packet from the queue that holds it
Without(q, p) ==
    IF \E i \in DOMAIN q : q[i] = p THEN RemoveAt(q, CHOOSE i \in DOMAIN q : q[i] = p) ELSE q

Goto(t, label) == pc' = [pc EXCEPT ![t] = label]

----------------------------------------------------------------------------
Init ==
    /\ endpoint \in EndpointKinds
    /\ lock = NoThread
    /\ TxQueue = <<>> /\ TxLookupQueue = <<>>
    /\ TxProcessCount = 0 /\ TxCredits = TotalCredits
    /\ SeqNo = 0 /\ ul_outstanding_cnt = 0
    /\ creditsUsed = [p \in Packets |-> 0]
    /\ needCredit = [p \in Packets |-> FALSE]
    /\ seqOf = [p \in Packets |-> -1]
    /\ pc = [t \in Threads |-> "idle"]
    /\ overflow = [t \in Threads |-> 0]
    /\ tx_resources = [t \in Threads |-> 0]
    /\ callersQueue = [t \in Threads |-> NoPacket]
    /\ sendQueue = [t \in Threads |-> <<>>]
    /\ tempQueue = [t \in Threads |-> <<>>]
    /\ issuing = [t \in Threads |-> NoPacket]
    /\ autoPMQueue = [t \in Threads |-> FALSE]
    /\ netbuf = NoPacket
    /\ sendsAllowed = SendEntries /\ wire = <<>> /\ hifDone = 0
    /\ tgtDone = 0 /\ tgtCredits = 0 /\ tgtAsked = FALSE /\ reports = <<>>
    /\ answered = {}
    /\ rpm = "active" /\ pmUsage = 0 /\ pmRequest = FALSE /\ suspends = 0
    /\ pm_state = "ON" /\ pm_work = FALSE /\ awaitsSend = FALSE
    /\ maps = [p \in Packets |-> 0] /\ fixup = [p \in Packets |-> FALSE]
    /\ result = [p \in Packets |-> "none"]

----------------------------------------------------------------------------
(* HTCSendPkt: a client hands over one packet.  The sequence number is     *)
(* taken under the lock and the netbuf is mapped before the packet enters  *)
(* any queue.  AUTO_PM packets are the WMI commands of a suspend or resume *)
(* in progress.                                                            *)

HTCSendPkt(t, p) ==
    /\ pc[t] = "idle" /\ lock = NoThread
    /\ p \notin Submitted /\ SenderOf[p] = t
    /\ p \in AutoPm => pm_state = "INPROGRESS"
    /\ MapNetbuf(p, TRUE)
    /\ fixup' = [fixup EXCEPT ![p] = TRUE]
    /\ seqOf' = [seqOf EXCEPT ![p] = SeqNo]
    /\ SeqNo' = (SeqNo + 1) % 256
    /\ awaitsSend' = FALSE
    /\ IF SendFullActions = {}
       THEN /\ sendQueue' = [sendQueue EXCEPT ![t] = <<p>>]
            /\ Goto(t, "readResources")
            /\ UNCHANGED callersQueue
       ELSE /\ callersQueue' = [callersQueue EXCEPT ![t] = p]
            /\ Goto(t, "testDepth")
            /\ UNCHANGED sendQueue
    /\ UNCHANGED <<lock, TxQueue, TxLookupQueue, TxProcessCount, TxCredits, ul_outstanding_cnt,
                   creditsUsed, needCredit, overflow, tx_resources, tempQueue, issuing,
                   autoPMQueue, netbuf, hifVars, tgtVars, rpm, pmUsage, pmRequest, suspends,
                   pm_state, pm_work, result>>

(* The overflow test of HTCTrySend reads the queue depth twice, without    *)
(* the lock.                                                               *)
TestDepth(t) ==
    /\ pc[t] = "testDepth"
    /\ IF Len(TxQueue) >= MaxTxQueueDepth
       THEN overflow' = [overflow EXCEPT ![t] = 1] /\ Goto(t, "sendFull")
       ELSE UNCHANGED overflow /\ Goto(t, "addDepth")
    /\ UNCHANGED <<lock, epVars, pktVars, tx_resources, callersQueue, sendQueue, tempQueue,
                   issuing, autoPMQueue, netbuf, hifVars, tgtVars, pmVars, cliVars>>

AddDepth(t) ==
    /\ pc[t] = "addDepth"
    /\ overflow' = [overflow EXCEPT ![t] = Len(TxQueue) + 1 - MaxTxQueueDepth]
    /\ IF overflow'[t] > 0
       THEN Goto(t, "sendFull") /\ UNCHANGED <<callersQueue, sendQueue>>
       ELSE /\ Goto(t, "readResources")
            /\ sendQueue' = [sendQueue EXCEPT ![t] = <<callersQueue[t]>>]
            /\ callersQueue' = [callersQueue EXCEPT ![t] = NoPacket]
    /\ UNCHANGED <<lock, epVars, pktVars, tx_resources, tempQueue, issuing, autoPMQueue,
                   netbuf, hifVars, tgtVars, pmVars, cliVars>>

\* EpSendFull sees the restored packet and decides: a kept packet goes on with its header put
\* back (but neither flag nor mapping), a dropped one stays with the caller
SendFull(t) ==
    /\ pc[t] = "sendFull"
    /\ \/ /\ "keep" \in SendFullActions
          /\ sendQueue' = [sendQueue EXCEPT ![t] = <<callersQueue[t]>>]
          /\ callersQueue' = [callersQueue EXCEPT ![t] = NoPacket]
          /\ Goto(t, "readResources")
       \/ /\ "drop" \in SendFullActions
          /\ Goto(t, "return")
          /\ UNCHANGED <<sendQueue, callersQueue>>
    /\ RestoreTxPacket({callersQueue[t]})
    /\ overflow' = [overflow EXCEPT ![t] = 0]
    /\ UNCHANGED <<lock, epVars, pktVars, tx_resources, tempQueue, issuing, autoPMQueue,
                   netbuf, hifVars, tgtVars, pmVars, result>>

(* HIFGetFreeQueueNumber, read before the lock is taken: on entry and      *)
(* again after every batch of HTCIssuePackets.                             *)
ReadResources(t) ==
    /\ pc[t] \in {"readResources", "rereadResources"}
    /\ tx_resources' = [tx_resources EXCEPT ![t] = IF CreditFlow THEN 0 ELSE sendsAllowed]
    /\ Goto(t, IF pc[t] = "readResources" THEN "enter" ELSE "relock")
    /\ UNCHANGED <<lock, epVars, pktVars, overflow, callersQueue, sendQueue, tempQueue,
                   issuing, autoPMQueue, netbuf, hifVars, tgtVars, pmVars, cliVars>>

\* the locked entry of HTCTrySend: queue the packets, then become the one drainer or leave
Enter(t) ==
    /\ pc[t] = "enter" /\ lock = NoThread
    /\ TxQueue' = Queued(t)
    /\ sendQueue' = [sendQueue EXCEPT ![t] = <<>>]
    /\ IF Busy
       THEN Goto(t, "return") /\ UNCHANGED <<TxProcessCount, lock>>
       ELSE TxProcessCount' = 1 /\ lock' = t /\ Goto(t, "drain")
    /\ UNCHANGED <<TxLookupQueue, TxCredits, SeqNo, ul_outstanding_cnt, pktVars, overflow,
                   tx_resources, callersQueue, tempQueue, issuing, autoPMQueue,
                   netbuf, hifVars, tgtVars, pmVars, cliVars>>

Relock(t) ==
    /\ pc[t] = "relock" /\ lock = NoThread
    /\ lock' = t /\ Goto(t, "drain")
    /\ UNCHANGED <<epVars, pktVars, thVars, netbuf, hifVars, tgtVars, pmVars, cliVars>>

----------------------------------------------------------------------------
(* The drain loop.  GetHTCSendPacketsCreditBased and GetHTCSendPackets     *)
(* move packets to sendQueue; GetHTCAutoPmSendPackets first pulls out the  *)
(* AUTO_PM packets, which are then the only ones taken in that pass.       *)

AutoPmAt == {i \in DOMAIN TxQueue : TxQueue[i] \in AutoPm}

BeginPass(t) ==
    /\ pc[t] = "drain" /\ TxQueue # <<>>
    /\ autoPMQueue' = [autoPMQueue EXCEPT ![t] = AutoPmAt # {}]
    /\ Goto(t, IF AutoPmAt # {} THEN "pull" ELSE "get")
    /\ UNCHANGED <<lock, epVars, pktVars, overflow, tx_resources, callersQueue, sendQueue,
                   tempQueue, issuing, netbuf, hifVars, tgtVars, pmVars, cliVars>>

GetHTCAutoPmSendPackets(t) ==
    /\ pc[t] = "pull" /\ AutoPmAt # {}
    /\ LET i == CHOOSE j \in AutoPmAt : \A k \in AutoPmAt : j <= k IN
       /\ TxQueue' = RemoveAt(TxQueue, i)
       /\ tempQueue' = [tempQueue EXCEPT ![t] = Append(@, TxQueue[i])]
       /\ Goto(t, IF \E j \in AutoPmAt : j # i THEN "pull" ELSE "get")
    /\ UNCHANGED <<lock, TxLookupQueue, TxProcessCount, TxCredits, SeqNo, ul_outstanding_cnt,
                   pktVars, overflow, tx_resources, callersQueue, sendQueue, issuing,
                   autoPMQueue, netbuf, hifVars, tgtVars, pmVars, cliVars>>

\* the packet the pass takes next, if hif_pm_runtime_get and the flow control allow it; the
\* get asks the PM core for a resume when the device is suspended or on its way there
PassQueue(t) == IF autoPMQueue[t] THEN tempQueue[t] ELSE TxQueue
PmAsked(t) == ~autoPMQueue[t] /\ (CreditFlow \/ tx_resources[t] > 0)

\* the get is refused unless pm_state is ON, and also then with -EINPROGRESS until the PM core
\* has seen __hif_pci_runtime_resume return
PmGranted(t) == autoPMQueue[t] \/ (pm_state = "ON" /\ rpm # "resuming")
CanTake(t) ==
    /\ PmGranted(t)
    /\ PassQueue(t) # <<>>
    /\ IF CreditFlow THEN TxCredits >= CreditsRequired(Head(PassQueue(t)))
                     ELSE tx_resources[t] > 0

\* seeded fault: the packet's CreditsUsed is not saved
ChargeUnsaved(t, p) ==
    /\ TxCredits' = TxCredits - CreditsRequired(p)
    /\ needCredit' = [needCredit EXCEPT ![p] = NeedCreditUpdate(TxCredits')]
    /\ UNCHANGED <<tx_resources, creditsUsed>>

\* the flow-control half of a take: credits and the NEED_CREDIT_UPDATE flag, or one resource
Charge(t, p) ==
    IF CreditFlow
    THEN /\ TxCredits' = TxCredits - CreditsRequired(p)
         /\ creditsUsed' = [creditsUsed EXCEPT ![p] = CreditsRequired(p)]
         /\ needCredit' = [needCredit EXCEPT ![p] = NeedCreditUpdate(TxCredits')]
         /\ UNCHANGED tx_resources
    ELSE /\ tx_resources' = [tx_resources EXCEPT ![t] = @ - 1]
         /\ creditsUsed' = [creditsUsed EXCEPT ![p] = 0]
         /\ needCredit' = [needCredit EXCEPT ![p] = FALSE]
         /\ UNCHANGED TxCredits

TakePacket(t) ==
    /\ pc[t] = "get" /\ CanTake(t)
    /\ LET p == Head(PassQueue(t)) IN
       /\ Charge(t, p)
       /\ sendQueue' = [sendQueue EXCEPT ![t] = Append(@, p)]
    /\ IF autoPMQueue[t]
       THEN /\ tempQueue' = [tempQueue EXCEPT ![t] = Tail(@)]
            /\ UNCHANGED <<TxQueue, pmUsage, pmRequest>>
       ELSE /\ TxQueue' = Tail(TxQueue) /\ pmUsage' = pmUsage + 1
            /\ pmRequest' = (pmRequest \/ rpm = "suspending")
            /\ UNCHANGED tempQueue
    /\ awaitsSend' = FALSE
    /\ UNCHANGED <<lock, TxLookupQueue, TxProcessCount, SeqNo, ul_outstanding_cnt, seqOf, pc,
                   overflow, callersQueue, issuing, autoPMQueue, netbuf, hifVars, tgtVars,
                   rpm, suspends, pm_state, pm_work, cliVars>>

(* Nothing more to take: what is left of the AUTO_PM packets returns to    *)
(* the head of TxQueue.  With a batch the lock is dropped to issue it,     *)
(* without one the loop ends.  A refused hif_pm_runtime_get asks for a     *)
(* resume; while the PM core is still RPM_RESUMING there is none to ask    *)
(* for, and if hif_pci_pm_work has run already nothing will come back.     *)
EndPass(t) ==
    /\ pc[t] = "get" /\ ~CanTake(t)
    /\ TxQueue' = tempQueue[t] \o TxQueue
    /\ tempQueue' = [tempQueue EXCEPT ![t] = <<>>]
    /\ autoPMQueue' = [autoPMQueue EXCEPT ![t] = FALSE]
    /\ pmRequest' = (pmRequest \/ (PmAsked(t) /\ rpm \in {"suspending", "suspended"}))
    /\ awaitsSend' = (\/ awaitsSend
                      \/ /\ PmAsked(t) /\ pm_state = "ON" /\ rpm = "resuming"
                         /\ ~pm_work /\ sendQueue[t] = <<>>)
    /\ lock' = NoThread
    /\ IF sendQueue[t] = <<>>
       THEN TxProcessCount' = 0 /\ Goto(t, "return")
       ELSE UNCHANGED TxProcessCount /\ Goto(t, "issue")
    /\ UNCHANGED <<TxLookupQueue, TxCredits, SeqNo, ul_outstanding_cnt, pktVars, overflow,
                   tx_resources, callersQueue, sendQueue, issuing,
                   netbuf, hifVars, tgtVars, rpm, pmUsage, suspends, pm_state,
                   pm_work, cliVars>>

\* TxQueue is empty: clear the count and leave
EndDrain(t) ==
    /\ pc[t] = "drain" /\ TxQueue = <<>>
    /\ TxProcessCount' = 0 /\ lock' = NoThread
    /\ Goto(t, "return")
    /\ UNCHANGED <<TxQueue, TxLookupQueue, TxCredits, SeqNo, ul_outstanding_cnt, pktVars,
                   thVars, netbuf, hifVars, tgtVars, pmVars, cliVars>>

----------------------------------------------------------------------------
(* HTCIssuePackets: on a credit endpoint the netbuf of a flagged packet is *)
(* mapped; each packet enters the lookup queue under the lock and is then  *)
(* handed to HIFSend_head without it.                                      *)

StartIssue(t) ==
    /\ pc[t] = "issue" /\ sendQueue[t] # <<>> /\ lock = NoThread
    /\ issuing' = [issuing EXCEPT ![t] = Head(sendQueue[t])]
    /\ sendQueue' = [sendQueue EXCEPT ![t] = Tail(@)]
    /\ TxLookupQueue' = IF Compact THEN TxLookupQueue
                        ELSE Append(TxLookupQueue, Head(sendQueue[t]))
    /\ ul_outstanding_cnt' = ul_outstanding_cnt + 1
    /\ MapNetbuf(Head(sendQueue[t]), CreditFlow /\ fixup[Head(sendQueue[t])])
    /\ Goto(t, "hifSend")
    /\ UNCHANGED <<lock, TxQueue, TxProcessCount, TxCredits, SeqNo, pktVars, overflow,
                   tx_resources, callersQueue, tempQueue, autoPMQueue,
                   netbuf, hifVars, tgtVars, pmVars, fixup, result>>

\* the completions of HTT messages are swallowed by the copy engine: those the target does not
\* answer are tagged RUNTIME_PUT and release the device as soon as they are sent
HIFSend(t) ==
    /\ pc[t] = "hifSend" /\ sendsAllowed > 0
    /\ TakeEntry
    /\ wire' = Append(wire, issuing[t])
    /\ issuing' = [issuing EXCEPT ![t] = NoPacket]
    /\ pmUsage' = IF issuing[t] \in RuntimePut THEN PmPut(pmUsage) ELSE pmUsage
    /\ Goto(t, "issue")
    /\ UNCHANGED <<lock, epVars, pktVars, overflow, tx_resources, callersQueue, sendQueue,
                   tempQueue, autoPMQueue, netbuf, hifDone, tgtVars, rpm, pmRequest, suspends,
                   pm_state, pm_work, awaitsSend, cliVars>>

\* HIFSend_head answers A_NO_RESOURCE: undo the bookkeeping of this packet
HIFSendFailed(t) ==
    /\ pc[t] = "hifSend" /\ sendsAllowed = 0 /\ lock = NoThread
    /\ ul_outstanding_cnt' = ul_outstanding_cnt - 1
    /\ TxLookupQueue' = Without(TxLookupQueue, issuing[t])
    /\ TxCredits' = TxCredits + creditsUsed[issuing[t]]
    /\ sendQueue' = [sendQueue EXCEPT ![t] = <<issuing[t]>> \o @]
    /\ issuing' = [issuing EXCEPT ![t] = NoPacket]
    /\ Goto(t, "failBatch")
    /\ UNCHANGED <<lock, TxQueue, TxProcessCount, SeqNo, pktVars, overflow, tx_resources,
                   callersQueue, tempQueue, autoPMQueue, netbuf, hifVars, tgtVars, pmVars, cliVars>>

\* after a failure every packet still in the batch is completed with the error, and a usage
\* count is put for each, those of AUTO_PM packets included, for which none was got
FailPacket(t) ==
    /\ pc[t] = "failBatch" /\ sendQueue[t] # <<>>
    /\ SendPacketCompletion({Head(sendQueue[t])}, "error")
    /\ sendQueue' = [sendQueue EXCEPT ![t] = Tail(@)]
    /\ pmUsage' = PmPut(pmUsage)
    /\ UNCHANGED <<lock, epVars, pktVars, pc, overflow, tx_resources, callersQueue, tempQueue,
                   issuing, autoPMQueue, netbuf, hifVars, tgtVars, rpm, pmRequest, suspends, pm_state,
                   pm_work, awaitsSend>>

EndIssue(t) ==
    /\ pc[t] \in {"issue", "failBatch"} /\ sendQueue[t] = <<>>
    /\ Goto(t, "rereadResources")
    /\ UNCHANGED <<lock, epVars, pktVars, thVars, netbuf, hifVars, tgtVars, pmVars, cliVars>>

----------------------------------------------------------------------------
(* Return from HTCTrySend.  A sender completes a packet EpSendFull         *)
(* dropped; the completer goes on to recycle the transfer it was handling. *)

Return(t) ==
    /\ pc[t] = "return"
    /\ SendPacketCompletion({callersQueue[t]} \ {NoPacket}, "no_resource")
    /\ callersQueue' = [callersQueue EXCEPT ![t] = NoPacket]
    /\ Goto(t, IF t = Completer /\ netbuf # NoPacket THEN "recycle" ELSE "idle")
    /\ UNCHANGED <<lock, epVars, pktVars, overflow, tx_resources, sendQueue, tempQueue, issuing,
                   autoPMQueue, netbuf, hifVars, tgtVars, pmVars>>

----------------------------------------------------------------------------
(* hif_completion_thread and the HTC handlers it calls.  The copy engine   *)
(* completes transfers in order.                                           *)

\* CE_per_engine_service on the HTT pipe only gives the ring entry back
SwallowCompletion ==
    /\ Compact /\ hifDone < Len(wire)
    /\ hifDone' = hifDone + 1
    /\ sendsAllowed' = sendsAllowed + 1
    /\ UNCHANGED <<lock, epVars, pktVars, pc, thVars, netbuf, wire, tgtVars, pmVars, cliVars>>

SendDone ==
    /\ ~Compact /\ pc[Completer] = "idle" /\ hifDone < Len(wire)
    /\ hifDone' = hifDone + 1
    /\ netbuf' = wire[hifDone + 1]
    /\ Goto(Completer, "lookup")
    /\ UNCHANGED <<lock, epVars, pktVars, thVars, sendsAllowed, wire,
                   tgtVars, pmVars, cliVars>>

\* HTCLookupTxPacket: the head is expected to match; otherwise the queue is searched, on a
\* private list and without the lock (LookupHitsHead shows that this never happens)
HTCLookupTxPacket ==
    /\ pc[Completer] = "lookup" /\ lock = NoThread
    /\ ul_outstanding_cnt' = ul_outstanding_cnt - 1
    /\ TxLookupQueue' = Without(TxLookupQueue, netbuf)
    /\ Goto(Completer, IF Contains(TxLookupQueue, netbuf) THEN "complete" ELSE "notFound")
    /\ UNCHANGED <<lock, TxQueue, TxProcessCount, TxCredits, SeqNo, pktVars, thVars, netbuf,
                   hifVars, tgtVars, pmVars, cliVars>>

\* the rest of HTCTxCompletionHandler: give the packet back, recheck a non-credit endpoint
HTCTxCompletionHandler ==
    /\ pc[Completer] \in {"complete", "notFound"}
    /\ SendPacketCompletion(IF pc[Completer] = "complete" THEN {netbuf} ELSE {}, "ok")
    /\ pmUsage' = IF pc[Completer] = "complete" /\ netbuf \notin AutoPm
                  THEN PmPut(pmUsage) ELSE pmUsage
    /\ Goto(Completer, IF CreditFlow THEN "recycle" ELSE "readResources")
    /\ UNCHANGED <<lock, epVars, pktVars, thVars, netbuf, hifVars, tgtVars,
                   rpm, pmRequest, suspends, pm_state, pm_work, awaitsSend>>

\* only after the handler has returned does the pipe get its entry back
Recycle ==
    /\ pc[Completer] = "recycle"
    /\ sendsAllowed' = sendsAllowed + 1
    /\ netbuf' = NoPacket
    /\ Goto(Completer, "idle")
    /\ UNCHANGED <<lock, epVars, pktVars, thVars, wire, hifDone, tgtVars,
                   pmVars, cliVars>>

HTCProcessCreditRpt ==
    /\ pc[Completer] = "idle" /\ reports # <<>> /\ lock = NoThread
    /\ TxCredits' = TxCredits + Head(reports)
    /\ reports' = Tail(reports)
    /\ Goto(Completer, IF TxCredits' # 0 /\ TxQueue # <<>> THEN "readResources" ELSE "idle")
    /\ UNCHANGED <<lock, TxQueue, TxLookupQueue, TxProcessCount, SeqNo, ul_outstanding_cnt,
                   pktVars, thVars, netbuf, hifVars, endpoint, tgtDone, tgtCredits, tgtAsked, answered,
                   pmVars, cliVars>>

\* HTCFlushEndpointTX completes the whole queue under the lock
HTCFlushEndpoint ==
    /\ FlushAllowed /\ lock = NoThread /\ TxQueue # <<>>
    /\ SendPacketCompletion(Flushed, "canceled")
    /\ TxQueue' = <<>>
    /\ UNCHANGED <<lock, TxLookupQueue, TxProcessCount, TxCredits, SeqNo, ul_outstanding_cnt,
                   pktVars, pc, thVars, netbuf, hifVars, tgtVars, pmVars>>

----------------------------------------------------------------------------
(* The target firmware consumes messages in order and owns their credits   *)
(* until it reports them; a message flagged NEED_CREDIT_UPDATE asks for a  *)
(* report.                                                                 *)

TargetConsume ==
    /\ tgtDone < Len(wire)
    /\ tgtDone' = tgtDone + 1
    /\ tgtCredits' = tgtCredits + creditsUsed[wire[tgtDone + 1]]
    /\ tgtAsked' = (tgtAsked \/ needCredit[wire[tgtDone + 1]])
    /\ UNCHANGED <<lock, epVars, pktVars, pc, thVars, netbuf, hifVars, endpoint, reports,
                   answered, pmVars, cliVars>>

TargetReport ==
    /\ tgtCredits > 0
    /\ reports' = Append(reports, tgtCredits)
    /\ tgtCredits' = 0 /\ tgtAsked' = FALSE
    /\ UNCHANGED <<lock, epVars, pktVars, pc, thVars, netbuf, hifVars, endpoint, tgtDone,
                   answered, pmVars, cliVars>>

\* htt_t2h_lp_msg_handler puts the usage count of the request the target answers
Answerable(p) ==
    /\ Compact /\ p \notin RuntimePut \cup AutoPm \cup answered
    /\ \E i \in 1..tgtDone : wire[i] = p
HttResponse(p) ==
    /\ pc[Completer] = "idle" /\ Answerable(p)
    /\ answered' = answered \cup {p}
    /\ pmUsage' = PmPut(pmUsage)
    /\ UNCHANGED <<lock, epVars, pktVars, pc, thVars, netbuf, hifVars, endpoint, tgtDone, tgtCredits,
                   tgtAsked, reports, rpm, pmRequest, suspends, pm_state, pm_work, awaitsSend, cliVars>>

----------------------------------------------------------------------------
(* Runtime PM.  The PM core suspends a device nobody uses: between its     *)
(* decision and the first step of __hif_pci_runtime_suspend pm_state is    *)
(* still ON.  A resume asked for meanwhile follows the suspend, or is      *)
(* forgotten if the suspend fails: that exit sets the state back to ON and *)
(* schedules nothing, where a resume schedules hif_pci_pm_work.  It is one *)
(* step, because a get between pm_state becoming ON and the end of the     *)
(* callback succeeds as one after it does; in a resume the same get is     *)
(* refused, so there the end of the callback is a step of its own.  The    *)
(* autosuspend delay keeps the device from suspending faster than the work *)
(* runs; the bound MaxSuspends stands for it.                              *)

SetPm(core, state) ==
    /\ rpm' = core /\ pm_state' = state
    /\ UNCHANGED <<lock, epVars, pktVars, pc, thVars, netbuf, hifVars, tgtVars, pmUsage, cliVars>>

PmCoreSuspend ==
    /\ suspends < MaxSuspends /\ suspends' = suspends + 1
    /\ rpm = "active" /\ pmUsage = 0
    /\ SetPm("suspending", "ON") /\ UNCHANGED <<pmRequest, pm_work, awaitsSend>>

RuntimeSuspend ==
    /\ rpm = "suspending"
    /\ \/ /\ pm_state = "ON"
          /\ SetPm("suspending", "INPROGRESS") /\ UNCHANGED <<pmRequest, suspends, pm_work, awaitsSend>>
       \/ /\ pm_state = "INPROGRESS"
          /\ SetPm("suspended", "SUSPENDED") /\ UNCHANGED <<pmRequest, suspends, pm_work, awaitsSend>>
       \/ /\ pm_state = "INPROGRESS" /\ SuspendMayFail
          /\ SetPm("active", "ON") /\ pmRequest' = FALSE /\ awaitsSend' = TRUE
          /\ UNCHANGED <<suspends, pm_work>>

RuntimeResume ==
    \/ /\ rpm = "suspended"
       /\ SetPm("resuming", "INPROGRESS") /\ pmRequest' = FALSE
       /\ UNCHANGED <<suspends, pm_work, awaitsSend>>
    \/ /\ rpm = "resuming" /\ pm_state = "INPROGRESS"
       /\ SetPm("resuming", "ON") /\ SchedulePmWork
       /\ UNCHANGED <<pmRequest, suspends, awaitsSend>>
    \/ /\ rpm = "resuming" /\ pm_state = "ON"
       /\ SetPm("active", "ON") /\ UNCHANGED <<pmRequest, suspends, pm_work, awaitsSend>>

HTCTxResumeAllHandler ==
    /\ pm_work /\ pc[Resumer] = "idle"
    /\ pm_work' = FALSE
    /\ Goto(Resumer, "readResources")
    /\ UNCHANGED <<lock, epVars, pktVars, thVars, netbuf, hifVars, tgtVars,
                   rpm, pmUsage, pmRequest, suspends, pm_state, awaitsSend, cliVars>>

----------------------------------------------------------------------------
HTCTrySend(t) ==
    \/ TestDepth(t) \/ AddDepth(t) \/ SendFull(t) \/ ReadResources(t) \/ Enter(t) \/ Relock(t)
    \/ BeginPass(t) \/ GetHTCAutoPmSendPackets(t) \/ TakePacket(t)
    \/ EndPass(t) \/ EndDrain(t)
    \/ StartIssue(t) \/ HIFSend(t) \/ HIFSendFailed(t) \/ FailPacket(t) \/ EndIssue(t)
    \/ Return(t)

Completion ==
    \/ SwallowCompletion \/ SendDone \/ HTCLookupTxPacket \/ HTCTxCompletionHandler
    \/ Recycle \/ HTCProcessCreditRpt

Next ==
    \/ \E t \in Senders, p \in Packets : HTCSendPkt(t, p)
    \/ \E t \in Threads : HTCTrySend(t)
    \/ Completion
    \/ HTCFlushEndpoint
    \/ TargetConsume \/ TargetReport
    \/ \E p \in Packets : HttResponse(p)
    \/ PmCoreSuspend \/ RuntimeSuspend \/ RuntimeResume \/ HTCTxResumeAllHandler

Spec == Init /\ [][Next]_vars

(* Every thread inside HTC keeps running, transfers complete, the target   *)
(* consumes what it is sent and answers a request for credits; nothing     *)
(* obliges it to report credits it was not asked for or to answer an HTT   *)
(* request, a client to send, or the device to suspend.                    *)
Fairness ==
    /\ \A t \in Threads : WF_vars(HTCTrySend(t))
    /\ WF_vars(Completion)
    /\ WF_vars(TargetConsume)
    /\ WF_vars(tgtAsked /\ TargetReport)
    /\ WF_vars(RuntimeSuspend)
    /\ WF_vars((pmRequest \/ rpm = "resuming") /\ RuntimeResume)
    /\ WF_vars(HTCTxResumeAllHandler)

FairSpec == Spec /\ Fairness

----------------------------------------------------------------------------
(* Properties *)

Labels == {"idle", "testDepth", "addDepth", "sendFull", "readResources", "enter", "relock",
           "drain", "pull", "get", "issue", "hifSend", "failBatch", "rereadResources",
           "return", "lookup", "complete", "notFound", "recycle"}
Results == {"none", "ok", "error", "no_resource", "canceled", "twice"}
PacketOrNone == Packets \cup {NoPacket}

EpTypeOK ==
    /\ TxQueue \in Seq(Packets) /\ TxLookupQueue \in Seq(Packets)
    /\ TxProcessCount \in 0..1 /\ TxCredits \in Nat
    /\ SeqNo \in 0..255 /\ ul_outstanding_cnt \in Int
PktTypeOK ==
    /\ creditsUsed \in [Packets -> Nat] /\ needCredit \in [Packets -> BOOLEAN]
    /\ seqOf \in [Packets -> -1..255]
ThreadTypeOK ==
    /\ lock \in Threads \cup {NoThread} /\ pc \in [Threads -> Labels]
    /\ overflow \in [Threads -> Int] /\ tx_resources \in [Threads -> Nat]
    /\ callersQueue \in [Threads -> PacketOrNone] /\ issuing \in [Threads -> PacketOrNone]
    /\ sendQueue \in [Threads -> Seq(Packets)] /\ tempQueue \in [Threads -> Seq(Packets)]
    /\ autoPMQueue \in [Threads -> BOOLEAN]
PipeTypeOK ==
    /\ netbuf \in PacketOrNone
    /\ sendsAllowed \in Nat /\ wire \in Seq(Packets) /\ hifDone \in Nat
TargetTypeOK ==
    /\ endpoint \in EndpointKinds
    /\ tgtDone \in Nat /\ tgtCredits \in Nat /\ tgtAsked \in BOOLEAN /\ reports \in Seq(Nat)
    /\ answered \in SUBSET Packets
PmTypeOK ==
    /\ rpm \in {"active", "suspending", "suspended", "resuming"}
    /\ pmUsage \in Nat /\ pmRequest \in BOOLEAN /\ suspends \in 0..MaxSuspends
    /\ pm_state \in {"ON", "INPROGRESS", "SUSPENDED"} /\ pm_work \in BOOLEAN
    /\ awaitsSend \in BOOLEAN
ClientTypeOK ==
    /\ maps \in [Packets -> Int] /\ fixup \in [Packets -> BOOLEAN]
    /\ result \in [Packets -> Results]

\* Every variable of the endpoint, its threads, the pipe and the target keeps its type; in
\* particular TxCredits, num_sends_allowed and a drainer's tx_resources never go below zero.
TypeOK ==
    /\ EpTypeOK /\ PktTypeOK /\ ThreadTypeOK /\ PipeTypeOK
    /\ TargetTypeOK /\ PmTypeOK /\ ClientTypeOK

\* the labels between TxProcessCount becoming 1 and its reset
DrainLabels == {"drain", "pull", "get", "issue", "hifSend", "failBatch", "rereadResources",
                "relock"}

\* "beyond this point only 1 thread may enter": TxProcessCount admits one thread to the drain
\* section of HTCTrySend, and is never left set by a thread that has gone.
SingleDrainer ==
    /\ \A t, u \in Threads : pc[t] \in DrainLabels /\ pc[u] \in DrainLabels => t = u
    /\ (TxProcessCount # 0) <=> (\E t \in Threads : pc[t] \in DrainLabels)

\* "Dequeue first packet directly because of in-order completion": the packet a completion is
\* for is at the head of TxLookupQueue, so HTCLookupTxPacket never searches and never fails.
LookupHitsHead ==
    pc[Completer] = "lookup" => TxLookupQueue # <<>> /\ Head(TxLookupQueue) = netbuf

\* where HTC holds a packet; TxLookupQueue stands for the packet being issued as well, except
\* on the HTT endpoint, which keeps a sent packet until the pipe has it
At(name, q, p) == {<<name, i>> : i \in {j \in DOMAIN q : q[j] = p}}
Holds(name, local, p) == {<<name, t>> : t \in {u \in Threads : local[u] = p}}
Batches(p) == UNION {At(<<"batch", t>>, tempQueue[t] \o sendQueue[t], p) : t \in Threads}
Sending(p) ==
    IF Compact THEN Holds("issuing", issuing, p)
    ELSE At("lookup", TxLookupQueue, p)
         \cup (IF pc[Completer] = "complete" /\ netbuf = p THEN {<<"done", 1>>} ELSE {})
Places(p) ==
    At("queue", TxQueue, p) \cup Batches(p) \cup Holds("caller", callersQueue, p) \cup Sending(p)
    \cup (IF Compact THEN At("wire", wire, p) ELSE {})

\* A packet handed to HTCSendPkt is in exactly one place until its client gets it back, and
\* nowhere afterwards: none is lost, none is completed twice, none is used after completion.
PacketsAccountedFor ==
    \A p \in Packets :
        Cardinality(Places(p)) = IF p \in Submitted /\ result[p] = "none" THEN 1 ELSE 0

\* The client never gets a buffer back while the copy engine may still read it. KeepsContract contains
\* this: GiveBack needs a completed transfer and GiveUp a packet that was never sent.
NoCompletionDuringDma ==
    \A i \in hifDone + 1 .. Len(wire) : result[wire[i]] = "none"

\* "Non-credit enabled endpoints have been mapped and setup by now": a buffer the copy engine
\* may read has a DMA mapping.
SentMapped ==
    \A i \in hifDone + 1 .. Len(wire) : maps[wire[i]] > 0

\* Packets of one client leave in the order it sent them, AUTO_PM packets apart.
FifoPerClient ==
    \A i, j \in DOMAIN wire :
        /\ i < j /\ SenderOf[wire[i]] = SenderOf[wire[j]]
        /\ {wire[i], wire[j]} \cap AutoPm = {}
        => seqOf[wire[i]] < seqOf[wire[j]]

\* packets that hold credits: charged by the drainer and not yet consumed by the target
Charged ==
    (UNION {ToSet(sendQueue[t]) \cup ({issuing[t]} \ {NoPacket}) :
            t \in {u \in Threads : pc[u] # "failBatch" /\ pc[u] \in DrainLabels}})
    \cup {wire[i] : i \in tgtDone + 1 .. Len(wire)}

\* Credits are neither created nor lost: what the host has, what its unsent and unconsumed
\* packets hold, and what the target will report add up to the endpoint's allocation.
CreditsConserved ==
    TxCredits + MapThenSumSet(LAMBDA p : creditsUsed[p], Charged)
        + tgtCredits + FoldSeq(LAMBDA x, y : x + y, 0, reports) = TotalCredits

\* num_sends_allowed plus the transfers it was taken for is the size of the ring, so
\* HIFSend_head never overcommits the copy engine.
RingEntriesConserved ==
    sendsAllowed + (Len(wire) - hifDone) + (IF netbuf = NoPacket THEN 0 ELSE 1) = SendEntries

\* the ordinary packets hif_pm_runtime_get was called for and no put is due for yet: in a
\* drainer's batch, with HIF, or an HTT request the target has still to answer
InUse ==
    {p \in Packets \ AutoPm :
        \/ Sending(p) # {}
        \/ \E t \in Threads : pc[t] \in DrainLabels /\ Contains(sendQueue[t], p)
        \/ Compact /\ p \notin RuntimePut \cup answered /\ Contains(wire, p)}

\* The usage count never exceeds the packets in use, so the device can suspend when HTC is done, and falls
\* short of them only by the puts HTCIssuePackets made for refused AUTO_PM packets.
PmUsageAccounted ==
    /\ pmUsage <= Cardinality(InUse)
    /\ pmUsage >= Cardinality(InUse) - Cardinality({p \in AutoPm : result[p] = "error"})

Contract == INSTANCE PacketContract WITH
    Offers <- Packets, Reasons <- {"error", "no_resource", "canceled"},
    accepted <- Submitted, sent <- wire, transferred <- hifDone, verdict <- result

\* HTC keeps its promise to the clients: HTCTxCompletionHandler tells them "ok" of every transfer, in the
\* order HIF was given the packets and after its copy; what HTCFlushEndpointTX cancels, EpSendFull drops or
\* HIF refuses is given back with the error and never was and never will be on the wire.
KeepsContract == Contract!ContractSpec

\* nothing is running or on its way that could call HTCTrySend again
Quiescent ==
    /\ \A t \in Threads : pc[t] = "idle"
    /\ hifDone = Len(wire) /\ tgtDone = Len(wire)
    /\ ~tgtAsked /\ reports = <<>>
    /\ rpm = "active" /\ ~pm_work

\* A packet is not left in TxQueue when no event is pending that would send it.
NothingStranded == Quiescent => TxQueue = <<>>

\* A credit endpoint catches up with its clients again and again: every packet handed to HTCSendPkt was given
\* back, or waits for the next HTCSendPkt. That is left to the client by a suspend that failed, whose exit in
\* __hif_pci_runtime_suspend does not schedule the work that resumes HTC, and by a hif_pm_runtime_get that met
\* -EINPROGRESS at the end of a resume after the work had started.
EventuallyCompleted ==
    []<>(CreditFlow /\ ~awaitsSend => \A p \in Submitted : result[p] # "none")
=============================================================================
