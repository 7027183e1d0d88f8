# Formal models of the qcacld host driver

TLA+ models of the QCA6174 host driver in `src/AIO/drivers/qcacld-new/CORE`
(paths below are relative to it), with TLC runs on small instances and TLAPS
proofs for every instance. The models follow the PCIe build: `HIF_PCI`,
`ATH_11AC_TXCOMPACT=1`, `FEATURE_RUNTIME_PM`, `QCA_CONFIG_SMP`, no transmit
bundling; suspend and subsystem restart (SSR) are those of a CNSS platform.
`PROJECT.json` maps each definition to the lines it models.

## 1. Inventory

The driver moves requests from the kernel (cfg80211, netdev) down to firmware
on the card and events back up. From the bottom:

| component | state it keeps | operations | how it talks to the others |
|---|---|---|---|
| copy engine, `SERVICES/HIF/PCIe/copy_engine.c` | source and destination rings: write, sw and hw index | send, post buffer, reap, per-engine service | shared memory with the target; callbacks into HIF |
| HIF PCIe, `hif_pci.c` | per pipe `num_sends_allowed`, free completion states, `recv_bufs_needed`; one `completion_pendingq`; `hif_thread_idle`; `fw_event_pending` | `HIFSend_head`, reaping callbacks, `hif_completion_thread`, buffer posting, stop | called by HTC; calls HTC's completion handlers |
| runtime PM, `if_pci.c` | `pm_state`, the kernel's usage count, `pm_work` | get, put, suspend, resume, resume work | suspend and resume call WMA, HTC and HTT |
| HTC, `SERVICES/HTC` | per endpoint `TxQueue`, `TxLookupQueue`, `TxProcessCount`, `TxCredits`, `SeqNo`; a control-response buffer with a completion | `HTCSendPkt`, `HTCTrySend`, completion, credit reports, flush; wait for target, connect service, start | clients above (WMI, HTT), HIF below, credit reports in the trailers of received messages |
| BMI, `SERVICES/BMI` | target type and version, `target_status` | firmware download, failure handling | uses HIF before HTC runs |
| WMI, `SERVICES/WMI` | `pending_cmds`, `is_target_suspended`, `runtime_pm_inprogress`, handler table, event queue and work item | send command, completion, event work, register and unregister, attach and detach | HTC endpoint below, WMA above and on the suspend path |
| WMA, `SERVICES/WMA` | interfaces, vdev request queue with timers | message handler, firmware events, suspend and resume | VOSS messages to and from SME and MAC |
| HTT, `CLD_TXRX/HTT` | receive ring shared with the target, packet pool | host-to-target messages, target-to-host handler, ring refill | HTC endpoint; TXRX |
| TXRX, `CLD_TXRX/TXRX` | descriptor pool, peers with reference counts, reorder windows | send, completion, reorder, flow control | HTT below, TL shim and HDD above |
| VOSS, `VOSS/src` | main-controller (MC), TLSHIM receive and watchdog threads, message queues, pools of wrappers and packets, `ssr_protect_entry_count`, timers | post, dispatch, timer start, stop and callback, SSR protection | everybody posts messages; HDD suspends the threads, SSR ends them |
| SME, `SME/src` | active, pending and scan command lists; CSR and PMC states | queue, activate and release a command; roam, scan | HDD above, MAC below by messages |
| SAP, `SAP/src` | soft-AP state machine | start, stop, channel switch, DFS | HDD, SME |
| MAC, `MAC/src` | sessions, LIM states, timers, configuration | protocol engine on frames, timers and messages | SME above, WMA below |
| HDD, `HDD/src` | adapters, contexts, wait completions, which threads are suspended | cfg80211, ioctl, netdev entry points; suspend, resume; shutdown and re-init for SSR | SME, SAP, TL shim, VOSS threads |
| SYS, SVC, UTILS, EPPING, WDA, DFS | dispatch, sockets, logs, test driver, radar filter | | |

`src/AIO/drivers/backports` is vendored kernel code.

What is hard to get right: credit and ring accounting over failed sends; one
drainer per endpoint while any thread may call in; the one-at-a-time
completion function that is called from several contexts; the race of runtime
suspend with senders; the control handshake with its timeout; threads that are
woken by bits, suspended with a timeout and ended by a restart at any moment;
a count of commands that three parties change and a resume polls; tear-down
while work items and completions are outstanding; timers and commands that
complete after their owner has gone. `PROJECT.json` lists these hazards with
their lines.

What makes each part correct:

* HTC transmit: a packet is completed exactly once and not during its DMA; it
  is never left queued with nothing to wake the queue; credits and runtime PM
  references are conserved; packets of one client stay in order.
* HIF: completions are delivered in order, by one instance, and none is left
  behind; no ring entry, completion state or receive slot is lost.
* copy engine: the ring indices never pass each other; a descriptor is reaped
  once; the service loop does not miss one that finishes while it leaves.
* HTC control: the response used is the one to the request made; the driver
  survives a refused service.
* VOSS: a message wrapper or packet is in one place; a posted message is served;
  a thread that is blocked is known to whoever must wake it; a restart waits for
  protected entry points and always ends; a stopped timer does not run its
  callback.
* WMI: the pending count is exact and bounded; an event that arrived has work
  coming for it; after the detach nobody uses the handle; the host does not take
  an awake target for suspended.
* TXRX: descriptors are conserved, paused queues are unpaused, frames leave a
  reorder window in order and once.
* SME: one active command; every command is released once.
* PMC, SAP: each state machine leaves its transitional states.

## 2. Plan

| step | module | content | state |
|---|---|---|---|
| 1 | `HtcTx` | transmit path of one endpoint, with pipe, target and runtime PM | done |
| 2 | `HifCompletion` | completion processing of HIF | done |
| 3 | `PacketContract` | what the transmit path promises the client of a packet; `HtcTx` refines it | done |
|   | `HtcTxProofs`, `HtcTxPacketProofs`, `HtcTxPassProofs`, `HifCompletionProofs` | every safety invariant of `HtcTx` and `HifCompletion`, and the refinement of `PacketContract` | done |
| 4 | `HtcControl` | wait for target, connect service, control responses, timeout, late answers; safety proved in `HtcControlProofs` | done |
| 5 | `CeSource`, `TransferFifo` | source ring of a copy engine, indices modulo the ring size, interrupt service; refines a bounded FIFO; invariants and refinement proved in `CeSourceProofs` | done |
| 6 | `VosSched` | MC and receive threads, queues, system suspend and resume, entry points, SSR; safety proved in `VosSchedProofs` | done |
| 7 | `WmiTransport` | commands, events, suspend handshake, tear-down; safety proved in `WmiTransportProofs` | done |
| 8 | `CeDest` | destination ring: buffers posted, descriptors written late, forced break of the receive loop | next |
| 9 | `TxDescPool`, `RxReorder` | descriptors with flow control; the block-ack window against a reference definition | |
| 10 | `VosTimer`, `SmeCommand`, `Pmc`, `SapFsm` | timers; command lists; state machines | |

`CeSource` is to be composed with `HifCompletion`, and `HifCompletion` with
`HtcTx` in place of the pipe and completer each now has of its own. Abstract
specifications: `TransferFifo` for the source ring and `PacketContract` for the
endpoint are stated, checked and proved to be refined; the other modules have none.
`WmiTransport` stands on the results of `HtcTx` (which packets HTC keeps back)
and `VosSched` (nobody is inside the driver at tear-down) and could be composed
with both.

Every safety property that a run checks is now a theorem as well. What remains for
the proofs is what composing the modules would ask: that `CeSource` behaves as
the send rings of `HifCompletion`, and that as the pipe of `HtcTx`.

## 3. The modules

### HtcTx

One endpoint, of any of the kinds in `EndpointKinds`: `endpoint` is chosen in `Init`
and says whether credits are used, whether completions are swallowed (HTT), what
`EpSendFull` answers and which packets are tagged. Threads are the senders, the
completer (the single instance of `hif_completion_thread`) and the resume work item.
`lock` is `LOCK_HTC_TX`. A critical section nobody can look into is one step. The
drain loop of `HTCTrySend` keeps the lock over several steps, because `TestDepth`
reads the queue depth without it.

| code | model |
|---|---|
| `HTCSendPktsMultiple`: header, `SeqNo`, first `adf_nbuf_map` | `HTCSendPkt` |
| `HTCTrySend`: two unlocked reads of the depth | `TestDepth`, `AddDepth` |
| full-queue callback, keep or drop | `SendFull` |
| `HIFGetFreeQueueNumber` | `ReadResources`, and `Relock` for the later passes |
| queueing and the test of `TxProcessCount` | `Enter` |
| drain loop | `BeginPass` ... `EndDrain` |
| `GetHTCAutoPmSendPackets`, `GetHTCSendPackets`, `GetHTCSendPacketsCreditBased` | `GetHTCAutoPmSendPackets`, `TakePacket`, `CanTake`, `Charge`, `EndPass` |
| `HTCIssuePackets` | `StartIssue`, `HIFSend`, `HIFSendFailed`, `FailPacket`, `EndIssue` |
| overflow packets returned to the client | `Return` |
| send completion | `SendDone`, `HTCLookupTxPacket`, `HTCTxCompletionHandler`, `Recycle`; `SwallowCompletion` on the HTT pipe |
| credit report in a trailer | `HTCProcessCreditRpt` |
| `HTCFlushEndpoint` | `HTCFlushEndpoint` |
| `hif_pm_runtime_get` and `hif_pm_runtime_put` of HTC and HTT | `PmAsked`, `PmGranted`, `PmPut`; `RuntimePut` for the tagged HTT packets |
| put by `htt_t2h_lp_msg_handler` | `HttResponse` |
| suspend, resume, `hif_pci_pm_work` | `RuntimeSuspend`, `RuntimeResume`, `HTCTxResumeAllHandler` |

Runtime PM. `rpm` is the status of the kernel's PM core and `pm_state` the
driver's, because a get asks both: `hif_pm_runtime_get` looks at `pm_state`, and
the PM core refuses with `-EINPROGRESS` while it is `RPM_RESUMING`. A resume is
three steps: it begins; the callback sets `pm_state` to ON and schedules the work;
the callback has returned. A packet refused between the last two may miss the work
and has then nothing to wake it but the next send. A suspend that fails is one step
at its end, because nothing asked in between has another answer than after it. A get is
put back where the code puts it: by the completion; by `HTCIssuePackets`
for an HTT packet tagged `RUNTIME_PUT`; by the target's answer for an HTT request
without the tag; and by the failure path for every packet HIF refused.
`Answerable` leaves the statistics request out that resets and uploads at once, which is
tagged and answered as well: the code then puts twice.

External, modelled from how the code uses them: the target (`TargetConsume`,
`TargetReport`) and the kernel's decision to suspend (`PmCoreSuspend`).

Abstractions. A transfer is one fragment and a packet is sent once, so a
packet name identifies a transfer. `HTCSendPkt` hands over one packet; a queue
of several only makes the batch longer. `SeqNo` keeps its 8 bits.
`awaitsSend` remembers that a suspend failed, or a get met `-EINPROGRESS` after
the work of the resume had begun, and nothing was sent since: the code then has no
reason to look at the queue, and `EventuallyCompleted` excepts just that.
`maps` counts DMA mappings. `result` is what the client was told. Endpoint
state of the USB and SDIO builds is absent, and so is `HTCSendDataPkt`.

`PacketContract` is the promise to the clients: a packet is handed over once and then
either sent or given up, never both. It is sent once; the client hears of the
transfers in their order, each after the pipe is done with it; a packet that is
given up (flushed, dropped by `EpSendFull`, refused by HIF) was never on the wire and
never will be; nobody hears of a packet twice. The mapping reads the packets handed
over from `Submitted`, the transfers from `wire` and `hifDone` and the verdicts
from `result`; the queues, batches, locks, credits and runtime PM between these are what
has to get it right. That a packet is given back at all is `EventuallyCompleted`; on the
HTT endpoint, whose completions HTC swallows, a sent packet never is.

### HifCompletion

One queue of completion states and the contexts that feed and serve it.
`multipleMsi` is what the platform grants `hif_pci_configure`: with one
interrupt a single context, `wlan_tasklet`, reaps every pipe; otherwise each copy
engine has a handler (`Serves`). `Reap` is the loop of
`HIF_PCI_CE_send_done` or `HIF_PCI_CE_recv_data`, `Enqueue` its end under
`completion_pendingq_lock`, and the labels from `decAndTest` to `recycle` are
`hif_completion_thread`. `DecAndTest` and `Unlucky` are separate because the
decrement and the increment that undoes it are separate atomic operations.
`CopyEngine` is the hardware as `CE_completed_recv_next_nolock` sees it.

Abstractions. Transfers are numbered per pipe. The order in which
`hif_post_recv_buffers` visits pipes is free. The return for missing callbacks
is left out: they are registered before `HIFStart`.

### HtcControl

The thread that brings HTC up, the receive context and the target.

| code | model |
|---|---|
| `HTCWaitTarget` up to `HIFStart`, and its handling of READY | `HTCWaitTarget`, `ReadyMsg` |
| `HTCConnectService` up to the request, and from the response on | `HTCConnectService`, `ConnectResponse` |
| `HTCWaitRecvCtrlMessage` | `ReInit`, then `WaitForCompletion` or `Timeout` |
| `HTCStart` | `HTCStart` |
| `HTCRxCompletionHandler`, endpoint 0 | `HTCRxCompletionHandler`, then `Signal` after the unlock |
| `HTCSetupTargetBufferAssignments`, `HTCGetCreditAllocation` | `CreditAllocation` |

`service` counts the steps: 0 is READY, then the services in the order they
are connected. `epping` chooses between the WLAN driver (HTT, then WMI) and
endpoint ping (BE, then BK), in `Init`, as the module parameter does.
`TargetBoot` and `TargetAnswer` are external: the target announces itself once
and answers each request once, with any content and after any delay.

Abstractions. A message carries the step it answers, which the code does not
see and only the properties read. A message that is too short and one with
another id are treated alike by the code and are one case; so are zero credits
and a zero credit size. Metadata is left out. `HIFMapServiceToPipe` succeeds
for the services of `Services` (they are in `target_service_to_CE_map_wlan`). On
PCIe `hif_reset_target` does nothing, so a late answer still arrives. After
"failed" the callers tear the driver down, which is not modelled; the receive
context keeps running.

### CeSource and TransferFifo

The source ring of one copy engine: senders in `HIFSend_head`, the interrupt
service, pollers in `HIFSendCompleteCheck`, and the target, which runs beside
all of them. `target_lock` is not a variable: a critical section is one step,
except for the two that the target can look into, posting a list (`post`) and
the end of `CE_per_engine_service` (`clear`, `check`); `TargetLockFree` keeps
the others out.

| code | model |
|---|---|
| `HIFSend_head`: reservation of entries | `HIFSend_head` |
| `CE_sendlist_send`, `CE_send_nolock` per fragment | `CE_sendlist_send`, `CE_send_nolock` (`Post`, or `Abandon` when the target cannot be accessed) |
| `CE_completed_send_next_nolock` with the cached `hw_index` | `TakeNext` |
| `CE_per_engine_service`, `CE_per_engine_servicereap` | `CE_per_engine_service`, `HIFSendCompleteCheck`, `NextCompleted`, `CE_ENGINE_INT_STATUS_CLEAR`, `CE_send_entries_done_nolock` |
| `HIF_PCI_CE_send_done` | `HIF_PCI_CE_send_done`, `CE_completed_send_next`, and `ReturnEntry` for what `hif_completion_thread` does later |
| `HIFStop`, `hif_send_buffer_cleanup_on_pipe` | `HIFStop`, `CE_cancel_send_next` |
| `HIFTargetSleepStateAdjust` sets `recovery` | `LinkDown` |

External: `TargetCopy`, and `TargetGone`, after which a register reads all ones.
`TransferFifo` is the promise: a bounded queue that hands back each transfer
once, in order, when it has been copied or the device was stopped. The mapping
reads the queue off the ring: the contexts between `sw_index` and
`write_index`, without those of inner fragments.

Abstractions. Pipes other than HTT's, whose completions do not reach HIF.
`HIFSendCompleteCheck` may poll at any time (the test of free entries only saves
work). A failing `A_TARGET_ACCESS_END_RET` is left out: it changes what the sender
is told, not the ring. `NeverRefused` is about room: the assertion on the send's
result in `HIFSend_head` can also fail for a list that was abandoned or a link that
was lost. `HIFStop` waits for all threads, as its comment says they are stopped.
Receiving and watermarks on the same engine are left out; apart from the diagnostic
engine, a copy engine serves one direction.

### VosSched

The two scheduler threads, and everybody who feeds, suspends or ends them. Each
thread has a set of bits (`eventFlag`) it waits for, and completions it answers
on; both run the same loop, with one queue for the receive thread and several,
served in order, for the MC thread.

| code | model |
|---|---|
| `vos_mq_post_message`; `tlshim_data_rx_handler` with `vos_indicate_rxpkt` | `Post` (take a wrapper or packet, enqueue), then `Notify` (set the bit) |
| `VosMCThread`, `VosTlshimRxThread` | `WaitEvent`, `Shutdown` or `KeepRunning`, `Skip`, `Take`, `Process`, `TestSuspend`, `Answer`, `Resumed` |
| `vos_ssr_protect`, `wlan_hdd_validate_context`, `vos_ssr_unprotect` around an entry point | `Call`, `Validate`, `Return`; `Enter` and `Exit` inside suspend and resume |
| `vos_drop_rxpkt_by_staid` | `Dropped`, in the body of a call |
| `wlan_hdd_cfg80211_suspend_wlan` | `SuspendCall`, `SuspendRefused` or `SuspendAllowed`, `Answered` or `Expired` per thread, `SuspendFwOk` or `SuspendFwFailed`, `ResumeMc` |
| `wlan_hdd_cfg80211_resume_wlan` | `ResumeCall` ... `ResumeFwFailed` |
| `hif_pci_shutdown`: `isLogpInProgress`, the bounded wait of `vos_is_ssr_ready` | `SsrStart`, `SsrReady` or `SsrNotReady` |
| `hdd_wlan_shutdown` | `WakeThreads`, `StopThread`, `McStopped`, `RxStopped`, `StopModules` |
| `hif_pci_reinit`, `hdd_wlan_re_init` | `Reopen` |

Abstractions. Taking a free item and queueing it is one step: nobody else can
see the item in between. Messages have no content, so the handlers the MC thread
calls do nothing here but return. The waits of suspend (2 s, 1.2 s and 200 ms)
are shorter than the 40 s of the restart, so `SsrNotReady` does not happen with a
suspend or resume inside. No poster is in the middle of a post when the driver is
opened again: re-initialisation first reboots the target. `LateAnswers` says
whether HDD's wait may also expire when the thread has taken the request and is about
to answer. `forced`, `sleeping` and `givenUp` are history: this restart did not wait
for everybody; the last suspend succeeded; the threads HDD stopped waiting for at
that moment. The answer of such a thread stays behind and a later suspend takes it for its
own; opening VOSS again re-initialises the completion of rx, but not
`mc_sus_event_var`, which is HDD's, so mc stays in `givenUp`. `ResumeFwFailed` is only
possible during a restart, because otherwise the `VOS_BUG` there stops the kernel: that is
so with `PANIC_ON_BUG := 1`, the default of the Kbuild file.

### WmiTransport

One WMI handle from attach to detach. A command is one call of
`wmi_unified_cmd_send`, in steps at which others can interfere; "suspend" and
"resume" are the two commands of the power path.

| code | model |
|---|---|
| `wmi_unified_cmd_send` | `CmdTest`, `CmdInvalid`, `CmdCount`, `CmdLimit`, `CmdNoPacket`, `CmdSend` |
| HTC below it, as `HtcTx` has it | `HtcIssue`; `TxComplete` is `wmi_htc_tx_complete` |
| `__hif_pci_runtime_suspend`, `__hif_pci_suspend`, `wma_suspend_target` | `RuntimeSuspend`, `SystemSuspend`, `SuspendSent`, `SuspendNotSent`, `SuspendTimeout`, `SuspendAcked`, `SuspendFailsLate`, `SuspendBacksOut` |
| `__hif_pci_resume`, `wma_resume_target`, `wma_resume_req` | `Resume`, `ResumeSent`, `PollEnds`, `ResumeEnds`, `ResumeIndication` |
| handler table | `Register`, `UnregisterClear` and `UnregisterMove` |
| `wmi_control_rx` in the tasklet | `TaskletRx`, or `QueueRx` and `RxSchedule` |
| `wmi_rx_event_work`, `__wmi_control_rx` | `WorkStart`, `WorkTake`, `WorkDrop`, `WorkLookup`, `WorkCall`, `WorkEnd` |
| `vos_stop` with `vos_close`; `vos_shutdown` | `TearDown` with one of two orders of `RemoveWork`, `StopHtc`, the unregistering of the firmware log in `WDA_close`, `Detach` |

Abstractions. Each command is sent once and each event arrives once per
attachment. Events have no content and no buffer. `HTCSendPkt` accepts what a
connected endpoint is given. A resume of the system polls `pending_cmds` a hundred times,
10 ms apart, and then fails; nothing in the model says how far commands get in that time, so
`PollEnds` may run out whenever a command is pending. `StopHtc` completes every command HTC
holds; the code does so with what HTC has queued and with what is in the ring, but
`hif_completion_thread_shutdown` discards transfers that were reaped and not yet handled, and
nobody hears of these. Wake on wireless, D0-WoW, the returns for a
restart that happened during the wait, and the debug flags are left out.

### Proof modules

`HtcTxProofs` has the types, the single drainer and the ring entries of
`HtcTx`; `HtcTxPacketProofs` extends it with the account of packets, and
`HtcTxPassProofs` that with runtime PM and the order of packets.
`HifCompletionProofs`, `HtcControlProofs`, `CeSourceProofs`, `VosSchedProofs`
and `WmiTransportProofs` extend the modules they are named after. The `MC*`
modules only name constants for the configurations.

## 4. Runs

| run | instance | what it shows |
|---|---|---|
| `htc_credit` | credit endpoint with a dropping callback (more than WMI asks for, whose `EpSendFull` is NULL) or HTT endpoint with a keeping one; 3 packets, 2 senders, 3 credits, 2 ring entries, queue depth 1, flush | one drainer, head-of-queue lookup, packet accounting, credit conservation, order, ring accounting, refinement of `PacketContract` (with it, no completion during DMA) |
| `htc_pm` | WMI endpoint, with and without a packet tagged `AUTO_PM`, or HTT endpoint with a packet tagged `RUNTIME_PUT` and a request; ring with 1 entry, so that HIF refuses; 2 packets, one suspend that may fail, fair | the runtime PM usage count is the packets in use, less the puts for refused `AUTO_PM` packets; every WMI packet is completed, although the target reports credits only when asked, unless it was left to the next send (`awaitsSend`) |
| `htc_credit_leak` | 4 credits, 1 ring entry | **violation** of `CreditsConserved` |
| `htc_stranded` | endpoint without credit flow, 2 ring entries | **violation** of `NothingStranded` |
| `htc_kept_unmapped` | HTT endpoint, keeping callback, 1 ring entry | **violation** of `SentMapped` |
| `hif_completion` | one tasklet, or 3 contexts; a send and a receive pipe of 3 entries, failing allocations, a firmware event, fair | one instance, order, no completion state, ring entry or receive slot lost; with one tasklet nothing reaped is left unhandled |
| `hif_stranded` | 3 contexts | **violation** of `NoStrandedCompletion` |
| `htc_control` | both sequences of services, 3 endpoints, offers of 0, 1, 4, 255 and 300 credits, fair | an answer is used for its own request; `VOS_BUG` is not met; endpoints and credits are given out once; no answer is missed |
| `ce_source` | ring of 4, 2 senders, the service, 1 poller, lists of 1 or 2 fragments, fair | whole lists, no refused reservation, entry accounting, refinement of `TransferFifo`, the service loop does not hang and misses nothing |
| `vos_sched` | 2 MC queues, 1 wrapper, 1 packet, 1 other call, 1 poster per thread, waits that expire only before the request was taken, fair | nothing lost, no wake-up missed, a suspended thread is blocked and a blocked one is known, nobody inside during tear-down; messages are served, restarts complete, blocked threads are resumed |
| `vos_suspend_timeout` | late answers, 2 wrappers | **violation** of `BlockedIsRecorded` |
| `wmi_transport` | 2 ordinary commands besides suspend and resume, limit 2, 3 event ids, table of 2 | the count is exact and below the limit, no event stranded, handlers match, nothing after the detach, a runtime resume that was sent takes effect and HTC does not keep its command back |

Deadlock is checked in the runs of `VosSched`, which never ends. Elsewhere it is not:
clients send a bounded number of packets, the handshake ends, the handle is
detached, and the system then rests.

**Bounds.** Three packets give a batch of two behind one on the wire, which is what
the failure and overflow paths need; two senders give a drainer and a thread turned
away, and the completer a third. A packet costs two credits (one of the three costs
one in `htc_credit`), so the count runs out inside a batch or between two, and a
cheap packet could overtake a dear one. `SendEntries` of 1 to 3 puts the ring's
limit before or after that. `MaxTxQueueDepth` of 1 makes the queue overflow. These
bounds do not reach a refused batch of several packets: `htc_credit_leak` shows what
becomes of its credits, and the theorem `CreditsConservedUnlessRefused` excepts it.
One suspend is enough for a refused packet, its return to the queue and the resume;
more repeat it. In HIF a ring of three entries holds two transfers and is full, and
four transfers on it go round more than once, so that an entry returned twice shows.
Three endpoints just hold the control service and two more, so the target can assign
one in use and one out of range; an odd offer makes the halves of endpoint ping
round down, 255 is the largest the 8 bits of an allocation hold, and 300 does not
fit. Two lists of two fragments overfill the three usable entries of a ring of four,
and the ring starts at any index, so it wraps everywhere. `CompCheckThreshold` is no
smaller than the number of copies (20 in the code): the loop then never ends early
while the device answers; what happens beyond is noted with the hazard at the
clearing of the interrupt. In `vos_sched` one item per pool makes every pool run
empty and still lets a post race each step of its thread; with two queues a message
can go to the one already passed; one call inside an entry point, be it suspend,
resume or another, is what a restart can meet stuck. Three
variants were checked beside the regular run and are too slow for it: two wrappers
(530,218 states) for the invariants; two calls inside at once, so that a suspend
overlaps another call (`MaxEntries = 2`, 235,408 states), for all its properties; and
late answers (`LateAnswers = TRUE`, 2,246,707 states) for `SuspendedIsBlocked` and
`OnlyGivenUpForgotten`. All hold.
Restarts, suspends and calls are unbounded there. In `wmi_transport` a limit of 2 is
met by any two of the four commands, and a table of two entries is full when both
handlers are registered, so that unregistering moves one.

**Fairness.** Every thread that is inside HTC keeps running (weak fairness of
`HTCTrySend(t)` and of `Completion`): it is kernel code that holds no lock it
waits for. The target consumes messages and answers a request for credits
(`HTC_FLAGS_NEED_CREDIT_UPDATE`) but reports nothing unasked. A suspend or
resume that has begun ends; a resume that was asked for happens; scheduled
work runs. Clients need not send and the kernel need not suspend.
`MaxSuspends` stands for the autosuspend delay: without it the device could
suspend again in every gap and no liveness would hold. In HIF, weak fairness
of `Context(c)` says interrupts are delivered and a handler runs to its end.
In the handshake the thread, the receive context and the target keep running;
`Timeout` has no fairness, so that `HandshakeEnds` cannot rest on it. On the
source ring threads inside the driver keep running and a signalled interrupt is
served; the target need not copy and nobody need poll. In `VosSched` a thread
that can run does, a poster that enqueued sets the bit, suspend, resume and
restart go on once begun (their waits have timeouts); nobody need post, suspend
or restart, and a call inside the driver may be stuck for good.

**Sensitivity.** Each property of a passing run has a seeded fault in the
module it speaks of (a dropped guard, a missing reset, a swapped order) that
makes TLC find it violated; they are listed under `mutants`.

## 5. Where the code disagrees with itself

* *Credits leak when HIF refuses a batch* (`htc_credit_leak`). The failing packet's
  credits are reclaimed, the ones behind it are completed with theirs.
* *A packet waits with nothing to wake it* (`htc_stranded`). The drainer's count of
  free entries is read before the lock is taken; the last completion can fall in
  between.
* *A kept packet is sent unmapped* (`htc_kept_unmapped`). `RestoreTxPacket` unmaps
  it before it is queued and the non-credit path does not map again.
* *A completion waits with nobody inside* (`hif_stranded`). An unlucky caller that
  has not undone its decrement makes the next caller unlucky too. One tasklet is not
  exposed to this (`hif_completion`).
* *A thread is stopped and nobody knows* (`vos_suspend_timeout`). HDD's wait for the
  MC thread expires after the thread has taken the request: "Failed to stop mc
  thread", but it blocks until an event nobody will complete. `OnlyGivenUpForgottenAlways`
  proves that it does not spread: a thread that was not given up is never blocked
  without being known.

Seen and not kept as runs: `HTCIssuePackets` puts a runtime PM reference for every
packet HIF refuses, `AUTO_PM` packets included, for which
`GetHTCSendPacketsCreditBased` took none (with another packet's reference outstanding
the put drops that one, without, the driver's own test warns; `PmUsageAccounted` and
its theorem bound the damage: the count never rises above the packets in use and falls
short of them by such packets only); `pm_state` is still ON when the kernel has decided
to suspend, so the first get of a pass can succeed and the second be refused, which an
assertion excludes (the batch is sent all the same; a build with assertions stops);
"allocate all credits to wmi" stores the 16 bits of the READY message in 8, and no
target is known here to offer more than 255; `HTCFlushEndpoint` ignores its `Tag` although
`SERVICES/COMMON/htc_api.h` gives it a meaning; a suspend that fails leaves refused
packets until the next send (`if_pci.c`, the `out` label); credit endpoints map each
buffer twice; a suspend that fails after the target's acknowledgement leaves
`is_target_suspended` set (`SuspendFailsLate`); a command of another thread can
follow `WMI_PDEV_SUSPEND`, since the flag is raised after it was sent; the work of a
runtime resume can run before the PM core has left `RPM_RESUMING`, and a send
refused then waits for the next one; a resume of the system fails when the commands
pending do not drain in a second (`AwakeIsUsable` is about runtime resumes); the
loop of `CE_per_engine_service` may run as long as others send, as its own comment
says; `vos_shutdown` unregisters an event handler before it cancels the work that
may be about to call it (`vos_close` does it the other way round), so
`HandlerIsForEvent` is stated for removal only; a tasklet event with bad TLVs is
returned without freeing its buffer.

## 6. Proofs

All are for every value of the constants that satisfies the assumptions named
in the modules: `ThreadAssumption` and `ParameterAssumption` (`HtcTx`),
`ContextAssumption` and `BoundAssumption` (`HifCompletion`),
`ControlAssumption` and `ServiceAssumption` (`HtcControl`), `RingAssumption`
(`CeSource`), `SchedAssumption` (`VosSched`), `WmiConstants` (`WmiTransport`).
They ask for finite sets where something is counted: contexts of HIF,
senders and pollers of a ring, wrappers, packets and callers of the scheduler,
WMI commands. The senders and packets of `HtcTx` need not be finite, except
for the order of packets.

Two theorems have a condition of their own. The credits of an endpoint add up until HIF
refuses one of its packets (`NoSendRefused`); `htc_credit_leak` shows that they do
not afterwards, and `NoCreditCreated` states what remains. `FifoPerClient` compares
sequence numbers, which have 8 bits, so `FifoPerClientAlways` is for at most 256
packets (`FewPackets`). Exceptions that the code needs are in the properties themselves, as
states and not as constants: threads that were given up (`givenUp`), refused `AUTO_PM`
packets, offers 8 bits cannot hold, resumes of the system whose poll may run out.

Induction over data needs a form of its own here, because the induction theorems of
the library take an operator as a parameter. A lemma is stated of a set instead: a
nonempty set of naturals has a least element (`LeastNatural`), a finite
set has a least subset outside a property (`LeastSubset`), a set with 0 and all
successors has all naturals (`AllNaturals`). With these the equation of a recursive
function is shown to have a solution, which makes it usable (`FoldsAreTotals` for the
folds of the community modules, `FromCollects` for the ring).

`HtcTx`:

* `SingleDrainerAlways`. The invariant adds that `TxProcessCount` is 0 or 1; the two
  halves of `SingleDrainer` support each other: the test keeps a second thread out
  because the count is 1 whenever somebody is inside.
* `TypeCorrect`. `TypeOK` alone is not inductive: the credits and the drainer's
  resource count stay natural only because a thread that issues or fails has a
  packet in hand, so the invariant adds `PacketInHand`. There is one lemma per
  action.
* `RingEntriesAlways`. `RingEntriesConserved` needs to know that the completer holds
  a transfer exactly while its label says so (`CompleterHolds`), and stands on the
  type invariant.
* `PacketsAccountedForAlways`, `LookupHitsHeadAlways`, `NoCompletionDuringDmaAlways`
  (TLC checks the last one as part of `KeepsContract`). `PacketsAccountedFor` counts
  positions, which shift with every queue operation. The invariant `PlaceInv` counts
  queues: a packet its client waits for is in exactly one queue, batch or hand
  (`Counted`) and there once (`NoRepeats`); the locals of a thread are empty where
  the code overwrites them (`LocalsFree`); `TxLookupQueue` is the transfer being
  looked up, then the wire, then the packet being issued (`LookupOrder`), which is
  why a refused send never takes out another packet and a lookup never searches.
* `PmUsageAccountedAlways`. `Balance` bounds the count from both sides by the
  ordinary packets in use (a batch, a packet being issued, a transfer HTC or the
  target has still to answer) and the `AUTO_PM` packets that came back with an
  error. It needs `PassInv`: a pass for `AUTO_PM` packets takes only these and every
  other pass none, because the drainer keeps the lock from its look at the queue to
  the end of the pass.
* `FifoPerClientAlways`. The wire alone says nothing about what comes next.
  `FifoInv` follows a packet through five lanes (the client's call, `TxQueue`, the
  drainer's batch, the packet being issued, the wire): each is sorted, and of two
  packets of a client the one nearer to the wire was sent first. A client thread is
  in one call at a time (`OwnPacket`), so what enters `TxQueue` is only compared
  with what is ahead of it.
* `SentInvariant`, `KeepsContractAlways`. That a packet is never given up once it is
  on the wire is `PlaceInv` again: who gives up a packet has it in a queue or hand,
  and what is on the wire is in `TxLookupQueue` alone. `SentInv` adds that the wire
  has no packet twice and that the clients of the completed transfers have been
  told, all but the one the completer is handling. Then each action is one step of
  the contract or none, since no action of the code does two of them at once.
* `CreditInvariant`, `CreditsConservedUnlessRefused`, `NoCreditCreated`. The
  property sums the charges of some packets and the reports on their way, and is not
  inductive: the drainer charges a packet to its local variable first and writes
  `TxCredits` back at the end of a pass. `CreditInv` follows every credit through
  these places (`Account`) and lets a set of refused packets have lost theirs. On
  lemmas about sums over finite sets and sequences (`TotalAdd`, `TotalRemove`,
  `TotalUnion`, `TotalOfSequence`) each step moves credits from one place to
  another. With nothing refused the set is empty and the sum is exact; with a
  refusal the rest is at most what was allocated.

`HifCompletion`:

* `OneInstanceAlways`. Mutual exclusion follows from
  `hif_thread_idle + Cardinality(Entered) <= 1`, where `Entered` are the
  contexts between their decrement and their increment. The bound is an
  inequality because a reset target makes one leave without its increment.
* `ReceiveSlotsConservedAlways`, `FreeStateAvailableAlways`. `SlotInv`: every
  completion state is free or holds a transfer, every entry of a send ring is
  allowed to senders, in the ring or holds a state, and a context has a
  transfer in hand where its label says so. That a reap finds a free state needs
  `OneInstance` besides: each instance inside may hold one state more than the
  ring accounts for.
* `InOrderAlways`. `OrderInv`: the transfer in hand is the next of its pipe, those
  waiting stand in order with none missing, and what a context has reaped but
  not queued comes after them.

`HtcControl`:

* `NoFatalReceiveAlways`, `ResponseMatchesRequestAlways`. Both follow from one
  invariant (`HandshakeInv`): at most one control message is anywhere between
  the host's request and its use, it is about the current service, and while it
  is outstanding the response buffer is free. A timeout ends the handshake, so
  the outstanding answer is never joined by a second one; that is what the
  callers' giving up contributes, and the fault `FailTolerated` takes it away.

* `ServicesKeepEndpointsAlways`, `CreditsWithinOfferAlways`. `EndpointInv` rests on
  the handshake: what the thread reads is a message the target can have sent in this
  step, so the endpoint of an accepted connection exists and was free, and every
  endpoint in use has one connected service and the credits allocated to that
  service.

`CeSource`:

* `ListsWholeAlways`, `NeverRefusedAlways`, `EntriesConservedAlways`,
  `RoomForReservations`. One invariant, `RingInv`, on lemmas about `CE_RING_DELTA`:
  the order of the five indices around the ring, the contexts of the filled part,
  who is between the steps of `target_lock`, and a bound: free entries,
  reservations, used entries and completions not yet returned add up to at most the
  size of the ring. The bound is an equality until the link is lost; afterwards
  lists are abandoned with their reservations and only the inequality remains, which
  is what `NeverRefused` needs.
* `IsFifoAlways`. `FifoInv` adds to `RingInv` that the transfers posted are those
  handed back and those in the ring. The mapping collects the transfers entry by
  entry, so the lemmas say what happens to them when an entry is written behind the
  last (`PostRing`) and when the first is taken (`TakeRing`, on `FromNext`: the same
  collection begun one entry later). Each step of the ring is then one of the queue:
  the last fragment accepts, the copy of a last fragment copies, the reap of one
  hands back, `HIFStop` halts; inner fragments and everything else leave the queue
  alone. That a reap finds a copied transfer is the order of the indices, the cached
  `hw_index` included (`TakenIsCopied`).

`VosSched`:

* `NoEntryDuringTeardownAlways`. `EntryInv`: the entry count is the number of
  callers inside, so a restart that reads 0 meets nobody, and who comes later is
  turned away by the flag set before.
* `ThreadsGoneAlways`. `GoneInv`: what each step of the restart waits for stays
  true at the later ones.
* `SuspendedIsBlockedAlways`, `OnlyGivenUpForgottenAlways`. `SuspendInv` says, for
  every place of a thread, of HDD and of the restart, how the thread's bit, its
  answer, its block and HDD's record go together. Late answers are included: a thread that
  was given up drops out, and the steps of the other do not depend on it. For rx to come back
  when VOSS is opened again, no thread may be recorded then, given up or not (`Cleared`).
* `NoLostWakeupAlways`. `WakeupInv`: when no post is half done and the bit is
  clear, the queues this scan has already passed are empty.
* `ItemsConservedAlways`. `ItemInv`: free, queued and in hand cover the pool and
  do not overlap; it needs the two before for the restart, which frees what
  is queued.

`WmiTransport`:

* `PendingCountedAlways`, `BelowLimitAlways`. `CountInv` adds that the commands past
  the test of the limit are fewer than the limit: callers count before they test, so
  the count itself may exceed it.
* `EventNotStrandedAlways`. Inductive as it stands: the tasklet schedules the work
  after it queued the event.
* `HandlerIsForEventAlways`, `NothingAfterDetachAlways`. `DownInv`: which steps of
  the tear-down remain on each of its two paths, what is gone after each, and what a
  lookup in the handler table keeps while the table is compacted.
* `AwakeIsUsableAlways`. `PowerInv`: the resume command follows the suspend command
  (`SuspendOnce`); a runtime resume goes straight from the sent command to the
  lifted flag and does not poll (`RuntimeSkipsPoll`), so it does not wait for the
  commands HTC keeps back meanwhile; `runtime_pm_inprogress` is up from the suspend
  to the end of the resume (`InProgressHeld`), so both commands get the tag HTC lets
  through (`PowerTagged`). The poll of a resume of the system may end in any way.

Left to TLC, on the instances of section 4:

* liveness (`EventuallyCompleted`, `EventuallyHandled`, `HandshakeEnds`,
  `CopiedIsHandedBack`, `ServiceMovesOn`, `Served`, `BlockedIsResumed`,
  `RestartCompletes`): the prover has no fairness rules;
* `NothingStranded`, `SentMapped`, `NoStrandedCompletion` and the other properties that the
  violation runs refute: they are not true of every instance. `CreditsConserved`
  is proved under the condition above; of `BlockedIsRecorded` the theorem proves what
  remains (`OnlyGivenUpForgotten`).

## 7. Not modelled

Everything section 2 has not marked done: the destination ring, TXRX and HTT
rings, timers, SME command lists and the PMC and SAP state machines can be
modelled in the same way and are not yet. HTCSendDataPkt, the wake-on-wireless
path and `hif_pm_runtime_prevent_suspend` are the operations the modelled parts
still lack. The protocol engine (`MAC`), roaming and the message translation of WMA
are some 200 000 lines whose control depends on frame contents; a faithful small
instance of one exchange would be a project of its own. No model here would
serve frame formats and parsers, regulatory tables, radar filtering, logging,
user-space sockets, the USB and SDIO buses, vendored kernel code.
`PROJECT.json` gives the reason for each component.
