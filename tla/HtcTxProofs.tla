---------------------------- MODULE HtcTxProofs ----------------------------
(***************************************************************************)
(* Theorems about HtcTx for every number of packets, senders, credits and  *)
(* ring entries and every setting of the endpoint.                         *)
(*                                                                         *)
(* TypeOK needs one strengthening: a thread that handles a packet outside  *)
(* the queues really has one in its local variable (PacketInHand).         *)
(* SingleDrainer is inductive once TxProcessCount and pc have their types. *)
(*                                                                         *)
(* The last section is about sums over a finite set, which the invariants  *)
(* on credits need; it says nothing about HtcTx.                           *)
(***************************************************************************)
EXTENDS HtcTx, FiniteSetTheorems, WellFoundedInduction, TLAPS

----------------------------------------------------------------------------
(* Helpers of the model on typed arguments                                 *)

\* Removing an element leaves a sequence over the same set.
LEMMA RemoveAtType ==
    ASSUME NEW S, NEW q \in Seq(S), NEW i \in DOMAIN q
    PROVE  RemoveAt(q, i) \in Seq(S)
  BY DEF RemoveAt

\* HTC_PACKET_REMOVE leaves a queue of packets.
LEMMA WithoutType ==
    ASSUME NEW q \in Seq(Packets), NEW p
    PROVE  Without(q, p) \in Seq(Packets)
<1>1. CASE \E i \in DOMAIN q : q[i] = p
  <2> DEFINE i == CHOOSE j \in DOMAIN q : q[j] = p
  <2>1. i \in DOMAIN q
    BY <1>1
  <2>2. Without(q, p) = RemoveAt(q, i)
    BY <1>1 DEF Without
  <2> QED
    BY <2>1, <2>2, RemoveAtType
<1>2. CASE ~ \E i \in DOMAIN q : q[i] = p
  BY <1>2 DEF Without
<1> QED
  BY <1>1, <1>2

\* The credits a message needs are a natural number.
LEMMA CreditsRequiredType == \A p \in Packets : CreditsRequired(p) \in Nat
  BY ParameterAssumption DEF CreditsRequired

\* SendPacketCompletion keeps the client's state well typed.
LEMMA CompletionType ==
    ASSUME ClientTypeOK, NEW P, NEW status \in Results, SendPacketCompletion(P, status)
    PROVE  ClientTypeOK'
<1>1. "twice" \in Results
  BY DEF Results
<1>2. result' \in [Packets -> Results]
  BY <1>1 DEF ClientTypeOK, SendPacketCompletion
<1>3. maps' \in [Packets -> Int] /\ fixup' \in [Packets -> BOOLEAN]
  BY DEF ClientTypeOK, SendPacketCompletion, RestoreTxPacket
<1> QED
  BY <1>2, <1>3 DEF ClientTypeOK
----------------------------------------------------------------------------
(* TxProcessCount admits one thread to the drain section                   *)

DrainInv == pc \in [Threads -> Labels] /\ TxProcessCount \in 0..1 /\ SingleDrainer

\* A thread that stays on its side of the section, and leaves the count alone, keeps DrainInv.
LEMMA MoveKeepsDrainer ==
    ASSUME DrainInv, NEW t \in Threads, NEW label \in Labels, Goto(t, label),
           UNCHANGED TxProcessCount, pc[t] \in DrainLabels <=> label \in DrainLabels
    PROVE  DrainInv'
<1>1. pc' \in [Threads -> Labels] /\ TxProcessCount' \in 0..1
  BY DEF DrainInv, Goto
<1>2. \A u \in Threads : pc'[u] \in DrainLabels <=> pc[u] \in DrainLabels
  BY DEF DrainInv, Goto
<1> QED
  BY <1>1, <1>2 DEF DrainInv, SingleDrainer

\* The thread that finds the count 0 becomes the drainer.
LEMMA EnterKeepsDrainer ==
    ASSUME DrainInv, NEW t \in Threads, Goto(t, "drain"), TxProcessCount = 0, TxProcessCount' = 1
    PROVE  DrainInv'
<1>1. \A u \in Threads : pc[u] \notin DrainLabels
  BY DEF DrainInv, SingleDrainer
<1>2. pc' \in [Threads -> Labels] /\ TxProcessCount' \in 0..1
  BY DEF DrainInv, Goto, Labels
<1>3. "drain" \in DrainLabels
  BY DEF DrainLabels
<1>4. \A u \in Threads : pc'[u] \in DrainLabels <=> u = t
  BY <1>1, <1>3 DEF DrainInv, Goto
<1> QED
  BY <1>2, <1>4 DEF DrainInv, SingleDrainer

\* The drainer resets the count as it leaves, and no other thread is in the section.
LEMMA LeaveKeepsDrainer ==
    ASSUME DrainInv, NEW t \in Threads, Goto(t, "return"), pc[t] \in DrainLabels,
           TxProcessCount' = 0
    PROVE  DrainInv'
<1>1. \A u \in Threads : pc[u] \in DrainLabels => u = t
  BY DEF DrainInv, SingleDrainer
<1>2. pc' \in [Threads -> Labels] /\ TxProcessCount' \in 0..1
  BY DEF DrainInv, Goto, Labels
<1>3. "return" \notin DrainLabels
  BY DEF DrainLabels
<1>4. \A u \in Threads : pc'[u] \notin DrainLabels
  BY <1>1, <1>3 DEF DrainInv, Goto
<1> QED
  BY <1>2, <1>4 DEF DrainInv, SingleDrainer

\* Every step keeps DrainInv.
LEMMA DrainStep == DrainInv /\ [Next]_vars => DrainInv'
<1> SUFFICES ASSUME DrainInv, [Next]_vars PROVE DrainInv'
  OBVIOUS
<1>c. Completer \in Threads /\ Resumer \in Threads /\ Senders \subseteq Threads
  BY DEF Threads
<1>u. ASSUME UNCHANGED <<pc, TxProcessCount>> PROVE DrainInv'
  BY <1>u DEF DrainInv, SingleDrainer
<1>1. ASSUME NEW t \in Senders, NEW p \in Packets, HTCSendPkt(t, p) PROVE DrainInv'
  BY <1>1, <1>c, MoveKeepsDrainer DEF HTCSendPkt, Labels, DrainLabels
<1>2. ASSUME NEW t \in Threads, HTCTrySend(t) PROVE DrainInv'
  <2>1. CASE TestDepth(t)
    BY <2>1, MoveKeepsDrainer DEF TestDepth, epVars, Labels, DrainLabels
  <2>2. CASE AddDepth(t)
    BY <2>2, MoveKeepsDrainer DEF AddDepth, epVars, Labels, DrainLabels
  <2>3. CASE SendFull(t)
    BY <2>3, MoveKeepsDrainer DEF SendFull, epVars, Labels, DrainLabels
  <2>4. CASE ReadResources(t)
    BY <2>4, MoveKeepsDrainer DEF ReadResources, epVars, Labels, DrainLabels
  <2>5. CASE Enter(t)
    <3>1. CASE Busy
      BY <2>5, <3>1, MoveKeepsDrainer DEF Enter, Labels, DrainLabels
    <3>2. CASE ~Busy
      <4>1. TxProcessCount = 0
        BY <3>2 DEF Busy, DrainInv
      <4> QED
        BY <2>5, <3>2, <4>1, EnterKeepsDrainer DEF Enter
    <3> QED
      BY <3>1, <3>2
  <2>6. CASE Relock(t)
    BY <2>6, MoveKeepsDrainer DEF Relock, epVars, Labels, DrainLabels
  <2>7. CASE BeginPass(t)
    BY <2>7, MoveKeepsDrainer DEF BeginPass, epVars, Labels, DrainLabels
  <2>8. CASE GetHTCAutoPmSendPackets(t)
    BY <2>8, MoveKeepsDrainer DEF GetHTCAutoPmSendPackets, Labels, DrainLabels
  <2>9. CASE TakePacket(t)
    BY <2>9, <1>u DEF TakePacket
  <2>10. CASE EndPass(t)
    <3>1. CASE sendQueue[t] = <<>>
      BY <2>10, <3>1, LeaveKeepsDrainer DEF EndPass, DrainLabels
    <3>2. CASE sendQueue[t] # <<>>
      BY <2>10, <3>2, MoveKeepsDrainer DEF EndPass, Labels, DrainLabels
    <3> QED
      BY <3>1, <3>2
  <2>11. CASE EndDrain(t)
    BY <2>11, LeaveKeepsDrainer DEF EndDrain, DrainLabels
  <2>12. CASE StartIssue(t)
    BY <2>12, MoveKeepsDrainer DEF StartIssue, Labels, DrainLabels
  <2>13. CASE HIFSend(t)
    BY <2>13, MoveKeepsDrainer DEF HIFSend, epVars, Labels, DrainLabels
  <2>14. CASE HIFSendFailed(t)
    BY <2>14, MoveKeepsDrainer DEF HIFSendFailed, Labels, DrainLabels
  <2>15. CASE FailPacket(t)
    BY <2>15, <1>u DEF FailPacket, epVars
  <2>16. CASE EndIssue(t)
    BY <2>16, MoveKeepsDrainer DEF EndIssue, epVars, Labels, DrainLabels
  <2>17. CASE Return(t)
    BY <2>17, MoveKeepsDrainer DEF Return, epVars, Labels, DrainLabels
  <2> QED
    BY <1>2, <2>1, <2>2, <2>3, <2>4, <2>5, <2>6, <2>7, <2>8, <2>9, <2>10, <2>11, <2>12, <2>13,
       <2>14, <2>15, <2>16, <2>17 DEF HTCTrySend
<1>3. CASE Completion
  <2>1. CASE SwallowCompletion
    BY <2>1, <1>u DEF SwallowCompletion, epVars
  <2>2. CASE SendDone
    BY <2>2, <1>c, MoveKeepsDrainer DEF SendDone, epVars, Labels, DrainLabels
  <2>3. CASE HTCLookupTxPacket
    BY <2>3, <1>c, MoveKeepsDrainer DEF HTCLookupTxPacket, Labels, DrainLabels
  <2>4. CASE HTCTxCompletionHandler
    BY <2>4, <1>c, MoveKeepsDrainer DEF HTCTxCompletionHandler, epVars, Labels, DrainLabels
  <2>5. CASE Recycle
    BY <2>5, <1>c, MoveKeepsDrainer DEF Recycle, epVars, Labels, DrainLabels
  <2>6. CASE HTCProcessCreditRpt
    BY <2>6, <1>c, MoveKeepsDrainer DEF HTCProcessCreditRpt, Labels, DrainLabels
  <2> QED
    BY <1>3, <2>1, <2>2, <2>3, <2>4, <2>5, <2>6 DEF Completion
<1>4. CASE HTCFlushEndpoint
  BY <1>4, <1>u DEF HTCFlushEndpoint
<1>5. CASE TargetConsume \/ TargetReport \/ (\E p \in Packets : HttResponse(p))
  BY <1>5, <1>u DEF TargetConsume, TargetReport, HttResponse, epVars
<1>6. CASE PmCoreSuspend \/ RuntimeSuspend \/ RuntimeResume
  BY <1>6, <1>u DEF PmCoreSuspend, RuntimeSuspend, RuntimeResume, SetPm, epVars
<1>7. CASE HTCTxResumeAllHandler
  BY <1>7, <1>c, MoveKeepsDrainer DEF HTCTxResumeAllHandler, epVars, Labels, DrainLabels
<1>8. CASE UNCHANGED vars
  BY <1>8, <1>u DEF vars, epVars
<1> QED
  BY <1>1, <1>2, <1>3, <1>4, <1>5, <1>6, <1>7, <1>8 DEF Next

\* "beyond this point only 1 thread may enter": whatever the number of threads in HTC, one of
\* them at most is in the drain section of HTCTrySend, and TxProcessCount is 1 exactly then.
THEOREM SingleDrainerAlways == Spec => []SingleDrainer
<1>1. Init => DrainInv
  BY DEF Init, DrainInv, SingleDrainer, Labels, DrainLabels
<1>2. DrainInv => SingleDrainer
  BY DEF DrainInv
<1> QED
  BY <1>1, <1>2, DrainStep, PTL DEF Spec
----------------------------------------------------------------------------
(* Type correctness, one lemma per action                                  *)

\* a thread that handles a packet outside the queues has one in its local variable
PacketInHand ==
    \A t \in Threads :
        /\ pc[t] \in {"testDepth", "addDepth", "sendFull"} => callersQueue[t] \in Packets
        /\ pc[t] = "hifSend" => issuing[t] \in Packets

TypeInv == TypeOK /\ PacketInHand

\* A nonempty set of naturals has a least element.
LEMMA LeastNatural ==
    ASSUME NEW S \in SUBSET Nat, S # {}
    PROVE  \E j \in S : \A k \in S : j <= k
<1> DEFINE R == OpToRel(<, Nat)
<1>1. \E x \in S : \A y \in S : <<y, x>> \notin R
  BY NatLessThanWellFounded, WFMin
<1>2. \A x, y \in Nat : <<y, x>> \notin R => x <= y
  BY DEF OpToRel
<1> QED
  BY <1>1, <1>2

\* A step that leaves the variables of a part alone leaves its type alone.
LEMMA UnchangedTypes ==
    ASSUME TypeInv
    PROVE  /\ UNCHANGED epVars => EpTypeOK'
           /\ UNCHANGED pktVars => PktTypeOK'
           /\ UNCHANGED <<lock, pc, thVars>> => ThreadTypeOK' /\ PacketInHand'
           /\ UNCHANGED <<netbuf, hifVars>> => PipeTypeOK'
           /\ UNCHANGED tgtVars => TargetTypeOK'
           /\ UNCHANGED pmVars => PmTypeOK'
           /\ UNCHANGED cliVars => ClientTypeOK'
<1> USE DEF TypeInv, TypeOK
<1>1. UNCHANGED epVars => EpTypeOK'
  BY DEF EpTypeOK, epVars
<1>2. UNCHANGED pktVars => PktTypeOK'
  BY DEF PktTypeOK, pktVars
<1>3. UNCHANGED <<lock, pc, thVars>> => ThreadTypeOK' /\ PacketInHand'
  BY DEF ThreadTypeOK, PacketInHand, thVars
<1>4. UNCHANGED <<netbuf, hifVars>> => PipeTypeOK'
  BY DEF PipeTypeOK, hifVars
<1>5. UNCHANGED tgtVars => TargetTypeOK'
  BY DEF TargetTypeOK, tgtVars
<1>6. UNCHANGED pmVars => PmTypeOK'
  BY DEF PmTypeOK, pmVars
<1>7. UNCHANGED cliVars => ClientTypeOK'
  BY DEF ClientTypeOK, cliVars
<1> QED
  BY <1>1, <1>2, <1>3, <1>4, <1>5, <1>6, <1>7

\* HTCSendPkt keeps the types.
LEMMA HTCSendPktType ==
    ASSUME TypeInv, NEW t \in Senders, NEW p \in Packets, HTCSendPkt(t, p) PROVE TypeInv'
<1> USE DEF TypeInv, TypeOK
<1>t. t \in Threads
  BY DEF Threads
<1>1. ThreadTypeOK' /\ PacketInHand'
  <2>1. <<p>> \in Seq(Packets) /\ p \in PacketOrNone
    BY DEF PacketOrNone
  <2>2. /\ sendQueue' \in [Threads -> Seq(Packets)]
        /\ callersQueue' \in [Threads -> PacketOrNone]
    <3>1. CASE SendFullActions = {}
      BY <1>t, <2>1, <3>1 DEF HTCSendPkt, ThreadTypeOK
    <3>2. CASE SendFullActions # {}
      BY <1>t, <2>1, <3>2 DEF HTCSendPkt, ThreadTypeOK
    <3> QED
      BY <3>1, <3>2
  <2>3. pc' \in [Threads -> Labels]
    <3>1. pc' \in {[pc EXCEPT ![t] = "readResources"], [pc EXCEPT ![t] = "testDepth"]}
      BY DEF HTCSendPkt, Goto
    <3>2. {"readResources", "testDepth"} \subseteq Labels
      BY DEF Labels
    <3> QED
      BY <3>1, <3>2 DEF ThreadTypeOK
  <2>4. ThreadTypeOK'
    BY <2>2, <2>3 DEF HTCSendPkt, ThreadTypeOK
  <2>5. PacketInHand'
    BY <1>t DEF HTCSendPkt, ThreadTypeOK, PacketInHand, Goto
  <2> QED
    BY <2>4, <2>5
<1>2. EpTypeOK'
  <2>1. SeqNo' \in 0..255
    BY SMT DEF HTCSendPkt, EpTypeOK
  <2> QED
    BY <2>1 DEF HTCSendPkt, EpTypeOK
<1>3. PktTypeOK'
  BY DEF HTCSendPkt, EpTypeOK, PktTypeOK
<1>4. ClientTypeOK'
  BY DEF HTCSendPkt, ClientTypeOK, MapNetbuf
<1>5. PipeTypeOK' /\ TargetTypeOK'
  BY UnchangedTypes DEF HTCSendPkt
<1>6. PmTypeOK'
  BY DEF HTCSendPkt, PmTypeOK
<1> QED
  BY <1>1, <1>2, <1>3, <1>4, <1>5, <1>6

\* TestDepth keeps the types.
LEMMA TestDepthType ==
    ASSUME TypeInv, NEW t \in Threads, TestDepth(t) PROVE TypeInv'
<1> USE DEF TypeInv, TypeOK
<1>1. ThreadTypeOK' /\ PacketInHand'
  <2>1. overflow' \in [Threads -> Int]
    BY DEF TestDepth, ThreadTypeOK
  <2>2. pc' \in [Threads -> Labels]
    <3>1. PICK label \in Labels : Goto(t, label)
      BY DEF TestDepth, Labels
    <3> QED
      BY <3>1 DEF ThreadTypeOK, Goto
  <2>3. ThreadTypeOK'
    BY <2>1, <2>2 DEF TestDepth, ThreadTypeOK
  <2>4. PacketInHand'
    BY DEF TestDepth, ThreadTypeOK, PacketInHand, Goto
  <2> QED
    BY <2>3, <2>4
<1>2. EpTypeOK' /\ PktTypeOK' /\ PipeTypeOK' /\ TargetTypeOK' /\ PmTypeOK' /\ ClientTypeOK'
  BY UnchangedTypes DEF TestDepth
<1> QED
  BY <1>1, <1>2

\* AddDepth keeps the types.
LEMMA AddDepthType ==
    ASSUME TypeInv, NEW t \in Threads, AddDepth(t) PROVE TypeInv'
<1> USE DEF TypeInv, TypeOK
<1>1. ThreadTypeOK' /\ PacketInHand'
  <2>a. callersQueue[t] \in Packets
    BY DEF AddDepth, PacketInHand
  <2>b. Len(TxQueue) + 1 - MaxTxQueueDepth \in Int
    BY ParameterAssumption DEF EpTypeOK
  <2>c. overflow' \in [Threads -> Int]
    BY <2>b DEF AddDepth, ThreadTypeOK
  <2>1. CASE overflow'[t] > 0
    <3>1. ThreadTypeOK'
      BY <2>1, <2>c DEF AddDepth, ThreadTypeOK, Goto, Labels
    <3>2. PacketInHand'
      BY <2>1 DEF AddDepth, ThreadTypeOK, PacketInHand, Goto
    <3> QED
      BY <3>1, <3>2
  <2>2. CASE ~(overflow'[t] > 0)
    <3>a. <<callersQueue[t]>> \in Seq(Packets)
      BY <2>a
    <3>1. sendQueue' \in [Threads -> Seq(Packets)]
      BY <2>2, <3>a DEF AddDepth, ThreadTypeOK
    <3>2. ThreadTypeOK'
      BY <2>2, <2>c, <3>1 DEF AddDepth, ThreadTypeOK, Goto, Labels, PacketOrNone
    <3>b. Goto(t, "readResources") /\ UNCHANGED issuing /\ \A u \in Threads : u # t => callersQueue'[u] = callersQueue[u]
      BY <2>2 DEF AddDepth, ThreadTypeOK
    <3>3. PacketInHand'
      BY <3>b DEF ThreadTypeOK, PacketInHand, Goto
    <3> QED
      BY <3>2, <3>3
  <2> QED
    BY <2>1, <2>2
<1>2. EpTypeOK' /\ PktTypeOK' /\ PipeTypeOK' /\ TargetTypeOK' /\ PmTypeOK' /\ ClientTypeOK'
  BY UnchangedTypes DEF AddDepth
<1> QED
  BY <1>1, <1>2

\* SendFull keeps the types.
LEMMA SendFullType ==
    ASSUME TypeInv, NEW t \in Threads, SendFull(t) PROVE TypeInv'
<1> USE DEF TypeInv, TypeOK
<1>1. ThreadTypeOK' /\ PacketInHand'
  <2>a. callersQueue[t] \in Packets
    BY DEF SendFull, PacketInHand
  <2>b. <<callersQueue[t]>> \in Seq(Packets)
    BY <2>a
  <2>c. overflow' \in [Threads -> Int]
    BY DEF SendFull, ThreadTypeOK
  <2>1. CASE /\ sendQueue' = [sendQueue EXCEPT ![t] = <<callersQueue[t]>>]
             /\ callersQueue' = [callersQueue EXCEPT ![t] = NoPacket]
             /\ Goto(t, "readResources")
    <3>1. sendQueue' \in [Threads -> Seq(Packets)]
      BY <2>1, <2>b DEF ThreadTypeOK
    <3>2. callersQueue' \in [Threads -> PacketOrNone]
      BY <2>1 DEF ThreadTypeOK, PacketOrNone
    <3>3. ThreadTypeOK'
      BY <2>1, <2>c, <3>1, <3>2 DEF SendFull, ThreadTypeOK, Labels, Goto
    <3>4. PacketInHand'
      BY <2>1 DEF SendFull, ThreadTypeOK, PacketInHand, Goto
    <3> QED
      BY <3>3, <3>4
  <2>2. CASE Goto(t, "return") /\ UNCHANGED <<sendQueue, callersQueue>>
    <3>1. ThreadTypeOK'
      BY <2>2, <2>c DEF SendFull, ThreadTypeOK, Labels, Goto
    <3>2. PacketInHand'
      BY <2>2 DEF SendFull, ThreadTypeOK, PacketInHand, Goto
    <3> QED
      BY <3>1, <3>2
  <2> QED
    BY <2>1, <2>2 DEF SendFull
<1>2. ClientTypeOK'
  BY DEF SendFull, ClientTypeOK, RestoreTxPacket
<1>3. EpTypeOK' /\ PktTypeOK' /\ PipeTypeOK' /\ TargetTypeOK' /\ PmTypeOK'
  BY UnchangedTypes DEF SendFull
<1> QED
  BY <1>1, <1>2, <1>3

\* ReadResources keeps the types.
LEMMA ReadResourcesType ==
    ASSUME TypeInv, NEW t \in Threads, ReadResources(t) PROVE TypeInv'
<1> USE DEF TypeInv, TypeOK
<1>1. ThreadTypeOK' /\ PacketInHand'
  BY DEF ReadResources, ThreadTypeOK, PacketInHand, Goto, Labels, PacketOrNone, PipeTypeOK
<1>2. EpTypeOK' /\ PktTypeOK' /\ PipeTypeOK' /\ TargetTypeOK' /\ PmTypeOK' /\ ClientTypeOK'
  BY UnchangedTypes DEF ReadResources
<1> QED
  BY <1>1, <1>2

\* Enter keeps the types.
LEMMA EnterType ==
    ASSUME TypeInv, NEW t \in Threads, Enter(t) PROVE TypeInv'
<1> USE DEF TypeInv, TypeOK
<1>1. ThreadTypeOK' /\ PacketInHand'
  <2>a. sendQueue' \in [Threads -> Seq(Packets)]
    BY DEF Enter, ThreadTypeOK
  <2>1. CASE Busy
    <3>1. ThreadTypeOK'
      BY <2>a, <2>1 DEF Enter, ThreadTypeOK, PacketInHand, Goto, Labels, PacketOrNone
    <3>2. PacketInHand'
      BY <2>a, <2>1 DEF Enter, ThreadTypeOK, PacketInHand, Goto
    <3> QED
      BY <3>1, <3>2
  <2>2. CASE ~Busy
    <3>1. ThreadTypeOK'
      BY <2>a, <2>2 DEF Enter, ThreadTypeOK, PacketInHand, Goto, Labels, PacketOrNone
    <3>2. PacketInHand'
      BY <2>a, <2>2 DEF Enter, ThreadTypeOK, PacketInHand, Goto
    <3> QED
      BY <3>1, <3>2
  <2> QED
    BY <2>1, <2>2
<1>2. EpTypeOK'
  BY DEF Enter, EpTypeOK, ThreadTypeOK, Queued
<1>3. PktTypeOK' /\ PipeTypeOK' /\ TargetTypeOK' /\ PmTypeOK' /\ ClientTypeOK'
  BY UnchangedTypes DEF Enter
<1> QED
  BY <1>1, <1>2, <1>3

\* Relock keeps the types.
LEMMA RelockType ==
    ASSUME TypeInv, NEW t \in Threads, Relock(t) PROVE TypeInv'
<1> USE DEF TypeInv, TypeOK
<1>1. ThreadTypeOK' /\ PacketInHand'
  BY DEF Relock, ThreadTypeOK, PacketInHand, Goto, Labels, PacketOrNone, thVars
<1>2. EpTypeOK' /\ PktTypeOK' /\ PipeTypeOK' /\ TargetTypeOK' /\ PmTypeOK' /\ ClientTypeOK'
  BY UnchangedTypes DEF Relock
<1> QED
  BY <1>1, <1>2

\* BeginPass keeps the types.
LEMMA BeginPassType ==
    ASSUME TypeInv, NEW t \in Threads, BeginPass(t) PROVE TypeInv'
<1> USE DEF TypeInv, TypeOK
<1>1. ThreadTypeOK' /\ PacketInHand'
  BY DEF BeginPass, ThreadTypeOK, PacketInHand, Goto, Labels, PacketOrNone
<1>2. EpTypeOK' /\ PktTypeOK' /\ PipeTypeOK' /\ TargetTypeOK' /\ PmTypeOK' /\ ClientTypeOK'
  BY UnchangedTypes DEF BeginPass
<1> QED
  BY <1>1, <1>2

\* GetHTCAutoPmSendPackets keeps the types.
LEMMA GetHTCAutoPmSendPacketsType ==
    ASSUME TypeInv, NEW t \in Threads, GetHTCAutoPmSendPackets(t) PROVE TypeInv'
<1> USE DEF TypeInv, TypeOK
<1>i. PICK i \in DOMAIN TxQueue :
          /\ TxQueue' = RemoveAt(TxQueue, i)
          /\ tempQueue' = [tempQueue EXCEPT ![t] = Append(@, TxQueue[i])]
          /\ pc' \in {[pc EXCEPT ![t] = "pull"], [pc EXCEPT ![t] = "get"]}
  <2> DEFINE i == CHOOSE j \in AutoPmAt : \A k \in AutoPmAt : j <= k
  <2>1. AutoPmAt \subseteq Nat /\ AutoPmAt # {}
    BY DEF GetHTCAutoPmSendPackets, AutoPmAt, EpTypeOK
  <2>2. \E j \in AutoPmAt : \A k \in AutoPmAt : j <= k
    BY <2>1, LeastNatural
  <2>3. i \in AutoPmAt
    BY <2>2
  <2>4. i \in DOMAIN TxQueue
    BY <2>3 DEF AutoPmAt
  <2> QED
    BY <2>4 DEF GetHTCAutoPmSendPackets, Goto
<1>1. ThreadTypeOK' /\ PacketInHand'
  <2>1. TxQueue[i] \in Packets
    BY <1>i DEF EpTypeOK
  <2>2. tempQueue' \in [Threads -> Seq(Packets)]
    BY <1>i, <2>1 DEF ThreadTypeOK
  <2>3. ThreadTypeOK'
    BY <1>i, <2>2 DEF GetHTCAutoPmSendPackets, ThreadTypeOK, Labels
  <2>4. PacketInHand'
    BY <1>i DEF GetHTCAutoPmSendPackets, ThreadTypeOK, PacketInHand
  <2> QED
    BY <2>3, <2>4
<1>2. EpTypeOK'
  <2>1. TxQueue' \in Seq(Packets)
    BY <1>i, RemoveAtType DEF EpTypeOK
  <2> QED
    BY <2>1 DEF GetHTCAutoPmSendPackets, EpTypeOK
<1>3. PktTypeOK' /\ PipeTypeOK' /\ TargetTypeOK' /\ PmTypeOK' /\ ClientTypeOK'
  BY UnchangedTypes DEF GetHTCAutoPmSendPackets
<1> QED
  BY <1>1, <1>2, <1>3

\* TakePacket keeps the types.
LEMMA TakePacketType ==
    ASSUME TypeInv, NEW t \in Threads, TakePacket(t) PROVE TypeInv'
<1> USE DEF TypeInv, TypeOK
<1> DEFINE p == Head(PassQueue(t))
<1>a. /\ TxQueue \in Seq(Packets) /\ TxCredits \in Nat
      /\ tempQueue \in [Threads -> Seq(Packets)] /\ sendQueue \in [Threads -> Seq(Packets)]
      /\ tx_resources \in [Threads -> Nat]
  BY DEF EpTypeOK, ThreadTypeOK
<1>b. PassQueue(t) \in Seq(Packets) /\ PassQueue(t) # <<>>
  BY <1>a DEF TakePacket, CanTake, PassQueue
<1>c. p \in Packets /\ CreditsRequired(p) \in Nat
  BY <1>b, CreditsRequiredType
<1>d. /\ Charge(t, p)
      /\ sendQueue' = [sendQueue EXCEPT ![t] = Append(@, p)]
      /\ IF CreditFlow THEN TxCredits >= CreditsRequired(p) ELSE tx_resources[t] > 0
  BY DEF TakePacket, CanTake
<1>e. TxCredits' \in Nat /\ tx_resources' \in [Threads -> Nat]
  <2>1. CASE CreditFlow
    BY <2>1, <1>a, <1>c, <1>d DEF Charge
  <2>2. CASE ~CreditFlow
    <3>1. /\ tx_resources' = [tx_resources EXCEPT ![t] = @ - 1] /\ TxCredits' = TxCredits
          /\ tx_resources[t] > 0
      BY <2>2, <1>d DEF Charge
    <3>2. tx_resources[t] - 1 \in Nat
      BY <3>1, <1>a
    <3> QED
      BY <3>1, <3>2, <1>a
  <2> QED
    BY <2>1, <2>2
<1>f. sendQueue' \in [Threads -> Seq(Packets)]
  BY <1>a, <1>c, <1>d
<1>g. TxQueue' \in Seq(Packets) /\ tempQueue' \in [Threads -> Seq(Packets)]
  <2>1. CASE autoPMQueue[t]
    <3>1. tempQueue' = [tempQueue EXCEPT ![t] = Tail(@)] /\ TxQueue' = TxQueue
      BY <2>1 DEF TakePacket
    <3>2. Tail(tempQueue[t]) \in Seq(Packets)
      BY <2>1, <1>a, <1>b DEF PassQueue
    <3> QED
      BY <3>1, <3>2, <1>a
  <2>2. CASE ~autoPMQueue[t]
    <3>1. TxQueue' = Tail(TxQueue) /\ tempQueue' = tempQueue
      BY <2>2 DEF TakePacket
    <3>2. Tail(TxQueue) \in Seq(Packets)
      BY <2>2, <1>a, <1>b DEF PassQueue
    <3> QED
      BY <3>1, <3>2, <1>a
  <2> QED
    BY <2>1, <2>2
<1>1. ThreadTypeOK' /\ PacketInHand'
  BY <1>e, <1>f, <1>g DEF TakePacket, ThreadTypeOK, PacketInHand
<1>2. EpTypeOK'
  BY <1>e, <1>g DEF TakePacket, EpTypeOK
<1>3. PktTypeOK'
  <2>1. creditsUsed' \in [Packets -> Nat] /\ needCredit' \in [Packets -> BOOLEAN]
    <3>a. NeedCreditUpdate(TxCredits') \in BOOLEAN
      BY DEF NeedCreditUpdate
    <3>1. CASE CreditFlow
      <4>1. /\ creditsUsed' = [creditsUsed EXCEPT ![p] = CreditsRequired(p)]
            /\ needCredit' = [needCredit EXCEPT ![p] = NeedCreditUpdate(TxCredits')]
        BY <3>1, <1>d DEF Charge
      <4> QED
        BY <4>1, <3>a, <1>c DEF PktTypeOK
    <3>2. CASE ~CreditFlow
      <4>1. /\ creditsUsed' = [creditsUsed EXCEPT ![p] = 0]
            /\ needCredit' = [needCredit EXCEPT ![p] = FALSE]
        BY <3>2, <1>d DEF Charge
      <4> QED
        BY <4>1, <1>c DEF PktTypeOK
    <3> QED
      BY <3>1, <3>2
  <2> QED
    BY <2>1 DEF TakePacket, PktTypeOK
<1>4. PmTypeOK'
  <2>1. pmUsage' \in Nat
    BY DEF TakePacket, PmTypeOK
  <2>2. pmRequest' \in BOOLEAN
    BY DEF TakePacket, PmTypeOK
  <2> QED
    BY <2>1, <2>2 DEF TakePacket, PmTypeOK
<1>5. PipeTypeOK' /\ TargetTypeOK' /\ ClientTypeOK'
  BY UnchangedTypes DEF TakePacket
<1> QED
  BY <1>1, <1>2, <1>3, <1>4, <1>5

\* EndPass keeps the types.
LEMMA EndPassType ==
    ASSUME TypeInv, NEW t \in Threads, EndPass(t) PROVE TypeInv'
<1> USE DEF TypeInv, TypeOK
<1>1. ThreadTypeOK' /\ PacketInHand'
  <2>a. tempQueue' \in [Threads -> Seq(Packets)] /\ autoPMQueue' \in [Threads -> BOOLEAN]
    BY DEF EndPass, ThreadTypeOK
  <2>1. CASE sendQueue[t] = <<>>
    <3>1. ThreadTypeOK'
      BY <2>a, <2>1 DEF EndPass, ThreadTypeOK, PacketInHand, Goto, Labels, PacketOrNone
    <3>2. PacketInHand'
      BY <2>a, <2>1 DEF EndPass, ThreadTypeOK, PacketInHand, Goto
    <3> QED
      BY <3>1, <3>2
  <2>2. CASE sendQueue[t] # <<>>
    <3>1. ThreadTypeOK'
      BY <2>a, <2>2 DEF EndPass, ThreadTypeOK, PacketInHand, Goto, Labels, PacketOrNone
    <3>2. PacketInHand'
      BY <2>a, <2>2 DEF EndPass, ThreadTypeOK, PacketInHand, Goto
    <3> QED
      BY <3>1, <3>2
  <2> QED
    BY <2>1, <2>2
<1>2. EpTypeOK'
  BY DEF EndPass, EpTypeOK, ThreadTypeOK
<1>3. PmTypeOK'
  BY DEF EndPass, PmTypeOK
<1>4. PktTypeOK' /\ PipeTypeOK' /\ TargetTypeOK' /\ ClientTypeOK'
  BY UnchangedTypes DEF EndPass
<1> QED
  BY <1>1, <1>2, <1>3, <1>4

\* EndDrain keeps the types.
LEMMA EndDrainType ==
    ASSUME TypeInv, NEW t \in Threads, EndDrain(t) PROVE TypeInv'
<1> USE DEF TypeInv, TypeOK
<1>1. ThreadTypeOK' /\ PacketInHand'
  BY DEF EndDrain, ThreadTypeOK, PacketInHand, Goto, Labels, PacketOrNone, thVars
<1>2. EpTypeOK'
  BY DEF EndDrain, EpTypeOK
<1>3. PktTypeOK' /\ PipeTypeOK' /\ TargetTypeOK' /\ PmTypeOK' /\ ClientTypeOK'
  BY UnchangedTypes DEF EndDrain
<1> QED
  BY <1>1, <1>2, <1>3

\* StartIssue keeps the types.
LEMMA StartIssueType ==
    ASSUME TypeInv, NEW t \in Threads, StartIssue(t) PROVE TypeInv'
<1> USE DEF TypeInv, TypeOK
<1>1. ThreadTypeOK' /\ PacketInHand'
  BY DEF StartIssue, ThreadTypeOK, PacketInHand, Goto, Labels, PacketOrNone
<1>2. EpTypeOK'
  BY DEF StartIssue, EpTypeOK, ThreadTypeOK
<1>3. ClientTypeOK'
  <2>1. Head(sendQueue[t]) \in Packets
    BY DEF StartIssue, ThreadTypeOK
  <2>2. maps' \in [Packets -> Int]
    BY <2>1 DEF StartIssue, ClientTypeOK, MapNetbuf
  <2> QED
    BY <2>2 DEF StartIssue, ClientTypeOK
<1>4. PktTypeOK' /\ PipeTypeOK' /\ TargetTypeOK' /\ PmTypeOK'
  BY UnchangedTypes DEF StartIssue
<1> QED
  BY <1>1, <1>2, <1>3, <1>4

\* HIFSend keeps the types.
LEMMA HIFSendType ==
    ASSUME TypeInv, NEW t \in Threads, HIFSend(t) PROVE TypeInv'
<1> USE DEF TypeInv, TypeOK
<1>1. ThreadTypeOK' /\ PacketInHand'
  BY DEF HIFSend, ThreadTypeOK, PacketInHand, Goto, Labels, PacketOrNone
<1>2. PipeTypeOK'
  BY DEF HIFSend, PipeTypeOK, TakeEntry, PacketInHand
<1>3. PmTypeOK'
  BY DEF HIFSend, PmTypeOK, PmPut
<1>4. EpTypeOK' /\ PktTypeOK' /\ TargetTypeOK' /\ ClientTypeOK'
  BY UnchangedTypes DEF HIFSend
<1> QED
  BY <1>1, <1>2, <1>3, <1>4

\* HIFSendFailed keeps the types.
LEMMA HIFSendFailedType ==
    ASSUME TypeInv, NEW t \in Threads, HIFSendFailed(t) PROVE TypeInv'
<1> USE DEF TypeInv, TypeOK
<1>1. ThreadTypeOK' /\ PacketInHand'
  BY DEF HIFSendFailed, ThreadTypeOK, PacketInHand, Goto, Labels, PacketOrNone
<1>2. EpTypeOK'
  BY WithoutType DEF HIFSendFailed, EpTypeOK, PktTypeOK, PacketInHand
<1>3. PktTypeOK' /\ PipeTypeOK' /\ TargetTypeOK' /\ PmTypeOK' /\ ClientTypeOK'
  BY UnchangedTypes DEF HIFSendFailed
<1> QED
  BY <1>1, <1>2, <1>3

\* FailPacket keeps the types.
LEMMA FailPacketType ==
    ASSUME TypeInv, NEW t \in Threads, FailPacket(t) PROVE TypeInv'
<1> USE DEF TypeInv, TypeOK
<1>1. ThreadTypeOK' /\ PacketInHand'
  BY DEF FailPacket, ThreadTypeOK, PacketInHand, Goto, Labels, PacketOrNone
<1>2. PmTypeOK'
  BY DEF FailPacket, PmTypeOK, PmPut
<1>3. ClientTypeOK'
  BY CompletionType DEF FailPacket, Results
<1>4. EpTypeOK' /\ PktTypeOK' /\ PipeTypeOK' /\ TargetTypeOK'
  BY UnchangedTypes DEF FailPacket
<1> QED
  BY <1>1, <1>2, <1>3, <1>4

\* EndIssue keeps the types.
LEMMA EndIssueType ==
    ASSUME TypeInv, NEW t \in Threads, EndIssue(t) PROVE TypeInv'
<1> USE DEF TypeInv, TypeOK
<1>1. ThreadTypeOK' /\ PacketInHand'
  BY DEF EndIssue, ThreadTypeOK, PacketInHand, Goto, Labels, PacketOrNone, thVars
<1>2. EpTypeOK' /\ PktTypeOK' /\ PipeTypeOK' /\ TargetTypeOK' /\ PmTypeOK' /\ ClientTypeOK'
  BY UnchangedTypes DEF EndIssue
<1> QED
  BY <1>1, <1>2

\* Return keeps the types.
LEMMA ReturnType ==
    ASSUME TypeInv, NEW t \in Threads, Return(t) PROVE TypeInv'
<1> USE DEF TypeInv, TypeOK
<1>1. ThreadTypeOK' /\ PacketInHand'
  BY DEF Return, ThreadTypeOK, PacketInHand, Goto, Labels, PacketOrNone
<1>2. ClientTypeOK'
  BY CompletionType DEF Return, Results
<1>3. EpTypeOK' /\ PktTypeOK' /\ PipeTypeOK' /\ TargetTypeOK' /\ PmTypeOK'
  BY UnchangedTypes DEF Return
<1> QED
  BY <1>1, <1>2, <1>3

\* SwallowCompletion keeps the types.
LEMMA SwallowCompletionType ==
    ASSUME TypeInv, SwallowCompletion PROVE TypeInv'
<1> USE DEF TypeInv, TypeOK
<1>1. PipeTypeOK'
  BY DEF SwallowCompletion, PipeTypeOK
<1>2. ThreadTypeOK' /\ EpTypeOK' /\ PktTypeOK' /\ TargetTypeOK' /\ PmTypeOK' /\ ClientTypeOK' /\ PacketInHand'
  BY UnchangedTypes DEF SwallowCompletion
<1> QED
  BY <1>1, <1>2

\* SendDone keeps the types.
LEMMA SendDoneType ==
    ASSUME TypeInv, SendDone PROVE TypeInv'
<1> USE DEF TypeInv, TypeOK
<1>t. Completer \in Threads
  BY DEF Threads
<1>1. ThreadTypeOK' /\ PacketInHand'
  BY <1>t DEF SendDone, ThreadTypeOK, PacketInHand, Goto, Labels, PacketOrNone, thVars
<1>2. PipeTypeOK'
  BY DEF SendDone, PipeTypeOK, PacketOrNone
<1>3. EpTypeOK' /\ PktTypeOK' /\ TargetTypeOK' /\ PmTypeOK' /\ ClientTypeOK'
  BY UnchangedTypes DEF SendDone
<1> QED
  BY <1>1, <1>2, <1>3

\* HTCLookupTxPacket keeps the types.
LEMMA HTCLookupTxPacketType ==
    ASSUME TypeInv, HTCLookupTxPacket PROVE TypeInv'
<1> USE DEF TypeInv, TypeOK
<1>t. Completer \in Threads
  BY DEF Threads
<1>1. ThreadTypeOK' /\ PacketInHand'
  BY <1>t DEF HTCLookupTxPacket, ThreadTypeOK, PacketInHand, Goto, Labels, PacketOrNone, thVars
<1>2. EpTypeOK'
  BY WithoutType DEF HTCLookupTxPacket, EpTypeOK
<1>3. PktTypeOK' /\ PipeTypeOK' /\ TargetTypeOK' /\ PmTypeOK' /\ ClientTypeOK'
  BY UnchangedTypes DEF HTCLookupTxPacket
<1> QED
  BY <1>1, <1>2, <1>3

\* HTCTxCompletionHandler keeps the types.
LEMMA HTCTxCompletionHandlerType ==
    ASSUME TypeInv, HTCTxCompletionHandler PROVE TypeInv'
<1> USE DEF TypeInv, TypeOK
<1>t. Completer \in Threads
  BY DEF Threads
<1>1. ThreadTypeOK' /\ PacketInHand'
  BY <1>t DEF HTCTxCompletionHandler, ThreadTypeOK, PacketInHand, Goto, Labels, PacketOrNone, thVars
<1>2. PmTypeOK'
  BY DEF HTCTxCompletionHandler, PmTypeOK, PmPut
<1>3. ClientTypeOK'
  BY CompletionType DEF HTCTxCompletionHandler, Results
<1>4. EpTypeOK' /\ PktTypeOK' /\ PipeTypeOK' /\ TargetTypeOK'
  BY UnchangedTypes DEF HTCTxCompletionHandler
<1> QED
  BY <1>1, <1>2, <1>3, <1>4

\* Recycle keeps the types.
LEMMA RecycleType ==
    ASSUME TypeInv, Recycle PROVE TypeInv'
<1> USE DEF TypeInv, TypeOK
<1>t. Completer \in Threads
  BY DEF Threads
<1>1. ThreadTypeOK' /\ PacketInHand'
  BY <1>t DEF Recycle, ThreadTypeOK, PacketInHand, Goto, Labels, PacketOrNone, thVars
<1>2. PipeTypeOK'
  BY DEF Recycle, PipeTypeOK, PacketOrNone
<1>3. EpTypeOK' /\ PktTypeOK' /\ TargetTypeOK' /\ PmTypeOK' /\ ClientTypeOK'
  BY UnchangedTypes DEF Recycle
<1> QED
  BY <1>1, <1>2, <1>3

\* HTCProcessCreditRpt keeps the types.
LEMMA HTCProcessCreditRptType ==
    ASSUME TypeInv, HTCProcessCreditRpt PROVE TypeInv'
<1> USE DEF TypeInv, TypeOK
<1>t. Completer \in Threads
  BY DEF Threads
<1>1. ThreadTypeOK' /\ PacketInHand'
  BY <1>t DEF HTCProcessCreditRpt, ThreadTypeOK, PacketInHand, Goto, Labels, PacketOrNone, thVars
<1>2. EpTypeOK'
  BY DEF HTCProcessCreditRpt, EpTypeOK, TargetTypeOK
<1>3. TargetTypeOK'
  BY DEF HTCProcessCreditRpt, TargetTypeOK
<1>4. PktTypeOK' /\ PipeTypeOK' /\ PmTypeOK' /\ ClientTypeOK'
  BY UnchangedTypes DEF HTCProcessCreditRpt
<1> QED
  BY <1>1, <1>2, <1>3, <1>4

\* HTCFlushEndpoint keeps the types.
LEMMA HTCFlushEndpointType ==
    ASSUME TypeInv, HTCFlushEndpoint PROVE TypeInv'
<1> USE DEF TypeInv, TypeOK
<1>1. EpTypeOK'
  BY DEF HTCFlushEndpoint, EpTypeOK
<1>2. ClientTypeOK'
  BY CompletionType DEF HTCFlushEndpoint, Results
<1>3. ThreadTypeOK' /\ PktTypeOK' /\ PipeTypeOK' /\ TargetTypeOK' /\ PmTypeOK' /\ PacketInHand'
  BY UnchangedTypes DEF HTCFlushEndpoint
<1> QED
  BY <1>1, <1>2, <1>3

\* TargetConsume keeps the types.
LEMMA TargetConsumeType ==
    ASSUME TypeInv, TargetConsume PROVE TypeInv'
<1> USE DEF TypeInv, TypeOK
<1>1. TargetTypeOK'
  BY DEF TargetConsume, TargetTypeOK, PktTypeOK, PipeTypeOK
<1>2. ThreadTypeOK' /\ EpTypeOK' /\ PktTypeOK' /\ PipeTypeOK' /\ PmTypeOK' /\ ClientTypeOK' /\ PacketInHand'
  BY UnchangedTypes DEF TargetConsume
<1> QED
  BY <1>1, <1>2

\* HttResponse keeps the types.
LEMMA HttResponseType ==
    ASSUME TypeInv, NEW p \in Packets, HttResponse(p) PROVE TypeInv'
<1> USE DEF TypeInv, TypeOK
<1>1. TargetTypeOK'
  BY DEF HttResponse, TargetTypeOK
<1>2. PmTypeOK'
  BY DEF HttResponse, PmTypeOK, PmPut
<1>3. ThreadTypeOK' /\ EpTypeOK' /\ PktTypeOK' /\ PipeTypeOK' /\ ClientTypeOK' /\ PacketInHand'
  BY UnchangedTypes DEF HttResponse
<1> QED
  BY <1>1, <1>2, <1>3

\* TargetReport keeps the types.
LEMMA TargetReportType ==
    ASSUME TypeInv, TargetReport PROVE TypeInv'
<1> USE DEF TypeInv, TypeOK
<1>1. TargetTypeOK'
  <2>1. reports' \in Seq(Nat)
    BY DEF TargetReport, TargetTypeOK
  <2> QED
    BY <2>1 DEF TargetReport, TargetTypeOK
<1>2. ThreadTypeOK' /\ EpTypeOK' /\ PktTypeOK' /\ PipeTypeOK' /\ PmTypeOK' /\ ClientTypeOK' /\ PacketInHand'
  BY UnchangedTypes DEF TargetReport
<1> QED
  BY <1>1, <1>2

\* PmCoreSuspend keeps the types.
LEMMA PmCoreSuspendType ==
    ASSUME TypeInv, PmCoreSuspend PROVE TypeInv'
<1> USE DEF TypeInv, TypeOK
<1>1. PmTypeOK'
  BY ParameterAssumption DEF PmCoreSuspend, PmTypeOK, SetPm
<1>2. ThreadTypeOK' /\ EpTypeOK' /\ PktTypeOK' /\ PipeTypeOK' /\ TargetTypeOK' /\ ClientTypeOK' /\ PacketInHand'
  BY UnchangedTypes DEF PmCoreSuspend, SetPm
<1> QED
  BY <1>1, <1>2

\* RuntimeSuspend keeps the types.
LEMMA RuntimeSuspendType ==
    ASSUME TypeInv, RuntimeSuspend PROVE TypeInv'
<1> USE DEF TypeInv, TypeOK
<1>1. PmTypeOK'
  BY DEF RuntimeSuspend, PmTypeOK, SetPm
<1>2. ThreadTypeOK' /\ EpTypeOK' /\ PktTypeOK' /\ PipeTypeOK' /\ TargetTypeOK' /\ ClientTypeOK' /\ PacketInHand'
  BY UnchangedTypes DEF RuntimeSuspend, SetPm
<1> QED
  BY <1>1, <1>2

\* RuntimeResume keeps the types.
LEMMA RuntimeResumeType ==
    ASSUME TypeInv, RuntimeResume PROVE TypeInv'
<1> USE DEF TypeInv, TypeOK
<1>1. PmTypeOK'
  BY DEF RuntimeResume, PmTypeOK, SetPm, SchedulePmWork
<1>2. ThreadTypeOK' /\ EpTypeOK' /\ PktTypeOK' /\ PipeTypeOK' /\ TargetTypeOK' /\ ClientTypeOK' /\ PacketInHand'
  BY UnchangedTypes DEF RuntimeResume, SetPm
<1> QED
  BY <1>1, <1>2

\* HTCTxResumeAllHandler keeps the types.
LEMMA HTCTxResumeAllHandlerType ==
    ASSUME TypeInv, HTCTxResumeAllHandler PROVE TypeInv'
<1> USE DEF TypeInv, TypeOK
<1>t. Resumer \in Threads
  BY DEF Threads
<1>1. ThreadTypeOK' /\ PacketInHand'
  BY <1>t DEF HTCTxResumeAllHandler, ThreadTypeOK, PacketInHand, Goto, Labels, PacketOrNone, thVars
<1>2. PmTypeOK'
  BY DEF HTCTxResumeAllHandler, PmTypeOK
<1>3. EpTypeOK' /\ PktTypeOK' /\ PipeTypeOK' /\ TargetTypeOK' /\ ClientTypeOK'
  BY UnchangedTypes DEF HTCTxResumeAllHandler
<1> QED
  BY <1>1, <1>2, <1>3

\* Every step keeps the types.
LEMMA TypeStep == TypeInv /\ [Next]_vars => TypeInv'
<1> SUFFICES ASSUME TypeInv, [Next]_vars PROVE TypeInv'
  OBVIOUS
<1>1. ASSUME NEW t \in Senders, NEW p \in Packets, HTCSendPkt(t, p) PROVE TypeInv'
  BY <1>1, HTCSendPktType
<1>2. ASSUME NEW t \in Threads, HTCTrySend(t) PROVE TypeInv'
  BY <1>2, TestDepthType, AddDepthType, SendFullType, ReadResourcesType, EnterType, RelockType,
     BeginPassType, GetHTCAutoPmSendPacketsType, TakePacketType, EndPassType, EndDrainType,
     StartIssueType, HIFSendType, HIFSendFailedType, FailPacketType, EndIssueType, ReturnType
     DEF HTCTrySend
<1>3. CASE Completion
  BY <1>3, SwallowCompletionType, SendDoneType, HTCLookupTxPacketType,
     HTCTxCompletionHandlerType, RecycleType, HTCProcessCreditRptType DEF Completion
<1>4. CASE HTCFlushEndpoint \/ TargetConsume \/ TargetReport \/ (\E p \in Packets : HttResponse(p))
  BY <1>4, HTCFlushEndpointType, TargetConsumeType, TargetReportType, HttResponseType
<1>5. CASE PmCoreSuspend \/ RuntimeSuspend \/ RuntimeResume \/ HTCTxResumeAllHandler
  BY <1>5, PmCoreSuspendType, RuntimeSuspendType, RuntimeResumeType, HTCTxResumeAllHandlerType
<1>6. CASE UNCHANGED vars
  BY <1>6, UnchangedTypes DEF vars, TypeInv, TypeOK
<1> QED
  BY <1>1, <1>2, <1>3, <1>4, <1>5, <1>6 DEF Next

\* Init gives every variable its type.
LEMMA TypeInit == Init => TypeInv
<1> SUFFICES ASSUME Init PROVE TypeInv
  OBVIOUS
<1>1. EpTypeOK /\ PktTypeOK
  BY ParameterAssumption DEF Init, EpTypeOK, PktTypeOK
<1>2. ThreadTypeOK
  BY DEF Init, ThreadTypeOK, Labels, PacketOrNone
<1>3. PipeTypeOK
  BY ParameterAssumption DEF Init, PipeTypeOK, PacketOrNone
<1>b. tgtAsked \in BOOLEAN /\ pmRequest \in BOOLEAN /\ pm_work \in BOOLEAN
      /\ awaitsSend \in BOOLEAN
  BY Zenon DEF Init
<1>4. TargetTypeOK
  <2>1. /\ endpoint \in EndpointKinds /\ tgtDone \in Nat /\ tgtCredits \in Nat /\ reports \in Seq(Nat)
        /\ answered \in SUBSET Packets
    BY DEF Init
  <2> QED
    BY <1>b, <2>1 DEF TargetTypeOK
<1>5. PmTypeOK
  <2>1. pmUsage \in Nat /\ suspends \in 0..MaxSuspends
    BY ParameterAssumption DEF Init
  <2>2. rpm = "active" /\ pm_state = "ON"
    BY DEF Init
  <2> QED
    BY <1>b, <2>1, <2>2 DEF PmTypeOK
<1>6. ClientTypeOK
  BY DEF Init, ClientTypeOK, Results
<1>7. PacketInHand
  BY DEF Init, PacketInHand
<1> QED
  BY <1>1, <1>2, <1>3, <1>4, <1>5, <1>6, <1>7 DEF TypeInv, TypeOK

\* Every variable keeps its type whatever the parameters; in particular the host never spends
\* credits, ring entries or tx_resources it does not have.
THEOREM TypeCorrect == Spec => []TypeOK
<1>1. TypeInv => TypeOK
  BY DEF TypeInv
<1> QED
  BY <1>1, TypeInit, TypeStep, PTL DEF Spec

----------------------------------------------------------------------------
(* Ring entries.  An entry is taken by HIFSend_head and given back by      *)
(* hif_completion_thread only after HTC's handler has returned; in between *)
(* the transfer is on the wire or in the completer's hands, and netbuf     *)
(* says which.                                                             *)

CompleterHolds ==
    /\ pc[Completer] = "idle" => netbuf = NoPacket
    /\ pc[Completer] \in {"lookup", "complete", "notFound", "recycle"} => netbuf # NoPacket

RingInv == TypeInv /\ CompleterHolds /\ RingEntriesConserved

\* A step that leaves the pipe and the completer alone, or moves the completer between the
\* labels of HTCTrySend, keeps the account.
LEMMA RingUntouched ==
    ASSUME RingInv, UNCHANGED <<netbuf, hifVars>>,
           \/ pc'[Completer] = pc[Completer]
           \/ pc'[Completer] \notin {"idle", "lookup", "complete", "notFound", "recycle"}
    PROVE  CompleterHolds' /\ RingEntriesConserved'
  BY DEF RingInv, CompleterHolds, RingEntriesConserved, hifVars

\* A thread's step inside HTCTrySend ends at a label of HTCTrySend, at "return" included.
LEMMA RingTrySend ==
    ASSUME RingInv, NEW t \in Threads, NEW label, Goto(t, label),
           UNCHANGED <<netbuf, hifVars>>,
           label \notin {"idle", "lookup", "complete", "notFound", "recycle"}
    PROVE  CompleterHolds' /\ RingEntriesConserved'
<1>1. Completer \in Threads /\ pc \in [Threads -> Labels]
  BY DEF Threads, RingInv, TypeInv, TypeOK, ThreadTypeOK
<1> QED
  BY <1>1, RingUntouched DEF Goto

\* Every step keeps the account.
LEMMA RingStep == RingInv /\ [Next]_vars => RingInv'
<1> SUFFICES ASSUME RingInv, [Next]_vars PROVE CompleterHolds' /\ RingEntriesConserved'
  BY TypeStep DEF RingInv
<1>c. Completer \in Threads /\ Resumer \in Threads /\ Senders \subseteq Threads
  BY DEF Threads
<1>d. Completer \notin Senders /\ Completer # Resumer
  BY ThreadAssumption
<1>t. pc \in [Threads -> Labels] /\ netbuf \in PacketOrNone /\ NoPacket \notin Packets
  BY ThreadAssumption DEF RingInv, TypeInv, TypeOK, ThreadTypeOK, PipeTypeOK
<1>p. /\ sendsAllowed \in Nat /\ hifDone \in Nat /\ wire \in Seq(Packets) /\ SendEntries \in Nat
      /\ sendsAllowed + (Len(wire) - hifDone) + (IF netbuf = NoPacket THEN 0 ELSE 1) = SendEntries
  BY ParameterAssumption DEF RingInv, TypeInv, TypeOK, PipeTypeOK, RingEntriesConserved
<1>1. ASSUME NEW t \in Senders, NEW p \in Packets, HTCSendPkt(t, p)
      PROVE  CompleterHolds' /\ RingEntriesConserved'
  BY <1>1, <1>c, RingTrySend DEF HTCSendPkt
<1>2. ASSUME NEW t \in Threads, HTCTrySend(t)
      PROVE  CompleterHolds' /\ RingEntriesConserved'
  <2>1. CASE TestDepth(t) \/ AddDepth(t)
    BY <2>1, RingTrySend DEF TestDepth, AddDepth
  <2>2. CASE SendFull(t)
    BY <2>2, RingTrySend DEF SendFull
  <2>3. CASE ReadResources(t) \/ Enter(t) \/ Relock(t)
    BY <2>3, RingTrySend DEF ReadResources, Enter, Relock
  <2>4. CASE BeginPass(t) \/ GetHTCAutoPmSendPackets(t)
    BY <2>4, RingTrySend DEF BeginPass, GetHTCAutoPmSendPackets
  <2>5. CASE TakePacket(t) \/ FailPacket(t)
    BY <2>5, RingUntouched DEF TakePacket, FailPacket
  <2>6. CASE EndPass(t) \/ EndDrain(t)
    BY <2>6, RingTrySend DEF EndPass, EndDrain
  <2>7. CASE StartIssue(t) \/ HIFSendFailed(t) \/ EndIssue(t)
    BY <2>7, RingTrySend DEF StartIssue, HIFSendFailed, EndIssue
  <2>8. CASE HIFSend(t)
    <3>1. CompleterHolds'
      BY <2>8, <1>c, <1>t DEF RingInv, CompleterHolds, HIFSend, Goto
    <3>2. issuing[t] \in Packets
      BY <2>8 DEF HIFSend, RingInv, TypeInv, PacketInHand
    <3>3. Len(wire') = Len(wire) + 1
      BY <2>8, <3>2, <1>p DEF HIFSend
    <3>4. sendsAllowed' = sendsAllowed - 1 /\ UNCHANGED <<hifDone, netbuf>>
      BY <2>8 DEF HIFSend, TakeEntry
    <3>5. RingEntriesConserved'
      BY <3>3, <3>4, <1>p DEF RingEntriesConserved
    <3> QED
      BY <3>1, <3>5
  <2>9. CASE Return(t)
    <3>1. CompleterHolds'
      BY <2>9, <1>c, <1>t DEF RingInv, CompleterHolds, Return, Goto
    <3>2. RingEntriesConserved'
      BY <2>9 DEF RingInv, RingEntriesConserved, Return, hifVars
    <3> QED
      BY <3>1, <3>2
  <2> QED
    BY <1>2, <2>1, <2>2, <2>3, <2>4, <2>5, <2>6, <2>7, <2>8, <2>9 DEF HTCTrySend
<1>3. CASE Completion
  <2>1. CASE SwallowCompletion
    <3>1. CompleterHolds'
      BY <2>1 DEF RingInv, CompleterHolds, SwallowCompletion
    <3>2. RingEntriesConserved'
      BY <2>1, <1>p DEF RingEntriesConserved, SwallowCompletion
    <3> QED
      BY <3>1, <3>2
  <2>2. CASE SendDone
    <3>1. netbuf = NoPacket /\ netbuf' \in Packets /\ hifDone' = hifDone + 1
      BY <2>2, <1>p DEF SendDone, RingInv, CompleterHolds
    <3>2. CompleterHolds'
      BY <2>2, <3>1, <1>c, <1>t DEF CompleterHolds, SendDone, Goto
    <3>3. UNCHANGED <<sendsAllowed, wire>>
      BY <2>2 DEF SendDone
    <3>4. RingEntriesConserved'
      BY <3>1, <3>3, <1>p, <1>t DEF RingEntriesConserved
    <3> QED
      BY <3>2, <3>4
  <2>3. CASE HTCLookupTxPacket \/ HTCTxCompletionHandler
    <3>1. netbuf # NoPacket
      BY <2>3 DEF HTCLookupTxPacket, HTCTxCompletionHandler, RingInv, CompleterHolds
    <3>2. UNCHANGED <<netbuf, hifVars>> /\ pc'[Completer] # "idle"
      BY <2>3, <1>c, <1>t DEF HTCLookupTxPacket, HTCTxCompletionHandler, Goto
    <3> QED
      BY <3>1, <3>2 DEF RingInv, CompleterHolds, RingEntriesConserved, hifVars
  <2>4. CASE Recycle
    <3>1. netbuf # NoPacket
      BY <2>4 DEF Recycle, RingInv, CompleterHolds
    <3>2. netbuf' = NoPacket /\ sendsAllowed' = sendsAllowed + 1 /\ UNCHANGED <<wire, hifDone>>
      BY <2>4 DEF Recycle
    <3>3. pc'[Completer] = "idle"
      BY <2>4, <1>c, <1>t DEF Recycle, Goto
    <3>4. RingEntriesConserved'
      BY <3>1, <3>2, <1>p DEF RingEntriesConserved
    <3> QED
      BY <3>2, <3>3, <3>4 DEF CompleterHolds
  <2>5. CASE HTCProcessCreditRpt
    <3>1. pc[Completer] = "idle" /\ pc'[Completer] \in {"idle", "readResources"}
      BY <2>5, <1>c, <1>t DEF HTCProcessCreditRpt, Goto
    <3>2. UNCHANGED <<netbuf, hifVars>>
      BY <2>5 DEF HTCProcessCreditRpt
    <3> QED
      BY <3>1, <3>2, RingUntouched
  <2> QED
    BY <1>3, <2>1, <2>2, <2>3, <2>4, <2>5 DEF Completion
<1>4. CASE HTCFlushEndpoint \/ TargetConsume \/ TargetReport \/ (\E p \in Packets : HttResponse(p))
  BY <1>4, RingUntouched DEF HTCFlushEndpoint, TargetConsume, TargetReport, HttResponse
<1>5. CASE PmCoreSuspend \/ RuntimeSuspend \/ RuntimeResume
  BY <1>5, RingUntouched DEF PmCoreSuspend, RuntimeSuspend, RuntimeResume, SetPm
<1>6. CASE HTCTxResumeAllHandler
  BY <1>6, <1>c, RingTrySend DEF HTCTxResumeAllHandler
<1>7. CASE UNCHANGED vars
  BY <1>7, RingUntouched DEF vars
<1> QED
  BY <1>1, <1>2, <1>3, <1>4, <1>5, <1>6, <1>7 DEF Next

\* num_sends_allowed plus the transfers it was taken for is the size of the ring, on every
\* endpoint and whatever the order of sends and completions.
THEOREM RingEntriesAlways == Spec => []RingEntriesConserved
<1>1. Init => RingInv
  <2> SUFFICES ASSUME Init PROVE RingInv
    OBVIOUS
  <2>1. Completer \in Threads
    BY DEF Threads
  <2>2. CompleterHolds
    BY <2>1 DEF Init, CompleterHolds
  <2>3. RingEntriesConserved
    BY ParameterAssumption DEF Init, RingEntriesConserved
  <2> QED
    BY <2>2, <2>3, TypeInit DEF RingInv
<1>2. RingInv => RingEntriesConserved
  BY DEF RingInv
<1> QED
  BY <1>1, <1>2, RingStep, PTL DEF Spec

----------------------------------------------------------------------------
(* Sums.  The folds of the library are defined by a recursive function     *)
(* over the subsets of a set; a total is any function of the subsets that  *)
(* grows by f[x] with each element x.                                      *)

Total(f, S) ==
    LET iter[s \in SUBSET S] ==
          IF s = {} THEN 0 ELSE f[CHOOSE x \in s : TRUE] + iter[s \ {CHOOSE x \in s : TRUE}]
    IN  iter[S]

IsTotal(F, f, S) ==
    /\ F \in [SUBSET S -> Nat] /\ F[{}] = 0
    /\ \A T \in SUBSET S : \A x \in T : F[T] = f[x] + F[T \ {x}]

\* The two sums of CreditsConserved are totals.
LEMMA FoldsAreTotals ==
    /\ \A f, S : MapThenSumSet(LAMBDA p : f[p], S) = Total(f, S)
    /\ \A f : FoldSeq(LAMBDA x, y : x + y, 0, f) = Total(f, DOMAIN f)
<1>1. ASSUME NEW f, NEW S PROVE MapThenSumSet(LAMBDA p : f[p], S) = Total(f, S)
  BY DEF MapThenSumSet, MapThenFoldSet, Total
<1>2. ASSUME NEW f PROVE FoldSeq(LAMBDA x, y : x + y, 0, f) = Total(f, DOMAIN f)
  BY DEF FoldSeq, FoldFunction, FoldFunctionOnSet, MapThenFoldSet, Total
<1> QED
  BY <1>1, <1>2

\* A set whose subsets have a property that passes from every set without one of its elements to
\* the set: a smallest subset without it does not exist.
LEMMA LeastSubset ==
    ASSUME NEW S, IsFiniteSet(S), NEW B \in SUBSET SUBSET S, B # {}
    PROVE  \E T \in B : \A x \in T : T \ {x} \notin B
<1> DEFINE N == {Cardinality(T) : T \in B}
<1>1. \A T \in SUBSET S : IsFiniteSet(T) /\ Cardinality(T) \in Nat
  BY FS_Subset, FS_CardinalityType
<1>2. N \in SUBSET Nat /\ N # {}
  BY <1>1
<1>3. PICK n \in N : \A m \in N : n <= m
  BY <1>2, LeastNatural
<1>4. PICK T \in B : Cardinality(T) = n
  BY <1>3
<1>5. ASSUME NEW x \in T, T \ {x} \in B PROVE FALSE
  <2>1. Cardinality(T \ {x}) = Cardinality(T) - 1
    BY <1>1, FS_RemoveElement
  <2>2. Cardinality(T \ {x}) \in N
    BY <1>5
  <2>3. n <= Cardinality(T \ {x}) /\ n \in Nat
    BY <1>2, <1>3, <2>2
  <2> QED
    BY <1>4, <2>1, <2>3
<1> QED
  BY <1>4, <1>5

\* Adding an element to a set adds its value to the total.
LEMMA TotalExtends ==
    ASSUME NEW T, NEW x \in T, NEW f, \A y \in T : f[y] \in Nat, NEW F, IsTotal(F, f, T \ {x})
    PROVE  IsTotal([U \in SUBSET T |-> IF x \in U THEN f[x] + F[U \ {x}] ELSE F[U]], f, T)
<1> DEFINE G == [U \in SUBSET T |-> IF x \in U THEN f[x] + F[U \ {x}] ELSE F[U]]
<1>1. \A U \in SUBSET (T \ {x}) : F[U] \in Nat
  BY DEF IsTotal
<1>2. \A U \in SUBSET T : /\ U \ {x} \in SUBSET (T \ {x})
                          /\ x \notin U => U \in SUBSET (T \ {x})
  OBVIOUS
<1>3. G \in [SUBSET T -> Nat]
  BY <1>1, <1>2
<1>4. G[{}] = 0
  BY DEF IsTotal
<1>5. ASSUME NEW U \in SUBSET T, NEW y \in U PROVE G[U] = f[y] + G[U \ {y}]
  <2>1. CASE y = x
    BY <2>1
  <2>2. CASE y # x /\ x \in U
    <3>1. G[U] = f[x] + F[U \ {x}] /\ G[U \ {y}] = f[x] + F[(U \ {y}) \ {x}]
      BY <2>2
    <3>2. (U \ {y}) \ {x} = (U \ {x}) \ {y} /\ y \in U \ {x} /\ U \ {x} \in SUBSET (T \ {x})
      BY <2>2
    <3>3. F[U \ {x}] = f[y] + F[(U \ {x}) \ {y}]
      BY <3>2 DEF IsTotal
    <3>4. F[(U \ {x}) \ {y}] \in Nat /\ F[U \ {x}] \in Nat
      BY <1>1, <3>2
    <3>5. f[x] \in Nat /\ f[y] \in Nat
      OBVIOUS
    <3> HIDE DEF G
    <3> QED
      BY <3>1, <3>2, <3>3, <3>4, <3>5
  <2>3. CASE x \notin U
    BY <2>3, <1>2 DEF IsTotal
  <2> QED
    BY <2>1, <2>2, <2>3
<1> HIDE DEF G
<1>6. IsTotal(G, f, T)
  BY <1>3, <1>4, <1>5 DEF IsTotal
<1> QED
  BY <1>6 DEF G

\* Every finite set has a total.
LEMMA TotalExists ==
    ASSUME NEW S, IsFiniteSet(S), NEW f, \A x \in S : f[x] \in Nat
    PROVE  \E F : IsTotal(F, f, S)
<1> DEFINE B == {T \in SUBSET S : ~\E F : IsTotal(F, f, T)}
<1>1. SUFFICES ASSUME B # {} PROVE FALSE
  OBVIOUS
<1>2. PICK T \in B : \A x \in T : T \ {x} \notin B
  BY <1>1, LeastSubset
<1>3. CASE T = {}
  <2>1. IsTotal([U \in SUBSET T |-> 0], f, T)
    BY <1>3 DEF IsTotal
  <2> QED
    BY <2>1
<1>4. CASE T # {}
  <2>1. PICK x \in T : TRUE
    BY <1>4
  <2>2. PICK F : IsTotal(F, f, T \ {x})
    BY <1>2, <2>1
  <2>3. \E G : IsTotal(G, f, T)
    BY <2>1, <2>2, TotalExtends
  <2> QED
    BY <2>3
<1> QED
  BY <1>3, <1>4

\* A total is the library's sum.
LEMMA TotalIs ==
    ASSUME NEW S, IsFiniteSet(S), NEW f, NEW F, IsTotal(F, f, S)
    PROVE  Total(f, S) = F[S]
<1> DEFINE c(s) == CHOOSE x \in s : TRUE
           Rec(I) == [s \in SUBSET S |-> IF s = {} THEN 0 ELSE f[c(s)] + I[s \ {c(s)}]]
           I == CHOOSE J : J = Rec(J)
<1>1. \A s : s # {} => c(s) \in s
  OBVIOUS
<1>2. F = Rec(F)
  <2>1. ASSUME NEW s \in SUBSET S
        PROVE  F[s] = IF s = {} THEN 0 ELSE f[c(s)] + F[s \ {c(s)}]
    BY <1>1 DEF IsTotal
  <2> HIDE DEF c
  <2> QED
    BY <2>1 DEF IsTotal
<1>3. I = Rec(I)
  <2> HIDE DEF Rec
  <2> QED
    BY <1>2
<1> DEFINE B == {T \in SUBSET S : I[T] # F[T]}
<1>4. ASSUME B # {} PROVE FALSE
  <2>1. PICK T \in B : \A x \in T : T \ {x} \notin B
    BY <1>4, LeastSubset
  <2>2. I[T] = IF T = {} THEN 0 ELSE f[c(T)] + I[T \ {c(T)}]
    <3> HIDE DEF I, c
    <3> QED
      BY <1>3
  <2>3. CASE T = {}
    BY <2>2, <2>3 DEF IsTotal
  <2>4. CASE T # {}
    <3>1. c(T) \in T /\ T \in SUBSET S
      BY <2>4, <1>1
    <3> HIDE DEF I, c
    <3>2. I[T \ {c(T)}] = F[T \ {c(T)}]
      BY <2>1, <3>1
    <3>3. F[T] = f[c(T)] + F[T \ {c(T)}]
      BY <3>1 DEF IsTotal
    <3> QED
      BY <2>1, <2>2, <2>4, <3>2, <3>3
  <2> QED
    BY <2>3, <2>4
<1>5. I[S] = F[S]
  BY <1>4
<1>6. Total(f, S) = I[S]
  BY DEF Total
<1> QED
  BY <1>5, <1>6


\* The total of a set is a natural number, and grows with each element by its value.
LEMMA TotalRemove ==
    ASSUME NEW S, IsFiniteSet(S), NEW f, \A x \in S : f[x] \in Nat
    PROVE  /\ Total(f, S) \in Nat
           /\ \A x \in S : Total(f, S) = f[x] + Total(f, S \ {x})
           /\ S = {} => Total(f, S) = 0
<1>1. PICK F : IsTotal(F, f, S)
  BY TotalExists
<1>2. Total(f, S) = F[S] /\ S \in SUBSET S
  BY <1>1, TotalIs
<1>3. ASSUME NEW x \in S PROVE Total(f, S) = f[x] + Total(f, S \ {x})
  <2> DEFINE G == [T \in SUBSET (S \ {x}) |-> F[T]]
  <2>1. IsTotal(G, f, S \ {x})
    <3>1. G \in [SUBSET (S \ {x}) -> Nat] /\ G[{}] = 0
      BY <1>1 DEF IsTotal
    <3>2. ASSUME NEW T \in SUBSET (S \ {x}), NEW y \in T PROVE G[T] = f[y] + G[T \ {y}]
      <4>1. F[T] = f[y] + F[T \ {y}]
        BY <1>1 DEF IsTotal
      <4> QED
        BY <4>1
    <3> HIDE DEF G
    <3> QED
      BY <3>1, <3>2 DEF IsTotal
  <2>2. IsFiniteSet(S \ {x})
    BY FS_Subset
  <2>3. Total(f, S \ {x}) = G[S \ {x}]
    <3> HIDE DEF G
    <3> QED
      BY <2>1, <2>2, TotalIs
  <2>4. F[S] = f[x] + F[S \ {x}]
    BY <1>1 DEF IsTotal
  <2> QED
    BY <1>2, <2>3, <2>4
<1> QED
  BY <1>1, <1>2, <1>3 DEF IsTotal

LEMMA TotalAdd ==
    ASSUME NEW S, IsFiniteSet(S), NEW f, NEW x, x \notin S, \A y \in S \cup {x} : f[y] \in Nat
    PROVE  /\ IsFiniteSet(S \cup {x})
           /\ Total(f, S \cup {x}) = f[x] + Total(f, S)
<1>1. IsFiniteSet(S \cup {x})
  BY FS_AddElement
<1>2. (S \cup {x}) \ {x} = S
  OBVIOUS
<1> QED
  BY <1>1, <1>2, TotalRemove

\* The total depends on the values of the elements only.
LEMMA TotalSame ==
    ASSUME NEW S, IsFiniteSet(S), NEW f, NEW g, \A x \in S : f[x] = g[x] /\ f[x] \in Nat
    PROVE  Total(f, S) = Total(g, S)
<1>1. PICK F : IsTotal(F, f, S)
  BY TotalExists
<1>2. IsTotal(F, g, S)
  BY <1>1 DEF IsTotal
<1> QED
  BY <1>1, <1>2, TotalIs

\* The totals of two sets without a common element add up.
LEMMA TotalUnion ==
    ASSUME NEW S, NEW T, IsFiniteSet(S), IsFiniteSet(T), S \cap T = {}, NEW f,
           \A x \in S \cup T : f[x] \in Nat
    PROVE  Total(f, S \cup T) = Total(f, S) + Total(f, T)
<1> DEFINE B == {U \in SUBSET T : Total(f, S \cup U) # Total(f, S) + Total(f, U)}
<1>1. \A U \in SUBSET T : IsFiniteSet(U) /\ IsFiniteSet(S \cup U)
  BY FS_Subset, FS_Union
<1>2. SUFFICES ASSUME B # {} PROVE FALSE
  OBVIOUS
<1>3. PICK U \in B : \A x \in U : U \ {x} \notin B
  BY <1>2, LeastSubset
<1>4. CASE U = {}
  <2>1. S \cup U = S /\ Total(f, U) = 0 /\ Total(f, S) \in Nat
    BY <1>1, <1>4, TotalRemove
  <2> QED
    BY <2>1
<1>5. CASE U # {}
  <2>1. PICK x \in U : TRUE
    BY <1>5
  <2>2. (S \cup U) \ {x} = S \cup (U \ {x})
    BY <2>1
  <2>3. Total(f, S \cup U) = f[x] + Total(f, S \cup (U \ {x}))
    <3>1. IsFiniteSet(S \cup U) /\ x \in S \cup U /\ \A y \in S \cup U : f[y] \in Nat
      BY <1>1, <2>1
    <3>2. Total(f, S \cup U) = f[x] + Total(f, (S \cup U) \ {x})
      BY <3>1, TotalRemove
    <3> QED
      BY <2>2, <3>2
  <2>4. Total(f, U) = f[x] + Total(f, U \ {x})
    BY <1>1, <2>1, TotalRemove
  <2>5. Total(f, S \cup (U \ {x})) = Total(f, S) + Total(f, U \ {x})
    BY <1>3, <2>1
  <2>6. Total(f, S) \in Nat /\ Total(f, U \ {x}) \in Nat /\ f[x] \in Nat
    BY <1>1, <2>1, TotalRemove
  <2> QED
    BY <2>3, <2>4, <2>5, <2>6
<1> QED
  BY <1>4, <1>5

\* The total of a sequence of numbers grows with what is appended and shrinks with its head.
LEMMA TotalOfSequence ==
    ASSUME NEW s \in Seq(Nat)
    PROVE  /\ Total(s, DOMAIN s) \in Nat
           /\ s = <<>> => Total(s, DOMAIN s) = 0
           /\ \A n \in Nat : Total(Append(s, n), DOMAIN Append(s, n)) = Total(s, DOMAIN s) + n
           /\ s # <<>> => Total(s, DOMAIN s) = Head(s) + Total(Tail(s), DOMAIN Tail(s))
<1>1. IsFiniteSet(DOMAIN s) /\ \A i \in DOMAIN s : s[i] \in Nat
  BY FS_Interval
<1>2. Total(s, DOMAIN s) \in Nat /\ (s = <<>> => Total(s, DOMAIN s) = 0)
  BY <1>1, TotalRemove
<1>3. ASSUME NEW n \in Nat
      PROVE  Total(Append(s, n), DOMAIN Append(s, n)) = Total(s, DOMAIN s) + n
  <2> DEFINE r == Append(s, n)
             k == Len(s) + 1
  <2>1. /\ DOMAIN r = DOMAIN s \cup {k} /\ k \notin DOMAIN s /\ r[k] = n
        /\ \A i \in DOMAIN s : r[i] = s[i]
    OBVIOUS
  <2> HIDE DEF r, k
  <2>2. Total(r, DOMAIN s \cup {k}) = r[k] + Total(r, DOMAIN s)
    BY <1>1, <2>1, TotalAdd
  <2>3. Total(r, DOMAIN s) = Total(s, DOMAIN s)
    BY <1>1, <2>1, TotalSame
  <2>4. Total(r, DOMAIN r) = Total(s, DOMAIN s) + n
    BY <1>2, <2>1, <2>2, <2>3
  <2> QED
    BY <2>4 DEF r
<1>4. ASSUME s # <<>>
      PROVE  Total(s, DOMAIN s) = Head(s) + Total(Tail(s), DOMAIN Tail(s))
  <2> DEFINE D == DOMAIN Tail(s)
             Up(T) == {i + 1 : i \in T}
  <2>1. PICK F : IsTotal(F, s, DOMAIN s)
    BY <1>1, TotalExists
  <2>2. /\ D \subseteq Nat /\ IsFiniteSet(D) /\ \A T \in SUBSET D : Up(T) \in SUBSET DOMAIN s
        /\ DOMAIN s \ {1} = Up(D) /\ 1 \in DOMAIN s
        /\ \A i \in D : Tail(s)[i] = s[i + 1]
    <3>1. D = 1 .. Len(s) - 1 /\ Len(s) \in Nat /\ Len(s) > 0 /\ DOMAIN s = 1..Len(s)
      BY <1>4
    <3>2. IsFiniteSet(D)
      BY <3>1, FS_Interval
    <3>3. DOMAIN s \ {1} \subseteq Up(D)
      <4>1. \A j \in DOMAIN s \ {1} : j - 1 \in D /\ j = (j - 1) + 1
        BY <3>1
      <4> QED
        BY <4>1
    <3> QED
      BY <1>4, <3>1, <3>2, <3>3
  <2> DEFINE G == [T \in SUBSET D |-> F[Up(T)]]
  <2>3. IsTotal(G, Tail(s), D)
    <3>1. G \in [SUBSET D -> Nat] /\ G[{}] = 0
      <4>1. Up({}) = {}
        OBVIOUS
      <4> HIDE DEF Up
      <4> QED
        BY <2>1, <2>2, <4>1 DEF IsTotal
    <3>2. ASSUME NEW T \in SUBSET D, NEW x \in T PROVE G[T] = Tail(s)[x] + G[T \ {x}]
      <4>1. Up(T) \ {x + 1} = Up(T \ {x}) /\ x + 1 \in Up(T)
        BY <2>2
      <4>2. F[Up(T)] = s[x + 1] + F[Up(T) \ {x + 1}]
        <5> HIDE DEF Up
        <5> QED
          BY <2>1, <2>2, <4>1 DEF IsTotal
      <4> HIDE DEF Up
      <4> QED
        BY <2>2, <4>1, <4>2
    <3> HIDE DEF G, D
    <3> QED
      BY <3>1, <3>2 DEF IsTotal
  <2>4. Total(Tail(s), D) = F[Up(D)]
    <3>1. Total(Tail(s), D) = G[D]
      <4> HIDE DEF G, D
      <4> QED
        BY <2>2, <2>3, TotalIs
    <3> QED
      BY <3>1
  <2> HIDE DEF Up
  <2>5. F[DOMAIN s] = s[1] + F[Up(D)]
    <3>1. 1 \in DOMAIN s /\ DOMAIN s \in SUBSET DOMAIN s
      BY <2>2
    <3>2. F[DOMAIN s] = s[1] + F[DOMAIN s \ {1}]
      BY <2>1, <3>1 DEF IsTotal
    <3> QED
      BY <2>2, <3>2
  <2>6. Total(s, DOMAIN s) = F[DOMAIN s]
    BY <1>1, <2>1, TotalIs
  <2> QED
    BY <1>4, <2>4, <2>5, <2>6
<1> QED
  BY <1>2, <1>3, <1>4
=============================================================================
