-------------------------- MODULE HtcTxPassProofs --------------------------
(***************************************************************************)
(* The runtime PM references HTC takes for packets, the order in which     *)
(* packets leave, and the credits they hold, for every number of senders,  *)
(* credits and ring entries and every kind of endpoint.                    *)
(*                                                                         *)
(* The usage count is the number of ordinary packets in use, less the      *)
(* references HTCIssuePackets puts for AUTO_PM packets HIF refuses, for    *)
(* which none was taken (Balance).  That needs to know which queue a pass  *)
(* of the drainer takes from: one for AUTO_PM packets takes these only,    *)
(* any other pass none of them (PassInv), which holds because TxQueue does *)
(* not change while the drainer has the lock; and that an HTT request is   *)
(* answered after it was sent (AnsweredSent).                              *)
(*                                                                         *)
(* A packet goes through five lanes on its way to the pipe: its client's   *)
(* call, TxQueue, the batch of the drainer, the packet being issued, the   *)
(* wire.  FifoInv says that each lane is sorted and that of two packets of *)
(* one client the one nearer to the wire was sent first; it rests on there *)
(* being one drainer, and on only AUTO_PM packets being put back in front  *)
(* of TxQueue.                                                             *)
(*                                                                         *)
(* A packet pays, with the credits it was charged, from the moment the     *)
(* drainer takes it until the target consumes it.  CreditInv is the account *)
(* of the endpoint's allocation.  A batch that HIF refuses a packet of loses *)
(* the credits of the packets behind it: the account balances but for a    *)
(* finite set of packets that are completed with an error.                 *)
(***************************************************************************)
EXTENDS HtcTxPacketProofs

\* packet p holds, or would hold if it were an ordinary one, a reference
Uses(p) ==
    \/ ~Compact /\ InQueue(TxLookupQueue, p)
    \/ ~Compact /\ pc[Completer] = "complete" /\ netbuf = p
    \/ Compact /\ \E t \in Threads : issuing[t] = p
    \/ \E t \in Threads : pc[t] \in DrainLabels /\ InQueue(sendQueue[t], p)
    \/ Compact /\ p \notin RuntimePut \cup answered /\ InQueue(wire, p)
Users == {p \in Packets \ AutoPm : Uses(p)}

\* the AUTO_PM packets HIF refused
Spoilt == {p \in AutoPm : result[p] = "error"}

Balance ==
    /\ pmUsage \in Nat /\ IsFiniteSet(Users) /\ IsFiniteSet(Spoilt)
    /\ pmUsage <= Cardinality(Users) /\ Cardinality(Users) <= pmUsage + Cardinality(Spoilt)

AnsweredSent == \A q \in answered : Compact /\ InQueue(wire, q)

LockHeld == \A t \in Threads : pc[t] \in {"drain", "pull", "get"} => lock = t

PassInv ==
    /\ LockHeld
    /\ \A t \in Threads :
          /\ pc[t] = "get" /\ ~autoPMQueue[t] => \A q \in AutoPm : ~InQueue(TxQueue, q)
          /\ \A q : InQueue(tempQueue[t], q) => q \in AutoPm

PmInv == PacketInv /\ PassInv /\ Balance /\ AnsweredSent

----------------------------------------------------------------------------
(* Counting                                                                *)

\* AUTO_PM packets are packets.
LEMMA AutoPmPackets == PacketInv => AutoPm \subseteq Packets
<1> SUFFICES ASSUME PacketInv PROVE AutoPm \subseteq Packets
  OBVIOUS
<1>1. endpoint \in [creditFlow : BOOLEAN, compact : BOOLEAN,
                    sendFull : SUBSET {"keep", "drop"}, autoPm : SUBSET Packets,
                    runtimePut : SUBSET Packets]
  BY ParameterAssumption DEF PacketInv, TypeInv, TypeOK, TargetTypeOK
<1> QED
  BY <1>1 DEF AutoPm

\* A packet tagged RUNTIME_PUT is an ordinary packet of the HTT endpoint.
LEMMA RuntimePutPackets == ASSUME PacketInv, NEW p \in RuntimePut PROVE Compact /\ p \notin AutoPm
<1>1. endpoint \in EndpointKinds
  BY DEF PacketInv, TypeInv, TypeOK, TargetTypeOK
<1> QED
  BY <1>1, ParameterAssumption DEF RuntimePut, Compact, AutoPm

\* The ordinary packets in use stay the same.
LEMMA SameUsers ==
    ASSUME Balance, UNCHANGED <<endpoint, pmUsage>>,
           \A q \in Packets \ AutoPm : Uses(q)' <=> Uses(q),
           \A q \in AutoPm : result'[q] = "error" <=> result[q] = "error"
    PROVE  Balance'
<1>1. Users' = Users /\ Spoilt' = Spoilt
  BY DEF Users, Spoilt, AutoPm
<1> QED
  BY <1>1 DEF Balance

\* A packet comes into use with a get.
LEMMA OneMore ==
    ASSUME Balance, UNCHANGED endpoint, NEW p \in Packets \ AutoPm, ~Uses(p), pmUsage' = pmUsage + 1,
           \A q \in Packets \ AutoPm : Uses(q)' <=> Uses(q) \/ q = p,
           \A q \in AutoPm : result'[q] = "error" <=> result[q] = "error"
    PROVE  Balance'
<1>1. Users' = Users \cup {p} /\ p \notin Users /\ Spoilt' = Spoilt
  BY DEF Users, Spoilt, AutoPm
<1>2. IsFiniteSet(Users \cup {p}) /\ Cardinality(Users \cup {p}) = Cardinality(Users) + 1
  BY <1>1, FS_AddElement DEF Balance
<1>3. Cardinality(Users) \in Nat /\ Cardinality(Spoilt) \in Nat
  BY FS_CardinalityType DEF Balance
<1> QED
  BY <1>1, <1>2, <1>3 DEF Balance

\* A packet goes out of use with a put.
LEMMA OneLess ==
    ASSUME Balance, UNCHANGED endpoint, NEW p \in Packets \ AutoPm, Uses(p), pmUsage' = PmPut(pmUsage),
           \A q \in Packets \ AutoPm : Uses(q)' <=> Uses(q) /\ q # p,
           \A q \in AutoPm : result'[q] = "error" <=> result[q] = "error"
    PROVE  Balance'
<1>1. Users' = Users \ {p} /\ p \in Users /\ Spoilt' = Spoilt
  BY DEF Users, Spoilt, AutoPm
<1>2. IsFiniteSet(Users \ {p}) /\ Cardinality(Users \ {p}) = Cardinality(Users) - 1
  BY <1>1, FS_RemoveElement DEF Balance
<1>3. Cardinality(Users) \in Nat /\ Cardinality(Spoilt) \in Nat /\ Cardinality(Users \ {p}) \in Nat
  BY <1>2, FS_CardinalityType DEF Balance
<1> QED
  BY <1>1, <1>2, <1>3 DEF Balance, PmPut

\* A put for a refused AUTO_PM packet is one reference too few, or none is left to put.
LEMMA OneSpoilt ==
    ASSUME Balance, UNCHANGED endpoint, NEW p \in AutoPm, result[p] # "error", pmUsage' = PmPut(pmUsage),
           \A q \in Packets \ AutoPm : Uses(q)' <=> Uses(q),
           \A q \in AutoPm : result'[q] = "error" <=> result[q] = "error" \/ q = p
    PROVE  Balance'
<1>1. Users' = Users /\ Spoilt' = Spoilt \cup {p} /\ p \notin Spoilt
  BY DEF Users, Spoilt, AutoPm
<1>2. IsFiniteSet(Spoilt \cup {p}) /\ Cardinality(Spoilt \cup {p}) = Cardinality(Spoilt) + 1
  BY <1>1, FS_AddElement DEF Balance
<1>3. Cardinality(Users) \in Nat /\ Cardinality(Spoilt) \in Nat
  BY FS_CardinalityType DEF Balance
<1> QED
  BY <1>1, <1>2, <1>3 DEF Balance, PmPut

\* A client gets nothing back twice: a completion neither makes an AUTO_PM packet a refused one nor the
\* other way round, unless it is for such a packet and says so.
LEMMA ErrorStays ==
    ASSUME PacketInv, NEW P, NEW status, SendPacketCompletion(P, status),
           status # "error" \/ AutoPm \cap P = {},
           \A q \in Packets \cap P : \E m \in Names, u \in Owners : HeldIn(m, u, q)
    PROVE  \A q \in AutoPm : result'[q] = "error" <=> result[q] = "error"
<1>1. \A q \in Packets : result'[q] = IF q \notin P THEN result[q]
                                      ELSE IF result[q] = "none" THEN status ELSE "twice"
  BY DEF SendPacketCompletion
<1>2. ASSUME NEW q \in Packets \cap P PROVE result[q] = "none"
  <2>1. PICK m \in Names, u \in Owners : HeldIn(m, u, q)
    BY <1>2
  <2> QED
    BY <2>1, HeldOnce DEF PacketInv, PlaceInv
<1> QED
  BY <1>1, <1>2, AutoPmPackets

\* A thread moves and keeps in its batch what counts; the lookup queue stays.
LEMMA MoveUses ==
    ASSUME PacketInv, NEW t \in Threads, NEW label, Goto(t, label),
           UNCHANGED <<endpoint, TxLookupQueue, issuing, wire, answered>>, netbuf' = netbuf \/ t = Completer,
           pc[t] # "complete", label # "complete",
           \A u \in Threads : u # t => sendQueue'[u] = sendQueue[u],
           \A q \in Packets : (pc[t] \in DrainLabels /\ InQueue(sendQueue[t], q))
                    <=> (label \in DrainLabels /\ InQueue(sendQueue'[t], q))
    PROVE  \A q \in Packets : Uses(q)' <=> Uses(q)
<1>1. pc'[t] = label /\ \A u \in Threads : u # t => pc'[u] = pc[u]
  BY OtherThreads
<1>2. Completer \in Threads
  BY ThreadFacts
<1>3. \A q : (~Compact /\ pc[Completer] = "complete" /\ netbuf = q)'
             <=> (~Compact /\ pc[Completer] = "complete" /\ netbuf = q)
  BY <1>1, <1>2 DEF Compact
<1>4. \A q \in Packets : (\E u \in Threads : pc[u] \in DrainLabels /\ InQueue(sendQueue[u], q))'
             <=> (\E u \in Threads : pc[u] \in DrainLabels /\ InQueue(sendQueue[u], q))
  BY <1>1
<1> QED
  BY <1>3, <1>4 DEF Uses, Compact, RuntimePut, InQueue

\* Nothing that counts changes.
LEMMA RestUses ==
    ASSUME UNCHANGED <<endpoint, TxLookupQueue, issuing, wire, answered, netbuf, pc, sendQueue>>
    PROVE  \A q : Uses(q)' <=> Uses(q)
  BY DEF Uses, Compact, RuntimePut, InQueue

----------------------------------------------------------------------------
(* The steps that take or release a reference                              *)

\* A pass takes a packet: from TxQueue with a get, an AUTO_PM packet without.
LEMMA TakeBalance ==
    ASSUME PmInv, NEW t \in Threads, TakePacket(t) PROVE Balance'
<1>0. PacketInv /\ Balance /\ PassInv
  BY DEF PmInv
<1>1. pc[t] = "get" /\ PassQueue(t) # <<>> /\ t \in Owners
  BY ThreadFacts DEF TakePacket, CanTake
<1>2. PICK q0 \in Seq(Packets) : q0 = PassQueue(t)
  BY <1>0, PlaceTypes DEF PassQueue
<1>3. PICK b0 \in Seq(Packets) : b0 = sendQueue[t]
  BY <1>0, PlaceTypes
<1>4. PICK p \in Packets : p = Head(q0)
  BY <1>1, <1>2
<1>5. /\ UNCHANGED <<pc, endpoint, TxLookupQueue, issuing, wire, answered, netbuf, result>>
      /\ sendQueue' = [sendQueue EXCEPT ![t] = Append(b0, p)]
  BY <1>2, <1>3, <1>4 DEF TakePacket, hifVars, tgtVars, cliVars
<1>6. sendQueue'[t] = Append(b0, p) /\ \A u \in Threads : u # t => sendQueue'[u] = sendQueue[u]
  BY <1>0, <1>5, OtherThreads
<1>7. InQueue(q0, p)
  BY <1>1, <1>2, <1>4 DEF InQueue
<1>8. \A q : InQueue(sendQueue'[t], q) <=> InQueue(sendQueue[t], q) \/ q = p
  BY <1>3, <1>6, AppendQueue
<1>9. "get" \in DrainLabels
  BY DEF DrainLabels
<1>10. ASSUME NEW q \in Packets PROVE Uses(q)' <=> Uses(q) \/ q = p
  <2>1. (\E u \in Threads : pc[u] \in DrainLabels /\ InQueue(sendQueue[u], q))'
        <=> (\E u \in Threads : pc[u] \in DrainLabels /\ InQueue(sendQueue[u], q)) \/ q = p
    BY <1>1, <1>5, <1>6, <1>8, <1>9
  <2> QED
    BY <1>5, <2>1 DEF Uses, Compact, RuntimePut, InQueue
<1>11. autoPMQueue[t] \in BOOLEAN
  BY <1>0 DEF PacketInv, TypeInv, TypeOK, ThreadTypeOK
<1>12. CASE autoPMQueue[t]
  <2>1. p \in AutoPm /\ UNCHANGED pmUsage
    BY <1>0, <1>2, <1>7, <1>12 DEF TakePacket, PassInv, PassQueue
  <2> QED
    BY <1>0, <1>5, <1>10, <2>1, SameUsers
<1>13. CASE ~autoPMQueue[t]
  <2>1. p \notin AutoPm /\ pmUsage' = pmUsage + 1 /\ InQueue(TxQueue, p)
    BY <1>0, <1>1, <1>2, <1>7, <1>13 DEF TakePacket, PassInv, PassQueue
  <2>2. HeldIn("queue", NoThread, p) /\ "queue" \in Names /\ NoThread \in Owners
    BY <2>1, ThreadFacts DEF HeldIn, Names
  <2>3. \A k \in Names, v \in Owners : HeldIn(k, v, p) => k = "queue"
    BY <1>0, <2>2, HeldOnce DEF PacketInv, PlaceInv
  <2>4. ~Uses(p)
    BY <2>3, ThreadFacts DEF Uses, HeldIn, Names
  <2> QED
    BY <1>0, <1>5, <1>10, <2>1, <2>4, OneMore
<1> QED
  BY <1>11, <1>12, <1>13

\* HTCIssuePackets takes a packet out of the batch and hands it to HIF.
LEMMA StartIssueBalance ==
    ASSUME PmInv, NEW t \in Threads, StartIssue(t) PROVE Balance'
<1>0. PacketInv /\ Balance
  BY DEF PmInv
<1>1. pc[t] = "issue" /\ sendQueue[t] # <<>> /\ issuing[t] = NoPacket
  BY <1>0 DEF StartIssue, PacketInv, PlaceInv, LocalsFree
<1>2. PICK b0 \in Seq(Packets) : b0 = sendQueue[t]
  BY <1>0, PlaceTypes
<1>3. PICK p \in Packets : p = Head(b0)
  BY <1>1, <1>2
<1>4. /\ UNCHANGED <<endpoint, wire, answered, netbuf, result, pmUsage>> /\ Goto(t, "hifSend")
      /\ sendQueue' = [sendQueue EXCEPT ![t] = Tail(b0)] /\ issuing' = [issuing EXCEPT ![t] = p]
      /\ ~Compact => TxLookupQueue' = Append(TxLookupQueue, p)
  BY <1>2, <1>3 DEF StartIssue, hifVars, tgtVars, cliVars, pmVars
<1>5. /\ sendQueue'[t] = Tail(b0) /\ \A u \in Threads : u # t => sendQueue'[u] = sendQueue[u]
      /\ issuing'[t] = p /\ \A u \in Threads : u # t => issuing'[u] = issuing[u]
      /\ pc'[t] = "hifSend" /\ \A u \in Threads : u # t => pc'[u] = pc[u]
  <2>1. sendQueue'[t] = Tail(b0) /\ \A u \in Threads : u # t => sendQueue'[u] = sendQueue[u]
    BY <1>0, <1>4, OtherThreads
  <2>2. issuing'[t] = p /\ \A u \in Threads : u # t => issuing'[u] = issuing[u]
    BY <1>0, <1>4, OtherThreads
  <2>3. pc'[t] = "hifSend" /\ \A u \in Threads : u # t => pc'[u] = pc[u]
    BY <1>0, <1>4, OtherThreads
  <2> QED
    BY <2>1, <2>2, <2>3
<1>6. NoRepeat(b0)
  BY <1>0, <1>2 DEF PacketInv, PlaceInv, NoRepeats
<1>7. InQueue(b0, p) /\ \A q : InQueue(Tail(b0), q) <=> InQueue(b0, q) /\ q # p
  BY <1>1, <1>2, <1>3, <1>6, TailQueue
<1>8. \A q : InQueue(sendQueue'[t], q) <=> InQueue(sendQueue[t], q) /\ q # p
  BY <1>2, <1>5, <1>7, Zenon
<1>9. "issue" \in DrainLabels /\ "hifSend" \in DrainLabels
  BY DEF DrainLabels
<1>10. pc[Completer] = "complete" <=> pc'[Completer] = "complete"
  BY <1>1, <1>5, ThreadFacts
<1>11. ASSUME NEW q \in Packets PROVE Uses(q)' <=> Uses(q)
  <2>1. (\E u \in Threads : pc[u] \in DrainLabels /\ InQueue(sendQueue[u], q))
        <=> (\E u \in Threads : pc[u] \in DrainLabels /\ InQueue(sendQueue[u], q))' \/ q = p
    BY <1>1, <1>2, <1>5, <1>7, <1>8, <1>9
  <2>2. CASE Compact
    <3>1. (\E u \in Threads : issuing'[u] = q) <=> (\E u \in Threads : issuing[u] = q) \/ q = p
      BY <1>1, <1>5, ThreadFacts
    <3> QED
      BY <1>4, <2>1, <2>2, <3>1 DEF Uses, Compact, RuntimePut
  <2>3. CASE ~Compact
    <3>1. InQueue(TxLookupQueue', q) <=> InQueue(TxLookupQueue, q) \/ q = p
      <4>1. PICK l0 \in Seq(Packets) : l0 = TxLookupQueue
        BY <1>0, PlaceTypes
      <4>2. InQueue(Append(l0, p), q) <=> InQueue(l0, q) \/ q = p
        BY AppendQueue
      <4>3. TxLookupQueue' = Append(l0, p)
        BY <1>4, <2>3, <4>1
      <4> QED
        BY <4>1, <4>2, <4>3
    <3> QED
      BY <1>4, <1>10, <2>1, <2>3, <3>1 DEF Uses, Compact
  <2> QED
    BY <2>2, <2>3
<1> QED
  BY <1>0, <1>4, <1>11, SameUsers

\* HIF takes the packet; the reference of one tagged RUNTIME_PUT goes at once.
LEMMA HIFSendBalance ==
    ASSUME PmInv, NEW t \in Threads, HIFSend(t) PROVE Balance'
<1>0. PacketInv /\ Balance /\ AnsweredSent
  BY DEF PmInv
<1>1. pc[t] = "hifSend" /\ issuing[t] \in Packets
  BY <1>0 DEF HIFSend, PacketInv, TypeInv, PacketInHand
<1>2. PICK p \in Packets : p = issuing[t]
  BY <1>1
<1>3. /\ UNCHANGED <<endpoint, answered, netbuf, result, TxLookupQueue, sendQueue>> /\ Goto(t, "issue")
      /\ issuing' = [issuing EXCEPT ![t] = NoPacket]
      /\ pmUsage' = IF p \in RuntimePut THEN PmPut(pmUsage) ELSE pmUsage
  BY <1>2 DEF HIFSend, epVars, tgtVars, cliVars
<1>5. /\ issuing'[t] = NoPacket /\ \A u \in Threads : u # t => issuing'[u] = issuing[u]
      /\ pc'[t] = "issue" /\ \A u \in Threads : u # t => pc'[u] = pc[u]
  <2>1. issuing'[t] = NoPacket /\ \A u \in Threads : u # t => issuing'[u] = issuing[u]
    BY <1>0, <1>3, OtherThreads
  <2>2. pc'[t] = "issue" /\ \A u \in Threads : u # t => pc'[u] = pc[u]
    BY <1>0, <1>3, OtherThreads
  <2> QED
    BY <2>1, <2>2
<1>6. pc[Completer] = "complete" <=> pc'[Completer] = "complete"
  BY <1>1, <1>5, ThreadFacts
<1>7. "issue" \in DrainLabels /\ "hifSend" \in DrainLabels
  BY DEF DrainLabels
<1>8. \A q : (\E u \in Threads : pc[u] \in DrainLabels /\ InQueue(sendQueue[u], q))'
             <=> (\E u \in Threads : pc[u] \in DrainLabels /\ InQueue(sendQueue[u], q))
  BY <1>1, <1>3, <1>5, <1>7
<1>9. \A q : InQueue(wire', q) <=> InQueue(wire, q) \/ q = p
  <2>1. PICK w \in Seq(Packets) : w = wire
    BY <1>0, PlaceTypes
  <2>2. wire' = Append(w, p)
    BY <1>2, <2>1 DEF HIFSend
  <2> QED
    BY <2>1, <2>2, AppendQueue
<1>10. CASE ~Compact
  <2>1. \A q \in Packets : Uses(q)' <=> Uses(q)
    BY <1>3, <1>6, <1>8, <1>10 DEF Uses, Compact, InQueue
  <2>2. p \notin RuntimePut
    BY <1>0, <1>10, RuntimePutPackets
  <2> QED
    BY <1>0, <1>3, <2>1, <2>2, SameUsers
<1>11. CASE Compact
  <2>1. HeldIn("issuing", t, p) /\ {"issuing", "batch", "wire"} \subseteq Names /\ {t, NoThread} \subseteq Owners
    BY <1>2, <1>11, ThreadFacts DEF HeldIn, Names
  <2>2. \A k \in Names, v \in Owners : HeldIn(k, v, p) => k = "issuing" /\ v = t
    BY <1>0, <2>1, HeldOnce DEF PacketInv, PlaceInv
  <2>3. \A u \in Threads : ~InQueue(sendQueue[u], p) /\ (issuing[u] = p => u = t)
    BY <1>11, <2>1, <2>2, ThreadFacts DEF HeldIn
  <2>4. ~InQueue(wire, p) /\ p \notin answered
    <3>1. ~InQueue(wire, p)
      BY <1>11, <2>1, <2>2 DEF HeldIn
    <3> QED
      BY <1>0, <3>1 DEF AnsweredSent
  <2>5. \A q \in Packets : (\E u \in Threads : issuing'[u] = q) <=> (\E u \in Threads : issuing[u] = q) /\ q # p
    BY <1>2, <1>5, <2>3, ThreadFacts
  <2>6. Uses(p)
    BY <1>2, <1>11 DEF Uses
  <2>7. Compact' /\ RuntimePut' = RuntimePut /\ answered' = answered
    BY <1>3, <1>11 DEF Compact, RuntimePut
  <2>8. CASE p \in RuntimePut
    <3>1. \A q \in Packets : Uses(q)' <=> Uses(q) /\ q # p
      BY <1>8, <1>9, <1>11, <2>3, <2>5, <2>7, <2>8 DEF Uses
    <3>2. p \notin AutoPm
      BY <1>0, <2>8, RuntimePutPackets
    <3> QED
      BY <1>0, <1>3, <2>6, <2>8, <3>1, <3>2, OneLess
  <2>9. CASE p \notin RuntimePut
    <3>1. \A q \in Packets : Uses(q)' <=> Uses(q)
      BY <1>8, <1>9, <1>11, <2>4, <2>5, <2>6, <2>7, <2>9 DEF Uses
    <3> QED
      BY <1>0, <1>3, <2>9, <3>1, SameUsers
  <2> QED
    BY <2>8, <2>9
<1> QED
  BY <1>10, <1>11

\* HIF refuses the packet: it returns to the head of the batch.
LEMMA HIFSendFailedBalance ==
    ASSUME PmInv, NEW t \in Threads, HIFSendFailed(t) PROVE Balance'
<1>0. PacketInv /\ Balance
  BY DEF PmInv
<1>1. pc[t] = "hifSend" /\ issuing[t] \in Packets
  BY <1>0 DEF HIFSendFailed, PacketInv, TypeInv, PacketInHand
<1>2. PICK p \in Packets : p = issuing[t]
  BY <1>1
<1>3. PICK b0 \in Seq(Packets) : b0 = sendQueue[t]
  BY <1>0, PlaceTypes
<1>4. /\ UNCHANGED <<endpoint, wire, answered, netbuf, result, pmUsage>> /\ Goto(t, "failBatch")
      /\ sendQueue' = [sendQueue EXCEPT ![t] = <<p>> \o b0]
      /\ issuing' = [issuing EXCEPT ![t] = NoPacket]
      /\ TxLookupQueue' = Without(TxLookupQueue, p)
  BY <1>2, <1>3 DEF HIFSendFailed, hifVars, tgtVars, cliVars, pmVars
<1>5. /\ sendQueue'[t] = <<p>> \o b0 /\ \A u \in Threads : u # t => sendQueue'[u] = sendQueue[u]
      /\ issuing'[t] = NoPacket /\ \A u \in Threads : u # t => issuing'[u] = issuing[u]
      /\ pc'[t] = "failBatch" /\ \A u \in Threads : u # t => pc'[u] = pc[u]
  <2>1. sendQueue'[t] = <<p>> \o b0 /\ \A u \in Threads : u # t => sendQueue'[u] = sendQueue[u]
    BY <1>0, <1>4, OtherThreads
  <2>2. issuing'[t] = NoPacket /\ \A u \in Threads : u # t => issuing'[u] = issuing[u]
    BY <1>0, <1>4, OtherThreads
  <2>3. pc'[t] = "failBatch" /\ \A u \in Threads : u # t => pc'[u] = pc[u]
    BY <1>0, <1>4, OtherThreads
  <2> QED
    BY <2>1, <2>2, <2>3
<1>6. \A q : InQueue(sendQueue'[t], q) <=> InQueue(sendQueue[t], q) \/ q = p
  <2>1. <<p>> \in Seq(Packets)
    OBVIOUS
  <2>2. \A q : InQueue(<<p>> \o b0, q) <=> InQueue(<<p>>, q) \/ InQueue(b0, q)
    BY <2>1, ConcatQueue
  <2>3. \A q : InQueue(<<p>>, q) <=> q = p
    BY SingleQueue
  <2> QED
    BY <1>3, <1>5, <2>2, <2>3, Zenon
<1>7. "failBatch" \in DrainLabels /\ "hifSend" \in DrainLabels
  BY DEF DrainLabels
<1>8. pc[Completer] = "complete" <=> pc'[Completer] = "complete"
  BY <1>1, <1>5, ThreadFacts
<1>9. ASSUME NEW q \in Packets PROVE Uses(q)' <=> Uses(q)
  <2>1. (\E u \in Threads : pc[u] \in DrainLabels /\ InQueue(sendQueue[u], q))'
        <=> (\E u \in Threads : pc[u] \in DrainLabels /\ InQueue(sendQueue[u], q)) \/ q = p
    BY <1>1, <1>5, <1>6, <1>7
  <2>2. CASE Compact
    <3>1. (\E u \in Threads : issuing[u] = q) <=> (\E u \in Threads : issuing'[u] = q) \/ q = p
      <4>1. \A u \in Threads : u # t => issuing[u] = issuing'[u]
        BY <1>5
      <4>2. q # NoPacket
        BY ThreadFacts
      <4> QED
        BY <1>2, <1>5, <4>1, <4>2
    <3> QED
      BY <1>4, <2>1, <2>2, <3>1 DEF Uses, Compact, RuntimePut
  <2>3. CASE ~Compact
    <3>1. PICK l0 \in Seq(Packets) : l0 = TxLookupQueue
      BY <1>0, PlaceTypes
    <3>2. NoRepeat(l0) /\ LookupOrder
      BY <1>0, <2>3, <3>1 DEF PacketInv, PlaceInv, NoRepeats
    <3>3. InQueue(Without(l0, p), q) <=> InQueue(l0, q) /\ q # p
      BY <3>2, WithoutQueue
    <3>4. InQueue(l0, p)
      <4>1. TxLookupQueue[Looked + OnWire + 1] = p
        BY <1>1, <1>2, <2>3, <3>2 DEF LookupOrder
      <4>2. Len(TxLookupQueue) = Looked + OnWire + 1
        BY <1>1, <2>3, <3>2 DEF LookupOrder
      <4>3. Looked + OnWire + 1 \in DOMAIN TxLookupQueue
        BY <1>0, <4>2, OrderTypes
      <4> QED
        BY <3>1, <4>1, <4>3 DEF InQueue
    <3>5. InQueue(TxLookupQueue, q) <=> InQueue(TxLookupQueue', q) \/ q = p
      BY <1>4, <3>1, <3>3, <3>4
    <3> QED
      BY <1>4, <1>8, <2>1, <2>3, <3>5 DEF Uses, Compact
  <2> QED
    BY <2>2, <2>3
<1> QED
  BY <1>0, <1>4, <1>9, SameUsers

\* A refused packet is completed with a put.
LEMMA FailPacketBalance ==
    ASSUME PmInv, NEW t \in Threads, FailPacket(t) PROVE Balance'
<1>0. PacketInv /\ Balance
  BY DEF PmInv
<1>1. pc[t] = "failBatch" /\ sendQueue[t] # <<>> /\ issuing[t] = NoPacket /\ t \in Owners
  BY <1>0, ThreadFacts DEF FailPacket, PacketInv, PlaceInv, LocalsFree
<1>2. PICK b0 \in Seq(Packets) : b0 = sendQueue[t]
  BY <1>0, PlaceTypes
<1>3. PICK p \in Packets : p = Head(b0)
  BY <1>1, <1>2
<1>4. /\ UNCHANGED <<endpoint, wire, answered, pc, netbuf, TxLookupQueue, issuing>> /\ pmUsage' = PmPut(pmUsage)
      /\ sendQueue' = [sendQueue EXCEPT ![t] = Tail(b0)] /\ SendPacketCompletion({p}, "error")
  BY <1>2, <1>3 DEF FailPacket, epVars, hifVars, tgtVars
<1>5. sendQueue'[t] = Tail(b0) /\ \A u \in Threads : u # t => sendQueue'[u] = sendQueue[u]
  BY <1>0, <1>4, OtherThreads
<1>6. NoRepeat(b0)
  BY <1>0, <1>2 DEF PacketInv, PlaceInv, NoRepeats
<1>7. InQueue(b0, p) /\ \A q : InQueue(Tail(b0), q) <=> InQueue(b0, q) /\ q # p
  BY <1>1, <1>2, <1>3, <1>6, TailQueue
<1>8. \A q : InQueue(sendQueue'[t], q) <=> InQueue(sendQueue[t], q) /\ q # p
  BY <1>2, <1>5, <1>7, Zenon
<1>9. HeldIn("batch", t, p) /\ "batch" \in Names /\ Counted
  BY <1>0, <1>2, <1>7 DEF HeldIn, Names, PacketInv, PlaceInv
<1>10. /\ \A k \in Names, v \in Owners : HeldIn(k, v, p) => k = "batch" /\ v = t
       /\ result[p] = "none"
  BY <1>1, <1>9, HeldOnce
<1>11. "failBatch" \in DrainLabels
  BY DEF DrainLabels
<1>12. Uses(p)
  BY <1>1, <1>2, <1>7, <1>11 DEF Uses
<1>13. /\ Compact => (\A u \in Threads : issuing[u] # p) /\ ~InQueue(wire, p)
       /\ ~Compact => ~InQueue(TxLookupQueue, p) /\ ~(pc[Completer] = "complete" /\ netbuf = p)
       /\ \A u \in Threads : InQueue(sendQueue[u], p) => u = t
  BY <1>10, ThreadFacts DEF HeldIn, Names
<1>14. ASSUME NEW q \in Packets PROVE Uses(q)' <=> Uses(q) /\ q # p
  <2>1. (\E u \in Threads : pc[u] \in DrainLabels /\ InQueue(sendQueue[u], q))'
        <=> (\E u \in Threads : pc[u] \in DrainLabels /\ InQueue(sendQueue[u], q)) /\ q # p
    BY <1>4, <1>5, <1>8, <1>13
  <2> QED
    BY <1>4, <1>13, <2>1 DEF Uses, Compact, RuntimePut, InQueue
<1>15. CASE p \in AutoPm
  <2>1. \A q \in Packets : result'[q] = IF q = p THEN "error" ELSE result[q]
    BY <1>4, <1>10 DEF SendPacketCompletion
  <2> QED
    BY <1>0, <1>4, <1>10, <1>14, <1>15, <2>1, AutoPmPackets, OneSpoilt
<1>16. CASE p \notin AutoPm
  <2>1. \A q \in AutoPm : result'[q] = "error" <=> result[q] = "error"
    <3>1. \A q \in Packets \cap {p} : \E m \in Names, u \in Owners : HeldIn(m, u, q)
      BY <1>1, <1>9
    <3> QED
      BY <1>0, <1>4, <1>16, <3>1, ErrorStays
  <2> QED
    BY <1>0, <1>4, <1>12, <1>14, <1>16, <2>1, OneLess
<1> QED
  BY <1>15, <1>16

\* The target answers an HTT request, whose reference goes.
LEMMA ResponseBalance ==
    ASSUME PmInv, SentInv, NEW p \in Packets, HttResponse(p) PROVE Balance' /\ AnsweredSent'
<1>0. PacketInv /\ Balance /\ AnsweredSent
  BY DEF PmInv
<1>1. /\ UNCHANGED <<endpoint, wire, pc, netbuf, TxLookupQueue, issuing, sendQueue, result>>
      /\ pmUsage' = PmPut(pmUsage) /\ answered' = answered \cup {p}
      /\ Compact /\ p \notin RuntimePut /\ p \notin AutoPm /\ p \notin answered
  BY DEF HttResponse, Answerable, epVars, thVars, hifVars, cliVars
<1>2. InQueue(wire, p)
  <2>1. PICK i \in 1..tgtDone : wire[i] = p
    BY DEF HttResponse, Answerable
  <2>2. i \in DOMAIN wire
    BY <1>0, PlaceTypes DEF SentInv, PacketInv, TypeInv, TypeOK, TargetTypeOK
  <2> QED
    BY <2>1, <2>2 DEF InQueue
<1>3. /\ HeldIn("wire", NoThread, p) /\ {"wire", "issuing", "batch"} \subseteq Names
      /\ NoThread \in Owners /\ Threads \subseteq Owners /\ NoThread \notin Threads
  BY <1>1, <1>2, ThreadFacts DEF HeldIn, Names
<1>4. \A k \in Names, v \in Owners : HeldIn(k, v, p) => k = "wire"
  BY <1>0, <1>3, HeldOnce DEF PacketInv, PlaceInv
<1>5. \A u \in Threads : issuing[u] # p /\ ~InQueue(sendQueue[u], p)
  BY <1>1, <1>3, <1>4 DEF HeldIn
<1>6. \A q \in Packets : Uses(q)' <=> Uses(q) /\ q # p
  BY <1>1, <1>5 DEF Uses, Compact, RuntimePut, InQueue
<1>7. Uses(p)
  BY <1>1, <1>2 DEF Uses
<1>8. Balance'
  BY <1>0, <1>1, <1>6, <1>7, OneLess
<1>9. AnsweredSent'
  BY <1>0, <1>1, <1>2 DEF AnsweredSent, Compact, InQueue
<1> QED
  BY <1>8, <1>9

\* The lookup takes the packet out of TxLookupQueue for its completion.
LEMMA LookupBalance ==
    ASSUME PmInv, HTCLookupTxPacket PROVE Balance'
<1>0. PacketInv /\ Balance
  BY DEF PmInv
<1>1. /\ pc[Completer] = "lookup" /\ TxLookupQueue' = Without(TxLookupQueue, netbuf)
      /\ Goto(Completer, IF Contains(TxLookupQueue, netbuf) THEN "complete" ELSE "notFound")
      /\ UNCHANGED <<endpoint, wire, answered, sendQueue, issuing, netbuf, result, pmUsage>>
  BY DEF HTCLookupTxPacket, thVars, hifVars, tgtVars, cliVars, pmVars
<1>2. LookupOrder /\ ~Compact
  BY <1>0, <1>1 DEF PacketInv, PlaceInv, LookupOrder
<1>3. PICK q0 \in Seq(Packets) : q0 = TxLookupQueue
  BY <1>0, PlaceTypes
<1>4. q0 # <<>> /\ q0[1] = netbuf /\ 1 \in DOMAIN q0 /\ 1 \in 1..Len(q0) /\ NoRepeat(q0)
  BY <1>0, <1>1, <1>2, <1>3 DEF LookupOrder, PacketInv, PlaceInv, NoRepeats
<1>5. PICK p \in Packets : p = netbuf /\ p = q0[1]
  BY <1>4
<1>6. Contains(TxLookupQueue, netbuf)
  BY <1>3, <1>4 DEF Contains
<1>7. /\ pc'[Completer] = "complete" /\ Completer \in Threads
      /\ \A u \in Threads : u # Completer => pc'[u] = pc[u]
  <2>1. pc'[Completer] = "complete" /\ Completer \in Threads
    BY <1>0, <1>1, <1>6, ThreadFacts, OtherThreads
  <2>2. \A u \in Threads : u # Completer => pc'[u] = pc[u]
    BY <1>0, <1>1, <1>6, ThreadFacts, OtherThreads
  <2> QED
    BY <2>1, <2>2
<1>8. \A q : InQueue(Without(q0, p), q) <=> InQueue(q0, q) /\ q # p
  BY <1>4, WithoutQueue
<1>9. \A q : InQueue(TxLookupQueue, q) <=> InQueue(TxLookupQueue', q) \/ q = p
  <2>1. InQueue(q0, p)
    BY <1>4, <1>5 DEF InQueue
  <2> QED
    BY <1>1, <1>3, <1>5, <1>8, <2>1
<1>10. pc'[Completer] \notin DrainLabels /\ pc[Completer] \notin DrainLabels
  BY <1>1, <1>7 DEF DrainLabels
<1>11. ASSUME NEW q \in Packets PROVE Uses(q)' <=> Uses(q)
  <2>1. (\E u \in Threads : pc[u] \in DrainLabels /\ InQueue(sendQueue[u], q))'
        <=> (\E u \in Threads : pc[u] \in DrainLabels /\ InQueue(sendQueue[u], q))
    BY <1>1, <1>7, <1>10
  <2> QED
    BY <1>1, <1>2, <1>5, <1>7, <1>9, <2>1 DEF Uses, Compact
<1> QED
  BY <1>0, <1>1, <1>11, SameUsers

\* HTCTxCompletionHandler puts the reference of an ordinary packet.
LEMMA HandlerBalance ==
    ASSUME PmInv, HTCTxCompletionHandler PROVE Balance'
<1>0. PacketInv /\ Balance
  BY DEF PmInv
<1>1. PICK label \in {"recycle", "readResources"} : Goto(Completer, label)
  BY DEF HTCTxCompletionHandler
<1>2. /\ UNCHANGED <<endpoint, TxLookupQueue, sendQueue, issuing, netbuf>>
      /\ pc[Completer] \in {"complete", "notFound"}
  BY DEF HTCTxCompletionHandler, epVars, thVars, tgtVars
<1>3. /\ pc'[Completer] = label /\ \A u \in Threads : u # Completer => pc'[u] = pc[u]
      /\ Completer \in Threads
  BY <1>0, <1>1, OtherThreads, ThreadFacts
<1>4. pc'[Completer] \notin DrainLabels /\ pc[Completer] \notin DrainLabels
  BY <1>2, <1>3 DEF DrainLabels
<1>5. ~Compact /\ netbuf \in Packets
  <2>1. netbuf # NoPacket
    BY <1>0, <1>2 DEF PacketInv, CompleterHolds
  <2> QED
    BY <1>0, <1>2, <2>1, PlaceTypes DEF PacketInv, PlaceInv, LookupOrder
<1>6. PICK p \in Packets : p = netbuf
  BY <1>5
<1>7. \A q : (\E u \in Threads : pc[u] \in DrainLabels /\ InQueue(sendQueue[u], q))'
             <=> (\E u \in Threads : pc[u] \in DrainLabels /\ InQueue(sendQueue[u], q))
  BY <1>2, <1>3, <1>4
<1>8. \A q : Uses(q)' <=> InQueue(TxLookupQueue, q)
                          \/ \E u \in Threads : pc[u] \in DrainLabels /\ InQueue(sendQueue[u], q)
  BY <1>2, <1>3, <1>5, <1>7 DEF Uses, Compact
<1>9. CASE pc[Completer] = "notFound"
  <2>1. SendPacketCompletion({}, "ok") /\ UNCHANGED pmUsage
    BY <1>9 DEF HTCTxCompletionHandler
  <2>2. \A q \in Packets : result'[q] = result[q]
    BY <2>1 DEF SendPacketCompletion
  <2>3. \A q \in Packets : Uses(q)' <=> Uses(q)
    BY <1>5, <1>8, <1>9 DEF Uses
  <2> QED
    BY <1>0, <1>2, <2>1, <2>2, <2>3, SameUsers, AutoPmPackets
<1>10. CASE pc[Completer] = "complete"
  <2>1. SendPacketCompletion({p}, "ok") /\ pmUsage' = IF p \notin AutoPm THEN PmPut(pmUsage) ELSE pmUsage
    BY <1>6, <1>10 DEF HTCTxCompletionHandler
  <2>2. HeldIn("done", NoThread, p) /\ "done" \in Names /\ NoThread \in Owners /\ Counted
    BY <1>0, <1>5, <1>6, <1>10, ThreadFacts DEF HeldIn, Names, PacketInv, PlaceInv
  <2>3. \A k \in Names, v \in Owners : HeldIn(k, v, p) => k = "done"
    BY <2>2, HeldOnce
  <2>4. \A q \in AutoPm : result'[q] = "error" <=> result[q] = "error"
    <3>1. \A q \in Packets \cap {p} : \E m \in Names, u \in Owners : HeldIn(m, u, q)
      BY <2>2
    <3> QED
      BY <1>0, <2>1, <3>1, ErrorStays
  <2>5. ~InQueue(TxLookupQueue, p) /\ \A u \in Threads : ~InQueue(sendQueue[u], p)
    BY <1>5, <2>3, ThreadFacts DEF HeldIn, Names
  <2>6. \A q \in Packets : Uses(q)' <=> Uses(q) /\ q # p
    BY <1>5, <1>6, <1>8, <1>10, <2>5 DEF Uses
  <2>7. Uses(p)
    BY <1>5, <1>6, <1>10 DEF Uses
  <2>8. CASE p \in AutoPm
    BY <1>0, <1>2, <2>1, <2>4, <2>6, <2>8, SameUsers
  <2>9. CASE p \notin AutoPm
    BY <1>0, <1>2, <2>1, <2>4, <2>6, <2>7, <2>9, OneLess
  <2> QED
    BY <2>8, <2>9
<1> QED
  BY <1>2, <1>9, <1>10

----------------------------------------------------------------------------
(* The steps that leave the packets in use alone                           *)

\* A thread outside the drain section gets or passes on a packet.
LEMMA OutsideBalance ==
    ASSUME PmInv, NEW t \in Threads,
           (\E p \in Packets : t \in Senders /\ HTCSendPkt(t, p)) \/ AddDepth(t) \/ SendFull(t)
    PROVE  Balance'
<1>0. PacketInv /\ Balance
  BY DEF PmInv
<1>1. PICK label \in {"readResources", "testDepth", "sendFull", "return"} : Goto(t, label)
  BY DEF HTCSendPkt, AddDepth, SendFull
<1>2. /\ pc[t] \in {"idle", "addDepth", "sendFull"}
      /\ UNCHANGED <<endpoint, TxLookupQueue, issuing, wire, answered, netbuf, pmUsage, result>>
  BY DEF HTCSendPkt, AddDepth, SendFull, epVars, hifVars, tgtVars, pmVars, cliVars
<1>3. \A u \in Threads : u # t => sendQueue'[u] = sendQueue[u]
  <2>1. \/ UNCHANGED sendQueue
        \/ \E x : sendQueue' = [sendQueue EXCEPT ![t] = x]
    BY DEF HTCSendPkt, AddDepth, SendFull
  <2> QED
    BY <1>0, <2>1, OtherThreads
<1>4. pc[t] \notin DrainLabels /\ label \notin DrainLabels
  BY <1>2 DEF DrainLabels
<1>5. \A q \in Packets : Uses(q)' <=> Uses(q)
  BY <1>0, <1>1, <1>2, <1>3, <1>4, MoveUses
<1> QED
  BY <1>0, <1>2, <1>5, SameUsers

\* A thread goes on with its batch as it is.
LEMMA QuietBalance ==
    ASSUME PmInv, NEW t \in Threads,
           \/ TestDepth(t) \/ ReadResources(t) \/ Relock(t) \/ BeginPass(t) \/ EndDrain(t) \/ EndIssue(t)
           \/ GetHTCAutoPmSendPackets(t) \/ EndPass(t)
           \/ (t = Completer /\ (SendDone \/ Recycle \/ HTCProcessCreditRpt))
           \/ (t = Resumer /\ HTCTxResumeAllHandler)
    PROVE  Balance'
<1>0. PacketInv /\ Balance /\ LocalsFree
  BY DEF PmInv, PacketInv, PlaceInv
<1>1. /\ UNCHANGED <<endpoint, TxLookupQueue, issuing, wire, answered, pmUsage, result, sendQueue>>
      /\ netbuf' = netbuf \/ t = Completer
  <2>1. CASE TestDepth(t) \/ ReadResources(t) \/ Relock(t) \/ BeginPass(t) \/ EndDrain(t) \/ EndIssue(t)
    BY <2>1 DEF TestDepth, ReadResources, Relock, BeginPass, EndDrain, EndIssue,
                epVars, thVars, hifVars, tgtVars, pmVars, cliVars
  <2>2. CASE GetHTCAutoPmSendPackets(t) \/ EndPass(t)
    BY <2>2 DEF GetHTCAutoPmSendPackets, EndPass, thVars, hifVars, tgtVars, pmVars, cliVars
  <2>3. CASE \/ t = Completer /\ (SendDone \/ Recycle \/ HTCProcessCreditRpt)
             \/ t = Resumer /\ HTCTxResumeAllHandler
    BY <2>3 DEF SendDone, Recycle, HTCProcessCreditRpt, HTCTxResumeAllHandler,
                epVars, thVars, hifVars, tgtVars, pmVars, cliVars
  <2> QED
    BY <2>1, <2>2, <2>3
<1>2. PICK label : /\ Goto(t, label) /\ pc[t] # "complete" /\ label # "complete"
                   /\ (pc[t] \in DrainLabels <=> label \in DrainLabels) \/ sendQueue[t] = <<>>
  <2>1. CASE TestDepth(t) \/ ReadResources(t) \/ Relock(t) \/ BeginPass(t)
    <3>1. PICK label : /\ Goto(t, label)
                       /\ \/ pc[t] = "testDepth" /\ label \in {"sendFull", "addDepth"}
                          \/ pc[t] = "readResources" /\ label = "enter"
                          \/ pc[t] = "rereadResources" /\ label = "relock"
                          \/ pc[t] = "relock" /\ label = "drain"
                          \/ pc[t] = "drain" /\ label \in {"pull", "get"}
      BY <2>1 DEF TestDepth, ReadResources, Relock, BeginPass
    <3> QED
      BY <3>1 DEF DrainLabels
  <2>2. CASE EndDrain(t) \/ EndIssue(t) \/ GetHTCAutoPmSendPackets(t) \/ EndPass(t)
    <3>1. PICK label : /\ Goto(t, label)
                       /\ \/ pc[t] = "drain" /\ label = "return"
                          \/ pc[t] \in {"issue", "failBatch"} /\ label = "rereadResources"
                          \/ pc[t] = "pull" /\ label \in {"pull", "get"}
                          \/ pc[t] = "get" /\ label = "return" /\ sendQueue[t] = <<>>
                          \/ pc[t] = "get" /\ label = "issue"
      BY <2>2 DEF EndDrain, EndIssue, GetHTCAutoPmSendPackets, EndPass
    <3>2. pc[t] = "drain" => sendQueue[t] = <<>>
      BY <1>0 DEF LocalsFree
    <3> QED
      BY <3>1, <3>2 DEF DrainLabels
  <2>3. CASE \/ t = Completer /\ (SendDone \/ Recycle \/ HTCProcessCreditRpt)
             \/ t = Resumer /\ HTCTxResumeAllHandler
    <3>1. PICK label : /\ Goto(t, label) /\ pc[t] \in {"idle", "recycle"}
                       /\ label \in {"lookup", "idle", "readResources"}
      BY <2>3 DEF SendDone, Recycle, HTCProcessCreditRpt, HTCTxResumeAllHandler
    <3> QED
      BY <3>1 DEF DrainLabels
  <2> QED
    BY <2>1, <2>2, <2>3
<1>3. \A q \in Packets : (pc[t] \in DrainLabels /\ InQueue(sendQueue[t], q))
                         <=> (label \in DrainLabels /\ InQueue(sendQueue'[t], q))
  BY <1>1, <1>2 DEF InQueue
<1>4. \A q \in Packets : Uses(q)' <=> Uses(q)
  BY <1>0, <1>1, <1>2, <1>3, MoveUses
<1> QED
  BY <1>0, <1>1, <1>4, SameUsers

\* A thread enters with its packets in TxQueue, or returns with no batch.
LEMMA EnterBalance ==
    ASSUME PmInv, NEW t \in Threads, Enter(t) PROVE Balance'
<1>0. PacketInv /\ Balance
  BY DEF PmInv
<1>1. PICK label \in {"return", "drain"} : Goto(t, label)
  BY DEF Enter
<1>2. /\ pc[t] = "enter" /\ sendQueue' = [sendQueue EXCEPT ![t] = <<>>]
      /\ UNCHANGED <<endpoint, TxLookupQueue, issuing, wire, answered, netbuf, pmUsage, result>>
  BY DEF Enter, hifVars, tgtVars, pmVars, cliVars
<1>3. sendQueue'[t] = <<>> /\ \A u \in Threads : u # t => sendQueue'[u] = sendQueue[u]
  BY <1>0, <1>2, OtherThreads
<1>4. pc[t] \notin DrainLabels /\ \A q : ~InQueue(sendQueue'[t], q)
  BY <1>2, <1>3 DEF DrainLabels, InQueue
<1>5. \A q \in Packets : Uses(q)' <=> Uses(q)
  BY <1>0, <1>1, <1>2, <1>3, <1>4, MoveUses
<1> QED
  BY <1>0, <1>2, <1>5, SameUsers

\* Return gives back a packet that was never in use.
LEMMA ReturnBalance ==
    ASSUME PmInv, NEW t \in Threads, Return(t) PROVE Balance'
<1>0. PacketInv /\ Balance
  BY DEF PmInv
<1>1. PICK label \in {"recycle", "idle"} : Goto(t, label)
  BY DEF Return
<1>2. /\ pc[t] = "return" /\ SendPacketCompletion({callersQueue[t]} \ {NoPacket}, "no_resource")
      /\ UNCHANGED <<endpoint, TxLookupQueue, issuing, wire, answered, netbuf, pmUsage, sendQueue>>
  BY DEF Return, epVars, hifVars, tgtVars, pmVars
<1>3. pc[t] \notin DrainLabels /\ label \notin DrainLabels
  BY <1>2 DEF DrainLabels
<1>4. \A q \in Packets : Uses(q)' <=> Uses(q)
  BY <1>0, <1>1, <1>2, <1>3, MoveUses
<1>5. \A q \in Packets \cap ({callersQueue[t]} \ {NoPacket}) : \E m \in Names, u \in Owners : HeldIn(m, u, q)
  <2>1. "caller" \in Names /\ t \in Owners
    BY ThreadFacts DEF Names
  <2>2. \A q : callersQueue[t] = q => HeldIn("caller", t, q)
    BY DEF HeldIn
  <2> QED
    BY <2>1, <2>2
<1> QED
  BY <1>0, <1>2, <1>4, <1>5, ErrorStays, SameUsers

\* A flush gives back packets of TxQueue, which are not in use.
LEMMA FlushBalance ==
    ASSUME PmInv, HTCFlushEndpoint PROVE Balance'
<1>0. PacketInv /\ Balance
  BY DEF PmInv
<1>1. /\ SendPacketCompletion(ToSet(TxQueue), "canceled")
      /\ UNCHANGED <<endpoint, TxLookupQueue, issuing, wire, answered, netbuf, pmUsage, sendQueue, pc>>
  BY DEF HTCFlushEndpoint, Flushed, thVars, hifVars, tgtVars, pmVars
<1>2. \A q \in Packets \cap ToSet(TxQueue) : \E m \in Names, u \in Owners : HeldIn(m, u, q)
  <2>1. "queue" \in Names /\ NoThread \in Owners
    BY ThreadFacts DEF Names
  <2>2. \A q \in ToSet(TxQueue) : HeldIn("queue", NoThread, q)
    BY DEF HeldIn, ToSet, InQueue
  <2> QED
    BY <2>1, <2>2
<1>3. \A q : Uses(q)' <=> Uses(q)
  BY <1>1, RestUses
<1> QED
  BY <1>0, <1>1, <1>2, <1>3, ErrorStays, SameUsers

\* Every step keeps the balance.
LEMMA BalanceStep == PmInv /\ SentInv /\ [Next]_vars => Balance'
<1> SUFFICES ASSUME PmInv, SentInv, [Next]_vars PROVE Balance'
  OBVIOUS
<1>1. CASE \E t \in Senders, p \in Packets : HTCSendPkt(t, p)
  BY <1>1, OutsideBalance, ThreadFacts
<1>2. CASE \E t \in Threads : HTCTrySend(t)
  BY <1>2, OutsideBalance, QuietBalance, EnterBalance, TakeBalance, StartIssueBalance, HIFSendBalance,
     HIFSendFailedBalance, FailPacketBalance, ReturnBalance DEF HTCTrySend
<1>3. CASE SendDone \/ Recycle \/ HTCProcessCreditRpt \/ HTCTxResumeAllHandler
  BY <1>3, QuietBalance, ThreadFacts
<1>4. CASE HTCLookupTxPacket \/ HTCTxCompletionHandler \/ HTCFlushEndpoint
  BY <1>4, LookupBalance, HandlerBalance, FlushBalance
<1>5. CASE \/ SwallowCompletion \/ TargetConsume \/ TargetReport \/ PmCoreSuspend \/ RuntimeSuspend
           \/ RuntimeResume \/ UNCHANGED vars
  <2>1. UNCHANGED <<endpoint, TxLookupQueue, issuing, wire, answered, netbuf, pmUsage, sendQueue, pc, result>>
    BY <1>5 DEF SwallowCompletion, TargetConsume, TargetReport, PmCoreSuspend, RuntimeSuspend, RuntimeResume,
                SetPm, vars, epVars, thVars, hifVars, tgtVars, pmVars, cliVars
  <2>2. Balance /\ \A q : Uses(q)' <=> Uses(q)
    BY <2>1, RestUses DEF PmInv
  <2> QED
    BY <2>1, <2>2, SameUsers
<1> QED
  BY <1>1, <1>2, <1>3, <1>4, <1>5, ResponseBalance DEF Next, Completion

\* What the target has answered stays on the wire.
LEMMA AnswersStep == PmInv /\ SentInv /\ [Next]_vars => AnsweredSent'
<1> SUFFICES ASSUME PmInv, SentInv, [Next]_vars PROVE AnsweredSent'
  OBVIOUS
<1>0. PacketInv /\ AnsweredSent
  BY DEF PmInv
<1>1. ASSUME UNCHANGED <<endpoint, wire, answered>> PROVE AnsweredSent'
  BY <1>0, <1>1 DEF AnsweredSent, Compact, InQueue
<1>2. ASSUME NEW t \in Threads, HIFSend(t) PROVE AnsweredSent'
  <2>1. PICK w \in Seq(Packets) : w = wire
    BY <1>0, PlaceTypes
  <2>2. issuing[t] \in Packets
    BY <1>0, <1>2 DEF HIFSend, PacketInv, TypeInv, PacketInHand
  <2>3. wire' = Append(w, issuing[t]) /\ UNCHANGED <<endpoint, answered>>
    BY <1>2, <2>1 DEF HIFSend, tgtVars
  <2>4. \A q : InQueue(wire, q) => InQueue(wire', q)
    BY <2>1, <2>2, <2>3, AppendQueue
  <2> QED
    BY <1>0, <2>3, <2>4 DEF AnsweredSent, Compact
<1>3. ASSUME NEW t \in Threads,
             \/ TestDepth(t) \/ AddDepth(t) \/ SendFull(t) \/ ReadResources(t) \/ Enter(t) \/ Relock(t)
             \/ BeginPass(t) \/ GetHTCAutoPmSendPackets(t) \/ TakePacket(t) \/ EndPass(t) \/ EndDrain(t)
      PROVE  UNCHANGED <<endpoint, wire, answered>>
  BY <1>3 DEF TestDepth, AddDepth, SendFull, ReadResources, Enter, Relock, BeginPass, GetHTCAutoPmSendPackets,
              TakePacket, EndPass, EndDrain, hifVars, tgtVars
<1>4. ASSUME NEW t \in Threads,
             StartIssue(t) \/ HIFSendFailed(t) \/ FailPacket(t) \/ EndIssue(t) \/ Return(t)
      PROVE  UNCHANGED <<endpoint, wire, answered>>
  BY <1>4 DEF StartIssue, HIFSendFailed, FailPacket, EndIssue, Return, hifVars, tgtVars
<1>5. CASE \E t \in Threads : HTCTrySend(t)
  BY <1>1, <1>2, <1>3, <1>4, <1>5 DEF HTCTrySend
<1>6. CASE Completion \/ HTCFlushEndpoint
  <2>1. UNCHANGED <<endpoint, wire, answered>>
    BY <1>6 DEF Completion, SwallowCompletion, SendDone, HTCLookupTxPacket, HTCTxCompletionHandler, Recycle,
                HTCProcessCreditRpt, HTCFlushEndpoint, hifVars, tgtVars
  <2> QED
    BY <1>1, <2>1
<1>7. CASE \/ (\E t \in Senders, p \in Packets : HTCSendPkt(t, p)) \/ TargetConsume \/ TargetReport
           \/ PmCoreSuspend \/ RuntimeSuspend \/ RuntimeResume \/ HTCTxResumeAllHandler \/ UNCHANGED vars
  <2>1. UNCHANGED <<endpoint, wire, answered>>
    BY <1>7 DEF HTCSendPkt, TargetConsume, TargetReport, PmCoreSuspend, RuntimeSuspend, RuntimeResume,
                HTCTxResumeAllHandler, SetPm, vars, hifVars, tgtVars
  <2> QED
    BY <1>1, <2>1
<1> QED
  BY <1>5, <1>6, <1>7, ResponseBalance DEF Next

----------------------------------------------------------------------------
(* What a pass takes from                                                  *)

Locked == {"drain", "pull", "get"}

\* A step that leaves TxQueue, tempQueue and the lock alone and takes nobody into the locked section.
LEMMA PassKept ==
    ASSUME PmInv, UNCHANGED <<endpoint, lock, TxQueue, tempQueue, autoPMQueue>>,
           \A u \in Threads : pc'[u] = pc[u] \/ pc'[u] \notin Locked
    PROVE  PassInv'
<1>1. PassInv
  BY DEF PmInv
<1>2. LockHeld'
  BY <1>1 DEF PassInv, LockHeld, Locked
<1>3. ASSUME NEW u \in Threads
      PROVE  /\ pc'[u] = "get" /\ ~autoPMQueue'[u] => \A q \in AutoPm' : ~InQueue(TxQueue', q)
             /\ \A q : InQueue(tempQueue'[u], q) => q \in AutoPm'
  BY <1>1 DEF PassInv, Locked, AutoPm
<1> QED
  BY <1>2, <1>3 DEF PassInv

\* A step under the lock, or one that takes the lock, moves one thread; the others are outside.
LEMMA PassMoved ==
    ASSUME PmInv, UNCHANGED endpoint, NEW t \in Threads, NEW label, Goto(t, label),
           lock \in {t, NoThread}, label \in Locked => lock' = t,
           \A u \in Threads : u # t => tempQueue'[u] = tempQueue[u] /\ autoPMQueue'[u] = autoPMQueue[u],
           label = "get" /\ ~autoPMQueue'[t] => \A q \in AutoPm : ~InQueue(TxQueue', q),
           \A q : InQueue(tempQueue'[t], q) => q \in AutoPm
    PROVE  PassInv'
<1>1. PassInv /\ PacketInv
  BY DEF PmInv
<1>2. pc'[t] = label /\ \A u \in Threads : u # t => pc'[u] = pc[u]
  BY <1>1, OtherThreads
<1>3. \A u \in Threads : u # t => pc[u] \notin Locked
  BY <1>1, ThreadFacts DEF PassInv, LockHeld, Locked
<1>4. LockHeld'
  BY <1>2, <1>3 DEF LockHeld, Locked
<1>5. ASSUME NEW u \in Threads
      PROVE  /\ pc'[u] = "get" /\ ~autoPMQueue'[u] => \A q \in AutoPm' : ~InQueue(TxQueue', q)
             /\ \A q : InQueue(tempQueue'[u], q) => q \in AutoPm'
  BY <1>1, <1>2, <1>3 DEF PassInv, Locked, AutoPm
<1> QED
  BY <1>4, <1>5 DEF PassInv

\* The pass over the AUTO_PM packets, and the one over the others.
LEMMA PassTaken ==
    ASSUME PmInv, NEW t \in Threads, GetHTCAutoPmSendPackets(t) \/ TakePacket(t) PROVE PassInv'
<1>0. PassInv /\ PacketInv /\ t \in Owners
  BY ThreadFacts DEF PmInv
<1>1. pc[t] \in {"pull", "get"} /\ lock = t /\ UNCHANGED <<endpoint, lock, autoPMQueue>>
  BY <1>0 DEF GetHTCAutoPmSendPackets, TakePacket, PassInv, LockHeld, tgtVars
<1>2. PICK m0 \in Seq(Packets) : m0 = tempQueue[t]
  BY <1>0, PlaceTypes
<1>3. PICK q0 \in Seq(Packets) : q0 = TxQueue
  BY <1>0, PlaceTypes
<1>4. \A q : InQueue(m0, q) => q \in AutoPm
  BY <1>0, <1>2 DEF PassInv
<1>5. CASE GetHTCAutoPmSendPackets(t)
  <2>1. PICK i \in AutoPmAt :
            /\ \A k \in AutoPmAt : i <= k
            /\ TxQueue' = RemoveAt(TxQueue, i)
            /\ tempQueue' = [tempQueue EXCEPT ![t] = Append(@, TxQueue[i])]
            /\ Goto(t, IF \E j \in AutoPmAt : j # i THEN "pull" ELSE "get")
    <3>1. AutoPmAt \in SUBSET Nat /\ AutoPmAt # {}
      BY <1>0, <1>5, PlaceTypes DEF GetHTCAutoPmSendPackets, AutoPmAt
    <3>2. \E j \in AutoPmAt : \A k \in AutoPmAt : j <= k
      BY <3>1, LeastNatural
    <3> QED
      BY <1>5, <3>2 DEF GetHTCAutoPmSendPackets
  <2>2. i \in DOMAIN q0 /\ q0[i] \in AutoPm /\ q0[i] \in Packets
    BY <1>3, <2>1 DEF AutoPmAt
  <2>3. tempQueue' = [tempQueue EXCEPT ![t] = Append(m0, q0[i])]
    BY <1>2, <1>3, <2>1
  <2>4. tempQueue'[t] = Append(m0, q0[i]) /\ \A u \in Threads : u # t => tempQueue'[u] = tempQueue[u]
    BY <1>0, <2>3, OtherThreads
  <2>5. \A q : InQueue(tempQueue'[t], q) => q \in AutoPm
    <3>1. \A q : InQueue(Append(m0, q0[i]), q) <=> InQueue(m0, q) \/ q = q0[i]
      BY <2>2, AppendQueue
    <3> QED
      BY <1>4, <2>2, <2>4, <3>1
  <2>6. ASSUME ~\E j \in AutoPmAt : j # i PROVE \A q \in AutoPm : ~InQueue(TxQueue', q)
    <3>1. NoRepeat(q0)
      BY <1>0, <1>3 DEF PacketInv, PlaceInv, NoRepeats
    <3>2. \A q : InQueue(RemoveAt(q0, i), q) <=> InQueue(q0, q) /\ q # q0[i]
      BY <2>2, <3>1, RemoveAtQueue
    <3>3. \A q \in AutoPm : InQueue(q0, q) => q = q0[i]
      BY <1>3, <2>6 DEF AutoPmAt, InQueue
    <3> QED
      BY <1>3, <2>1, <3>2, <3>3
  <2>7. PICK label \in {"pull", "get"} :
            Goto(t, label) /\ (label = "get" => ~\E j \in AutoPmAt : j # i)
    BY <2>1
  <2> QED
    BY <1>1, <2>4, <2>5, <2>6, <2>7, PassMoved
<1>6. CASE TakePacket(t)
  <2>1. pc[t] = "get" /\ PassQueue(t) # <<>> /\ Goto(t, "get") /\ autoPMQueue[t] \in BOOLEAN
    BY <1>0, <1>6, PlaceTypes DEF TakePacket, CanTake, Goto, PacketInv, TypeInv, TypeOK, ThreadTypeOK
  <2>2. NoRepeat(m0) /\ NoRepeat(q0)
    BY <1>0, <1>2, <1>3 DEF PacketInv, PlaceInv, NoRepeats
  <2>3. CASE autoPMQueue[t]
    <3>1. m0 # <<>> /\ UNCHANGED TxQueue /\ tempQueue' = [tempQueue EXCEPT ![t] = Tail(m0)]
      BY <1>2, <1>6, <2>1, <2>3 DEF TakePacket, PassQueue
    <3>2. tempQueue'[t] = Tail(m0) /\ \A u \in Threads : u # t => tempQueue'[u] = tempQueue[u]
      BY <1>0, <3>1, OtherThreads
    <3>3. \A q : InQueue(Tail(m0), q) <=> InQueue(m0, q) /\ q # Head(m0)
      BY <2>2, <3>1, TailQueue
    <3>4. \A q : InQueue(tempQueue'[t], q) => q \in AutoPm
      BY <1>4, <3>2, <3>3
    <3> QED
      BY <1>1, <2>1, <2>3, <3>2, <3>4, PassMoved
  <2>4. CASE ~autoPMQueue[t]
    <3>1. q0 # <<>> /\ UNCHANGED tempQueue /\ TxQueue' = Tail(q0)
      BY <1>3, <1>6, <2>1, <2>4 DEF TakePacket, PassQueue
    <3>2. \A q : InQueue(Tail(q0), q) <=> InQueue(q0, q) /\ q # Head(q0)
      BY <2>2, <3>1, TailQueue
    <3>3. \A q \in AutoPm : ~InQueue(TxQueue', q)
      BY <1>0, <1>3, <2>1, <2>4, <3>1, <3>2 DEF PassInv
    <3>4. \A q : InQueue(tempQueue'[t], q) => q \in AutoPm
      BY <1>2, <1>4, <3>1
    <3> QED
      BY <1>1, <2>1, <3>1, <3>3, <3>4, PassMoved
  <2> QED
    BY <2>1, <2>3, <2>4
<1> QED
  BY <1>5, <1>6

\* The steps that take, use or release the lock otherwise.
LEMMA PassEntered ==
    ASSUME PmInv, NEW t \in Threads, Enter(t) \/ Relock(t) \/ BeginPass(t) \/ EndPass(t) \/ EndDrain(t)
    PROVE  PassInv'
<1>0. PassInv /\ PacketInv
  BY DEF PmInv
<1>1. UNCHANGED endpoint
  BY DEF Enter, Relock, BeginPass, EndPass, EndDrain, tgtVars
<1>2. lock \in {t, NoThread}
  BY <1>0 DEF Enter, Relock, BeginPass, EndPass, EndDrain, PassInv, LockHeld
<1>3. \A q : InQueue(tempQueue[t], q) => q \in AutoPm
  BY <1>0 DEF PassInv
<1>4. CASE Enter(t)
  <2>1. PICK label \in {"return", "drain"} : Goto(t, label) /\ (label = "drain" => lock' = t)
    BY <1>4 DEF Enter
  <2>2. UNCHANGED <<tempQueue, autoPMQueue>>
    BY <1>4 DEF Enter
  <2> QED
    BY <1>1, <1>2, <1>3, <2>1, <2>2, PassMoved DEF Locked
<1>5. CASE Relock(t)
  <2>1. Goto(t, "drain") /\ lock' = t /\ UNCHANGED <<tempQueue, autoPMQueue>>
    BY <1>5 DEF Relock, thVars
  <2> QED
    BY <1>1, <1>2, <1>3, <2>1, PassMoved
<1>6. CASE BeginPass(t)
  <2>1. /\ lock' = t /\ UNCHANGED <<tempQueue, TxQueue>>
        /\ autoPMQueue' = [autoPMQueue EXCEPT ![t] = AutoPmAt # {}]
    BY <1>0, <1>6 DEF BeginPass, PassInv, LockHeld, epVars
  <2>2. PICK label \in {"pull", "get"} : Goto(t, label) /\ (label = "get" => AutoPmAt = {})
    BY <1>6 DEF BeginPass
  <2>3. AutoPmAt = {} => \A q \in AutoPm : ~InQueue(TxQueue, q)
    BY DEF AutoPmAt, InQueue
  <2>4. \A u \in Threads : u # t => autoPMQueue'[u] = autoPMQueue[u]
    BY <1>0, <2>1 DEF PacketInv, TypeInv, TypeOK, ThreadTypeOK
  <2> QED
    BY <1>1, <1>2, <1>3, <2>1, <2>2, <2>3, <2>4, PassMoved
<1>7. CASE EndPass(t)
  <2>1. PICK label \in {"return", "issue"} : Goto(t, label)
    BY <1>7 DEF EndPass
  <2>2. /\ tempQueue' = [tempQueue EXCEPT ![t] = <<>>]
        /\ autoPMQueue' = [autoPMQueue EXCEPT ![t] = FALSE]
    BY <1>7 DEF EndPass
  <2>3. tempQueue'[t] = <<>> /\ \A u \in Threads : u # t => tempQueue'[u] = tempQueue[u]
    BY <1>0, <2>2, OtherThreads
  <2>4. \A u \in Threads : u # t => autoPMQueue'[u] = autoPMQueue[u]
    BY <1>0, <2>2 DEF PacketInv, TypeInv, TypeOK, ThreadTypeOK
  <2>5. \A q : ~InQueue(tempQueue'[t], q)
    BY <2>3 DEF InQueue
  <2> QED
    BY <1>1, <1>2, <2>1, <2>3, <2>4, <2>5, PassMoved DEF Locked
<1>8. CASE EndDrain(t)
  <2>1. Goto(t, "return") /\ UNCHANGED <<tempQueue, autoPMQueue>>
    BY <1>8 DEF EndDrain, thVars
  <2> QED
    BY <1>1, <1>2, <1>3, <2>1, PassMoved DEF Locked
<1> QED
  BY <1>4, <1>5, <1>6, <1>7, <1>8

\* A flush needs the lock free, so no pass is under way.
LEMMA PassFlushed ==
    ASSUME PmInv, HTCFlushEndpoint PROVE PassInv'
<1>1. PassInv /\ lock = NoThread /\ UNCHANGED <<endpoint, lock, pc, tempQueue, autoPMQueue>>
  BY DEF PmInv, HTCFlushEndpoint, thVars, tgtVars
<1>2. \A u \in Threads : pc[u] \notin Locked
  BY <1>1, ThreadFacts DEF PassInv, LockHeld, Locked
<1> QED
  BY <1>1, <1>2 DEF PassInv, LockHeld, Locked, AutoPm

\* Every step keeps PassInv.
LEMMA PassStep == PmInv /\ [Next]_vars => PassInv'
<1> SUFFICES ASSUME PmInv, [Next]_vars PROVE PassInv'
  OBVIOUS
<1>0. PacketInv
  BY DEF PmInv
<1>1. ASSUME NEW t \in Threads, NEW label, Goto(t, label), label \notin Locked,
             UNCHANGED <<endpoint, lock, TxQueue, tempQueue, autoPMQueue>>
      PROVE  PassInv'
  <2>1. \A u \in Threads : pc'[u] = pc[u] \/ pc'[u] \notin Locked
    BY <1>0, <1>1, OtherThreads
  <2> QED
    BY <1>1, <2>1, PassKept
<1>2. ASSUME NEW t \in Senders, NEW p \in Packets, HTCSendPkt(t, p) PROVE PassInv'
  <2>1. PICK label \in {"readResources", "testDepth"} : Goto(t, label)
    BY <1>2 DEF HTCSendPkt
  <2>2. UNCHANGED <<endpoint, lock, TxQueue, tempQueue, autoPMQueue>>
    BY <1>2 DEF HTCSendPkt, tgtVars
  <2> QED
    BY <1>1, <2>1, <2>2, ThreadFacts DEF Locked
<1>3. ASSUME NEW t \in Threads,
             \/ TestDepth(t) \/ AddDepth(t) \/ SendFull(t) \/ ReadResources(t) \/ StartIssue(t)
             \/ HIFSend(t) \/ HIFSendFailed(t) \/ EndIssue(t) \/ Return(t)
             \/ (t = Completer /\ \/ SendDone \/ HTCLookupTxPacket \/ HTCTxCompletionHandler
                                  \/ Recycle \/ HTCProcessCreditRpt)
             \/ (t = Resumer /\ HTCTxResumeAllHandler)
      PROVE PassInv'
  <2>1. PICK label \in {"sendFull", "addDepth", "readResources", "return", "enter", "relock", "hifSend",
                        "issue", "failBatch", "rereadResources", "recycle", "idle", "lookup", "complete",
                        "notFound"} : Goto(t, label)
    BY <1>3 DEF TestDepth, AddDepth, SendFull, ReadResources, StartIssue, HIFSend, HIFSendFailed, EndIssue,
                Return, SendDone, HTCLookupTxPacket, HTCTxCompletionHandler, Recycle, HTCProcessCreditRpt,
                HTCTxResumeAllHandler
  <2>2. UNCHANGED <<endpoint, lock, TxQueue, tempQueue, autoPMQueue>>
    BY <1>3 DEF TestDepth, AddDepth, SendFull, ReadResources, StartIssue, HIFSend, HIFSendFailed, EndIssue,
                Return, SendDone, HTCLookupTxPacket, HTCTxCompletionHandler, Recycle, HTCProcessCreditRpt,
                HTCTxResumeAllHandler, epVars, thVars, tgtVars
  <2> QED
    BY <1>1, <2>1, <2>2 DEF Locked
<1>4. ASSUME UNCHANGED <<endpoint, lock, TxQueue, tempQueue, autoPMQueue, pc>> PROVE PassInv'
  BY <1>4, PassKept
<1>5. ASSUME NEW t \in Threads, FailPacket(t) PROVE PassInv'
  BY <1>4, <1>5 DEF FailPacket, epVars, tgtVars
<1>6. CASE \/ SwallowCompletion \/ TargetConsume \/ TargetReport \/ PmCoreSuspend \/ RuntimeSuspend
           \/ RuntimeResume \/ (\E p \in Packets : HttResponse(p)) \/ UNCHANGED vars
  <2>1. UNCHANGED <<endpoint, lock, TxQueue, tempQueue, autoPMQueue, pc>>
    BY <1>6 DEF SwallowCompletion, TargetConsume, TargetReport, HttResponse, PmCoreSuspend, RuntimeSuspend, RuntimeResume,
                SetPm, vars, epVars, thVars, tgtVars
  <2> QED
    BY <1>4, <2>1
<1>7. CASE \E t \in Threads : HTCTrySend(t)
  BY <1>3, <1>5, <1>7, PassTaken, PassEntered DEF HTCTrySend
<1>8. CASE \/ SendDone \/ HTCLookupTxPacket \/ HTCTxCompletionHandler \/ Recycle \/ HTCProcessCreditRpt
           \/ HTCTxResumeAllHandler
  BY <1>3, <1>8, ThreadFacts
<1> QED
  BY <1>2, <1>6, <1>7, <1>8, PassFlushed DEF Next, Completion

----------------------------------------------------------------------------
\* PmInv holds of every behaviour of the endpoint.
THEOREM PmInvariant == Spec => []PmInv
<1>1. Init => PassInv /\ Balance /\ AnsweredSent
  <2> SUFFICES ASSUME Init PROVE PassInv /\ Balance /\ AnsweredSent
    OBVIOUS
  <2>1. \A q : ~InQueue(<<>>, q)
    BY DEF InQueue
  <2>2. PassInv
    BY <2>1 DEF Init, PassInv, LockHeld
  <2>3. Users = {} /\ pmUsage = 0
    BY <2>1, ThreadFacts DEF Init, Users, Uses, DrainLabels
  <2>4. Spoilt = {}
    <3>1. endpoint \in EndpointKinds /\ \A q \in Packets : result[q] = "none"
      BY DEF Init
    <3> QED
      BY <3>1, ParameterAssumption DEF Spoilt, AutoPm
  <2>5. IsFiniteSet({}) /\ Cardinality({}) = 0
    BY FS_EmptySet
  <2>6. AnsweredSent
    BY DEF Init, AnsweredSent
  <2> QED
    BY <2>2, <2>3, <2>4, <2>5, <2>6 DEF Balance
<1>2. PmInv /\ SentInv /\ [Next]_vars => PassInv' /\ Balance' /\ AnsweredSent'
  BY PassStep, BalanceStep, AnswersStep
<1>3. PmInv <=> PacketInv /\ PassInv /\ Balance /\ AnsweredSent
  BY DEF PmInv
<1> QED
  BY <1>1, <1>2, <1>3, PacketInvariant, SentInvariant, PTL DEF Spec

\* For the packets of every endpoint hif_pm_runtime_put follows hif_pm_runtime_get: the usage count never
\* exceeds the packets in use, and falls short of them by no more than the AUTO_PM packets HIF refused, for
\* which HTCIssuePackets puts references that were not taken.
THEOREM PmUsageAccountedAlways == Spec => []PmUsageAccounted
<1>1. PmInv => PmUsageAccounted
  <2> SUFFICES ASSUME PmInv PROVE PmUsageAccounted
    OBVIOUS
  <2>1. PacketInv /\ Balance
    BY DEF PmInv
  <2>2. wire \in Seq(Packets) /\ \A u \in Threads : sendQueue[u] \in Seq(Packets)
    BY <2>1, PlaceTypes
  <2>3. /\ \A u \in Threads : \A q : Contains(sendQueue[u], q) <=> InQueue(sendQueue[u], q)
        /\ \A q : Contains(wire, q) <=> InQueue(wire, q)
    BY <2>2 DEF Contains, InQueue
  <2>4. ASSUME NEW p \in Packets
        PROVE  Sending(p) # {} <=> IF Compact THEN \E u \in Threads : issuing[u] = p
                                   ELSE \/ InQueue(TxLookupQueue, p)
                                        \/ pc[Completer] = "complete" /\ netbuf = p
    <3>1. At("lookup", TxLookupQueue, p) # {} <=> InQueue(TxLookupQueue, p)
      BY DEF At, InQueue
    <3>2. Holds("issuing", issuing, p) # {} <=> \E u \in Threads : issuing[u] = p
      BY DEF Holds
    <3> QED
      BY <3>1, <3>2 DEF Sending
  <2>5. InUse = Users
    BY <2>3, <2>4 DEF InUse, Users, Uses
  <2>6. Cardinality(Users) \in Nat /\ Cardinality(Spoilt) \in Nat
    BY <2>1, FS_CardinalityType DEF Balance
  <2> QED
    BY <2>1, <2>5, <2>6 DEF PmUsageAccounted, Balance, Spoilt
<1> QED
  BY <1>1, PmInvariant, PTL

----------------------------------------------------------------------------
(* The order of one client's packets.  A packet goes through five lanes:   *)
(* outside the drain section (5), TxQueue (4), the drainer's batch (3),    *)
(* its hand (2) and the wire (1).                                          *)

Follows(a, b, auto, seq) ==
    a \notin auto /\ b \notin auto /\ SenderOf[a] = SenderOf[b] => seq[a] < seq[b]
Sorted(q, auto, seq) == \A i, j \in DOMAIN q : i < j => Follows(q[i], q[j], auto, seq)

Lane(k, p) ==
    \/ k = 1 /\ InQueue(wire, p)
    \/ k = 2 /\ \E t \in Threads : pc[t] = "hifSend" /\ issuing[t] = p
    \/ k = 3 /\ \E t \in Threads : pc[t] \in DrainLabels /\ InQueue(sendQueue[t], p)
    \/ k = 4 /\ InQueue(TxQueue, p)
    \/ k = 5 /\ \E t \in Threads : pc[t] \notin DrainLabels /\ (InQueue(sendQueue[t], p) \/ callersQueue[t] = p)

\* What is in an earlier lane was sent first.
LaneOrder ==
    \A j, k \in 1..5 : \A p, q \in Packets :
        j < k /\ Lane(j, p) /\ Lane(k, q) => Follows(p, q, AutoPm, seqOf)

QueuesSorted ==
    /\ Sorted(wire, AutoPm, seqOf) /\ Sorted(TxQueue, AutoPm, seqOf)
    /\ \A t \in Threads : Sorted(sendQueue[t], AutoPm, seqOf)

\* Outside the drain section a thread has a packet of its own only.
OwnPacket ==
    \A t \in Threads, p \in Packets :
        pc[t] \notin DrainLabels /\ (InQueue(sendQueue[t], p) \/ callersQueue[t] = p) => SenderOf[p] = t

\* Sequence numbers go up, as long as they do not wrap.
Numbered ==
    /\ SeqNo = Cardinality(Submitted) % 256
    /\ \A p \in Packets : seqOf[p] < Cardinality(Submitted)
    /\ \A p \in Packets : InQueue(wire, p) => p \in Submitted

FifoInv == LaneOrder /\ QueuesSorted /\ OwnPacket /\ Numbered

\* the 8 bits of SeqNo tell the packets apart
FewPackets == IsFiniteSet(Packets) /\ Cardinality(Packets) <= 256

\* Sequences that are put together, or of which the head or another element is taken, stay sorted.
LEMMA SortedConcat ==
    ASSUME NEW auto, NEW seq, NEW q \in Seq(Packets), NEW r \in Seq(Packets),
           Sorted(q, auto, seq), Sorted(r, auto, seq),
           \A x, y \in Packets : InQueue(q, x) /\ InQueue(r, y) => Follows(x, y, auto, seq)
    PROVE  Sorted(q \o r, auto, seq)
<1>1. /\ Len(q) \in Nat /\ Len(r) \in Nat /\ DOMAIN q = 1..Len(q) /\ DOMAIN r = 1..Len(r)
      /\ DOMAIN (q \o r) = 1..Len(q) + Len(r)
      /\ \A i \in 1..Len(q) + Len(r) : (q \o r)[i] = IF i <= Len(q) THEN q[i] ELSE r[i - Len(q)]
  BY ConcatProperties
<1> SUFFICES ASSUME NEW i \in 1..Len(q) + Len(r), NEW j \in 1..Len(q) + Len(r), i < j
             PROVE  Follows((q \o r)[i], (q \o r)[j], auto, seq)
  BY <1>1 DEF Sorted
<1>2. CASE j <= Len(q)
  <2>1. i \in 1..Len(q) /\ j \in 1..Len(q) /\ (q \o r)[i] = q[i] /\ (q \o r)[j] = q[j]
    BY <1>1, <1>2
  <2> QED
    BY <1>1, <2>1 DEF Sorted
<1>3. CASE i > Len(q)
  <2>1. /\ i - Len(q) \in 1..Len(r) /\ j - Len(q) \in 1..Len(r) /\ i - Len(q) < j - Len(q)
        /\ (q \o r)[i] = r[i - Len(q)] /\ (q \o r)[j] = r[j - Len(q)]
    BY <1>1, <1>3
  <2> QED
    BY <1>1, <2>1 DEF Sorted
<1>4. CASE i <= Len(q) /\ j > Len(q)
  <2>1. /\ i \in 1..Len(q) /\ j - Len(q) \in 1..Len(r)
        /\ (q \o r)[i] = q[i] /\ (q \o r)[j] = r[j - Len(q)]
    BY <1>1, <1>4
  <2>2. q[i] \in Packets /\ r[j - Len(q)] \in Packets
    BY <1>1, <2>1
  <2>3. InQueue(q, q[i]) /\ InQueue(r, r[j - Len(q)])
    BY <1>1, <2>1 DEF InQueue
  <2> QED
    BY <2>1, <2>2, <2>3
<1> QED
  BY <1>1, <1>2, <1>3, <1>4

\* One packet is sorted, and so are several followed by it.
LEMMA SortedAppend ==
    ASSUME NEW auto, NEW seq, NEW q \in Seq(Packets), NEW e \in Packets, Sorted(q, auto, seq),
           \A x \in Packets : InQueue(q, x) => Follows(x, e, auto, seq)
    PROVE  Sorted(Append(q, e), auto, seq) /\ Sorted(<<e>>, auto, seq) /\ Sorted(<<>>, auto, seq)
<1>1. Append(q, e) = q \o <<e>> /\ <<e>> \in Seq(Packets)
  OBVIOUS
<1>2. Sorted(<<e>>, auto, seq) /\ Sorted(<<>>, auto, seq)
  BY DEF Sorted
<1>3. \A x, y \in Packets : InQueue(q, x) /\ InQueue(<<e>>, y) => Follows(x, y, auto, seq)
  BY SingleQueue
<1> QED
  BY <1>1, <1>2, <1>3, SortedConcat

\* The head comes before the rest.
LEMMA SortedTail ==
    ASSUME NEW auto, NEW seq, NEW q \in Seq(Packets), q # <<>>, Sorted(q, auto, seq)
    PROVE  /\ Sorted(Tail(q), auto, seq)
           /\ \A x \in Packets : InQueue(Tail(q), x) => Follows(Head(q), x, auto, seq)
<1>1. /\ Len(q) \in Nat /\ Len(q) >= 1 /\ DOMAIN q = 1..Len(q) /\ Head(q) = q[1]
      /\ DOMAIN Tail(q) = 1..Len(q) - 1 /\ \A i \in 1..Len(q) - 1 : Tail(q)[i] = q[i + 1]
  BY HeadTailProperties
<1>2. \A i \in 1..Len(q) - 1 : i + 1 \in 1..Len(q) /\ 1 < i + 1 /\ 1 \in 1..Len(q)
  BY <1>1
<1>3. \A i, j \in 1..Len(q) - 1 : i < j => i + 1 < j + 1
  OBVIOUS
<1>4. Sorted(Tail(q), auto, seq)
  BY <1>1, <1>2, <1>3 DEF Sorted
<1>5. ASSUME NEW x \in Packets, InQueue(Tail(q), x) PROVE Follows(Head(q), x, auto, seq)
  <2>1. PICK i \in 1..Len(q) - 1 : Tail(q)[i] = x
    BY <1>1, <1>5 DEF InQueue
  <2>2. q[i + 1] = x /\ i + 1 \in 1..Len(q) /\ 1 < i + 1 /\ 1 \in 1..Len(q)
    BY <1>1, <1>2, <2>1
  <2> QED
    BY <1>1, <2>2 DEF Sorted
<1> QED
  BY <1>4, <1>5

\* Any element may be taken out.
LEMMA SortedRemoveAt ==
    ASSUME NEW auto, NEW seq, NEW q \in Seq(Packets), NEW n \in DOMAIN q, Sorted(q, auto, seq)
    PROVE  Sorted(RemoveAt(q, n), auto, seq)
<1>1. /\ Len(q) \in Nat /\ DOMAIN q = 1..Len(q) /\ DOMAIN RemoveAt(q, n) = 1..Len(q) - 1
      /\ \A k \in 1..Len(q) - 1 : RemoveAt(q, n)[k] = IF k < n THEN q[k] ELSE q[k + 1]
  BY RemoveAtElements
<1> SUFFICES ASSUME NEW i \in 1..Len(q) - 1, NEW j \in 1..Len(q) - 1, i < j
             PROVE  Follows(RemoveAt(q, n)[i], RemoveAt(q, n)[j], auto, seq)
  BY <1>1 DEF Sorted
<1>2. PICK a \in 1..Len(q) : RemoveAt(q, n)[i] = q[a] /\ a = IF i < n THEN i ELSE i + 1
  BY <1>1
<1>3. PICK b \in 1..Len(q) : RemoveAt(q, n)[j] = q[b] /\ b = IF j < n THEN j ELSE j + 1
  BY <1>1
<1>4. a < b
  BY <1>1, <1>2, <1>3
<1> QED
  BY <1>1, <1>2, <1>3, <1>4 DEF Sorted

\* Packets leave lanes, or AUTO_PM packets come into them.
LEMMA LanesShrink ==
    ASSUME LaneOrder, UNCHANGED <<endpoint, seqOf>>,
           \A k \in 1..5, q \in Packets : Lane(k, q)' => Lane(k, q) \/ q \in AutoPm
    PROVE  LaneOrder'
<1> SUFFICES ASSUME NEW j \in 1..5, NEW k \in 1..5, NEW p \in Packets, NEW q \in Packets,
                    j < k, Lane(j, p)', Lane(k, q)'
             PROVE  Follows(p, q, AutoPm', seqOf')
  BY DEF LaneOrder
<1>1. UNCHANGED AutoPm
  BY DEF AutoPm
<1>2. CASE p \in AutoPm \/ q \in AutoPm
  BY <1>1, <1>2 DEF Follows
<1>3. CASE p \notin AutoPm /\ q \notin AutoPm
  BY <1>1, <1>3 DEF LaneOrder
<1> QED
  BY <1>2, <1>3

\* A packet comes into a lane in its turn.
LEMMA LaneMove ==
    ASSUME LaneOrder, UNCHANGED <<endpoint, seqOf>>, NEW p \in Packets, NEW n \in 1..5,
           \A k \in 1..5, q \in Packets : Lane(k, q)' => Lane(k, q) \/ (q = p /\ k = n),
           \A k \in 1..5, q \in Packets : Lane(k, q)' /\ k < n => Follows(q, p, AutoPm, seqOf),
           \A k \in 1..5, q \in Packets : Lane(k, q)' /\ n < k => Follows(p, q, AutoPm, seqOf)
    PROVE  LaneOrder'
<1> SUFFICES ASSUME NEW j \in 1..5, NEW k \in 1..5, NEW a \in Packets, NEW b \in Packets,
                    j < k, Lane(j, a)', Lane(k, b)'
             PROVE  Follows(a, b, AutoPm', seqOf')
  BY DEF LaneOrder
<1>1. UNCHANGED AutoPm
  BY DEF AutoPm
<1>2. CASE a = p /\ j = n
  BY <1>1, <1>2
<1>3. CASE b = p /\ k = n
  BY <1>1, <1>3
<1>4. CASE ~(a = p /\ j = n) /\ ~(b = p /\ k = n)
  <2>1. Lane(j, a) /\ Lane(k, b)
    BY <1>4
  <2> QED
    BY <1>1, <2>1 DEF LaneOrder
<1> QED
  BY <1>2, <1>3, <1>4

\* A thread moves, its packets stay in their lanes or leave them.
LEMMA QuietFifo ==
    ASSUME PacketInv, FifoInv, NEW t \in Threads, NEW label, Goto(t, label),
           UNCHANGED <<endpoint, seqOf, SeqNo, wire, TxQueue, issuing, sendQueue>>,
           \A u \in Threads : u # t => callersQueue'[u] = callersQueue[u],
           callersQueue'[t] \in {callersQueue[t], NoPacket}, label # "hifSend",
           \/ pc[t] \in DrainLabels /\ label \in DrainLabels
           \/ pc[t] \notin DrainLabels /\ label \notin DrainLabels
           \/ sendQueue[t] = <<>> /\ callersQueue'[t] = NoPacket
    PROVE  FifoInv'
<1>1. pc'[t] = label /\ \A u \in Threads : u # t => pc'[u] = pc[u]
  BY OtherThreads
<1>2. UNCHANGED <<AutoPm, Submitted>>
  BY DEF AutoPm, Submitted
<1>3. \A q : ~InQueue(<<>>, q)
  BY DEF InQueue
<1>4. \A q \in Packets : q # NoPacket
  BY ThreadFacts
<1>5. ASSUME NEW u \in Threads, NEW q \in Packets
      PROVE  /\ pc'[u] = "hifSend" /\ issuing'[u] = q => pc[u] = "hifSend" /\ issuing[u] = q
             /\ pc'[u] \in DrainLabels /\ InQueue(sendQueue'[u], q)
                   => pc[u] \in DrainLabels /\ InQueue(sendQueue[u], q)
             /\ pc'[u] \notin DrainLabels /\ (InQueue(sendQueue'[u], q) \/ callersQueue'[u] = q)
                   => pc[u] \notin DrainLabels /\ (InQueue(sendQueue[u], q) \/ callersQueue[u] = q)
  <2>1. CASE u # t
    BY <1>1, <2>1
  <2>2. CASE u = t
    BY <1>1, <1>3, <1>4, <2>2
  <2> QED
    BY <2>1, <2>2
<1>6. \A k \in 1..5, q \in Packets : Lane(k, q)' => Lane(k, q)
  BY <1>5 DEF Lane
<1>7. LaneOrder'
  BY <1>6, LanesShrink DEF FifoInv
<1>8. OwnPacket'
  BY <1>5 DEF FifoInv, OwnPacket
<1>9. QueuesSorted' /\ Numbered'
  BY <1>2 DEF FifoInv, QueuesSorted, Numbered
<1> QED
  BY <1>7, <1>8, <1>9 DEF FifoInv

\* Nobody moves; TxQueue may be emptied.
LEMMA RestFifo ==
    ASSUME FifoInv, UNCHANGED <<endpoint, seqOf, SeqNo, wire, pc, issuing, sendQueue, callersQueue>>,
           TxQueue' \in {TxQueue, <<>>}
    PROVE  FifoInv'
<1>1. UNCHANGED <<AutoPm, Submitted>>
  BY DEF AutoPm, Submitted
<1>2. \A q : InQueue(TxQueue', q) => InQueue(TxQueue, q)
  BY DEF InQueue
<1>3. \A k \in 1..5, q \in Packets : Lane(k, q)' => Lane(k, q)
  BY <1>2 DEF Lane
<1>4. LaneOrder'
  BY <1>3, LanesShrink DEF FifoInv
<1>5. Sorted(TxQueue', AutoPm, seqOf)
  BY DEF FifoInv, QueuesSorted, Sorted
<1> QED
  BY <1>1, <1>4, <1>5 DEF FifoInv, QueuesSorted, Numbered, OwnPacket

\* What is held has been submitted.
LEMMA HeldSubmitted ==
    ASSUME PacketInv, FifoInv, NEW k \in 1..5, NEW q \in Packets, Lane(k, q) PROVE q \in Submitted
<1>0. Counted /\ \A q1 \in Packets : InQueue(wire, q1) => q1 \in Submitted
  BY DEF PacketInv, PlaceInv, FifoInv, Numbered
<1>1. InQueue(wire, q) \/ \E n \in Names, u \in Owners : HeldIn(n, u, q)
  <2>1. Names = {"queue", "temp", "batch", "caller", "issuing", "wire", "lookup", "done"}
    BY DEF Names
  <2>2. NoThread \in Owners /\ Threads \subseteq Owners
    BY ThreadFacts
  <2>3. CASE \E t \in Threads : InQueue(sendQueue[t], q) \/ callersQueue[t] = q
    BY <2>1, <2>2, <2>3 DEF HeldIn
  <2>4. CASE InQueue(TxQueue, q)
    BY <2>1, <2>2, <2>4 DEF HeldIn
  <2>5. CASE \E t \in Threads : pc[t] = "hifSend" /\ issuing[t] = q
    <3>1. PICK t \in Threads : pc[t] = "hifSend" /\ issuing[t] = q
      BY <2>5
    <3>2. CASE Compact
      BY <2>1, <2>2, <3>1, <3>2 DEF HeldIn
    <3>3. CASE ~Compact
      <4>1. LookupOrder
        BY DEF PacketInv, PlaceInv
      <4>2. TxLookupQueue[Looked + OnWire + 1] = q /\ Len(TxLookupQueue) = Looked + OnWire + 1
        BY <3>1, <3>3, <4>1 DEF LookupOrder
      <4>3. Looked + OnWire + 1 \in DOMAIN TxLookupQueue
        BY <4>2, OrderTypes
      <4>4. InQueue(TxLookupQueue, q)
        BY <4>2, <4>3 DEF InQueue
      <4> QED
        BY <2>1, <2>2, <3>3, <4>4 DEF HeldIn
    <3> QED
      BY <3>2, <3>3
  <2> QED
    BY <2>3, <2>4, <2>5 DEF Lane
<1> QED
  BY <1>0, <1>1 DEF Counted, Awaited, Submitted

\* A new packet has the highest number and nobody else sends for its client.
LEMMA SendPktFifo ==
    ASSUME FewPackets, PacketInv, FifoInv, NEW t \in Senders, NEW p \in Packets, HTCSendPkt(t, p) PROVE FifoInv'
<1>1. /\ pc[t] = "idle" /\ p \notin Submitted /\ SenderOf[p] = t /\ t \in Threads
      /\ seqOf' = [seqOf EXCEPT ![p] = SeqNo] /\ SeqNo' = (SeqNo + 1) % 256
      /\ UNCHANGED <<endpoint, wire, TxQueue, issuing>>
  BY ThreadFacts DEF HTCSendPkt, hifVars, tgtVars
<1>2. /\ sendQueue[t] = <<>> /\ callersQueue[t] = NoPacket /\ LocalsFree
  BY <1>1 DEF PacketInv, PlaceInv, LocalsFree
<1>3. PICK label \in {"readResources", "testDepth"} : Goto(t, label)
  BY DEF HTCSendPkt
<1>4. /\ pc'[t] = label /\ pc'[t] \notin DrainLabels /\ pc[t] \notin DrainLabels /\ label # "hifSend"
      /\ \A u \in Threads : u # t => pc'[u] = pc[u]
  <2>1. label \notin DrainLabels /\ pc[t] \notin DrainLabels
    BY <1>1 DEF DrainLabels
  <2> QED
    BY <1>1, <1>3, <2>1, OtherThreads
<1>5. /\ \A u \in Threads : u # t => sendQueue'[u] = sendQueue[u] /\ callersQueue'[u] = callersQueue[u]
      /\ \/ sendQueue'[t] = <<p>> /\ callersQueue'[t] = NoPacket
         \/ sendQueue'[t] = <<>> /\ callersQueue'[t] = p
  <2>1. \/ sendQueue' = [sendQueue EXCEPT ![t] = <<p>>] /\ UNCHANGED callersQueue
        \/ callersQueue' = [callersQueue EXCEPT ![t] = p] /\ UNCHANGED sendQueue
    BY DEF HTCSendPkt
  <2>2. CASE sendQueue' = [sendQueue EXCEPT ![t] = <<p>>] /\ UNCHANGED callersQueue
    <3>1. sendQueue'[t] = <<p>> /\ \A u \in Threads : u # t => sendQueue'[u] = sendQueue[u]
      BY <1>1, <2>2, OtherThreads
    <3> QED
      BY <1>2, <2>2, <3>1
  <2>3. CASE callersQueue' = [callersQueue EXCEPT ![t] = p] /\ UNCHANGED sendQueue
    <3>1. callersQueue'[t] = p /\ \A u \in Threads : u # t => callersQueue'[u] = callersQueue[u]
      BY <1>1, <2>3, OtherThreads
    <3> QED
      BY <1>2, <2>3, <3>1
  <2> QED
    BY <2>1, <2>2, <2>3
<1>6. \A q \in Packets : InQueue(sendQueue'[t], q) \/ callersQueue'[t] = q <=> q = p
  <2>1. \A q : (InQueue(<<p>>, q) <=> q = p) /\ ~InQueue(<<>>, q)
    BY SingleQueue
  <2>2. \A q \in Packets : q # NoPacket
    BY ThreadFacts
  <2>3. CASE sendQueue'[t] = <<p>> /\ callersQueue'[t] = NoPacket
    BY <2>1, <2>2, <2>3
  <2>4. CASE sendQueue'[t] = <<>> /\ callersQueue'[t] = p
    BY <2>1, <2>4
  <2> QED
    BY <1>5, <2>3, <2>4
<1>7. ASSUME NEW k \in 1..5, NEW q \in Packets, Lane(k, q)' PROVE Lane(k, q) \/ (q = p /\ k = 5)
  <2>1. InQueue(wire', q) <=> InQueue(wire, q)
    BY <1>1
  <2>2. InQueue(TxQueue', q) <=> InQueue(TxQueue, q)
    BY <1>1
  <2>3. (\E u \in Threads : pc'[u] = "hifSend" /\ issuing'[u] = q)
        => (\E u \in Threads : pc[u] = "hifSend" /\ issuing[u] = q)
    BY <1>1, <1>4
  <2>4. (\E u \in Threads : pc'[u] \in DrainLabels /\ InQueue(sendQueue'[u], q))
        => (\E u \in Threads : pc[u] \in DrainLabels /\ InQueue(sendQueue[u], q))
    BY <1>4, <1>5
  <2>5. (\E u \in Threads : pc'[u] \notin DrainLabels /\ (InQueue(sendQueue'[u], q) \/ callersQueue'[u] = q))
        => \/ q = p
           \/ \E u \in Threads : pc[u] \notin DrainLabels /\ (InQueue(sendQueue[u], q) \/ callersQueue[u] = q)
    BY <1>4, <1>5, <1>6
  <2> QED
    BY <1>7, <2>1, <2>2, <2>3, <2>4, <2>5 DEF Lane
<1>t. SeqNo \in 0..255 /\ seqOf \in [Packets -> -1..255]
  BY PlaceTypes
<1>8. /\ Submitted \subseteq Packets /\ IsFiniteSet(Submitted) /\ Submitted' = Submitted \cup {p}
      /\ Cardinality(Submitted) \in Nat /\ Cardinality(Submitted) < 256
      /\ Cardinality(Submitted') = Cardinality(Submitted) + 1
  <2>1. Submitted \subseteq Packets /\ IsFiniteSet(Submitted)
    BY FS_Subset DEF Submitted, FewPackets
  <2>2. Submitted' = Submitted \cup {p}
    <3>1. DOMAIN seqOf = Packets
      BY <1>t
    <3>2. seqOf'[p] = SeqNo /\ \A q \in Packets : q # p => seqOf'[q] = seqOf[q]
      BY <1>1, <3>1
    <3>3. SeqNo # -1
      BY <1>t
    <3> QED
      BY <3>2, <3>3 DEF Submitted
  <2>3. Submitted \cup {p} \subseteq Packets
    BY <2>1
  <2>4. Cardinality(Submitted \cup {p}) = Cardinality(Submitted) + 1 /\ Cardinality(Submitted) \in Nat
    BY <1>1, <2>1, FS_AddElement, FS_CardinalityType
  <2>5. Cardinality(Submitted \cup {p}) <= Cardinality(Packets) /\ Cardinality(Packets) \in Nat
    BY <2>3, FS_Subset, FS_CardinalityType DEF FewPackets
  <2> QED
    BY <2>1, <2>2, <2>4, <2>5 DEF FewPackets
<1>9. SeqNo = Cardinality(Submitted) /\ \A q \in Packets : seqOf[q] < SeqNo /\ seqOf[q] \in Int
  <2>1. SeqNo = Cardinality(Submitted) % 256 /\ \A q \in Packets : seqOf[q] < Cardinality(Submitted)
    BY DEF FifoInv, Numbered
  <2>2. Cardinality(Submitted) % 256 = Cardinality(Submitted)
    BY <1>8
  <2>3. \A q \in Packets : seqOf[q] \in Int
    BY <1>t
  <2> QED
    BY <2>1, <2>2, <2>3
<1>10. /\ seqOf'[p] = SeqNo /\ \A q \in Packets : q # p => seqOf'[q] = seqOf[q]
       /\ UNCHANGED AutoPm
  BY <1>1, <1>t DEF AutoPm
<1>11. Numbered'
  <2>1. SeqNo' = Cardinality(Submitted') % 256
    BY <1>1, <1>8, <1>9
  <2>2. \A q \in Packets : seqOf'[q] < Cardinality(Submitted')
    BY <1>8, <1>9, <1>10
  <2>3. \A q \in Packets : InQueue(wire', q) => q \in Submitted'
    BY <1>1, <1>8 DEF FifoInv, Numbered
  <2> QED
    BY <2>1, <2>2, <2>3 DEF Numbered
<1>12. \A a, b \in Packets : a # p /\ b # p /\ Follows(a, b, AutoPm, seqOf) => Follows(a, b, AutoPm', seqOf')
  BY <1>10 DEF Follows
<1>13. \A k \in 1..5, q \in Packets : Lane(k, q) => q # p
  BY <1>1, HeldSubmitted
<1>14. LaneOrder'
  <2> SUFFICES ASSUME NEW j \in 1..5, NEW k \in 1..5, NEW a \in Packets, NEW b \in Packets,
                      j < k, Lane(j, a)', Lane(k, b)'
               PROVE  Follows(a, b, AutoPm', seqOf')
    BY DEF LaneOrder
  <2>1. j # 5
    OBVIOUS
  <2>2. Lane(j, a) /\ a # p
    BY <1>7, <1>13, <2>1
  <2>3. CASE b = p
    BY <1>9, <1>10, <2>2, <2>3 DEF Follows
  <2>4. CASE b # p
    <3>1. Lane(k, b)
      BY <1>7, <2>4
    <3>2. Follows(a, b, AutoPm, seqOf)
      BY <2>2, <3>1 DEF FifoInv, LaneOrder
    <3> QED
      BY <1>12, <2>2, <2>4, <3>2
  <2> QED
    BY <2>3, <2>4
<1>15. ASSUME NEW q \in Seq(Packets), Sorted(q, AutoPm, seqOf), ~InQueue(q, p) PROVE Sorted(q, AutoPm', seqOf')
  <2>1. \A i \in DOMAIN q : q[i] \in Packets /\ q[i] # p
    BY <1>15 DEF InQueue
  <2> QED
    BY <1>12, <1>15, <2>1 DEF Sorted
<1>16. QueuesSorted'
  <2>0. QueuesSorted
    BY DEF FifoInv
  <2>1. Sorted(wire', AutoPm', seqOf')
    <3>1. ~InQueue(wire, p)
      BY <1>1 DEF FifoInv, Numbered
    <3> QED
      BY <1>1, <1>15, <2>0, <3>1, PlaceTypes DEF QueuesSorted
  <2>2. Sorted(TxQueue', AutoPm', seqOf')
    <3>1. ~InQueue(TxQueue, p)
      BY <1>13 DEF Lane
    <3> QED
      BY <1>1, <1>15, <2>0, <3>1, PlaceTypes DEF QueuesSorted
  <2>3. ASSUME NEW u \in Threads PROVE Sorted(sendQueue'[u], AutoPm', seqOf')
    <3>1. CASE u = t
      <4>1. sendQueue'[t] \in {<<p>>, <<>>}
        BY <1>5
      <4> QED
        BY <3>1, <4>1 DEF Sorted
    <3>2. CASE u # t
      <4>1. ~InQueue(sendQueue[u], p)
        BY <1>13 DEF Lane
      <4> QED
        BY <1>5, <1>15, <2>0, <3>2, <4>1, PlaceTypes DEF QueuesSorted
    <3> QED
      BY <3>1, <3>2
  <2> QED
    BY <2>1, <2>2, <2>3 DEF QueuesSorted
<1>17. OwnPacket'
  <2> SUFFICES ASSUME NEW u \in Threads, NEW q \in Packets, pc'[u] \notin DrainLabels,
                      InQueue(sendQueue'[u], q) \/ callersQueue'[u] = q
               PROVE  SenderOf[q] = u
    BY DEF OwnPacket
  <2>1. CASE u = t
    BY <1>1, <1>6, <2>1
  <2>2. CASE u # t
    BY <1>4, <1>5, <2>2 DEF FifoInv, OwnPacket
  <2> QED
    BY <2>1, <2>2
<1> QED
  BY <1>11, <1>14, <1>16, <1>17 DEF FifoInv

\* A thread passes its packet on, outside the drain section.
LEMMA OutsideFifo ==
    ASSUME PacketInv, FifoInv, NEW t \in Threads, AddDepth(t) \/ SendFull(t) PROVE FifoInv'
<1>1. /\ pc[t] \in {"addDepth", "sendFull"} /\ callersQueue[t] \in Packets
      /\ UNCHANGED <<endpoint, seqOf, SeqNo, wire, TxQueue, issuing>>
  BY DEF AddDepth, SendFull, PacketInv, TypeInv, PacketInHand, epVars, pktVars, hifVars, tgtVars
<1>2. PICK p \in Packets : p = callersQueue[t]
  BY <1>1
<1>3. sendQueue[t] = <<>>
  BY <1>1 DEF PacketInv, PlaceInv, LocalsFree
<1>4. PICK label \in {"sendFull", "readResources", "return"} : Goto(t, label)
  BY DEF AddDepth, SendFull
<1>5. /\ pc'[t] = label /\ pc'[t] \notin DrainLabels /\ pc[t] \notin DrainLabels /\ label # "hifSend"
      /\ \A u \in Threads : u # t => pc'[u] = pc[u]
  <2>1. label \notin DrainLabels /\ pc[t] \notin DrainLabels
    BY <1>1 DEF DrainLabels
  <2> QED
    BY <1>4, <2>1, OtherThreads
<1>6. CASE UNCHANGED <<sendQueue, callersQueue>>
  BY <1>1, <1>4, <1>5, <1>6, QuietFifo
<1>7. CASE sendQueue' = [sendQueue EXCEPT ![t] = <<p>>] /\ callersQueue' = [callersQueue EXCEPT ![t] = NoPacket]
  <2>1. /\ sendQueue'[t] = <<p>> /\ \A u \in Threads : u # t => sendQueue'[u] = sendQueue[u]
        /\ callersQueue'[t] = NoPacket /\ \A u \in Threads : u # t => callersQueue'[u] = callersQueue[u]
    <3>1. sendQueue'[t] = <<p>> /\ \A u \in Threads : u # t => sendQueue'[u] = sendQueue[u]
      BY <1>7, OtherThreads
    <3>2. callersQueue'[t] = NoPacket /\ \A u \in Threads : u # t => callersQueue'[u] = callersQueue[u]
      BY <1>7, OtherThreads
    <3> QED
      BY <3>1, <3>2
  <2>2. \A q \in Packets : InQueue(sendQueue'[t], q) \/ callersQueue'[t] = q => callersQueue[t] = q
    BY <1>2, <2>1, SingleQueue, ThreadFacts
  <2>3. ASSUME NEW u \in Threads, NEW q \in Packets
        PROVE  /\ pc'[u] = "hifSend" /\ issuing'[u] = q => pc[u] = "hifSend" /\ issuing[u] = q
               /\ pc'[u] \in DrainLabels /\ InQueue(sendQueue'[u], q)
                     => pc[u] \in DrainLabels /\ InQueue(sendQueue[u], q)
               /\ pc'[u] \notin DrainLabels /\ (InQueue(sendQueue'[u], q) \/ callersQueue'[u] = q)
                     => pc[u] \notin DrainLabels /\ (InQueue(sendQueue[u], q) \/ callersQueue[u] = q)
    <3>1. CASE u # t
      BY <1>1, <1>5, <2>1, <3>1
    <3>2. CASE u = t
      BY <1>1, <1>5, <2>2, <3>2
    <3> QED
      BY <3>1, <3>2
  <2>4. \A k \in 1..5, q \in Packets : Lane(k, q)' => Lane(k, q)
    BY <1>1, <2>3 DEF Lane
  <2>5. LaneOrder'
    BY <1>1, <2>4, LanesShrink DEF FifoInv
  <2>6. OwnPacket'
    BY <2>3 DEF FifoInv, OwnPacket
  <2>7. Numbered' /\ UNCHANGED AutoPm
    BY <1>1 DEF FifoInv, Numbered, Submitted, AutoPm
  <2>8. \A u \in Threads : Sorted(sendQueue'[u], AutoPm, seqOf)
    <3>1. Sorted(<<p>>, AutoPm, seqOf)
      BY DEF Sorted
    <3> QED
      BY <2>1, <3>1 DEF FifoInv, QueuesSorted
  <2>9. QueuesSorted'
    BY <1>1, <2>7, <2>8 DEF FifoInv, QueuesSorted
  <2> QED
    BY <2>5, <2>6, <2>7, <2>9 DEF FifoInv
<1>8. \/ UNCHANGED <<sendQueue, callersQueue>>
      \/ /\ sendQueue' = [sendQueue EXCEPT ![t] = <<p>>]
         /\ callersQueue' = [callersQueue EXCEPT ![t] = NoPacket]
  BY <1>2 DEF AddDepth, SendFull
<1> QED
  BY <1>6, <1>7, <1>8

\* The lanes before and after a step of the drainer, who is alone in the drain section.
LEMMA DrainerStep ==
    ASSUME PacketInv, FifoInv, NEW t \in Threads, NEW label, Goto(t, label),
           pc[t] \in DrainLabels, label \in DrainLabels, UNCHANGED callersQueue,
           \A u \in Threads : u # t => sendQueue'[u] = sendQueue[u] /\ issuing'[u] = issuing[u]
    PROVE  /\ OwnPacket'
           /\ \A q \in Packets :
                 /\ (Lane(1, q) <=> InQueue(wire, q)) /\ (Lane(1, q)' <=> InQueue(wire', q))
                 /\ Lane(2, q) <=> pc[t] = "hifSend" /\ issuing[t] = q
                 /\ Lane(2, q)' <=> label = "hifSend" /\ issuing'[t] = q
                 /\ (Lane(3, q) <=> InQueue(sendQueue[t], q)) /\ (Lane(3, q)' <=> InQueue(sendQueue'[t], q))
                 /\ (Lane(4, q) <=> InQueue(TxQueue, q)) /\ (Lane(4, q)' <=> InQueue(TxQueue', q))
                 /\ Lane(5, q)' <=> Lane(5, q)
<1>1. pc'[t] = label /\ \A u \in Threads : u # t => pc'[u] = pc[u]
  BY OtherThreads
<1>2. \A u \in Threads : u # t => pc[u] \notin DrainLabels /\ pc[u] # "hifSend"
  BY DEF PacketInv, DrainInv, SingleDrainer, DrainLabels
<1>3. \A u \in Threads : pc'[u] \notin DrainLabels <=> pc[u] \notin DrainLabels
  BY <1>1
<1>4. OwnPacket'
  BY <1>1, <1>3 DEF FifoInv, OwnPacket
<1>5. ASSUME NEW q \in Packets
      PROVE  /\ (\E u \in Threads : pc[u] = "hifSend" /\ issuing[u] = q) <=> pc[t] = "hifSend" /\ issuing[t] = q
             /\ (\E u \in Threads : pc'[u] = "hifSend" /\ issuing'[u] = q) <=> label = "hifSend" /\ issuing'[t] = q
             /\ (\E u \in Threads : pc[u] \in DrainLabels /\ InQueue(sendQueue[u], q)) <=> InQueue(sendQueue[t], q)
             /\ (\E u \in Threads : pc'[u] \in DrainLabels /\ InQueue(sendQueue'[u], q))
                   <=> InQueue(sendQueue'[t], q)
             /\ (\E u \in Threads : pc'[u] \notin DrainLabels /\ (InQueue(sendQueue'[u], q) \/ callersQueue'[u] = q))
                   <=> (\E u \in Threads : pc[u] \notin DrainLabels
                                           /\ (InQueue(sendQueue[u], q) \/ callersQueue[u] = q))
  <2>1. (\E u \in Threads : pc[u] = "hifSend" /\ issuing[u] = q) <=> pc[t] = "hifSend" /\ issuing[t] = q
    BY <1>2
  <2>2. (\E u \in Threads : pc'[u] = "hifSend" /\ issuing'[u] = q) <=> label = "hifSend" /\ issuing'[t] = q
    BY <1>1, <1>2
  <2>3. (\E u \in Threads : pc[u] \in DrainLabels /\ InQueue(sendQueue[u], q)) <=> InQueue(sendQueue[t], q)
    BY <1>2
  <2>4. (\E u \in Threads : pc'[u] \in DrainLabels /\ InQueue(sendQueue'[u], q)) <=> InQueue(sendQueue'[t], q)
    BY <1>1, <1>2
  <2>5. (\E u \in Threads : pc'[u] \notin DrainLabels /\ (InQueue(sendQueue'[u], q) \/ callersQueue'[u] = q))
        <=> (\E u \in Threads : pc[u] \notin DrainLabels /\ (InQueue(sendQueue[u], q) \/ callersQueue[u] = q))
    BY <1>1, <1>2
  <2> QED
    BY <2>1, <2>2, <2>3, <2>4, <2>5
<1> QED
  BY <1>4, <1>5 DEF Lane

\* The five lanes.
LEMMA Five == \A k \in 1..5 : k = 1 \/ k = 2 \/ k = 3 \/ k = 4 \/ k = 5
  OBVIOUS

\* What keeps the rest of FifoInv when sequence numbers and the wire stay.
LEMMA FifoRest ==
    ASSUME FifoInv, LaneOrder', OwnPacket', UNCHANGED <<endpoint, seqOf, SeqNo>>, NEW t \in Threads,
           \A u \in Threads : u # t => sendQueue'[u] = sendQueue[u],
           Sorted(sendQueue'[t], AutoPm, seqOf), Sorted(TxQueue', AutoPm, seqOf), Sorted(wire', AutoPm, seqOf),
           \A q \in Packets : InQueue(wire', q) => q \in Submitted
    PROVE  FifoInv'
<1>1. UNCHANGED <<AutoPm, Submitted>>
  BY DEF AutoPm, Submitted
<1>2. \A u \in Threads : Sorted(sendQueue'[u], AutoPm, seqOf)
  BY DEF FifoInv, QueuesSorted
<1>3. QueuesSorted'
  BY <1>1, <1>2 DEF QueuesSorted
<1>4. Numbered'
  BY <1>1 DEF FifoInv, Numbered
<1> QED
  BY <1>3, <1>4 DEF FifoInv

\* GetHTCAutoPmSendPackets takes a packet out of TxQueue.
LEMMA PullFifo ==
    ASSUME PmInv, FifoInv, NEW t \in Threads, GetHTCAutoPmSendPackets(t) PROVE FifoInv'
<1>0. PacketInv
  BY DEF PmInv
<1>1. PICK label \in {"pull", "get"} : Goto(t, label)
  BY DEF GetHTCAutoPmSendPackets
<1>2. PICK q0 \in Seq(Packets) : q0 = TxQueue
  BY <1>0, PlaceTypes
<1>3. PICK i \in DOMAIN q0 : TxQueue' = RemoveAt(q0, i)
  <2>1. AutoPmAt \in SUBSET Nat /\ AutoPmAt # {}
    BY <1>0, PlaceTypes DEF GetHTCAutoPmSendPackets, AutoPmAt
  <2>2. \E j \in AutoPmAt : \A k \in AutoPmAt : j <= k
    BY <2>1, LeastNatural
  <2>3. PICK j \in AutoPmAt : TxQueue' = RemoveAt(TxQueue, j)
    BY <2>2 DEF GetHTCAutoPmSendPackets
  <2> QED
    BY <1>2, <2>3 DEF AutoPmAt
<1>4. /\ UNCHANGED <<endpoint, seqOf, SeqNo, wire, issuing, sendQueue, callersQueue>>
      /\ pc[t] \in DrainLabels /\ label \in DrainLabels
  BY DEF GetHTCAutoPmSendPackets, pktVars, hifVars, tgtVars, DrainLabels
<1>5. NoRepeat(q0) /\ Sorted(q0, AutoPm, seqOf)
  BY <1>0, <1>2 DEF PacketInv, PlaceInv, NoRepeats, FifoInv, QueuesSorted
<1>6. \A q : InQueue(TxQueue', q) => InQueue(TxQueue, q)
  BY <1>2, <1>3, <1>5, RemoveAtQueue
<1>7. Sorted(TxQueue', AutoPm, seqOf)
  BY <1>3, <1>5, SortedRemoveAt
<1>8. \A k \in 1..5, q \in Packets : Lane(k, q)' => Lane(k, q)
  <2>1. \A u \in Threads : u # t => sendQueue'[u] = sendQueue[u] /\ issuing'[u] = issuing[u]
    BY <1>4
  <2>2. label # "hifSend" /\ sendQueue'[t] = sendQueue[t] /\ UNCHANGED callersQueue
    BY <1>4
  <2>3. \A q \in Packets :
           /\ (Lane(1, q)' => Lane(1, q)) /\ (Lane(2, q)' => Lane(2, q)) /\ (Lane(3, q)' => Lane(3, q))
           /\ (Lane(4, q)' => Lane(4, q)) /\ (Lane(5, q)' => Lane(5, q))
    BY <1>0, <1>1, <1>4, <1>6, <2>1, <2>2, DrainerStep
  <2> QED
    BY <2>3, Five
<1>9. LaneOrder'
  BY <1>4, <1>8, LanesShrink DEF FifoInv
<1>10. OwnPacket'
  BY <1>0, <1>1, <1>4, DrainerStep
<1> QED
  BY <1>4, <1>7, <1>9, <1>10, FifoRest DEF FifoInv, QueuesSorted, Numbered

\* A pass takes the head of TxQueue, or an AUTO_PM packet.
LEMMA TakeFifo ==
    ASSUME PmInv, FifoInv, NEW t \in Threads, TakePacket(t) PROVE FifoInv'
<1>0. PacketInv /\ PassInv /\ LaneOrder
  BY DEF PmInv, FifoInv
<1>1. pc[t] = "get" /\ PassQueue(t) # <<>> /\ Goto(t, "get") /\ "get" \in DrainLabels
  BY <1>0, PlaceTypes DEF TakePacket, CanTake, Goto, DrainLabels
<1>2. PICK q0 \in Seq(Packets) : q0 = PassQueue(t)
  BY <1>0, PlaceTypes DEF PassQueue
<1>3. PICK b0 \in Seq(Packets) : b0 = sendQueue[t]
  BY <1>0, PlaceTypes
<1>4. PICK p \in Packets : p = Head(q0)
  BY <1>1, <1>2
<1>5. /\ UNCHANGED <<endpoint, seqOf, SeqNo, wire, issuing, callersQueue>>
      /\ sendQueue' = [sendQueue EXCEPT ![t] = Append(b0, p)]
  BY <1>2, <1>3, <1>4 DEF TakePacket, hifVars, tgtVars
<1>6. sendQueue'[t] = Append(b0, p) /\ \A u \in Threads : u # t => sendQueue'[u] = sendQueue[u]
  BY <1>0, <1>5, OtherThreads
<1>7. InQueue(q0, p)
  BY <1>1, <1>2, <1>4 DEF InQueue
<1>8. \A q : InQueue(sendQueue'[t], q) <=> InQueue(sendQueue[t], q) \/ q = p
  BY <1>3, <1>6, AppendQueue
<1>9. autoPMQueue[t] \in BOOLEAN
  BY <1>0 DEF PacketInv, TypeInv, TypeOK, ThreadTypeOK
<1>10. /\ OwnPacket'
       /\ \A q \in Packets :
             /\ (Lane(1, q)' => Lane(1, q)) /\ (Lane(2, q)' => Lane(2, q))
             /\ (Lane(3, q)' <=> Lane(3, q) \/ q = p) /\ (Lane(3, q) <=> InQueue(b0, q))
             /\ (Lane(4, q) <=> InQueue(TxQueue, q)) /\ (Lane(4, q)' <=> InQueue(TxQueue', q))
             /\ (Lane(5, q)' => Lane(5, q)) /\ ~Lane(2, q)'
  <2>1. \A u \in Threads : u # t => sendQueue'[u] = sendQueue[u] /\ issuing'[u] = issuing[u]
    BY <1>5, <1>6
  <2> QED
    BY <1>0, <1>1, <1>3, <1>5, <1>8, <2>1, DrainerStep
<1>11. Sorted(b0, AutoPm, seqOf) /\ Sorted(wire', AutoPm, seqOf)
  BY <1>3, <1>5 DEF FifoInv, QueuesSorted
<1>12. \A q \in Packets : InQueue(wire', q) => q \in Submitted
  BY <1>5 DEF FifoInv, Numbered
<1>13. CASE autoPMQueue[t]
  <2>1. p \in AutoPm /\ UNCHANGED TxQueue
    BY <1>0, <1>2, <1>7, <1>13 DEF TakePacket, PassInv, PassQueue
  <2>2. \A q : Follows(q, p, AutoPm, seqOf)
    BY <2>1 DEF Follows
  <2>3. Sorted(sendQueue'[t], AutoPm, seqOf)
    BY <1>6, <1>11, <2>2, SortedAppend
  <2>4. \A k \in 1..5, q \in Packets : Lane(k, q)' => Lane(k, q) \/ q \in AutoPm
    BY <1>10, <2>1, Five
  <2>5. LaneOrder'
    BY <1>0, <1>5, <2>4, LanesShrink
  <2>6. Sorted(TxQueue', AutoPm, seqOf)
    BY <2>1 DEF FifoInv, QueuesSorted
  <2> QED
    BY <1>5, <1>6, <1>10, <1>11, <1>12, <2>3, <2>5, <2>6, FifoRest
<1>14. CASE ~autoPMQueue[t]
  <2>1. q0 = TxQueue /\ TxQueue' = Tail(q0)
    BY <1>2, <1>14 DEF TakePacket, PassQueue
  <2>2. NoRepeat(q0) /\ Sorted(q0, AutoPm, seqOf) /\ q0 # <<>>
    BY <1>0, <1>1, <1>2, <2>1 DEF PacketInv, PlaceInv, NoRepeats, FifoInv, QueuesSorted
  <2>3. \A q : InQueue(Tail(q0), q) <=> InQueue(q0, q) /\ q # p
    BY <1>4, <2>2, TailQueue
  <2>4. /\ Sorted(Tail(q0), AutoPm, seqOf)
        /\ \A q \in Packets : InQueue(Tail(q0), q) => Follows(p, q, AutoPm, seqOf)
    BY <1>4, <2>2, SortedTail
  <2>5. Lane(4, p)
    BY <1>7, <1>10, <2>1
  <2>6. \A q \in Packets : InQueue(b0, q) => Follows(q, p, AutoPm, seqOf)
    BY <1>0, <1>10, <2>5 DEF LaneOrder
  <2>7. Sorted(sendQueue'[t], AutoPm, seqOf)
    BY <1>6, <1>11, <2>6, SortedAppend
  <2>8. \A q \in Packets : Lane(4, q)' => Lane(4, q) /\ InQueue(Tail(q0), q)
    BY <1>10, <2>1, <2>3
  <2>9. \A k \in 1..5, q \in Packets : Lane(k, q)' => Lane(k, q) \/ (q = p /\ k = 3)
    BY <1>10, <2>8, Five
  <2>10. \A k \in 1..5, q \in Packets : Lane(k, q)' /\ k < 3 => Follows(q, p, AutoPm, seqOf)
    <3>1. \A k \in 1..5 : k < 3 => k < 4 /\ k # 3 /\ 4 \in 1..5
      OBVIOUS
    <3> QED
      BY <1>0, <2>5, <2>9, <3>1 DEF LaneOrder
  <2>11. \A k \in 1..5, q \in Packets : Lane(k, q)' /\ 3 < k => Follows(p, q, AutoPm, seqOf)
    <3>1. \A k \in 1..5 : 3 < k => k # 3 /\ (k = 4 \/ 4 < k) /\ 4 \in 1..5
      OBVIOUS
    <3> QED
      BY <1>0, <2>4, <2>5, <2>8, <2>9, <3>1 DEF LaneOrder
  <2>12. LaneOrder'
    BY <1>0, <1>5, <2>9, <2>10, <2>11, LaneMove
  <2>13. Sorted(TxQueue', AutoPm, seqOf)
    BY <2>1, <2>4
  <2> QED
    BY <1>5, <1>6, <1>10, <1>11, <1>12, <2>7, <2>12, <2>13, FifoRest
<1> QED
  BY <1>9, <1>13, <1>14

\* The head of the batch is handed to HIF.
LEMMA StartIssueFifo ==
    ASSUME PacketInv, FifoInv, NEW t \in Threads, StartIssue(t) PROVE FifoInv'
<1>0. LaneOrder /\ "issue" \in DrainLabels /\ "hifSend" \in DrainLabels
  BY DEF FifoInv, DrainLabels
<1>1. pc[t] = "issue" /\ sendQueue[t] # <<>>
  BY DEF StartIssue
<1>2. PICK b0 \in Seq(Packets) : b0 = sendQueue[t]
  BY PlaceTypes
<1>3. PICK p \in Packets : p = Head(b0)
  BY <1>1, <1>2
<1>4. /\ UNCHANGED <<endpoint, seqOf, SeqNo, wire, TxQueue, callersQueue>> /\ Goto(t, "hifSend")
      /\ sendQueue' = [sendQueue EXCEPT ![t] = Tail(b0)] /\ issuing' = [issuing EXCEPT ![t] = p]
  BY <1>2, <1>3 DEF StartIssue, pktVars, hifVars, tgtVars
<1>5. /\ sendQueue'[t] = Tail(b0) /\ issuing'[t] = p
      /\ \A u \in Threads : u # t => sendQueue'[u] = sendQueue[u] /\ issuing'[u] = issuing[u]
  <2>1. sendQueue'[t] = Tail(b0) /\ issuing'[t] = p
    BY <1>4, OtherThreads
  <2>2. \A u \in Threads : u # t => sendQueue'[u] = sendQueue[u] /\ issuing'[u] = issuing[u]
    BY <1>4, OtherThreads
  <2> QED
    BY <2>1, <2>2
<1>6. NoRepeat(b0) /\ Sorted(b0, AutoPm, seqOf) /\ b0 # <<>>
  BY <1>1, <1>2 DEF PacketInv, PlaceInv, NoRepeats, FifoInv, QueuesSorted
<1>7. InQueue(b0, p) /\ \A q : InQueue(Tail(b0), q) <=> InQueue(b0, q) /\ q # p
  BY <1>3, <1>6, TailQueue
<1>8. /\ Sorted(Tail(b0), AutoPm, seqOf)
      /\ \A q \in Packets : InQueue(Tail(b0), q) => Follows(p, q, AutoPm, seqOf)
  BY <1>3, <1>6, SortedTail
<1>9. /\ OwnPacket'
      /\ \A q \in Packets :
            /\ (Lane(1, q)' => Lane(1, q)) /\ (Lane(2, q)' <=> q = p)
            /\ (Lane(3, q)' <=> InQueue(Tail(b0), q)) /\ (Lane(3, q) <=> InQueue(b0, q))
            /\ (Lane(4, q)' => Lane(4, q)) /\ (Lane(5, q)' => Lane(5, q))
  BY <1>0, <1>1, <1>2, <1>4, <1>5, DrainerStep
<1>10. Lane(3, p)
  BY <1>7, <1>9
<1>11. \A k \in 1..5, q \in Packets : Lane(k, q)' => Lane(k, q) \/ (q = p /\ k = 2)
  BY <1>7, <1>9, Five
<1>12. \A k \in 1..5, q \in Packets : Lane(k, q)' /\ k < 2 => Follows(q, p, AutoPm, seqOf)
  <2>1. \A k \in 1..5 : k < 2 => k < 3 /\ k # 2 /\ 3 \in 1..5
    OBVIOUS
  <2> QED
    BY <1>0, <1>10, <1>11, <2>1 DEF LaneOrder
<1>13. \A k \in 1..5, q \in Packets : Lane(k, q)' /\ 2 < k => Follows(p, q, AutoPm, seqOf)
  <2>1. \A k \in 1..5 : 2 < k => k # 2 /\ (k = 3 \/ 3 < k) /\ 3 \in 1..5
    OBVIOUS
  <2> QED
    BY <1>0, <1>8, <1>9, <1>10, <1>11, <2>1 DEF LaneOrder
<1>14. LaneOrder'
  BY <1>0, <1>4, <1>11, <1>12, <1>13, LaneMove
<1>15. Sorted(sendQueue'[t], AutoPm, seqOf)
  BY <1>5, <1>8
<1>16. /\ Sorted(TxQueue', AutoPm, seqOf) /\ Sorted(wire', AutoPm, seqOf)
       /\ \A q \in Packets : InQueue(wire', q) => q \in Submitted
  BY <1>4 DEF FifoInv, QueuesSorted, Numbered
<1>17. OwnPacket' /\ UNCHANGED <<endpoint, seqOf, SeqNo>>
  BY <1>4, <1>9
<1> QED
  BY <1>5, <1>14, <1>15, <1>16, <1>17, FifoRest

\* HIF puts the packet on the wire.
LEMMA HIFSendFifo ==
    ASSUME PacketInv, FifoInv, NEW t \in Threads, HIFSend(t) PROVE FifoInv'
<1>0. LaneOrder /\ "issue" \in DrainLabels /\ "hifSend" \in DrainLabels
  BY DEF FifoInv, DrainLabels
<1>1. pc[t] = "hifSend" /\ issuing[t] \in Packets
  BY DEF HIFSend, PacketInv, TypeInv, PacketInHand
<1>2. PICK p \in Packets : p = issuing[t]
  BY <1>1
<1>3. PICK w0 \in Seq(Packets) : w0 = wire
  BY PlaceTypes
<1>4. /\ UNCHANGED <<endpoint, seqOf, SeqNo, TxQueue, sendQueue, callersQueue>> /\ Goto(t, "issue")
      /\ wire' = Append(w0, p) /\ issuing' = [issuing EXCEPT ![t] = NoPacket]
  BY <1>2, <1>3 DEF HIFSend, epVars, pktVars, tgtVars
<1>5. \A u \in Threads : u # t => sendQueue'[u] = sendQueue[u] /\ issuing'[u] = issuing[u]
  BY <1>4, OtherThreads
<1>6. \A q : InQueue(wire', q) <=> InQueue(wire, q) \/ q = p
  BY <1>3, <1>4, AppendQueue
<1>7. /\ OwnPacket'
      /\ \A q \in Packets :
            /\ (Lane(1, q)' <=> Lane(1, q) \/ q = p) /\ (Lane(1, q) <=> InQueue(w0, q))
            /\ (Lane(2, q) <=> q = p) /\ ~Lane(2, q)' /\ (Lane(3, q)' => Lane(3, q))
            /\ (Lane(4, q)' => Lane(4, q)) /\ (Lane(5, q)' => Lane(5, q))
  BY <1>0, <1>1, <1>2, <1>3, <1>4, <1>5, <1>6, DrainerStep
<1>8. Lane(2, p)
  BY <1>7
<1>9. \A k \in 1..5, q \in Packets : Lane(k, q)' => Lane(k, q) \/ (q = p /\ k = 1)
  BY <1>7, Five
<1>10. \A k \in 1..5, q \in Packets : Lane(k, q)' /\ k < 1 => Follows(q, p, AutoPm, seqOf)
  <2>1. \A k \in 1..5 : ~(k < 1)
    OBVIOUS
  <2> QED
    BY <2>1
<1>11. \A k \in 1..5, q \in Packets : Lane(k, q)' /\ 1 < k => Follows(p, q, AutoPm, seqOf)
  <2>1. \A k \in 1..5 : 1 < k => k # 1 /\ (k = 2 \/ 2 < k) /\ 2 \in 1..5
    OBVIOUS
  <2> QED
    BY <1>0, <1>7, <1>8, <1>9, <2>1 DEF LaneOrder
<1>12. LaneOrder'
  BY <1>0, <1>4, <1>9, <1>10, <1>11, LaneMove
<1>13. Sorted(wire', AutoPm, seqOf)
  <2>1. Sorted(w0, AutoPm, seqOf)
    BY <1>3 DEF FifoInv, QueuesSorted
  <2>2. \A q \in Packets : InQueue(w0, q) => Follows(q, p, AutoPm, seqOf)
    BY <1>0, <1>7, <1>8 DEF LaneOrder
  <2> QED
    BY <1>4, <2>1, <2>2, SortedAppend
<1>14. \A q \in Packets : InQueue(wire', q) => q \in Submitted
  BY <1>6, <1>8, HeldSubmitted DEF FifoInv, Numbered
<1>15. Sorted(sendQueue'[t], AutoPm, seqOf) /\ Sorted(TxQueue', AutoPm, seqOf)
  BY <1>4 DEF FifoInv, QueuesSorted
<1> QED
  BY <1>4, <1>5, <1>7, <1>12, <1>13, <1>14, <1>15, FifoRest

\* A refused packet goes back to the head of the batch.
LEMMA HIFSendFailedFifo ==
    ASSUME PacketInv, FifoInv, NEW t \in Threads, HIFSendFailed(t) PROVE FifoInv'
<1>0. LaneOrder /\ "failBatch" \in DrainLabels /\ "hifSend" \in DrainLabels
  BY DEF FifoInv, DrainLabels
<1>1. pc[t] = "hifSend" /\ issuing[t] \in Packets
  BY DEF HIFSendFailed, PacketInv, TypeInv, PacketInHand
<1>2. PICK p \in Packets : p = issuing[t]
  BY <1>1
<1>3. PICK b0 \in Seq(Packets) : b0 = sendQueue[t]
  BY PlaceTypes
<1>4. /\ UNCHANGED <<endpoint, seqOf, SeqNo, wire, TxQueue, callersQueue>> /\ Goto(t, "failBatch")
      /\ sendQueue' = [sendQueue EXCEPT ![t] = <<p>> \o b0] /\ issuing' = [issuing EXCEPT ![t] = NoPacket]
  BY <1>2, <1>3 DEF HIFSendFailed, pktVars, hifVars, tgtVars
<1>5. /\ sendQueue'[t] = <<p>> \o b0
      /\ \A u \in Threads : u # t => sendQueue'[u] = sendQueue[u] /\ issuing'[u] = issuing[u]
  <2>1. sendQueue'[t] = <<p>> \o b0
    BY <1>4, OtherThreads
  <2>2. \A u \in Threads : u # t => sendQueue'[u] = sendQueue[u] /\ issuing'[u] = issuing[u]
    BY <1>4, OtherThreads
  <2> QED
    BY <2>1, <2>2
<1>6. <<p>> \in Seq(Packets) /\ \A q : InQueue(<<p>>, q) <=> q = p
  BY SingleQueue
<1>7. \A q : InQueue(<<p>> \o b0, q) <=> q = p \/ InQueue(b0, q)
  <2>1. \A q : InQueue(<<p>> \o b0, q) <=> InQueue(<<p>>, q) \/ InQueue(b0, q)
    BY <1>6, ConcatQueue
  <2> QED
    BY <1>6, <2>1, Zenon
<1>8. /\ OwnPacket'
      /\ \A q \in Packets :
            /\ (Lane(1, q)' => Lane(1, q)) /\ (Lane(2, q) <=> q = p) /\ ~Lane(2, q)'
            /\ (Lane(3, q)' <=> Lane(3, q) \/ q = p) /\ (Lane(3, q) <=> InQueue(b0, q))
            /\ (Lane(4, q)' => Lane(4, q)) /\ (Lane(5, q)' => Lane(5, q))
  BY <1>0, <1>1, <1>2, <1>3, <1>4, <1>5, <1>7, DrainerStep
<1>9. Lane(2, p)
  BY <1>8
<1>10. \A k \in 1..5, q \in Packets : Lane(k, q)' => Lane(k, q) \/ (q = p /\ k = 3)
  BY <1>8, Five
<1>11. \A k \in 1..5, q \in Packets : Lane(k, q)' /\ k < 3 => Follows(q, p, AutoPm, seqOf)
  <2>1. \A k \in 1..5 : k < 3 => k # 3 /\ (k = 2 \/ k < 2) /\ 2 \in 1..5
    OBVIOUS
  <2> QED
    BY <1>0, <1>8, <1>9, <1>10, <2>1 DEF LaneOrder
<1>12. \A k \in 1..5, q \in Packets : Lane(k, q)' /\ 3 < k => Follows(p, q, AutoPm, seqOf)
  <2>1. \A k \in 1..5 : 3 < k => k # 3 /\ 2 < k /\ 2 \in 1..5
    OBVIOUS
  <2> QED
    BY <1>0, <1>9, <1>10, <2>1 DEF LaneOrder
<1>13. LaneOrder'
  BY <1>0, <1>4, <1>10, <1>11, <1>12, LaneMove
<1>14. Sorted(sendQueue'[t], AutoPm, seqOf)
  <2>1. Sorted(b0, AutoPm, seqOf)
    BY <1>3 DEF FifoInv, QueuesSorted
  <2>2. Sorted(<<p>>, AutoPm, seqOf)
    BY DEF Sorted
  <2>3. \A x, y \in Packets : InQueue(<<p>>, x) /\ InQueue(b0, y) => Follows(x, y, AutoPm, seqOf)
    <3>1. 2 \in 1..5 /\ 3 \in 1..5 /\ 2 < 3
      OBVIOUS
    <3> QED
      BY <1>0, <1>6, <1>8, <1>9, <3>1 DEF LaneOrder
  <2> QED
    BY <1>5, <1>6, <2>1, <2>2, <2>3, SortedConcat
<1> QED
  BY <1>4, <1>5, <1>8, <1>13, <1>14, FifoRest DEF FifoInv, QueuesSorted, Numbered

\* The head of a refused batch is completed.
LEMMA FailPacketFifo ==
    ASSUME PacketInv, FifoInv, NEW t \in Threads, FailPacket(t) PROVE FifoInv'
<1>0. LaneOrder /\ "failBatch" \in DrainLabels
  BY DEF FifoInv, DrainLabels
<1>1. pc[t] = "failBatch" /\ sendQueue[t] # <<>> /\ Goto(t, "failBatch")
  BY PlaceTypes DEF FailPacket, Goto
<1>2. PICK b0 \in Seq(Packets) : b0 = sendQueue[t]
  BY PlaceTypes
<1>3. /\ UNCHANGED <<endpoint, seqOf, SeqNo, wire, TxQueue, callersQueue, issuing>>
      /\ sendQueue' = [sendQueue EXCEPT ![t] = Tail(b0)]
  BY <1>2 DEF FailPacket, epVars, pktVars, hifVars, tgtVars
<1>4. /\ sendQueue'[t] = Tail(b0)
      /\ \A u \in Threads : u # t => sendQueue'[u] = sendQueue[u] /\ issuing'[u] = issuing[u]
  <2>1. sendQueue'[t] = Tail(b0)
    BY <1>3, OtherThreads
  <2>2. \A u \in Threads : u # t => sendQueue'[u] = sendQueue[u] /\ issuing'[u] = issuing[u]
    BY <1>3, OtherThreads
  <2> QED
    BY <2>1, <2>2
<1>5. NoRepeat(b0) /\ Sorted(b0, AutoPm, seqOf) /\ b0 # <<>>
  BY <1>1, <1>2 DEF PacketInv, PlaceInv, NoRepeats, FifoInv, QueuesSorted
<1>6. \A q : InQueue(Tail(b0), q) => InQueue(b0, q)
  BY <1>5, TailQueue
<1>7. Sorted(Tail(b0), AutoPm, seqOf)
  BY <1>5, SortedTail
<1>8. /\ OwnPacket'
      /\ \A q \in Packets :
            /\ (Lane(1, q)' => Lane(1, q)) /\ (Lane(2, q)' => Lane(2, q)) /\ (Lane(3, q)' => Lane(3, q))
            /\ (Lane(4, q)' => Lane(4, q)) /\ (Lane(5, q)' => Lane(5, q))
  BY <1>0, <1>1, <1>2, <1>3, <1>4, <1>6, DrainerStep
<1>9. \A k \in 1..5, q \in Packets : Lane(k, q)' => Lane(k, q)
  BY <1>8, Five
<1>10. LaneOrder'
  BY <1>0, <1>3, <1>9, LanesShrink
<1> QED
  BY <1>3, <1>4, <1>7, <1>8, <1>10, FifoRest DEF FifoInv, QueuesSorted, Numbered

\* What is left of the AUTO_PM packets goes back in front of TxQueue.
LEMMA EndPassFifo ==
    ASSUME PmInv, FifoInv, NEW t \in Threads, EndPass(t) PROVE FifoInv'
<1>0. PacketInv /\ PassInv /\ LaneOrder
  BY DEF PmInv, FifoInv
<1>1. pc[t] = "get" /\ pc[t] \in DrainLabels /\ callersQueue[t] = NoPacket
  BY <1>0 DEF EndPass, DrainLabels, PacketInv, PlaceInv, LocalsFree
<1>2. PICK label \in {"return", "issue"} : Goto(t, label) /\ (label = "return" => sendQueue[t] = <<>>)
  BY DEF EndPass
<1>3. PICK q0 \in Seq(Packets) : q0 = TxQueue
  BY <1>0, PlaceTypes
<1>4. PICK a0 \in Seq(Packets) : a0 = tempQueue[t]
  BY <1>0, PlaceTypes
<1>5. /\ UNCHANGED <<endpoint, seqOf, SeqNo, wire, issuing, sendQueue, callersQueue>> /\ TxQueue' = a0 \o q0
  BY <1>3, <1>4 DEF EndPass, pktVars, hifVars, tgtVars
<1>6. /\ pc'[t] = label /\ label # "hifSend" /\ (label \in DrainLabels <=> label = "issue")
      /\ \A u \in Threads : u # t => pc'[u] = pc[u]
  BY <1>0, <1>2, OtherThreads DEF DrainLabels
<1>7. \A q : InQueue(a0, q) => q \in AutoPm
  BY <1>0, <1>4 DEF PassInv
<1>8. \A q : InQueue(TxQueue', q) <=> InQueue(a0, q) \/ InQueue(TxQueue, q)
  BY <1>3, <1>5, ConcatQueue
<1>9. ASSUME NEW u \in Threads, NEW q \in Packets
      PROVE  /\ pc'[u] = "hifSend" /\ issuing'[u] = q => pc[u] = "hifSend" /\ issuing[u] = q
             /\ pc'[u] \in DrainLabels /\ InQueue(sendQueue'[u], q)
                   => pc[u] \in DrainLabels /\ InQueue(sendQueue[u], q)
             /\ pc'[u] \notin DrainLabels /\ (InQueue(sendQueue'[u], q) \/ callersQueue'[u] = q)
                   => pc[u] \notin DrainLabels /\ (InQueue(sendQueue[u], q) \/ callersQueue[u] = q)
  <2>1. CASE u # t
    BY <1>5, <1>6, <2>1
  <2>2. CASE u = t
    <3>1. ~InQueue(<<>>, q) /\ q # NoPacket
      BY ThreadFacts DEF InQueue
    <3> QED
      BY <1>1, <1>2, <1>5, <1>6, <2>2, <3>1
  <2> QED
    BY <2>1, <2>2
<1>10. \A k \in 1..5, q \in Packets : Lane(k, q)' => Lane(k, q) \/ q \in AutoPm
  BY <1>5, <1>7, <1>8, <1>9 DEF Lane
<1>11. LaneOrder'
  BY <1>0, <1>5, <1>10, LanesShrink
<1>12. OwnPacket'
  BY <1>9 DEF FifoInv, OwnPacket
<1>13. Sorted(TxQueue', AutoPm, seqOf)
  <2>1. \A x, y \in Packets : InQueue(a0, x) /\ InQueue(q0, y) => Follows(x, y, AutoPm, seqOf)
    BY <1>7 DEF Follows
  <2>2. Sorted(q0, AutoPm, seqOf)
    BY <1>3 DEF FifoInv, QueuesSorted
  <2>3. Sorted(a0, AutoPm, seqOf)
    BY <1>7 DEF Sorted, Follows, InQueue
  <2> QED
    BY <1>5, <2>1, <2>2, <2>3, SortedConcat
<1> QED
  BY <1>5, <1>11, <1>12, <1>13, FifoRest DEF FifoInv, QueuesSorted, Numbered

\* A client's packets go to the end of TxQueue; the packets still outside are of other clients.
LEMMA EnterFifo ==
    ASSUME PacketInv, FifoInv, NEW t \in Threads, Enter(t) PROVE FifoInv'
<1>0. LaneOrder /\ OwnPacket
  BY DEF FifoInv
<1>1. pc[t] = "enter" /\ pc[t] \notin DrainLabels /\ callersQueue[t] = NoPacket
  BY DEF Enter, DrainLabels, PacketInv, PlaceInv, LocalsFree
<1>2. PICK label \in {"return", "drain"} : Goto(t, label)
  BY DEF Enter
<1>3. PICK q0 \in Seq(Packets) : q0 = TxQueue
  BY PlaceTypes
<1>4. PICK b0 \in Seq(Packets) : b0 = sendQueue[t]
  BY PlaceTypes
<1>5. /\ UNCHANGED <<endpoint, seqOf, SeqNo, wire, issuing, callersQueue>>
      /\ TxQueue' = q0 \o b0 /\ sendQueue' = [sendQueue EXCEPT ![t] = <<>>]
  BY <1>3, <1>4 DEF Enter, Queued, pktVars, hifVars, tgtVars
<1>6. /\ sendQueue'[t] = <<>> /\ \A u \in Threads : u # t => sendQueue'[u] = sendQueue[u]
      /\ pc'[t] = label /\ label # "hifSend" /\ \A u \in Threads : u # t => pc'[u] = pc[u]
  <2>1. sendQueue'[t] = <<>> /\ \A u \in Threads : u # t => sendQueue'[u] = sendQueue[u]
    BY <1>2, <1>5, OtherThreads
  <2>2. pc'[t] = label /\ label # "hifSend" /\ \A u \in Threads : u # t => pc'[u] = pc[u]
    BY <1>2, <1>5, OtherThreads
  <2> QED
    BY <2>1, <2>2
<1>7. \A q : InQueue(TxQueue', q) <=> InQueue(TxQueue, q) \/ InQueue(b0, q)
  BY <1>3, <1>5, ConcatQueue
<1>8. \A q \in Packets : ~InQueue(sendQueue'[t], q) /\ callersQueue'[t] # q
  BY <1>1, <1>5, <1>6, ThreadFacts DEF InQueue
<1>9. \A u \in Threads, q \in Packets :
         pc'[u] \notin DrainLabels /\ (InQueue(sendQueue'[u], q) \/ callersQueue'[u] = q)
         => u # t /\ pc[u] \notin DrainLabels /\ (InQueue(sendQueue[u], q) \/ callersQueue[u] = q)
  BY <1>5, <1>6, <1>8
<1>10. OwnPacket'
  BY <1>0, <1>9 DEF OwnPacket
<1>11. \A q \in Packets : InQueue(b0, q) => Lane(5, q) /\ SenderOf[q] = t
  BY <1>0, <1>1, <1>4 DEF Lane, OwnPacket
<1>12. \A q \in Packets : Lane(5, q)' => Lane(5, q) /\ SenderOf[q] # t
  BY <1>0, <1>9 DEF Lane, OwnPacket
<1>13. ASSUME NEW q \in Packets
       PROVE  /\ (Lane(1, q)' => Lane(1, q)) /\ (Lane(2, q)' => Lane(2, q)) /\ (Lane(3, q)' => Lane(3, q))
              /\ Lane(4, q)' => Lane(4, q) \/ InQueue(b0, q)
  <2>1. (\E u \in Threads : pc'[u] = "hifSend" /\ issuing'[u] = q)
        => (\E u \in Threads : pc[u] = "hifSend" /\ issuing[u] = q)
    BY <1>5, <1>6
  <2>2. (\E u \in Threads : pc'[u] \in DrainLabels /\ InQueue(sendQueue'[u], q))
        => (\E u \in Threads : pc[u] \in DrainLabels /\ InQueue(sendQueue[u], q))
    BY <1>6, <1>8
  <2> QED
    BY <1>5, <1>7, <2>1, <2>2 DEF Lane
<1>14. UNCHANGED AutoPm
  BY <1>5 DEF AutoPm
<1>15. LaneOrder'
  <2> SUFFICES ASSUME NEW j \in 1..5, NEW k \in 1..5, NEW p \in Packets, NEW q \in Packets,
                      j < k, Lane(j, p)', Lane(k, q)'
               PROVE  Follows(p, q, AutoPm, seqOf)
    BY <1>5, <1>14 DEF LaneOrder
  <2>1. Lane(k, q) \/ (k = 4 /\ Lane(5, q))
    BY <1>11, <1>12, <1>13, Five
  <2>2. CASE Lane(j, p)
    <3>1. 5 \in 1..5 /\ j < 5
      OBVIOUS
    <3> QED
      BY <1>0, <2>1, <2>2, <3>1 DEF LaneOrder
  <2>3. CASE ~Lane(j, p)
    <3>1. j = 4 /\ InQueue(b0, p)
      BY <1>12, <1>13, <2>3, Five
    <3>2. k = 5
      BY <3>1
    <3> QED
      BY <1>11, <1>12, <3>1, <3>2 DEF Follows
  <2> QED
    BY <2>2, <2>3
<1>16. Sorted(TxQueue', AutoPm, seqOf)
  <2>1. Sorted(q0, AutoPm, seqOf) /\ Sorted(b0, AutoPm, seqOf)
    BY <1>3, <1>4 DEF FifoInv, QueuesSorted
  <2>2. \A x, y \in Packets : InQueue(q0, x) /\ InQueue(b0, y) => Follows(x, y, AutoPm, seqOf)
    <3>1. 4 \in 1..5 /\ 5 \in 1..5 /\ 4 < 5
      OBVIOUS
    <3>2. \A x \in Packets : InQueue(q0, x) => Lane(4, x)
      BY <1>3 DEF Lane
    <3> QED
      BY <1>0, <1>11, <3>1, <3>2 DEF LaneOrder
  <2> QED
    BY <1>5, <2>1, <2>2, SortedConcat
<1>17. Sorted(sendQueue'[t], AutoPm, seqOf)
  BY <1>6 DEF Sorted
<1> QED
  BY <1>5, <1>6, <1>10, <1>15, <1>16, <1>17, FifoRest DEF FifoInv, QueuesSorted, Numbered

\* The steps of a thread that move no packet, or give one back.
LEMMA QuietStepsFifo ==
    ASSUME PacketInv, FifoInv, NEW t \in Threads,
           \/ TestDepth(t) \/ ReadResources(t) \/ Relock(t) \/ BeginPass(t) \/ EndDrain(t) \/ EndIssue(t)
           \/ Return(t)
           \/ (t = Completer /\ \/ SendDone \/ HTCLookupTxPacket \/ HTCTxCompletionHandler
                                \/ Recycle \/ HTCProcessCreditRpt)
           \/ (t = Resumer /\ HTCTxResumeAllHandler)
    PROVE  FifoInv'
<1>1. UNCHANGED <<endpoint, seqOf, SeqNo, wire, TxQueue, issuing, sendQueue>>
  BY DEF TestDepth, ReadResources, Relock, BeginPass, EndDrain, EndIssue, Return, SendDone,
         HTCLookupTxPacket, HTCTxCompletionHandler, Recycle, HTCProcessCreditRpt, HTCTxResumeAllHandler,
         epVars, pktVars, thVars, hifVars, tgtVars
<1>2. CASE TestDepth(t) \/ ReadResources(t) \/ Relock(t) \/ BeginPass(t) \/ EndIssue(t)
  <2>1. UNCHANGED callersQueue
    BY <1>2 DEF TestDepth, ReadResources, Relock, BeginPass, EndIssue, thVars
  <2>2. PICK label \in {"sendFull", "addDepth", "enter", "relock", "drain", "pull", "get", "rereadResources"} :
           Goto(t, label) /\ (pc[t] \in DrainLabels <=> label \in DrainLabels)
    <3>1. CASE TestDepth(t)
      BY <3>1 DEF TestDepth, DrainLabels
    <3>2. CASE ReadResources(t)
      BY <3>2 DEF ReadResources, DrainLabels
    <3>3. CASE Relock(t) \/ BeginPass(t) \/ EndIssue(t)
      BY <3>3 DEF Relock, BeginPass, EndIssue, DrainLabels
    <3> QED
      BY <1>2, <3>1, <3>2, <3>3
  <2> QED
    BY <1>1, <2>1, <2>2, QuietFifo
<1>3. CASE EndDrain(t)
  <2>1. pc[t] = "drain" /\ Goto(t, "return") /\ UNCHANGED callersQueue
    BY <1>3 DEF EndDrain, thVars
  <2>2. sendQueue[t] = <<>> /\ callersQueue[t] = NoPacket
    BY <2>1 DEF PacketInv, PlaceInv, LocalsFree
  <2> QED
    BY <1>1, <2>1, <2>2, QuietFifo
<1>4. CASE Return(t)
  <2>1. PICK label \in {"recycle", "idle"} : Goto(t, label)
    BY <1>4 DEF Return
  <2>2. pc[t] = "return" /\ callersQueue' = [callersQueue EXCEPT ![t] = NoPacket]
    BY <1>4 DEF Return
  <2>3. callersQueue'[t] = NoPacket /\ \A u \in Threads : u # t => callersQueue'[u] = callersQueue[u]
    BY <2>2, OtherThreads
  <2>4. pc[t] \notin DrainLabels /\ label \notin DrainLabels /\ label # "hifSend"
    BY <2>2 DEF DrainLabels
  <2> QED
    BY <1>1, <2>1, <2>3, <2>4, QuietFifo
<1>5. CASE \/ (t = Completer /\ \/ SendDone \/ HTCLookupTxPacket \/ HTCTxCompletionHandler
                                \/ Recycle \/ HTCProcessCreditRpt)
           \/ (t = Resumer /\ HTCTxResumeAllHandler)
  <2>1. UNCHANGED callersQueue
    BY <1>5 DEF SendDone, HTCLookupTxPacket, HTCTxCompletionHandler, Recycle, HTCProcessCreditRpt,
                HTCTxResumeAllHandler, thVars
  <2>2. PICK label \in {"idle", "lookup", "complete", "notFound", "recycle", "readResources"} : Goto(t, label)
    BY <1>5 DEF SendDone, HTCLookupTxPacket, HTCTxCompletionHandler, Recycle, HTCProcessCreditRpt,
                HTCTxResumeAllHandler
  <2>3. pc[t] \in {"idle", "lookup", "complete", "notFound", "recycle"}
    BY <1>5 DEF SendDone, HTCLookupTxPacket, HTCTxCompletionHandler, Recycle, HTCProcessCreditRpt,
                HTCTxResumeAllHandler
  <2>4. pc[t] \notin DrainLabels /\ label \notin DrainLabels /\ label # "hifSend"
    BY <2>3 DEF DrainLabels
  <2> QED
    BY <1>1, <2>1, <2>2, <2>4, QuietFifo
<1> QED
  BY <1>2, <1>3, <1>4, <1>5

\* Every step keeps the order of a client's packets.
LEMMA FifoStep == FewPackets /\ PmInv /\ FifoInv /\ [Next]_vars => FifoInv'
<1> SUFFICES ASSUME FewPackets, PmInv, FifoInv, [Next]_vars PROVE FifoInv'
  OBVIOUS
<1>0. PacketInv
  BY DEF PmInv
<1>1. CASE \E t \in Senders, p \in Packets : HTCSendPkt(t, p)
  BY <1>0, <1>1, SendPktFifo
<1>2. ASSUME NEW t \in Threads, HTCTrySend(t) PROVE FifoInv'
  <2>1. CASE AddDepth(t) \/ SendFull(t)
    BY <1>0, <2>1, OutsideFifo
  <2>2. CASE Enter(t) \/ EndPass(t)
    BY <1>0, <2>2, EnterFifo, EndPassFifo
  <2>3. CASE GetHTCAutoPmSendPackets(t) \/ TakePacket(t)
    BY <2>3, PullFifo, TakeFifo
  <2>4. CASE StartIssue(t) \/ HIFSend(t)
    BY <1>0, <2>4, StartIssueFifo, HIFSendFifo
  <2>5. CASE HIFSendFailed(t) \/ FailPacket(t)
    BY <1>0, <2>5, HIFSendFailedFifo, FailPacketFifo
  <2> QED
    BY <1>0, <1>2, <2>1, <2>2, <2>3, <2>4, <2>5, QuietStepsFifo DEF HTCTrySend
<1>3. CASE \/ SendDone \/ HTCLookupTxPacket \/ HTCTxCompletionHandler \/ Recycle \/ HTCProcessCreditRpt
           \/ HTCTxResumeAllHandler
  BY <1>0, <1>3, ThreadFacts, QuietStepsFifo
<1>4. CASE \/ SwallowCompletion \/ TargetConsume \/ TargetReport \/ (\E p \in Packets : HttResponse(p))
           \/ PmCoreSuspend \/ RuntimeSuspend
           \/ RuntimeResume \/ UNCHANGED vars
  <2>1. UNCHANGED <<endpoint, seqOf, SeqNo, wire, pc, issuing, sendQueue, callersQueue, TxQueue>>
    BY <1>4 DEF SwallowCompletion, TargetConsume, TargetReport, HttResponse, PmCoreSuspend, RuntimeSuspend, RuntimeResume,
                SetPm, vars, epVars, pktVars, thVars, hifVars, tgtVars
  <2> QED
    BY <2>1, RestFifo
<1>5. CASE HTCFlushEndpoint
  <2>1. /\ UNCHANGED <<endpoint, seqOf, SeqNo, wire, pc, issuing, sendQueue, callersQueue>> /\ TxQueue' = <<>>
    BY <1>5 DEF HTCFlushEndpoint, pktVars, thVars, hifVars, tgtVars
  <2> QED
    BY <2>1, RestFifo
<1> QED
  BY <1>1, <1>2, <1>3, <1>4, <1>5 DEF Next, Completion

\* FifoInv holds of every behaviour in which the 8 bits of SeqNo suffice: a packet is never
\* overtaken by a later one of its client, from HTCSendPkt to the pipe.
THEOREM FifoInvariant == ASSUME FewPackets PROVE Spec => []FifoInv
<1>1. Init => FifoInv
  <2> SUFFICES ASSUME Init PROVE FifoInv
    OBVIOUS
  <2>1. \A q : ~InQueue(<<>>, q)
    BY DEF InQueue
  <2>2. \A k \in 1..5, q \in Packets : ~Lane(k, q)
    BY <2>1, ThreadFacts DEF Init, Lane
  <2>3. LaneOrder
    BY <2>2 DEF LaneOrder
  <2>4. QueuesSorted
    BY DEF Init, QueuesSorted, Sorted
  <2>5. OwnPacket
    BY <2>1, ThreadFacts DEF Init, OwnPacket
  <2>6. Submitted = {}
    BY DEF Init, Submitted
  <2>7. Cardinality({}) = 0
    BY FS_EmptySet
  <2>8. Numbered
    BY <2>1, <2>6, <2>7 DEF Init, Numbered
  <2> QED
    BY <2>3, <2>4, <2>5, <2>8 DEF FifoInv
<1>2. PmInv /\ FifoInv /\ [Next]_vars => FifoInv'
  BY FifoStep
<1> QED
  BY <1>1, <1>2, PmInvariant, PTL DEF Spec

\* The packets of one client, AUTO_PM packets apart, are on the wire in the order it sent them,
\* for every number of clients, credits and ring entries, with refused packets, flushes and
\* suspends; the sequence numbers it is stated with are told apart by their 8 bits.
THEOREM FifoPerClientAlways == ASSUME FewPackets PROVE Spec => []FifoPerClient
<1>1. PmInv /\ FifoInv => FifoPerClient
  <2> SUFFICES ASSUME PmInv, FifoInv PROVE FifoPerClient
    OBVIOUS
  <2>1. Sorted(wire, AutoPm, seqOf)
    BY DEF FifoInv, QueuesSorted
  <2> QED
    BY <2>1 DEF FifoPerClient, Sorted, Follows
<1> QED
  BY <1>1, PmInvariant, FifoInvariant, PTL

----------------------------------------------------------------------------
(* The credits *)

PayLabels == DrainLabels \ {"failBatch"}
InHand(t, p) == InQueue(sendQueue[t], p) \/ issuing[t] = p
Unconsumed(p) == \E i \in tgtDone + 1 .. Len(wire) : wire[i] = p

\* packet p holds the credits it was charged
Pays(p) == (\E t \in Threads : pc[t] \in PayLabels /\ InHand(t, p)) \/ Unconsumed(p)
Payers == {p \in Packets : Pays(p)}

\* HIF refused the packet, or one before it in its batch
Refused == {p \in Packets : \/ result[p] = "error"
                            \/ \E t \in Threads : pc[t] = "failBatch" /\ InQueue(sendQueue[t], p)}

\* the account of the endpoint's credits, when those of the packets of L are lost
Account(L) ==
    TxCredits + Total(creditsUsed, Payers) + tgtCredits + Total(reports, DOMAIN reports)
        + Total(creditsUsed, L) = TotalCredits

\* Only refused packets lose credits.
Accounted == \E L \in SUBSET Refused : IsFiniteSet(L) /\ Account(L)
FreeOfCharge == ~CreditFlow => \A p \in Packets : creditsUsed[p] = 0

CreditInv == FreeOfCharge /\ IsFiniteSet(Payers) /\ Accounted

LEMMA CreditTypes ==
    ASSUME PacketInv
    PROVE  /\ TxCredits \in Nat /\ tgtCredits \in Nat /\ reports \in Seq(Nat) /\ tgtDone \in Nat
           /\ creditsUsed \in [Packets -> Nat] /\ Len(wire) \in Nat
           /\ Payers \subseteq Packets /\ Refused \subseteq Packets
  BY DEF PacketInv, TypeInv, TypeOK, EpTypeOK, PktTypeOK, PipeTypeOK, TargetTypeOK, Payers, Refused

\* Whatever was refused stays so.
LEMMA RefusedKept ==
    ASSUME PacketInv, [Next]_vars,
           \A t \in Threads, q \in Packets :
               pc[t] = "failBatch" /\ InQueue(sendQueue[t], q)
               => (pc'[t] = "failBatch" /\ InQueue(sendQueue'[t], q)) \/ result'[q] = "error"
    PROVE  Refused \subseteq Refused'
<1>1. \A q \in Packets : result[q] = "error" => result'[q] = "error"
  BY Told
<1> QED
  BY <1>1 DEF Refused

\* The account does not move.
LEMMA AccountKept ==
    ASSUME CreditInv, UNCHANGED <<endpoint, TxCredits, creditsUsed, tgtCredits, reports>>,
           \A q \in Packets : Pays(q)' <=> Pays(q), Refused \subseteq Refused'
    PROVE  CreditInv'
<1>1. Payers' = Payers
  BY DEF Payers
<1>2. PICK L \in SUBSET Refused : IsFiniteSet(L) /\ Account(L)
  BY DEF CreditInv, Accounted
<1>3. Account(L)'
  BY <1>1, <1>2 DEF Account
<1>4. FreeOfCharge'
  BY DEF CreditInv, FreeOfCharge, CreditFlow
<1> QED
  BY <1>1, <1>2, <1>3, <1>4 DEF CreditInv, Accounted

\* A thread moves with the packets in its hands.
LEMMA MovePays ==
    ASSUME PacketInv, NEW t \in Threads, NEW label, Goto(t, label), UNCHANGED <<wire, tgtDone>>,
           \A u \in Threads : u # t => sendQueue'[u] = sendQueue[u] /\ issuing'[u] = issuing[u],
           \A q \in Packets : (pc[t] \in PayLabels /\ InHand(t, q)) <=> (label \in PayLabels /\ InHand(t, q)')
    PROVE  \A q \in Packets : Pays(q)' <=> Pays(q)
<1>1. pc'[t] = label /\ \A u \in Threads : u # t => pc'[u] = pc[u]
  BY OtherThreads
<1> SUFFICES ASSUME NEW q \in Packets PROVE Pays(q)' <=> Pays(q)
  OBVIOUS
<1>2. ASSUME NEW u \in Threads
      PROVE  (pc'[u] \in PayLabels /\ InHand(u, q)') <=> (pc[u] \in PayLabels /\ InHand(u, q))
  <2>1. CASE u = t
    BY <1>1, <2>1
  <2>2. CASE u # t
    BY <1>1, <2>2 DEF InHand, InQueue
  <2> QED
    BY <2>1, <2>2
<1>3. Unconsumed(q)' <=> Unconsumed(q)
  BY DEF Unconsumed
<1> QED
  BY <1>2, <1>3 DEF Pays

\* Only the drainer has paying packets in its hands.
LEMMA DrainerPays ==
    ASSUME PacketInv, NEW t \in Threads, pc[t] \in DrainLabels, NEW label \in DrainLabels, Goto(t, label),
           NEW q \in Packets
    PROVE  /\ Pays(q) <=> (pc[t] # "failBatch" /\ InHand(t, q)) \/ Unconsumed(q)
           /\ Pays(q)' <=> (label # "failBatch" /\ InHand(t, q)') \/ Unconsumed(q)'
<1>1. pc'[t] = label /\ \A u \in Threads : u # t => pc'[u] = pc[u]
  BY OtherThreads
<1>2. \A u \in Threads : u # t => pc[u] \notin DrainLabels
  BY DEF PacketInv, DrainInv, SingleDrainer
<1>3. \A u \in Threads : u # t => pc[u] \notin PayLabels /\ pc'[u] \notin PayLabels
  BY <1>1, <1>2 DEF PayLabels
<1> QED
  BY <1>1, <1>3 DEF Pays, PayLabels

\* The drainer charges a packet.
LEMMA TakeCredits ==
    ASSUME PacketInv, SentInv, CreditInv, NEW t \in Threads, TakePacket(t) PROVE CreditInv'
<1>1. /\ pc[t] = "get" /\ PassQueue(t) # <<>> /\ issuing[t] = NoPacket /\ t \in Owners
  BY ThreadFacts DEF TakePacket, CanTake, PacketInv, PlaceInv, LocalsFree
<1>2. PICK q0 \in Seq(Packets) : q0 = PassQueue(t)
  BY PlaceTypes DEF PassQueue
<1>3. PICK b0 \in Seq(Packets) : b0 = sendQueue[t]
  BY PlaceTypes
<1>4. PICK p \in Packets : p = Head(q0)
  BY <1>1, <1>2
<1>5. /\ Charge(t, p) /\ sendQueue' = [sendQueue EXCEPT ![t] = Append(b0, p)]
      /\ UNCHANGED <<endpoint, pc, issuing, wire, tgtDone, tgtCredits, reports, result>>
      /\ [Next]_vars
  <2>1. [Next]_vars
    BY DEF Next, HTCTrySend
  <2> QED
    BY <1>2, <1>3, <1>4, <2>1 DEF TakePacket, hifVars, tgtVars, cliVars
<1>6. sendQueue'[t] = Append(b0, p) /\ \A u \in Threads : u # t => sendQueue'[u] = sendQueue[u]
  BY <1>5, OtherThreads
<1>7. InQueue(TxQueue, p) \/ InQueue(tempQueue[t], p)
  <2>1. NoRepeat(q0)
    BY <1>2 DEF PacketInv, PlaceInv, NoRepeats, PassQueue
  <2>2. InQueue(q0, p)
    BY <1>1, <1>2, <1>4, <2>1, TailQueue
  <2> QED
    BY <1>2, <2>2 DEF PassQueue
<1>8. /\ \A u \in Threads : ~InQueue(sendQueue[u], p)
      /\ result[p] = "none"
  <2>1. PICK m \in {"queue", "temp"}, u \in Owners : HeldIn(m, u, p)
    BY <1>1, <1>7, ThreadFacts DEF HeldIn
  <2>2. {"queue", "temp", "batch"} \subseteq Names /\ Threads \subseteq Owners /\ Counted
    BY ThreadFacts DEF Names, PacketInv, PlaceInv
  <2>3. result[p] = "none" /\ \A k \in Names, v \in Owners : HeldIn(k, v, p) => k = m
    BY <2>1, <2>2, HeldOnce
  <2>4. \A v \in Threads : InQueue(sendQueue[v], p) => HeldIn("batch", v, p)
    BY DEF HeldIn
  <2> QED
    BY <2>1, <2>2, <2>3, <2>4
<1>9. "get" \in DrainLabels /\ Goto(t, "get") /\ NoPacket \notin Packets
  BY <1>1, <1>5, PlaceTypes, ThreadFacts DEF Goto, DrainLabels
<1>10. ~Pays(p) /\ p \notin Refused
  <2>1. ~Unconsumed(p)
    <3>1. ~InQueue(wire, p)
      BY <1>7, SentIsApart
    <3>2. \A i \in tgtDone + 1 .. Len(wire) : i \in DOMAIN wire
      BY CreditTypes, PlaceTypes
    <3> QED
      BY <3>1, <3>2 DEF Unconsumed, InQueue
  <2>2. ~InHand(t, p)
    BY <1>1, <1>8, <1>9 DEF InHand
  <2>3. ~Pays(p)
    BY <1>1, <1>9, <2>1, <2>2, DrainerPays
  <2> QED
    BY <1>8, <2>3 DEF Refused
<1>11. \A q \in Packets : Pays(q)' <=> Pays(q) \/ q = p
  <2> SUFFICES ASSUME NEW q \in Packets PROVE Pays(q)' <=> Pays(q) \/ q = p
    OBVIOUS
  <2>1. InQueue(Append(b0, p), q) <=> InQueue(b0, q) \/ q = p
    BY AppendQueue
  <2>2. InHand(t, q)' <=> InHand(t, q) \/ q = p
    BY <1>3, <1>5, <1>6, <2>1 DEF InHand
  <2>3. Unconsumed(q)' <=> Unconsumed(q)
    BY <1>5 DEF Unconsumed
  <2> QED
    BY <1>1, <1>9, <2>2, <2>3, DrainerPays
<1>12. Payers' = Payers \cup {p} /\ p \notin Payers
  BY <1>10, <1>11 DEF Payers
<1>13. PICK L \in SUBSET Refused : IsFiniteSet(L) /\ Account(L)
  BY DEF CreditInv, Accounted
<1>14. PICK c \in Nat : /\ creditsUsed' = [creditsUsed EXCEPT ![p] = c] /\ TxCredits' = TxCredits - c
                        /\ ~CreditFlow => c = 0
  <2>1. CASE CreditFlow
    BY <1>5, <2>1, CreditsRequiredType DEF Charge
  <2>2. CASE ~CreditFlow
    BY <1>5, <2>2, CreditTypes DEF Charge
  <2> QED
    BY <2>1, <2>2
<1>15. /\ creditsUsed'[p] = c /\ \A q \in Packets : q # p => creditsUsed'[q] = creditsUsed[q]
       /\ creditsUsed' \in [Packets -> Nat]
  BY <1>14, CreditTypes
<1>16. /\ IsFiniteSet(Payers') /\ Total(creditsUsed', Payers') = c + Total(creditsUsed, Payers)
  <2>1. IsFiniteSet(Payers)
    BY DEF CreditInv
  <2>2. /\ IsFiniteSet(Payers \cup {p})
        /\ Total(creditsUsed', Payers \cup {p}) = creditsUsed'[p] + Total(creditsUsed', Payers)
    BY <1>12, <1>15, <2>1, CreditTypes, TotalAdd
  <2>3. Total(creditsUsed, Payers) = Total(creditsUsed', Payers)
    BY <1>12, <1>15, <2>1, CreditTypes, TotalSame
  <2> QED
    BY <1>12, <1>15, <2>2, <2>3
<1>17. Total(creditsUsed', L) = Total(creditsUsed, L)
  <2>1. p \notin L /\ L \subseteq Packets
    BY <1>10, <1>13, CreditTypes
  <2> QED
    BY <1>13, <1>15, <2>1, CreditTypes, TotalSame
<1>18. L \subseteq Refused'
  <2>1. \A u \in Threads : pc[u] # "failBatch"
    BY <1>1, <1>9 DEF PacketInv, DrainInv, SingleDrainer, DrainLabels
  <2> QED
    BY <1>5, <1>13, <2>1, RefusedKept
<1>19. Account(L)'
  <2>1. /\ Total(creditsUsed, Payers) \in Nat /\ Total(creditsUsed, L) \in Nat
        /\ Total(reports, DOMAIN reports) \in Nat /\ UNCHANGED reports
    <3>1. L \subseteq Packets /\ IsFiniteSet(Payers)
      BY <1>13, CreditTypes DEF CreditInv
    <3> QED
      BY <1>5, <1>13, <3>1, CreditTypes, TotalRemove, TotalOfSequence
  <2> QED
    BY <1>5, <1>13, <1>14, <1>16, <1>17, <2>1, CreditTypes DEF Account
<1>20. FreeOfCharge'
  BY <1>5, <1>14, <1>15 DEF CreditInv, FreeOfCharge, CreditFlow
<1> QED
  BY <1>13, <1>16, <1>18, <1>19, <1>20 DEF CreditInv, Accounted

\* The numbers of the account.
LEMMA AccountTypes ==
    ASSUME PacketInv, CreditInv, NEW L \in SUBSET Refused, IsFiniteSet(L)
    PROVE  /\ Total(creditsUsed, Payers) \in Nat /\ Total(creditsUsed, L) \in Nat
           /\ Total(reports, DOMAIN reports) \in Nat
           /\ TxCredits \in Nat /\ tgtCredits \in Nat /\ TotalCredits \in Nat
<1>1. L \subseteq Packets /\ IsFiniteSet(Payers) /\ Payers \subseteq Packets
  BY CreditTypes DEF CreditInv
<1> QED
  BY <1>1, CreditTypes, TotalRemove, TotalOfSequence, ParameterAssumption

\* HTCIssuePackets takes the next packet of the batch in hand.
LEMMA StartIssueCredits ==
    ASSUME PacketInv, CreditInv, NEW t \in Threads, StartIssue(t) PROVE CreditInv'
<1>1. pc[t] = "issue" /\ sendQueue[t] # <<>> /\ issuing[t] = NoPacket
  BY DEF StartIssue, PacketInv, PlaceInv, LocalsFree
<1>2. PICK b0 \in Seq(Packets) : b0 = sendQueue[t]
  BY PlaceTypes
<1>3. PICK p \in Packets : p = Head(b0)
  BY <1>1, <1>2
<1>4. /\ UNCHANGED <<endpoint, TxCredits, creditsUsed, tgtCredits, reports, wire, tgtDone>>
      /\ sendQueue' = [sendQueue EXCEPT ![t] = Tail(b0)] /\ issuing' = [issuing EXCEPT ![t] = p]
      /\ Goto(t, "hifSend") /\ [Next]_vars
  <2>1. [Next]_vars
    BY DEF Next, HTCTrySend
  <2> QED
    BY <1>2, <1>3, <2>1 DEF StartIssue, pktVars, hifVars, tgtVars
<1>5. /\ sendQueue'[t] = Tail(b0) /\ issuing'[t] = p
      /\ \A u \in Threads : u # t => /\ sendQueue'[u] = sendQueue[u] /\ issuing'[u] = issuing[u]
                                     /\ pc'[u] = pc[u]
  <2>1. \A u \in Threads : u # t => pc'[u] = pc[u]
    BY <1>4, OtherThreads
  <2>2. sendQueue'[t] = Tail(b0) /\ \A u \in Threads : u # t => sendQueue'[u] = sendQueue[u]
    BY <1>4, PlaceTypes
  <2>3. issuing'[t] = p /\ \A u \in Threads : u # t => issuing'[u] = issuing[u]
    BY <1>4, PlaceTypes
  <2> QED
    BY <2>1, <2>2, <2>3
<1>6. InQueue(b0, p) /\ \A q : InQueue(Tail(b0), q) <=> InQueue(b0, q) /\ q # p
  <2>1. NoRepeat(b0)
    BY <1>2 DEF PacketInv, PlaceInv, NoRepeats
  <2> QED
    BY <1>1, <1>2, <1>3, <2>1, TailQueue
<1>7. \A q \in Packets : InHand(t, q)' <=> InHand(t, q)
  <2>1. \A q \in Packets : InQueue(sendQueue'[t], q) <=> InQueue(sendQueue[t], q) /\ q # p
    BY <1>2, <1>5, <1>6, Zenon
  <2>2. InQueue(sendQueue[t], p) /\ NoPacket \notin Packets
    BY <1>2, <1>6, ThreadFacts
  <2> QED
    BY <1>1, <1>5, <2>1, <2>2 DEF InHand
<1>8. {"issue", "hifSend"} \subseteq PayLabels
  BY DEF PayLabels, DrainLabels
<1>9. \A q \in Packets : Pays(q)' <=> Pays(q)
  BY <1>1, <1>4, <1>5, <1>7, <1>8, MovePays
<1>10. Refused \subseteq Refused'
  <2>1. \A u \in Threads, q \in Packets :
            pc[u] = "failBatch" /\ InQueue(sendQueue[u], q) => pc'[u] = "failBatch" /\ InQueue(sendQueue'[u], q)
    BY <1>1, <1>5
  <2> QED
    BY <1>4, <2>1, RefusedKept
<1> QED
  BY <1>4, <1>9, <1>10, AccountKept

\* The packet in hand goes on the wire with its credits.
LEMMA HIFSendCredits ==
    ASSUME PacketInv, SentInv, CreditInv, NEW t \in Threads, HIFSend(t) PROVE CreditInv'
<1>1. /\ pc[t] = "hifSend" /\ issuing[t] \in Packets /\ {"hifSend", "issue"} \subseteq DrainLabels
      /\ NoPacket \notin Packets
  BY ThreadFacts DEF HIFSend, PacketInv, TypeInv, PacketInHand, DrainLabels
<1>2. PICK w \in Seq(Packets), p \in Packets : w = wire /\ p = issuing[t] /\ wire' = Append(w, p)
  BY <1>1, PlaceTypes DEF HIFSend
<1>3. /\ UNCHANGED <<endpoint, TxCredits, creditsUsed, tgtCredits, reports, sendQueue, tgtDone>>
      /\ issuing' = [issuing EXCEPT ![t] = NoPacket] /\ Goto(t, "issue") /\ [Next]_vars
  <2>1. [Next]_vars
    BY DEF Next, HTCTrySend
  <2> QED
    BY <2>1 DEF HIFSend, epVars, pktVars, tgtVars
<1>4. /\ issuing'[t] = NoPacket
      /\ pc'[t] = "issue" /\ \A u \in Threads : u # t => pc'[u] = pc[u]
  <2>1. pc'[t] = "issue" /\ \A u \in Threads : u # t => pc'[u] = pc[u]
    BY <1>3, OtherThreads
  <2>2. issuing'[t] = NoPacket
    BY <1>3, PlaceTypes
  <2> QED
    BY <2>1, <2>2
<1>5. \A q \in Packets : InHand(t, q) <=> InHand(t, q)' \/ q = p
  BY <1>1, <1>2, <1>3, <1>4 DEF InHand
<1>6. \A q \in Packets : Unconsumed(q)' <=> Unconsumed(q) \/ q = p
  <2>1. /\ Len(w) \in Nat /\ Len(wire') = Len(w) + 1 /\ \A i \in 1..Len(w) : wire'[i] = w[i]
        /\ wire'[Len(w) + 1] = p /\ tgtDone <= Len(w) /\ tgtDone \in Nat
    BY <1>2, CreditTypes DEF SentInv
  <2>2. ASSUME NEW q \in Packets, Unconsumed(q)' PROVE Unconsumed(q) \/ q = p
    <3>1. PICK i \in tgtDone + 1 .. Len(wire') : wire'[i] = q
      BY <1>3, <2>2 DEF Unconsumed
    <3>2. i = Len(w) + 1 \/ (i \in 1..Len(w) /\ i \in tgtDone + 1 .. Len(wire))
      BY <1>2, <2>1, <3>1
    <3> QED
      BY <1>2, <2>1, <3>1, <3>2 DEF Unconsumed
  <2>3. ASSUME NEW q \in Packets, Unconsumed(q) PROVE Unconsumed(q)'
    <3>1. PICK i \in tgtDone + 1 .. Len(wire) : wire[i] = q
      BY <2>3 DEF Unconsumed
    <3>2. i \in tgtDone' + 1 .. Len(wire') /\ wire'[i] = q
      BY <1>2, <1>3, <2>1, <3>1
    <3> QED
      BY <3>2 DEF Unconsumed
  <2>4. Unconsumed(p)'
    <3>1. Len(w) + 1 \in tgtDone' + 1 .. Len(wire')
      BY <1>3, <2>1
    <3> QED
      BY <2>1, <3>1 DEF Unconsumed
  <2> QED
    BY <2>2, <2>3, <2>4
<1>7. \A q \in Packets : Pays(q)' <=> Pays(q)
  BY <1>1, <1>3, <1>5, <1>6, DrainerPays
<1>8. Refused \subseteq Refused'
  BY <1>1, <1>3, <1>4, RefusedKept
<1> QED
  BY <1>3, <1>7, <1>8, AccountKept

\* A refused packet returns its credits; those of the packets behind it are lost.
LEMMA HIFSendFailedCredits ==
    ASSUME PacketInv, SentInv, CreditInv, NEW t \in Threads, HIFSendFailed(t) PROVE CreditInv'
<1>1. /\ pc[t] = "hifSend" /\ issuing[t] \in Packets /\ {"hifSend", "failBatch"} \subseteq DrainLabels
      /\ NoPacket \notin Packets
  BY ThreadFacts DEF HIFSendFailed, PacketInv, TypeInv, PacketInHand, DrainLabels
<1>2. PICK p \in Packets, b0 \in Seq(Packets) : p = issuing[t] /\ b0 = sendQueue[t]
  BY <1>1, PlaceTypes
<1>3. /\ UNCHANGED <<endpoint, creditsUsed, tgtCredits, reports, wire, tgtDone, result>>
      /\ TxCredits' = TxCredits + creditsUsed[p]
      /\ sendQueue' = [sendQueue EXCEPT ![t] = <<p>> \o b0]
      /\ issuing' = [issuing EXCEPT ![t] = NoPacket] /\ Goto(t, "failBatch") /\ [Next]_vars
  <2>1. [Next]_vars
    BY DEF Next, HTCTrySend
  <2> QED
    BY <1>2, <2>1 DEF HIFSendFailed, epVars, pktVars, hifVars, tgtVars, cliVars
<1>4. /\ sendQueue'[t] = <<p>> \o b0 /\ issuing'[t] = NoPacket /\ pc'[t] = "failBatch"
      /\ \A u \in Threads : u # t => sendQueue'[u] = sendQueue[u] /\ pc'[u] = pc[u]
  <2>1. pc'[t] = "failBatch" /\ \A u \in Threads : u # t => pc'[u] = pc[u]
    BY <1>3, OtherThreads
  <2>2. sendQueue'[t] = <<p>> \o b0 /\ \A u \in Threads : u # t => sendQueue'[u] = sendQueue[u]
    BY <1>3, PlaceTypes
  <2>3. issuing'[t] = NoPacket
    BY <1>3, PlaceTypes
  <2> QED
    BY <2>1, <2>2, <2>3
<1>5. \A q : InQueue(<<p>> \o b0, q) <=> q = p \/ InQueue(b0, q)
  <2>1. <<p>> \in Seq(Packets) /\ \A q : InQueue(<<p>>, q) <=> q = p
    BY SingleQueue
  <2> QED
    BY <2>1, ConcatQueue
<1> DEFINE Lost == {q \in Packets : InQueue(b0, q)}
<1>6. ~InQueue(b0, p)
  <2>1. /\ {"issuing", "lookup", "batch"} \subseteq Names /\ NoThread \in Owners /\ t \in Owners /\ Counted
        /\ LookupOrder
    BY ThreadFacts DEF Names, PacketInv, PlaceInv
  <2>2. HeldIn("issuing", t, p) \/ HeldIn("lookup", NoThread, p)
    <3>1. CASE Compact
      BY <1>2, <3>1 DEF HeldIn
    <3>2. CASE ~Compact
      <4>1. TxLookupQueue[Looked + OnWire + 1] = p /\ Looked + OnWire + 1 \in DOMAIN TxLookupQueue
        BY <1>1, <1>2, <2>1, <3>2, OrderTypes DEF LookupOrder
      <4> QED
        BY <3>2, <4>1 DEF HeldIn, InQueue
    <3> QED
      BY <3>1, <3>2
  <2>3. InQueue(b0, p) => HeldIn("batch", t, p)
    BY <1>2 DEF HeldIn
  <2> QED
    BY <2>1, <2>2, <2>3, HeldOnce
<1>7. \A q \in Packets : ~Unconsumed(q) \/ ~InHand(t, q)
  <2> SUFFICES ASSUME NEW q \in Packets, Unconsumed(q), InHand(t, q) PROVE FALSE
    OBVIOUS
  <2>1. InQueue(wire, q)
    <3>1. PICK i \in tgtDone + 1 .. Len(wire) : wire[i] = q
      BY DEF Unconsumed
    <3>2. i \in DOMAIN wire
      BY <3>1, CreditTypes, PlaceTypes
    <3> QED
      BY <3>1, <3>2 DEF InQueue
  <2>2. ~InQueue(sendQueue[t], q)
    BY <2>1, SentIsApart
  <2>3. issuing[t] = q
    BY <2>2 DEF InHand
  <2>4. ~InQueue(wire, q)
    BY <1>1, <2>3, IssuedIsApart
  <2> QED
    BY <2>1, <2>4
<1>8. \A q \in Packets : /\ Pays(q) <=> q = p \/ q \in Lost \/ Unconsumed(q)
                         /\ Pays(q)' <=> Unconsumed(q)
                         /\ ~(Unconsumed(q) /\ (q = p \/ q \in Lost))
  <2> SUFFICES ASSUME NEW q \in Packets
               PROVE  /\ Pays(q) <=> q = p \/ q \in Lost \/ Unconsumed(q)
                      /\ Pays(q)' <=> Unconsumed(q)
                      /\ ~(Unconsumed(q) /\ (q = p \/ q \in Lost))
    OBVIOUS
  <2>1. InHand(t, q) <=> q = p \/ q \in Lost
    BY <1>2 DEF InHand
  <2>2. Unconsumed(q)' <=> Unconsumed(q)
    BY <1>3 DEF Unconsumed
  <2>3. /\ Pays(q) <=> InHand(t, q) \/ Unconsumed(q)
        /\ Pays(q)' <=> Unconsumed(q)'
    BY <1>1, <1>3, DrainerPays
  <2> QED
    BY <1>7, <2>1, <2>2, <2>3
<1>9. /\ Payers = (Payers' \cup Lost) \cup {p} /\ p \notin Payers' \cup Lost
      /\ Payers' \cap Lost = {} /\ Payers' \subseteq Payers /\ Lost \subseteq Payers
  BY <1>2, <1>6, <1>8 DEF Payers
<1>10. PICK L \in SUBSET Refused : IsFiniteSet(L) /\ Account(L)
  BY DEF CreditInv, Accounted
<1>11. IsFiniteSet(Payers) /\ IsFiniteSet(Payers') /\ IsFiniteSet(Lost) /\ IsFiniteSet(Payers' \cup Lost)
  BY <1>9, FS_Subset, FS_Union DEF CreditInv
<1>12. L \cap Lost = {} /\ L \subseteq Refused'
  <2>1. \A u \in Threads : pc[u] # "failBatch"
    BY <1>1 DEF PacketInv, DrainInv, SingleDrainer
  <2>2. \A q \in L : result[q] = "error"
    BY <1>10, <2>1 DEF Refused
  <2>3. \A q \in Lost : result[q] = "none"
    <3>1. \A q \in Lost : HeldIn("batch", t, q)
      BY <1>2 DEF HeldIn
    <3>2. "batch" \in Names /\ t \in Owners /\ Counted
      BY ThreadFacts DEF Names, PacketInv, PlaceInv
    <3> QED
      BY <3>1, <3>2, HeldOnce
  <2>4. L \cap Lost = {}
    BY <2>2, <2>3
  <2>5. L \subseteq Refused'
    BY <1>3, <1>10, <2>1, RefusedKept
  <2> QED
    BY <2>4, <2>5
<1>13. Lost \subseteq Refused'
  BY <1>4, <1>5 DEF Refused
<1> HIDE DEF Lost
<1>14. IsFiniteSet(L \cup Lost) /\ L \cup Lost \subseteq Refused' /\ L \subseteq Packets /\ Lost \subseteq Packets
  BY <1>9, <1>10, <1>11, <1>12, <1>13, FS_Union, CreditTypes
<1> DEFINE c == creditsUsed
<1>15. /\ Total(c, Payers) = c[p] + (Total(c, Payers') + Total(c, Lost))
       /\ Total(c, L \cup Lost) = Total(c, L) + Total(c, Lost)
       /\ Total(c, Payers') \in Nat /\ Total(c, Lost) \in Nat /\ c[p] \in Nat
  <2>1. \A q \in Packets : c[q] \in Nat
    BY CreditTypes
  <2>2. Payers \subseteq Packets
    BY CreditTypes
  <2>3. \A q \in Payers : c[q] \in Nat
    BY <2>1, <2>2
  <2> HIDE DEF c
  <2>4. Total(c, (Payers' \cup Lost) \cup {p}) = c[p] + Total(c, Payers' \cup Lost)
    BY <1>9, <1>11, <2>3, TotalAdd
  <2>5. Total(c, Payers' \cup Lost) = Total(c, Payers') + Total(c, Lost)
    BY <1>9, <1>11, <2>3, TotalUnion
  <2>6. Total(c, L \cup Lost) = Total(c, L) + Total(c, Lost)
    BY <1>10, <1>11, <1>12, <1>14, <2>1, TotalUnion
  <2>7. Total(c, Payers') \in Nat /\ Total(c, Lost) \in Nat
    BY <1>9, <1>11, <2>3, TotalRemove
  <2>8. c[p] \in Nat
    BY <2>1
  <2>9. Total(c, Payers) = c[p] + Total(c, Payers' \cup Lost)
    <3> DEFINE P == (Payers' \cup Lost) \cup {p}
    <3>1. Payers = P
      BY <1>9
    <3>2. Total(c, P) = c[p] + Total(c, Payers' \cup Lost)
      BY <2>4
    <3> HIDE DEF P
    <3> QED
      BY <3>1, <3>2
  <2> QED
    BY <2>5, <2>6, <2>7, <2>8, <2>9
<1>16. Account(L \cup Lost)'
  <2>1. UNCHANGED c /\ TxCredits' = TxCredits + c[p]
    BY <1>3
  <2>2. Account(L) <=> TxCredits + Total(c, Payers) + tgtCredits + Total(reports, DOMAIN reports)
                           + Total(c, L) = TotalCredits
    BY DEF Account
  <2>3. Account(L \cup Lost)' <=>
            TxCredits' + Total(c, Payers') + tgtCredits + Total(reports, DOMAIN reports)
                + Total(c, L \cup Lost) = TotalCredits
    BY <1>3 DEF Account
  <2>4. Total(c, L) \in Nat /\ Total(reports, DOMAIN reports) \in Nat /\ TxCredits \in Nat /\ tgtCredits \in Nat
    BY <1>10, AccountTypes
  <2> DEFINE a == Total(c, Payers')
             l == Total(c, L)
             r == Total(reports, DOMAIN reports)
             n == Total(c, Lost)
             s == c[p]
  <2>5. TxCredits + (s + (a + n)) + tgtCredits + r + l = TotalCredits
    BY <1>10, <1>15, <2>2
  <2>6. a \in Nat /\ l \in Nat /\ r \in Nat /\ n \in Nat /\ s \in Nat
    BY <1>15, <2>4
  <2>7. TxCredits' = TxCredits + s
    BY <2>1
  <2>8. TxCredits' + a + tgtCredits + r + (l + n) = TotalCredits
    <3> HIDE DEF a, l, r, n, s
    <3> QED
      BY <2>4, <2>5, <2>6, <2>7
  <2> QED
    BY <1>15, <2>3, <2>8
<1>17. FreeOfCharge'
  BY <1>3 DEF CreditInv, FreeOfCharge, CreditFlow
<1> QED
  BY <1>11, <1>14, <1>16, <1>17 DEF CreditInv, Accounted

\* A packet of a failed batch is given back.
LEMMA FailPacketCredits ==
    ASSUME PacketInv, CreditInv, NEW t \in Threads, FailPacket(t) PROVE CreditInv'
<1>1. pc[t] = "failBatch" /\ sendQueue[t] # <<>> /\ issuing[t] = NoPacket
  BY DEF FailPacket, PacketInv, PlaceInv, LocalsFree
<1>2. PICK b0 \in Seq(Packets) : b0 = sendQueue[t]
  BY PlaceTypes
<1>3. PICK p \in Packets : p = Head(b0)
  BY <1>1, <1>2
<1>4. /\ UNCHANGED <<endpoint, TxCredits, creditsUsed, tgtCredits, reports, wire, tgtDone, pc, issuing>>
      /\ sendQueue' = [sendQueue EXCEPT ![t] = Tail(b0)] /\ SendPacketCompletion({p}, "error")
      /\ [Next]_vars /\ Goto(t, "failBatch")
  <2>1. [Next]_vars
    BY DEF Next, HTCTrySend
  <2>2. UNCHANGED pc
    BY DEF FailPacket
  <2>3. Goto(t, "failBatch")
    BY <1>1, <2>2, PlaceTypes DEF Goto
  <2> QED
    BY <1>2, <1>3, <2>1, <2>2, <2>3 DEF FailPacket, epVars, pktVars, hifVars, tgtVars
<1>5. sendQueue'[t] = Tail(b0) /\ \A u \in Threads : u # t => sendQueue'[u] = sendQueue[u]
  BY <1>4, OtherThreads
<1>6. InQueue(b0, p) /\ \A q : InQueue(Tail(b0), q) <=> InQueue(b0, q) /\ q # p
  <2>1. NoRepeat(b0)
    BY <1>2 DEF PacketInv, PlaceInv, NoRepeats
  <2> QED
    BY <1>1, <1>2, <1>3, <2>1, TailQueue
<1>7. result'[p] = "error"
  <2>1. HeldIn("batch", t, p) /\ "batch" \in Names /\ t \in Owners
    BY <1>2, <1>6, ThreadFacts DEF HeldIn, Names
  <2> QED
    BY <1>4, <2>1, ToldIsHeld
<1>8. Refused \subseteq Refused'
  <2>1. ASSUME NEW u \in Threads, NEW q \in Packets, pc[u] = "failBatch", InQueue(sendQueue[u], q)
        PROVE  (pc'[u] = "failBatch" /\ InQueue(sendQueue'[u], q)) \/ result'[q] = "error"
    BY <1>2, <1>4, <1>5, <1>6, <1>7, <2>1
  <2> QED
    BY <1>4, <2>1, RefusedKept
<1>9. "failBatch" \notin PayLabels
  BY DEF PayLabels
<1>10. \A q \in Packets : Pays(q)' <=> Pays(q)
  BY <1>1, <1>4, <1>5, <1>9, MovePays
<1> QED
  BY <1>4, <1>8, <1>10, AccountKept

\* Nobody moves.
LEMMA RestCredits ==
    ASSUME PacketInv, CreditInv, [Next]_vars,
           UNCHANGED <<endpoint, TxCredits, creditsUsed, tgtCredits, reports, wire, tgtDone, pc, issuing, sendQueue>>
    PROVE  CreditInv'
<1>1. Refused \subseteq Refused'
  BY RefusedKept
<1>2. \A q \in Packets : Pays(q)' <=> Pays(q)
  BY DEF Pays, InHand, Unconsumed, InQueue
<1> QED
  BY <1>1, <1>2, AccountKept

\* A thread goes on with its batch, or without one.
LEMMA QuietCredits ==
    ASSUME PacketInv, CreditInv, [Next]_vars, NEW t \in Threads, NEW label, Goto(t, label),
           UNCHANGED <<endpoint, TxCredits, creditsUsed, tgtCredits, reports, wire, tgtDone, issuing>>,
           \A u \in Threads : u # t => sendQueue'[u] = sendQueue[u], pc[t] # "hifSend",
           \/ UNCHANGED sendQueue /\ pc[t] \in PayLabels /\ label \in PayLabels
           \/ pc[t] \notin DrainLabels /\ label \notin DrainLabels
           \/ pc[t] \notin DrainLabels /\ sendQueue'[t] = <<>>
           \/ UNCHANGED sendQueue /\ sendQueue[t] = <<>>
    PROVE  CreditInv'
<1>1. \A q \in Packets : issuing[t] # q /\ issuing'[t] # q /\ ~InQueue(<<>>, q)
  BY ThreadFacts DEF PacketInv, PlaceInv, LocalsFree, InQueue
<1>2. \A q \in Packets : (pc[t] \in PayLabels /\ InHand(t, q)) <=> (label \in PayLabels /\ InHand(t, q)')
  <2>1. CASE UNCHANGED sendQueue /\ pc[t] \in PayLabels /\ label \in PayLabels
    BY <2>1 DEF InHand, InQueue
  <2>2. CASE pc[t] \notin DrainLabels /\ label \notin DrainLabels
    BY <2>2 DEF PayLabels
  <2>3. CASE pc[t] \notin DrainLabels /\ sendQueue'[t] = <<>>
    BY <1>1, <2>3 DEF PayLabels, InHand
  <2>4. CASE UNCHANGED sendQueue /\ sendQueue[t] = <<>>
    BY <1>1, <2>4 DEF InHand
  <2> QED
    BY <2>1, <2>2, <2>3, <2>4
<1>3. \A q \in Packets : Pays(q)' <=> Pays(q)
  BY <1>2, MovePays
<1>4. Refused \subseteq Refused'
  <2>1. pc'[t] = label /\ \A u \in Threads : u # t => pc'[u] = pc[u]
    BY OtherThreads
  <2>2. pc[t] # "failBatch" \/ sendQueue[t] = <<>>
    BY DEF PayLabels, DrainLabels
  <2>3. \A u \in Threads, q \in Packets :
            pc[u] = "failBatch" /\ InQueue(sendQueue[u], q) => pc'[u] = "failBatch" /\ InQueue(sendQueue'[u], q)
    BY <1>1, <2>1, <2>2
  <2> QED
    BY <2>3, RefusedKept
<1> QED
  BY <1>3, <1>4, AccountKept

\* The target consumes a message and owns its credits.
LEMMA ConsumeCredits ==
    ASSUME PacketInv, SentInv, CreditInv, TargetConsume PROVE CreditInv'
<1>1. /\ tgtDone < Len(wire) /\ tgtDone' = tgtDone + 1
      /\ tgtCredits' = tgtCredits + creditsUsed[wire[tgtDone + 1]]
      /\ UNCHANGED <<endpoint, TxCredits, creditsUsed, reports, wire, pc, issuing, sendQueue, result>>
      /\ tgtDone \in Nat /\ Len(wire) \in Nat /\ wire \in Seq(Packets)
  BY CreditTypes, PlaceTypes DEF TargetConsume, epVars, pktVars, thVars, hifVars, cliVars
<1>2. PICK p \in Packets : p = wire[tgtDone + 1] /\ InQueue(wire, p)
  <2>1. tgtDone + 1 \in DOMAIN wire
    BY <1>1
  <2>2. wire[tgtDone + 1] \in Packets
    BY <1>1, <2>1
  <2> QED
    BY <2>1, <2>2 DEF InQueue
<1>3. \A q \in Packets : Unconsumed(q)' <=> Unconsumed(q) /\ q # p
  <2>1. \A i \in tgtDone + 1 .. Len(wire) : i = tgtDone + 1 \/ i \in tgtDone' + 1 .. Len(wire)
    BY <1>1
  <2>2. \A i \in tgtDone' + 1 .. Len(wire) : i \in tgtDone + 1 .. Len(wire) /\ i # tgtDone + 1 /\ i \in DOMAIN wire
    BY <1>1
  <2>3. \A i \in DOMAIN wire : wire[i] = p => i = tgtDone + 1
    BY <1>1, <1>2 DEF SentInv, NoRepeat
  <2> QED
    BY <1>1, <1>2, <2>1, <2>2, <2>3 DEF Unconsumed
<1>4. Unconsumed(p)
  <2>1. tgtDone + 1 \in tgtDone + 1 .. Len(wire)
    BY <1>1
  <2> QED
    BY <1>2, <2>1 DEF Unconsumed
<1>5. \A u \in Threads : pc[u] \in PayLabels => ~InHand(u, p)
  <2>1. ASSUME NEW u \in Threads, InHand(u, p) PROVE FALSE
    <3>1. ~InQueue(sendQueue[u], p)
      BY <1>2, SentIsApart
    <3>2. issuing[u] = p
      BY <2>1, <3>1 DEF InHand
    <3>3. pc[u] = "hifSend"
      BY <3>2, ThreadFacts DEF PacketInv, PlaceInv, LocalsFree
    <3> QED
      BY <1>2, <3>2, <3>3, IssuedIsApart
  <2> QED
    BY <2>1
<1>6. \A q \in Packets : Pays(q)' <=> Pays(q) /\ q # p
  <2>1. \A u \in Threads, q \in Packets : InHand(u, q)' <=> InHand(u, q)
    BY <1>1 DEF InHand, InQueue
  <2> QED
    BY <1>1, <1>3, <1>5, <2>1 DEF Pays
<1>7. Payers' = Payers \ {p} /\ p \in Payers
  BY <1>4, <1>6 DEF Payers, Pays
<1>8. PICK L \in SUBSET Refused : IsFiniteSet(L) /\ Account(L)
  BY DEF CreditInv, Accounted
<1>9. IsFiniteSet(Payers) /\ IsFiniteSet(Payers') /\ Payers \subseteq Packets
  BY <1>7, FS_Subset, CreditTypes DEF CreditInv
<1>10. Total(creditsUsed, Payers) = creditsUsed[p] + Total(creditsUsed, Payers')
  <2>1. \A q \in Payers : creditsUsed[q] \in Nat
    BY <1>9, CreditTypes
  <2> QED
    BY <1>7, <1>9, <2>1, TotalRemove
<1>11. Total(creditsUsed, Payers') \in Nat /\ creditsUsed[p] \in Nat
  <2>1. \A q \in Payers' : creditsUsed[q] \in Nat
    BY <1>7, <1>9, CreditTypes
  <2> QED
    BY <1>9, <2>1, CreditTypes, TotalRemove
<1>12. Account(L)'
  <2>1. tgtCredits' = tgtCredits + creditsUsed[p]
    BY <1>1, <1>2
  <2>2. /\ Total(creditsUsed, L) \in Nat /\ Total(reports, DOMAIN reports) \in Nat
        /\ TxCredits \in Nat /\ tgtCredits \in Nat
    BY <1>8, AccountTypes
  <2>3. TxCredits + Total(creditsUsed, Payers') + tgtCredits' + Total(reports, DOMAIN reports)
            + Total(creditsUsed, L) = TotalCredits
    BY <1>8, <1>10, <1>11, <2>1, <2>2 DEF Account
  <2> QED
    BY <1>1, <2>3 DEF Account
<1>13. L \subseteq Refused'
  BY <1>1, <1>8 DEF Refused
<1>14. FreeOfCharge'
  BY <1>1 DEF CreditInv, FreeOfCharge, CreditFlow
<1> QED
  BY <1>8, <1>9, <1>12, <1>13, <1>14 DEF CreditInv, Accounted

\* Credits that nobody pays change hands.
LEMMA MoveCredits ==
    ASSUME PacketInv, CreditInv, UNCHANGED <<endpoint, creditsUsed>>,
           \A q \in Packets : Pays(q)' <=> Pays(q), Refused \subseteq Refused',
           NEW r \in Nat, r = Total(reports', DOMAIN reports'), TxCredits' \in Nat, tgtCredits' \in Nat,
           TxCredits' + tgtCredits' + r = TxCredits + tgtCredits + Total(reports, DOMAIN reports)
    PROVE  CreditInv'
<1>1. PICK L \in SUBSET Refused : IsFiniteSet(L) /\ Account(L)
  BY DEF CreditInv, Accounted
<1>2. Payers' = Payers
  BY DEF Payers
<1>3. PICK a \in Nat, l \in Nat, n \in Nat :
          a = Total(creditsUsed, Payers) /\ l = Total(creditsUsed, L) /\ n = Total(reports, DOMAIN reports)
  BY <1>1, AccountTypes
<1>4. TxCredits + a + tgtCredits + n + l = TotalCredits
  BY <1>1, <1>3 DEF Account
<1>5. TxCredits' + a + tgtCredits' + r + l = TotalCredits
  <2>1. TxCredits \in Nat /\ tgtCredits \in Nat
    BY CreditTypes
  <2> QED
    BY <1>3, <1>4, <2>1
<1>6. Account(L)'
  BY <1>2, <1>3, <1>5 DEF Account
<1>7. FreeOfCharge'
  BY DEF CreditInv, FreeOfCharge, CreditFlow
<1> QED
  BY <1>1, <1>2, <1>6, <1>7 DEF CreditInv, Accounted

\* The target reports its credits, or the host takes a report.
LEMMA ReportCredits ==
    ASSUME PacketInv, CreditInv, UNCHANGED <<endpoint, creditsUsed>>,
           \A q \in Packets : Pays(q)' <=> Pays(q), Refused \subseteq Refused',
           \/ /\ reports' = Append(reports, tgtCredits) /\ tgtCredits' = 0 /\ UNCHANGED TxCredits
           \/ /\ reports # <<>> /\ TxCredits' = TxCredits + Head(reports) /\ reports' = Tail(reports)
              /\ UNCHANGED tgtCredits
    PROVE  CreditInv'
<1>1. CASE reports' = Append(reports, tgtCredits) /\ tgtCredits' = 0 /\ UNCHANGED TxCredits
  <2>1. PICK r \in Nat : r = Total(reports, DOMAIN reports)
    BY CreditTypes, TotalOfSequence
  <2>2. Total(reports', DOMAIN reports') = r + tgtCredits
    BY <1>1, <2>1, CreditTypes, TotalOfSequence
  <2>3. /\ r + tgtCredits \in Nat /\ TxCredits' \in Nat /\ tgtCredits' \in Nat
        /\ TxCredits' + tgtCredits' + (r + tgtCredits) = TxCredits + tgtCredits + r
    BY <1>1, CreditTypes
  <2> QED
    BY <2>1, <2>2, <2>3, MoveCredits
<1>2. CASE /\ reports # <<>> /\ TxCredits' = TxCredits + Head(reports) /\ reports' = Tail(reports)
           /\ UNCHANGED tgtCredits
  <2>1. Head(reports) \in Nat /\ reports' \in Seq(Nat)
    BY <1>2, CreditTypes
  <2>2. PICK r \in Nat : r = Total(reports', DOMAIN reports')
    BY <2>1, TotalOfSequence
  <2>3. Total(reports, DOMAIN reports) = Head(reports) + r
    BY <1>2, <2>2, CreditTypes, TotalOfSequence
  <2>4. /\ TxCredits' \in Nat /\ tgtCredits' \in Nat
        /\ TxCredits' + tgtCredits' + r = TxCredits + tgtCredits + (Head(reports) + r)
    <3>1. TxCredits \in Nat /\ tgtCredits \in Nat /\ TxCredits' = TxCredits + Head(reports) /\ tgtCredits' = tgtCredits
      BY <1>2, CreditTypes
    <3>2. TxCredits' \in Nat /\ tgtCredits' \in Nat
      BY <2>1, <3>1
    <3> QED
      BY <2>1, <3>1, <3>2
  <2> QED
    BY <2>2, <2>3, <2>4, MoveCredits
<1> QED
  BY <1>1, <1>2

\* Most steps of HTCTrySend and of hif_completion_thread leave the account alone.
LEMMA TrySendCredits ==
    ASSUME PacketInv, SentInv, CreditInv, NEW t \in Threads, HTCTrySend(t) PROVE CreditInv'
<1>n. [Next]_vars
  BY DEF Next
<1> DEFINE Rest == /\ UNCHANGED <<endpoint, TxCredits, creditsUsed, tgtCredits, reports, wire, tgtDone, issuing>>
                   /\ \A u \in Threads : u # t => sendQueue'[u] = sendQueue[u]
<1>1. CASE TestDepth(t) \/ ReadResources(t) \/ BeginPass(t) \/ Relock(t) \/ GetHTCAutoPmSendPackets(t)
  <2>1. Rest /\ UNCHANGED sendQueue /\ pc[t] # "hifSend"
    BY <1>1 DEF TestDepth, ReadResources, BeginPass, Relock, GetHTCAutoPmSendPackets, epVars, pktVars, thVars,
                hifVars, tgtVars
  <2>2. PICK label : /\ Goto(t, label)
                     /\ \/ pc[t] \in PayLabels /\ label \in PayLabels
                        \/ pc[t] \notin DrainLabels /\ label \notin DrainLabels
    BY <1>1 DEF TestDepth, ReadResources, BeginPass, Relock, GetHTCAutoPmSendPackets, PayLabels, DrainLabels
  <2> QED
    BY <1>n, <2>1, <2>2, QuietCredits
<1>2. CASE AddDepth(t) \/ SendFull(t)
  <2>1. Rest /\ pc[t] # "hifSend"
    BY <1>2, PlaceTypes DEF AddDepth, SendFull, epVars, pktVars, hifVars, tgtVars
  <2>2. PICK label : Goto(t, label) /\ pc[t] \notin DrainLabels /\ label \notin DrainLabels
    BY <1>2 DEF AddDepth, SendFull, DrainLabels
  <2> QED
    BY <1>n, <2>1, <2>2, QuietCredits
<1>3. CASE Enter(t)
  <2>1. Rest /\ pc[t] \notin DrainLabels \cup {"hifSend"} /\ sendQueue'[t] = <<>>
    BY <1>3, PlaceTypes DEF Enter, pktVars, hifVars, tgtVars, DrainLabels
  <2>2. PICK label : Goto(t, label)
    BY <1>3 DEF Enter
  <2> QED
    BY <1>n, <2>1, <2>2, QuietCredits
<1>4. CASE EndPass(t) \/ EndDrain(t) \/ EndIssue(t) \/ Return(t)
  <2>1. Rest /\ UNCHANGED sendQueue /\ pc[t] # "hifSend"
    BY <1>4 DEF EndPass, EndDrain, EndIssue, Return, epVars, pktVars, thVars, hifVars, tgtVars
  <2>2. PICK label : /\ Goto(t, label)
                     /\ \/ pc[t] \in PayLabels /\ label \in PayLabels
                        \/ pc[t] \notin DrainLabels /\ label \notin DrainLabels
                        \/ sendQueue[t] = <<>>
    <3>1. CASE EndPass(t)
      BY <3>1 DEF EndPass, PayLabels, DrainLabels
    <3>2. CASE EndDrain(t)
      BY <3>2 DEF EndDrain, PacketInv, PlaceInv, LocalsFree
    <3>3. CASE EndIssue(t)
      BY <3>3 DEF EndIssue
    <3>4. CASE Return(t)
      BY <3>4 DEF Return, DrainLabels
    <3> QED
      BY <1>4, <3>1, <3>2, <3>3, <3>4
  <2> QED
    BY <1>n, <2>1, <2>2, QuietCredits
<1> QED
  BY <1>1, <1>2, <1>3, <1>4, TakeCredits, StartIssueCredits, HIFSendCredits, HIFSendFailedCredits,
     FailPacketCredits DEF HTCTrySend

\* Every step keeps the account of the credits.
LEMMA CreditStep == PacketInv /\ SentInv /\ CreditInv /\ [Next]_vars => CreditInv'
<1> SUFFICES ASSUME PacketInv, SentInv, CreditInv, [Next]_vars PROVE CreditInv'
  OBVIOUS
<1>t. Completer \in Threads /\ Resumer \in Threads /\ Senders \subseteq Threads
  BY ThreadFacts DEF Threads
<1>1. ASSUME NEW t \in Senders, NEW p \in Packets, HTCSendPkt(t, p) PROVE CreditInv'
  <2>1. /\ UNCHANGED <<endpoint, TxCredits, creditsUsed, tgtCredits, reports, wire, tgtDone, issuing>>
        /\ \A u \in Threads : u # t => sendQueue'[u] = sendQueue[u]
        /\ pc[t] \notin DrainLabels \cup {"hifSend"} /\ t \in Threads
    BY <1>1, <1>t, PlaceTypes DEF HTCSendPkt, hifVars, tgtVars, DrainLabels
  <2>2. PICK label : Goto(t, label) /\ label \notin DrainLabels
    BY <1>1 DEF HTCSendPkt, DrainLabels
  <2> QED
    BY <2>1, <2>2, QuietCredits
<1>2. CASE SendDone \/ HTCLookupTxPacket \/ HTCTxCompletionHandler \/ Recycle
  <2>1. /\ UNCHANGED <<endpoint, TxCredits, creditsUsed, tgtCredits, reports, wire, tgtDone, issuing, sendQueue>>
        /\ pc[Completer] \notin DrainLabels \cup {"hifSend"}
    BY <1>2 DEF SendDone, HTCLookupTxPacket, HTCTxCompletionHandler, Recycle, epVars, pktVars, thVars, hifVars,
                tgtVars, DrainLabels
  <2>2. PICK label : Goto(Completer, label) /\ label \notin DrainLabels
    BY <1>2 DEF SendDone, HTCLookupTxPacket, HTCTxCompletionHandler, Recycle, DrainLabels
  <2> QED
    BY <1>t, <2>1, <2>2, QuietCredits
<1>3. CASE HTCTxResumeAllHandler
  <2>1. /\ UNCHANGED <<endpoint, TxCredits, creditsUsed, tgtCredits, reports, wire, tgtDone, issuing, sendQueue>>
        /\ pc[Resumer] \notin DrainLabels \cup {"hifSend"}
        /\ Goto(Resumer, "readResources") /\ "readResources" \notin DrainLabels
    BY <1>3 DEF HTCTxResumeAllHandler, epVars, pktVars, thVars, hifVars, tgtVars, DrainLabels
  <2> QED
    BY <1>t, <2>1, QuietCredits
<1>4. CASE HTCProcessCreditRpt
  <2>1. /\ UNCHANGED <<endpoint, creditsUsed, tgtCredits, wire, tgtDone, issuing, sendQueue, result>>
        /\ reports # <<>> /\ TxCredits' = TxCredits + Head(reports) /\ reports' = Tail(reports)
        /\ pc[Completer] = "idle"
    BY <1>4 DEF HTCProcessCreditRpt, pktVars, thVars, hifVars, cliVars
  <2>2. PICK label \in {"idle", "readResources"} : Goto(Completer, label)
    BY <1>4 DEF HTCProcessCreditRpt
  <2>3. {"idle", "readResources"} \cap PayLabels = {}
    BY DEF PayLabels, DrainLabels
  <2>4. \A q \in Packets : Pays(q)' <=> Pays(q)
    BY <1>t, <2>1, <2>2, <2>3, MovePays
  <2>5. \A u \in Threads : pc[u] = "failBatch" => pc'[u] = "failBatch"
    BY <1>t, <2>1, <2>2, OtherThreads
  <2>6. Refused \subseteq Refused'
    BY <2>1, <2>5, RefusedKept
  <2> QED
    BY <2>1, <2>4, <2>6, ReportCredits
<1>5. CASE TargetReport
  <2>1. /\ UNCHANGED <<endpoint, TxCredits, creditsUsed, wire, tgtDone, issuing, sendQueue, result, pc>>
        /\ reports' = Append(reports, tgtCredits) /\ tgtCredits' = 0
    BY <1>5 DEF TargetReport, epVars, pktVars, thVars, hifVars, cliVars
  <2>2. \A q \in Packets : Pays(q)' <=> Pays(q)
    BY <2>1 DEF Pays, InHand, Unconsumed, InQueue
  <2>3. Refused \subseteq Refused'
    BY <2>1, RefusedKept
  <2> QED
    BY <2>1, <2>2, <2>3, ReportCredits
<1>6. CASE \/ SwallowCompletion \/ HTCFlushEndpoint \/ PmCoreSuspend \/ RuntimeSuspend \/ RuntimeResume
           \/ (\E p \in Packets : HttResponse(p)) \/ UNCHANGED vars
  <2>1. UNCHANGED <<endpoint, TxCredits, creditsUsed, tgtCredits, reports, wire, tgtDone, pc, issuing, sendQueue>>
    BY <1>6 DEF SwallowCompletion, HTCFlushEndpoint, HttResponse, PmCoreSuspend, RuntimeSuspend, RuntimeResume, SetPm,
                vars, epVars, pktVars, thVars, hifVars, tgtVars
  <2> QED
    BY <2>1, RestCredits
<1> QED
  BY <1>1, <1>2, <1>3, <1>4, <1>5, <1>6, TrySendCredits, ConsumeCredits DEF Next, Completion

LEMMA CreditInit == Init => CreditInv
<1> SUFFICES ASSUME Init PROVE CreditInv
  OBVIOUS
<1>1. Payers = {}
  BY DEF Init, Payers, Pays, Unconsumed, PayLabels, DrainLabels
<1>2. IsFiniteSet({}) /\ reports \in Seq(Nat)
  BY FS_EmptySet DEF Init
<1>3. Total(creditsUsed, {}) = 0 /\ Total(reports, DOMAIN reports) = 0
  BY <1>2, TotalRemove, TotalOfSequence DEF Init
<1>4. TxCredits = TotalCredits /\ tgtCredits = 0 /\ TotalCredits \in Nat
  BY ParameterAssumption DEF Init
<1>5. Account({})
  BY <1>1, <1>3, <1>4 DEF Account
<1>6. FreeOfCharge
  BY DEF Init, FreeOfCharge
<1> QED
  BY <1>1, <1>2, <1>5, <1>6 DEF CreditInv, Accounted

\* The account of the credits always balances, but for those that HTCIssuePackets gives up with
\* packets that it completes with an error.
THEOREM CreditInvariant == Spec => []CreditInv
<1>1. Init => CreditInv
  BY CreditInit
<1>2. PacketInv /\ SentInv /\ CreditInv /\ [Next]_vars => CreditInv'
  BY CreditStep
<1> QED
  BY <1>1, <1>2, PacketInvariant, SentInvariant, PTL DEF Spec

\* A set of packets that were charged nothing has no total.
LEMMA TotalZero ==
    ASSUME NEW S, IsFiniteSet(S), NEW f, \A x \in S : f[x] = 0 PROVE Total(f, S) = 0
<1>1. PICK F : IsTotal(F, f, S)
  BY TotalExists
<1> DEFINE B == {T \in SUBSET S : F[T] # 0}
<1>2. ASSUME B # {} PROVE FALSE
  <2>1. PICK T \in B : \A x \in T : T \ {x} \notin B
    BY <1>2, LeastSubset
  <2>2. T # {}
    BY <1>1, <2>1 DEF IsTotal
  <2>3. PICK x \in T : TRUE
    BY <2>2
  <2>4. F[T] = f[x] + F[T \ {x}]
    BY <1>1, <2>1, <2>3 DEF IsTotal
  <2> QED
    BY <2>1, <2>3, <2>4
<1> QED
  BY <1>1, <1>2, TotalIs

\* The packets CreditsConserved counts are the payers.
LEMMA ChargedPay == PacketInv => Charged = Payers
<1> SUFFICES ASSUME PacketInv PROVE Charged = Payers
  OBVIOUS
<1>1. \A u \in Threads : pc[u] \in PayLabels <=> pc[u] # "failBatch" /\ pc[u] \in DrainLabels
  BY DEF PayLabels
<1>2. \A u \in Threads : /\ sendQueue[u] \in Seq(Packets) /\ issuing[u] \in Packets \cup {NoPacket}
                         /\ \A q : q \in ToSet(sendQueue[u]) <=> InQueue(sendQueue[u], q)
  BY PlaceTypes DEF ToSet, InQueue
<1>3. \A i \in tgtDone + 1 .. Len(wire) : wire[i] \in Packets
  BY CreditTypes, PlaceTypes
<1>4. NoPacket \notin Packets
  BY ThreadFacts
<1>5. ASSUME NEW q \in Charged PROVE q \in Payers
  <2>1. CASE \E i \in tgtDone + 1 .. Len(wire) : q = wire[i]
    BY <1>3, <2>1 DEF Payers, Pays, Unconsumed
  <2>2. CASE \E u \in Threads : /\ pc[u] # "failBatch" /\ pc[u] \in DrainLabels
                                /\ q \in ToSet(sendQueue[u]) \cup ({issuing[u]} \ {NoPacket})
    <3>1. PICK u \in Threads : /\ pc[u] # "failBatch" /\ pc[u] \in DrainLabels
                               /\ q \in ToSet(sendQueue[u]) \cup ({issuing[u]} \ {NoPacket})
      BY <2>2
    <3>2. pc[u] \in PayLabels /\ InHand(u, q)
      BY <1>1, <1>2, <3>1 DEF InHand
    <3>3. q \in Packets
      <4>1. \A i \in DOMAIN sendQueue[u] : sendQueue[u][i] \in Packets
        BY <1>2
      <4>2. InQueue(sendQueue[u], q) \/ (issuing[u] = q /\ q # NoPacket)
        BY <1>2, <3>1
      <4> QED
        BY <1>2, <4>1, <4>2 DEF InQueue
    <3> QED
      BY <3>2, <3>3 DEF Payers, Pays
  <2> QED
    BY <1>5, <2>1, <2>2 DEF Charged
<1>6. ASSUME NEW q \in Payers PROVE q \in Charged
  <2>1. CASE Unconsumed(q)
    BY <2>1 DEF Charged, Unconsumed
  <2>2. CASE \E u \in Threads : pc[u] \in PayLabels /\ InHand(u, q)
    <3>1. PICK u \in Threads : pc[u] \in PayLabels /\ InHand(u, q)
      BY <2>2
    <3>2. q \in Packets
      BY DEF Payers
    <3>3. q \in ToSet(sendQueue[u]) \cup ({issuing[u]} \ {NoPacket})
      BY <1>2, <1>4, <3>1, <3>2 DEF InHand
    <3> QED
      BY <1>1, <3>1, <3>3 DEF Charged
  <2> QED
    BY <2>1, <2>2 DEF Payers, Pays
<1> QED
  BY <1>5, <1>6

\* HTCIssuePackets gives back the credits of the packet HIF refused, and gives up those of the packets
\* behind it in the batch.  Where HIF has refused nothing, and on an endpoint without credits, what
\* HTC, its packets, the target and its reports hold adds up to the allocation of HTCConnectService.
NoSendRefused == Refused = {}
THEOREM CreditsConservedUnlessRefused == Spec => [](NoSendRefused \/ ~CreditFlow => CreditsConserved)
<1>1. PacketInv /\ CreditInv => (NoSendRefused \/ ~CreditFlow => CreditsConserved)
  <2> SUFFICES ASSUME PacketInv, CreditInv, NoSendRefused \/ ~CreditFlow PROVE CreditsConserved
    OBVIOUS
  <2>1. PICK L \in SUBSET Refused : IsFiniteSet(L) /\ Account(L)
    BY DEF CreditInv, Accounted
  <2>2. \A q \in L : creditsUsed[q] = 0
    <3>1. L \subseteq Packets
      BY <2>1, CreditTypes
    <3> QED
      BY <3>1 DEF NoSendRefused, CreditInv, FreeOfCharge
  <2>3. Total(creditsUsed, L) = 0
    BY <2>1, <2>2, TotalZero
  <2>4. TxCredits + Total(creditsUsed, Payers) + tgtCredits + Total(reports, DOMAIN reports) = TotalCredits
    BY <2>1, <2>3, AccountTypes DEF Account
  <2>5. MapThenSumSet(LAMBDA p : creditsUsed[p], Charged) = Total(creditsUsed, Payers)
    BY ChargedPay, FoldsAreTotals
  <2>6. FoldSeq(LAMBDA x, y : x + y, 0, reports) = Total(reports, DOMAIN reports)
    BY FoldsAreTotals
  <2> QED
    BY <2>4, <2>5, <2>6 DEF CreditsConserved
<1> QED
  BY <1>1, PacketInvariant, CreditInvariant, PTL

\* HTC never creates credits, whatever HIF refuses: what is held in all places together, and so the
\* TxCredits HTC sends against, is at most the allocation of HTCConnectService.
CreditsBounded ==
    TxCredits + MapThenSumSet(LAMBDA p : creditsUsed[p], Charged)
        + tgtCredits + FoldSeq(LAMBDA x, y : x + y, 0, reports) <= TotalCredits
THEOREM NoCreditCreated == Spec => []CreditsBounded
<1>1. PacketInv /\ CreditInv => CreditsBounded
  <2> SUFFICES ASSUME PacketInv, CreditInv PROVE CreditsBounded
    OBVIOUS
  <2>1. PICK L \in SUBSET Refused : IsFiniteSet(L) /\ Account(L)
    BY DEF CreditInv, Accounted
  <2>2. TxCredits + Total(creditsUsed, Payers) + tgtCredits + Total(reports, DOMAIN reports) <= TotalCredits
    BY <2>1, AccountTypes DEF Account
  <2>3. MapThenSumSet(LAMBDA p : creditsUsed[p], Charged) = Total(creditsUsed, Payers)
    BY ChargedPay, FoldsAreTotals
  <2>4. FoldSeq(LAMBDA x, y : x + y, 0, reports) = Total(reports, DOMAIN reports)
    BY FoldsAreTotals
  <2> QED
    BY <2>2, <2>3, <2>4 DEF CreditsBounded
<1> QED
  BY <1>1, PacketInvariant, CreditInvariant, PTL
=============================================================================
