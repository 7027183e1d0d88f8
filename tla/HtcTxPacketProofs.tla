------------------------- MODULE HtcTxPacketProofs -------------------------
(***************************************************************************)
(* Where HTC holds a packet, for every number of packets, senders, credits *)
(* and ring entries and every setting of the endpoint.                     *)
(*                                                                         *)
(* PacketsAccountedFor counts positions, which shift whenever a queue      *)
(* moves.  The invariant behind it counts queues: a packet that its client *)
(* waits for is in exactly one of them (Counted), and once (NoRepeats).    *)
(* The local variables of a thread are empty where the code overwrites     *)
(* them (LocalsFree).  TxLookupQueue is, in this order, the transfer being *)
(* looked up, the ones the copy engine has and the one being handed to HIF *)
(* (LookupOrder), so that taking one of them out leaves the others.        *)
(*                                                                         *)
(* What was handed to HIF is remembered in wire, and what the clients were *)
(* told in result.  SentInv relates the two; with Told, which lists the    *)
(* steps that give a packet back, it makes HtcTx a PacketContract.         *)
(***************************************************************************)
EXTENDS HtcTxProofs, SequenceTheorems, FiniteSetTheorems

InQueue(q, p) == \E i \in DOMAIN q : q[i] = p
NoRepeat(q) == \A i, j \in DOMAIN q : q[i] = q[j] => i = j

Owners == Threads \cup {NoThread}

\* what holds packet p, by name and thread
HeldIn(name, t, p) ==
    \/ name = "queue" /\ t = NoThread /\ InQueue(TxQueue, p)
    \/ name = "temp" /\ t \in Threads /\ InQueue(tempQueue[t], p)
    \/ name = "batch" /\ t \in Threads /\ InQueue(sendQueue[t], p)
    \/ name = "caller" /\ t \in Threads /\ callersQueue[t] = p
    \/ name = "issuing" /\ t \in Threads /\ Compact /\ issuing[t] = p
    \/ name = "wire" /\ t = NoThread /\ Compact /\ InQueue(wire, p)
    \/ name = "lookup" /\ t = NoThread /\ ~Compact /\ InQueue(TxLookupQueue, p)
    \/ name = "done" /\ t = NoThread /\ ~Compact /\ pc[Completer] = "complete" /\ netbuf = p

Names == {"queue", "temp", "batch", "caller", "issuing", "wire", "lookup", "done"}

\* the packets a client waits for
Awaited(p) == seqOf[p] # -1 /\ result[p] = "none"

\* A packet is held once while its client waits for it, and not otherwise.
Counted ==
    \A p \in Packets :
        /\ \A m, n \in Names : \A t, u \in Owners : HeldIn(m, t, p) /\ HeldIn(n, u, p) => m = n /\ t = u
        /\ Awaited(p) <=> \E n \in Names : \E t \in Owners : HeldIn(n, t, p)
        /\ seqOf[p] = -1 => result[p] = "none"

NoRepeats ==
    /\ NoRepeat(TxQueue)
    /\ \A t \in Threads : NoRepeat(tempQueue[t]) /\ NoRepeat(sendQueue[t])
    /\ IF Compact THEN NoRepeat(wire) ELSE NoRepeat(TxLookupQueue)

LocalsFree ==
    \A t \in Threads :
        /\ pc[t] \notin {"readResources", "enter", "get", "issue", "hifSend", "failBatch"} => sendQueue[t] = <<>>
        /\ pc[t] \notin {"pull", "get"} => tempQueue[t] = <<>>
        /\ pc[t] \notin {"testDepth", "addDepth", "sendFull", "return"} => callersQueue[t] = NoPacket
        /\ pc[t] # "hifSend" => issuing[t] = NoPacket

\* entries of TxLookupQueue before those the copy engine has
Looked == IF pc[Completer] = "lookup" THEN 1 ELSE 0
OnWire == Len(wire) - hifDone

LookupOrder ==
    /\ hifDone <= Len(wire)
    /\ ~Compact =>
         /\ pc[Completer] = "lookup" => TxLookupQueue # <<>> /\ TxLookupQueue[1] = netbuf
         /\ \A i \in 1..OnWire : TxLookupQueue[Looked + i] = wire[hifDone + i]
         /\ \A t \in Threads : pc[t] = "hifSend" => TxLookupQueue[Looked + OnWire + 1] = issuing[t]
         /\ Len(TxLookupQueue) = Looked + OnWire + (IF \E t \in Threads : pc[t] = "hifSend" THEN 1 ELSE 0)
    /\ Compact => pc[Completer] \notin {"lookup", "complete", "notFound"}

PlaceInv == Counted /\ NoRepeats /\ LocalsFree /\ LookupOrder
PacketInv == TypeInv /\ DrainInv /\ CompleterHolds /\ PlaceInv

----------------------------------------------------------------------------
(* Queues without repetition                                               *)

\* A sequence of one packet.
LEMMA SingleQueue ==
    ASSUME NEW e \in Packets
    PROVE  /\ NoRepeat(<<e>>) /\ (\A p : InQueue(<<e>>, p) <=> p = e)
           /\ NoRepeat(<<>>) /\ (\A p : ~InQueue(<<>>, p))
  BY DEF NoRepeat, InQueue

\* Taking the head.
LEMMA TailQueue ==
    ASSUME NEW q \in Seq(Packets), q # <<>>, NoRepeat(q)
    PROVE  /\ NoRepeat(Tail(q)) /\ InQueue(q, Head(q)) /\ Head(q) \in Packets /\ Head(q) = q[1]
           /\ \A p : InQueue(Tail(q), p) <=> InQueue(q, p) /\ p # Head(q)
<1>1. /\ Len(q) \in Nat /\ Len(q) >= 1 /\ DOMAIN q = 1..Len(q) /\ Head(q) = q[1]
      /\ Tail(q) \in Seq(Packets) /\ Len(Tail(q)) = Len(q) - 1 /\ DOMAIN Tail(q) = 1..Len(q) - 1
      /\ \A i \in 1..Len(q) - 1 : Tail(q)[i] = q[i + 1]
  BY HeadTailProperties
<1>2. q[1] \in Packets /\ InQueue(q, Head(q))
  BY <1>1 DEF InQueue
<1>3. \A i \in 1..Len(q) - 1 : i + 1 \in 1..Len(q) /\ i + 1 # 1
  BY <1>1
<1>4. \A i, j \in 1..Len(q) : q[i] = q[j] => i = j
  BY <1>1 DEF NoRepeat
<1>5. NoRepeat(Tail(q))
  <2>1. ASSUME NEW i \in 1..Len(q) - 1, NEW j \in 1..Len(q) - 1, Tail(q)[i] = Tail(q)[j] PROVE i = j
    <3>1. i + 1 = j + 1
      BY <1>1, <1>3, <1>4, <2>1
    <3> QED
      BY <3>1
  <2> QED
    BY <1>1, <2>1 DEF NoRepeat
<1>6. ASSUME NEW p PROVE InQueue(Tail(q), p) <=> InQueue(q, p) /\ p # Head(q)
  <2>1. ASSUME InQueue(Tail(q), p) PROVE InQueue(q, p) /\ p # Head(q)
    <3>1. PICK i \in 1..Len(q) - 1 : Tail(q)[i] = p
      BY <1>1, <2>1 DEF InQueue
    <3>2. q[i + 1] = p /\ i + 1 \in 1..Len(q) /\ i + 1 # 1 /\ 1 \in 1..Len(q)
      BY <1>1, <1>3, <3>1
    <3> QED
      BY <1>1, <1>4, <3>2 DEF InQueue
  <2>2. ASSUME InQueue(q, p), p # Head(q) PROVE InQueue(Tail(q), p)
    <3>1. PICK i \in 1..Len(q) : q[i] = p
      BY <1>1, <2>2 DEF InQueue
    <3>2. i - 1 \in 1..Len(q) - 1 /\ (i - 1) + 1 = i
      BY <1>1, <2>2, <3>1
    <3>3. Tail(q)[i - 1] = p
      BY <1>1, <3>1, <3>2
    <3> QED
      BY <1>1, <3>2, <3>3 DEF InQueue
  <2> QED
    BY <2>1, <2>2
<1> QED
  BY <1>1, <1>2, <1>5, <1>6

\* Concatenating queues that share nothing.
LEMMA ConcatQueue ==
    ASSUME NEW q \in Seq(Packets), NEW r \in Seq(Packets)
    PROVE  /\ \A p : InQueue(q \o r, p) <=> InQueue(q, p) \/ InQueue(r, p)
           /\ NoRepeat(q) /\ NoRepeat(r) /\ (\A p \in Packets : ~(InQueue(q, p) /\ InQueue(r, p)))
              => NoRepeat(q \o r)
<1>1. /\ Len(q) \in Nat /\ Len(r) \in Nat /\ DOMAIN q = 1..Len(q) /\ DOMAIN r = 1..Len(r)
      /\ DOMAIN (q \o r) = 1..Len(q) + Len(r)
      /\ \A i \in 1..Len(q) + Len(r) : (q \o r)[i] = IF i <= Len(q) THEN q[i] ELSE r[i - Len(q)]
  BY ConcatProperties
<1>2. ASSUME NEW i \in 1..Len(q) + Len(r)
      PROVE  \/ i \in 1..Len(q) /\ (q \o r)[i] = q[i]
             \/ i \notin 1..Len(q) /\ i - Len(q) \in 1..Len(r) /\ (q \o r)[i] = r[i - Len(q)]
  BY <1>1
<1>3. ASSUME NEW i \in 1..Len(q) PROVE i \in 1..Len(q) + Len(r) /\ (q \o r)[i] = q[i]
  BY <1>1
<1>4. ASSUME NEW i \in 1..Len(r)
      PROVE  i + Len(q) \in 1..Len(q) + Len(r) /\ (q \o r)[i + Len(q)] = r[i]
  <2>1. i + Len(q) \in 1..Len(q) + Len(r) /\ ~(i + Len(q) <= Len(q)) /\ (i + Len(q)) - Len(q) = i
    BY <1>1
  <2> QED
    BY <1>1, <2>1
<1>5. \A p : InQueue(q \o r, p) <=> InQueue(q, p) \/ InQueue(r, p)
  BY <1>1, <1>2, <1>3, <1>4 DEF InQueue
<1>6. ASSUME NoRepeat(q), NoRepeat(r), \A p \in Packets : ~(InQueue(q, p) /\ InQueue(r, p))
      PROVE  NoRepeat(q \o r)
  <2> SUFFICES ASSUME NEW i \in 1..Len(q) + Len(r), NEW j \in 1..Len(q) + Len(r), (q \o r)[i] = (q \o r)[j]
               PROVE  i = j
    BY <1>1 DEF NoRepeat
  <2>1. \A k \in 1..Len(q), l \in 1..Len(r) : q[k] # r[l]
    <3>1. \A k \in 1..Len(q) : q[k] \in Packets
      BY <1>1
    <3> QED
      BY <1>1, <1>6, <3>1 DEF InQueue
  <2>2. \A k, l \in 1..Len(q) : q[k] = q[l] => k = l
    BY <1>1, <1>6 DEF NoRepeat
  <2>3. \A k, l \in 1..Len(r) : r[k] = r[l] => k = l
    BY <1>1, <1>6 DEF NoRepeat
  <2>4. CASE i \in 1..Len(q) /\ j \in 1..Len(q)
    BY <1>3, <2>2, <2>4
  <2>5. CASE i \in 1..Len(q) /\ j \notin 1..Len(q)
    BY <1>2, <1>3, <2>1, <2>5
  <2>6. CASE i \notin 1..Len(q) /\ j \in 1..Len(q)
    BY <1>2, <1>3, <2>1, <2>6
  <2>7. CASE i \notin 1..Len(q) /\ j \notin 1..Len(q)
    <3>1. i - Len(q) = j - Len(q)
      BY <1>2, <2>3, <2>7
    <3> QED
      BY <1>1, <3>1
  <2> QED
    BY <2>4, <2>5, <2>6, <2>7
<1> QED
  BY <1>5, <1>6

\* Appending a packet.
LEMMA AppendQueue ==
    ASSUME NEW q \in Seq(Packets), NEW e \in Packets
    PROVE  /\ \A p : InQueue(Append(q, e), p) <=> InQueue(q, p) \/ p = e
           /\ NoRepeat(q) /\ ~InQueue(q, e) => NoRepeat(Append(q, e))
<1>a. Append(q, e) = q \o <<e>>
  BY AppendIsConcat
<1>1. PICK r \in Seq(Packets) : r = <<e>> /\ Append(q, e) = q \o r
  <2>1. <<e>> \in Seq(Packets)
    OBVIOUS
  <2> QED
    BY <1>a, <2>1
<1>2. NoRepeat(r) /\ \A p : InQueue(r, p) <=> p = e
  BY <1>1, SingleQueue
<1>3. \A p : InQueue(q \o r, p) <=> InQueue(q, p) \/ InQueue(r, p)
  BY ConcatQueue
<1>4. ASSUME NoRepeat(q), ~InQueue(q, e) PROVE NoRepeat(q \o r)
  BY <1>2, <1>4, ConcatQueue
<1> QED
  BY <1>1, <1>2, <1>3, <1>4

\* The elements that stay when one is removed.
LEMMA RemoveAtElements ==
    ASSUME NEW q \in Seq(Packets), NEW i \in DOMAIN q
    PROVE  /\ Len(q) \in Nat /\ DOMAIN q = 1..Len(q) /\ RemoveAt(q, i) \in Seq(Packets)
           /\ DOMAIN RemoveAt(q, i) = 1..Len(q) - 1 /\ Len(RemoveAt(q, i)) = Len(q) - 1
           /\ \A k \in 1..Len(q) - 1 : RemoveAt(q, i)[k] = IF k < i THEN q[k] ELSE q[k + 1]
<1>1. Len(q) \in Nat /\ DOMAIN q = 1..Len(q) /\ i \in 1..Len(q)
  OBVIOUS
<1>2. /\ SubSeq(q, 1, i - 1) \in Seq(Packets) /\ Len(SubSeq(q, 1, i - 1)) = i - 1
      /\ \A k \in 1..i - 1 : SubSeq(q, 1, i - 1)[k] = q[k]
  BY <1>1
<1>3. /\ SubSeq(q, i + 1, Len(q)) \in Seq(Packets) /\ Len(SubSeq(q, i + 1, Len(q))) = Len(q) - i
      /\ \A k \in 1..Len(q) - i : SubSeq(q, i + 1, Len(q))[k] = q[i + k]
  BY <1>1
<1>4. PICK a \in Seq(Packets), b \in Seq(Packets) :
          a = SubSeq(q, 1, i - 1) /\ b = SubSeq(q, i + 1, Len(q))
  BY <1>2, <1>3
<1>5. /\ RemoveAt(q, i) = a \o b /\ Len(a) = i - 1 /\ Len(b) = Len(q) - i
      /\ \A k \in 1..i - 1 : a[k] = q[k] /\ \A l \in 1..Len(q) - i : b[l] = q[i + l]
  BY <1>2, <1>3, <1>4 DEF RemoveAt
<1>6. /\ a \o b \in Seq(Packets) /\ Len(a \o b) = Len(q) - 1
      /\ \A k \in 1..Len(q) - 1 : (a \o b)[k] = IF k <= i - 1 THEN a[k] ELSE b[k - (i - 1)]
  <2>1. /\ a \o b \in Seq(Packets) /\ Len(a \o b) = Len(a) + Len(b)
        /\ \A k \in 1..Len(a) + Len(b) : (a \o b)[k] = IF k <= Len(a) THEN a[k] ELSE b[k - Len(a)]
    BY ConcatProperties
  <2>2. (i - 1) + (Len(q) - i) = Len(q) - 1
    BY <1>1
  <2> QED
    BY <1>5, <2>1, <2>2
<1>7. ASSUME NEW k \in 1..Len(q) - 1 PROVE (a \o b)[k] = IF k < i THEN q[k] ELSE q[k + 1]
  <2>1. CASE k < i
    BY <1>1, <1>2, <1>4, <1>6, <2>1
  <2>2. CASE ~(k < i)
    <3>1. k - (i - 1) \in 1..Len(q) - i /\ i + (k - (i - 1)) = k + 1
      BY <1>1, <2>2
    <3>2. b[k - (i - 1)] = q[i + (k - (i - 1))]
      BY <1>3, <1>4, <3>1
    <3>3. ~(k <= i - 1)
      BY <1>1, <2>2
    <3>4. (a \o b)[k] = b[k - (i - 1)]
      BY <1>6, <3>3
    <3> QED
      BY <2>2, <3>1, <3>2, <3>4
  <2> QED
    BY <2>1, <2>2
<1>8. DOMAIN (a \o b) = 1..Len(q) - 1
  BY <1>6
<1>9. RemoveAt(q, i) = a \o b
  BY <1>5
<1> QED
  BY <1>1, <1>6, <1>7, <1>8, <1>9

\* Removing a packet that occurs once.
LEMMA RemoveAtQueue ==
    ASSUME NEW q \in Seq(Packets), NEW i \in DOMAIN q, NoRepeat(q)
    PROVE  /\ NoRepeat(RemoveAt(q, i))
           /\ \A p : InQueue(RemoveAt(q, i), p) <=> InQueue(q, p) /\ p # q[i]
<1>1. /\ Len(q) \in Nat /\ DOMAIN q = 1..Len(q) /\ i \in 1..Len(q)
      /\ DOMAIN RemoveAt(q, i) = 1..Len(q) - 1
      /\ \A k \in 1..Len(q) - 1 : RemoveAt(q, i)[k] = IF k < i THEN q[k] ELSE q[k + 1]
      /\ \A k, l \in 1..Len(q) : q[k] = q[l] => k = l
  BY RemoveAtElements DEF NoRepeat
<1>2. ASSUME NEW k \in 1..Len(q) - 1
      PROVE  \/ k < i /\ k \in 1..Len(q) /\ k # i /\ RemoveAt(q, i)[k] = q[k]
             \/ ~(k < i) /\ k + 1 \in 1..Len(q) /\ k + 1 # i /\ RemoveAt(q, i)[k] = q[k + 1]
  BY <1>1
<1>3. NoRepeat(RemoveAt(q, i))
  <2>1. ASSUME NEW k \in 1..Len(q) - 1, NEW l \in 1..Len(q) - 1, RemoveAt(q, i)[k] = RemoveAt(q, i)[l]
        PROVE  k = l
    <3>1. CASE k < i /\ l < i
      BY <1>1, <1>2, <2>1, <3>1
    <3>2. CASE k < i /\ ~(l < i)
      <4>1. k = l + 1
        BY <1>1, <1>2, <2>1, <3>2
      <4> QED
        BY <3>2, <4>1
    <3>3. CASE ~(k < i) /\ l < i
      <4>1. l = k + 1
        BY <1>1, <1>2, <2>1, <3>3
      <4> QED
        BY <3>3, <4>1
    <3>4. CASE ~(k < i) /\ ~(l < i)
      <4>1. k + 1 = l + 1
        BY <1>1, <1>2, <2>1, <3>4
      <4> QED
        BY <4>1
    <3> QED
      BY <3>1, <3>2, <3>3, <3>4
  <2> QED
    BY <1>1, <2>1 DEF NoRepeat
<1>4. ASSUME NEW p PROVE InQueue(RemoveAt(q, i), p) <=> InQueue(q, p) /\ p # q[i]
  <2>1. ASSUME InQueue(RemoveAt(q, i), p) PROVE InQueue(q, p) /\ p # q[i]
    <3>1. PICK k \in 1..Len(q) - 1 : RemoveAt(q, i)[k] = p
      BY <1>1, <2>1 DEF InQueue
    <3>2. PICK l \in 1..Len(q) : l # i /\ q[l] = p
      <4>1. CASE k < i
        BY <1>1, <3>1, <4>1
      <4>2. CASE ~(k < i)
        BY <1>1, <3>1, <4>2
      <4> QED
        BY <4>1, <4>2
    <3> QED
      BY <1>1, <1>2, <3>2 DEF InQueue
  <2>2. ASSUME InQueue(q, p), p # q[i] PROVE InQueue(RemoveAt(q, i), p)
    <3>1. PICK k \in 1..Len(q) : q[k] = p /\ k # i
      BY <1>1, <2>2 DEF InQueue
    <3>2. CASE k < i
      <4>1. k \in 1..Len(q) - 1
        BY <1>1, <3>2
      <4>2. RemoveAt(q, i)[k] = p
        BY <1>1, <3>1, <3>2, <4>1
      <4> QED
        BY <1>1, <4>1, <4>2 DEF InQueue
    <3>3. CASE ~(k < i)
      <4>1. k - 1 \in 1..Len(q) - 1 /\ (k - 1) + 1 = k /\ ~(k - 1 < i)
        BY <1>1, <3>1, <3>3
      <4>2. RemoveAt(q, i)[k - 1] = p
        BY <1>1, <3>1, <4>1
      <4> QED
        BY <1>1, <4>1, <4>2 DEF InQueue
    <3> QED
      BY <3>2, <3>3
  <2> QED
    BY <2>1, <2>2
<1> QED
  BY <1>3, <1>4

\* HTC_PACKET_REMOVE takes out the packet it is given.
LEMMA WithoutQueue ==
    ASSUME NEW q \in Seq(Packets), NEW e, NoRepeat(q)
    PROVE  /\ NoRepeat(Without(q, e))
           /\ \A p : InQueue(Without(q, e), p) <=> InQueue(q, p) /\ p # e
           /\ \A i \in DOMAIN q : q[i] = e => Without(q, e) = RemoveAt(q, i)
<1>1. CASE \E i \in DOMAIN q : q[i] = e
  <2>1. PICK i \in DOMAIN q : q[i] = e /\ Without(q, e) = RemoveAt(q, i)
    BY <1>1 DEF Without
  <2>2. \A j \in DOMAIN q : q[j] = e => j = i
    BY <2>1 DEF NoRepeat
  <2> QED
    BY <2>1, <2>2, RemoveAtQueue
<1>2. CASE ~ \E i \in DOMAIN q : q[i] = e
  BY <1>2 DEF Without, InQueue
<1> QED
  BY <1>1, <1>2

----------------------------------------------------------------------------
(* What a step has to show                                                 *)

\* The threads.
LEMMA ThreadFacts ==
    /\ Completer \in Threads /\ Resumer \in Threads /\ Senders \subseteq Threads
    /\ Completer \notin Senders /\ Resumer \notin Senders /\ Completer # Resumer
    /\ NoThread \notin Threads /\ NoThread \in Owners /\ Threads \subseteq Owners
    /\ NoPacket \notin Packets
  BY ThreadAssumption DEF Threads, Owners

\* Each packet stays where it is, moves to one place, or is given back.
LEMMA CountedStep ==
    ASSUME Counted,
           \A p \in Packets :
               /\ \/ /\ Awaited(p)' <=> Awaited(p)
                     /\ \A k \in Names, v \in Owners : HeldIn(k, v, p)' <=> HeldIn(k, v, p)
                  \/ /\ Awaited(p)'
                     /\ \E n \in Names, u \in Owners :
                            \A k \in Names, v \in Owners : HeldIn(k, v, p)' <=> k = n /\ v = u
                  \/ /\ ~Awaited(p)'
                     /\ \A k \in Names, v \in Owners : ~HeldIn(k, v, p)'
               /\ seqOf'[p] = -1 => result'[p] = "none"
    PROVE  Counted'
<1> SUFFICES ASSUME NEW p \in Packets
             PROVE  /\ \A m, n \in Names : \A t, u \in Owners :
                           HeldIn(m, t, p)' /\ HeldIn(n, u, p)' => m = n /\ t = u
                    /\ Awaited(p)' <=> \E n \in Names : \E t \in Owners : HeldIn(n, t, p)'
  BY DEF Counted
<1>1. CASE /\ Awaited(p)' <=> Awaited(p)
           /\ \A k \in Names, v \in Owners : HeldIn(k, v, p)' <=> HeldIn(k, v, p)
  BY <1>1 DEF Counted
<1>2. CASE /\ Awaited(p)'
           /\ \E n \in Names, u \in Owners :
                  \A k \in Names, v \in Owners : HeldIn(k, v, p)' <=> k = n /\ v = u
  BY <1>2
<1>3. CASE /\ ~Awaited(p)'
           /\ \A k \in Names, v \in Owners : ~HeldIn(k, v, p)'
  BY <1>3
<1> QED
  BY <1>1, <1>2, <1>3

\* A packet that is held somewhere is held nowhere else.
LEMMA HeldOnce ==
    ASSUME Counted, NEW p \in Packets, NEW m \in Names, NEW t \in Owners, HeldIn(m, t, p)
    PROVE  /\ Awaited(p) /\ seqOf[p] # -1 /\ result[p] = "none"
           /\ \A k \in Names, v \in Owners : HeldIn(k, v, p) => k = m /\ v = t
  BY DEF Counted, Awaited

\* The local variables of one thread change.
LEMMA LocalsStep ==
    ASSUME TypeInv, LocalsFree, NEW t \in Threads, NEW label, Goto(t, label),
           \A u \in Threads : u # t => /\ sendQueue'[u] = sendQueue[u] /\ tempQueue'[u] = tempQueue[u]
                                       /\ callersQueue'[u] = callersQueue[u] /\ issuing'[u] = issuing[u],
           label \notin {"readResources", "enter", "get", "issue", "hifSend", "failBatch"} => sendQueue'[t] = <<>>,
           label \notin {"pull", "get"} => tempQueue'[t] = <<>>,
           label \notin {"testDepth", "addDepth", "sendFull", "return"} => callersQueue'[t] = NoPacket,
           label # "hifSend" => issuing'[t] = NoPacket
    PROVE  LocalsFree'
<1>1. pc'[t] = label /\ \A u \in Threads : u # t => pc'[u] = pc[u]
  BY DEF Goto, TypeInv, TypeOK, ThreadTypeOK
<1> QED
  BY <1>1 DEF LocalsFree

\* A step between labels that the order of TxLookupQueue does not look at.
LEMMA LookupKept ==
    ASSUME TypeInv, LookupOrder, NEW t \in Threads, NEW label, Goto(t, label),
           UNCHANGED <<endpoint, TxLookupQueue, wire, hifDone, netbuf>>,
           \A u \in Threads : pc[u] = "hifSend" => issuing'[u] = issuing[u],
           pc[t] \notin {"hifSend", "lookup"},
           label \notin {"hifSend", "lookup", "complete", "notFound"}
    PROVE  LookupOrder'
<1>1. pc'[t] = label /\ \A u \in Threads : u # t => pc'[u] = pc[u]
  BY DEF Goto, TypeInv, TypeOK, ThreadTypeOK
<1>2. \A u \in Threads : pc'[u] = "hifSend" <=> pc[u] = "hifSend"
  BY <1>1
<1>3. Looked' = Looked /\ (pc'[Completer] = "lookup" <=> pc[Completer] = "lookup")
  BY <1>1, ThreadFacts DEF Looked
<1>4. pc'[Completer] \in {"lookup", "complete", "notFound"} =>
          pc[Completer] \in {"lookup", "complete", "notFound"}
  BY <1>1, ThreadFacts
<1>5. (\E u \in Threads : pc'[u] = "hifSend") <=> \E u \in Threads : pc[u] = "hifSend"
  BY <1>2
<1>6. OnWire' = OnWire
  BY DEF OnWire
<1> QED
  BY <1>2, <1>3, <1>4, <1>5, <1>6 DEF LookupOrder, Compact

\* A step that moves no packet.
LEMMA PlacesKept ==
    ASSUME PacketInv,
           UNCHANGED <<endpoint, TxQueue, TxLookupQueue, tempQueue, sendQueue, callersQueue, issuing, wire,
                       netbuf, seqOf, result>>,
           pc'[Completer] = "complete" <=> pc[Completer] = "complete"
    PROVE  Counted' /\ NoRepeats'
<1>1. \A k, v, p : HeldIn(k, v, p)' <=> HeldIn(k, v, p)
  BY DEF HeldIn, Compact
<1>2. \A p \in Packets : Awaited(p)' <=> Awaited(p)
  BY DEF Awaited
<1>3. Counted'
  BY <1>1, <1>2 DEF PacketInv, PlaceInv, Counted
<1>4. NoRepeats'
  BY DEF PacketInv, PlaceInv, NoRepeats, Compact
<1> QED
  BY <1>3, <1>4

\* A thread that moves on without touching a packet.
LEMMA QuietStep ==
    ASSUME PacketInv, NEW t \in Threads, NEW label, Goto(t, label),
           UNCHANGED <<endpoint, TxQueue, TxLookupQueue, tempQueue, sendQueue, callersQueue, issuing, wire,
                       hifDone, netbuf, seqOf, result>>,
           pc[t] \notin {"hifSend", "lookup", "complete"},
           label \notin {"hifSend", "lookup", "complete", "notFound"},
           label \notin {"readResources", "enter", "get", "issue", "hifSend", "failBatch"} => sendQueue[t] = <<>>,
           label \notin {"pull", "get"} => tempQueue[t] = <<>>,
           label \notin {"testDepth", "addDepth", "sendFull", "return"} => callersQueue[t] = NoPacket
    PROVE  PlaceInv'
<1>1. pc'[t] = label /\ \A u \in Threads : u # t => pc'[u] = pc[u]
  BY DEF Goto, PacketInv, TypeInv, TypeOK, ThreadTypeOK
<1>2. Counted' /\ NoRepeats'
  BY <1>1, PlacesKept, ThreadFacts
<1>3. LocalsFree'
  BY LocalsStep DEF PacketInv, PlaceInv, LocalsFree
<1>4. LookupOrder'
  BY LookupKept DEF PacketInv, PlaceInv
<1> QED
  BY <1>2, <1>3, <1>4 DEF PlaceInv

\* A step of others that touches neither packets nor threads.
LEMMA OthersStep ==
    ASSUME PacketInv, UNCHANGED <<pc, endpoint, TxQueue, TxLookupQueue, tempQueue, sendQueue, callersQueue,
                                  issuing, wire, netbuf, seqOf, result>>,
           UNCHANGED hifDone \/ (Compact /\ hifDone' <= Len(wire))
    PROVE  PlaceInv'
<1>1. Counted' /\ NoRepeats'
  BY PlacesKept
<1>2. LocalsFree'
  BY DEF PacketInv, PlaceInv, LocalsFree
<1>3. LookupOrder'
  BY DEF PacketInv, PlaceInv, LookupOrder, Looked, OnWire, Compact
<1> QED
  BY <1>1, <1>2, <1>3 DEF PlaceInv

\* One packet moves to a place, or comes to one for the first time.
LEMMA MoveStep ==
    ASSUME Counted, NEW p \in Packets, NEW n \in Names, NEW u \in Owners, Awaited(p)',
           \A q \in Packets : q # p => seqOf'[q] = seqOf[q] /\ result'[q] = result[q],
           \A k \in Names, v \in Owners, q \in Packets :
               HeldIn(k, v, q)' <=> IF q = p THEN k = n /\ v = u ELSE HeldIn(k, v, q)
    PROVE  Counted'
<1>1. ASSUME NEW q \in Packets
      PROVE  /\ \/ /\ Awaited(q)' <=> Awaited(q)
                   /\ \A k \in Names, v \in Owners : HeldIn(k, v, q)' <=> HeldIn(k, v, q)
                \/ /\ Awaited(q)'
                   /\ \E k1 \in Names, u1 \in Owners :
                          \A k \in Names, v \in Owners : HeldIn(k, v, q)' <=> k = k1 /\ v = u1
             /\ seqOf'[q] = -1 => result'[q] = "none"
  <2>1. CASE q = p
    <3>1. \A k \in Names, v \in Owners : HeldIn(k, v, q)' <=> k = n /\ v = u
      BY <2>1
    <3>2. seqOf'[q] # -1
      BY <2>1 DEF Awaited
    <3>3. Awaited(q)'
      BY <2>1
    <3> QED
      BY <3>1, <3>2, <3>3
  <2>2. CASE q # p
    BY <2>2 DEF Counted, Awaited
  <2> QED
    BY <2>1, <2>2
<1> QED
  BY <1>1, CountedStep

\* The packets of P are given back.
LEMMA GoneStep ==
    ASSUME Counted, NEW P, \A q \in Packets \cap P : Awaited(q) /\ result'[q] # "none",
           UNCHANGED seqOf, \A q \in Packets \ P : result'[q] = result[q],
           \A k \in Names, v \in Owners, q \in Packets : HeldIn(k, v, q)' <=> HeldIn(k, v, q) /\ q \notin P
    PROVE  Counted'
<1>1. ASSUME NEW q \in Packets
      PROVE  /\ \/ /\ Awaited(q)' <=> Awaited(q)
                   /\ \A k \in Names, v \in Owners : HeldIn(k, v, q)' <=> HeldIn(k, v, q)
                \/ /\ ~Awaited(q)'
                   /\ \A k \in Names, v \in Owners : ~HeldIn(k, v, q)'
             /\ seqOf'[q] = -1 => result'[q] = "none"
  <2>1. CASE q \in P
    BY <2>1 DEF Awaited
  <2>2. CASE q \notin P
    BY <2>2 DEF Counted, Awaited
  <2> QED
    BY <2>1, <2>2
<1> QED
  BY <1>1, CountedStep

----------------------------------------------------------------------------
(* Every action keeps the account                                          *)

\* The types the steps need.
LEMMA PlaceTypes ==
    ASSUME PacketInv
    PROVE  /\ TxQueue \in Seq(Packets) /\ TxLookupQueue \in Seq(Packets) /\ wire \in Seq(Packets)
           /\ sendQueue \in [Threads -> Seq(Packets)] /\ tempQueue \in [Threads -> Seq(Packets)]
           /\ callersQueue \in [Threads -> Packets \cup {NoPacket}]
           /\ issuing \in [Threads -> Packets \cup {NoPacket}]
           /\ netbuf \in Packets \cup {NoPacket} /\ pc \in [Threads -> Labels]
           /\ seqOf \in [Packets -> -1..255] /\ result \in [Packets -> Results] /\ SeqNo \in 0..255
           /\ hifDone \in Nat
  BY DEF PacketInv, TypeInv, TypeOK, EpTypeOK, PktTypeOK, ThreadTypeOK, PipeTypeOK, ClientTypeOK,
         PacketOrNone

\* A thread's own variables change in one place.
LEMMA OtherThreads ==
    ASSUME PacketInv, NEW t \in Threads, NEW x
    PROVE  /\ sendQueue' = [sendQueue EXCEPT ![t] = x] =>
                sendQueue'[t] = x /\ \A u \in Threads : u # t => sendQueue'[u] = sendQueue[u]
           /\ tempQueue' = [tempQueue EXCEPT ![t] = x] =>
                tempQueue'[t] = x /\ \A u \in Threads : u # t => tempQueue'[u] = tempQueue[u]
           /\ callersQueue' = [callersQueue EXCEPT ![t] = x] =>
                callersQueue'[t] = x /\ \A u \in Threads : u # t => callersQueue'[u] = callersQueue[u]
           /\ issuing' = [issuing EXCEPT ![t] = x] =>
                issuing'[t] = x /\ \A u \in Threads : u # t => issuing'[u] = issuing[u]
           /\ Goto(t, x) => pc'[t] = x /\ \A u \in Threads : u # t => pc'[u] = pc[u]
  BY PlaceTypes DEF Goto

\* A client's new packet is in the hands of its sender.
LEMMA SendPktPlaces ==
    ASSUME PacketInv, NEW t \in Senders, NEW p \in Packets, HTCSendPkt(t, p) PROVE PlaceInv'
<1>t. t \in Threads /\ t # Completer /\ t \in Owners
  BY ThreadFacts
<1>1. /\ pc[t] = "idle" /\ seqOf[p] = -1 /\ sendQueue[t] = <<>> /\ callersQueue[t] = NoPacket
      /\ result[p] = "none"
  BY <1>t DEF HTCSendPkt, Submitted, PacketInv, PlaceInv, LocalsFree, Counted
<1>2. /\ UNCHANGED <<endpoint, TxQueue, TxLookupQueue, tempQueue, issuing, wire, hifDone, netbuf, result>>
      /\ seqOf' = [seqOf EXCEPT ![p] = SeqNo]
  BY DEF HTCSendPkt, hifVars, tgtVars
<1>3. \A k \in Names, v \in Owners : ~HeldIn(k, v, p)
  BY <1>1 DEF PacketInv, PlaceInv, Counted, Awaited
<1>4. Awaited(p)' /\ \A q \in Packets : q # p => seqOf'[q] = seqOf[q] /\ result'[q] = result[q]
  <2>1. seqOf'[p] = SeqNo /\ \A q \in Packets : q # p => seqOf'[q] = seqOf[q]
    BY <1>2, PlaceTypes
  <2>2. SeqNo # -1
    <3>1. SeqNo \in 0..255
      BY PlaceTypes
    <3> QED
      BY <3>1
  <2>3. result' = result
    BY <1>2
  <2>4. seqOf'[p] # -1
    BY <2>1, <2>2, Zenon
  <2>5. Awaited(p)'
    BY <1>1, <2>3, <2>4 DEF Awaited
  <2> QED
    BY <2>1, <2>3, <2>5
<1>5. CASE SendFullActions = {}
  <2>1. /\ sendQueue' = [sendQueue EXCEPT ![t] = <<p>>] /\ UNCHANGED callersQueue
        /\ Goto(t, "readResources")
    BY <1>5 DEF HTCSendPkt
  <2>2. /\ sendQueue'[t] = <<p>> /\ \A u \in Threads : u # t => sendQueue'[u] = sendQueue[u]
        /\ pc'[t] = "readResources" /\ \A u \in Threads : u # t => pc'[u] = pc[u]
    <3>1. sendQueue'[t] = <<p>> /\ \A u \in Threads : u # t => sendQueue'[u] = sendQueue[u]
      BY <1>t, <2>1, OtherThreads
    <3>2. pc'[t] = "readResources" /\ \A u \in Threads : u # t => pc'[u] = pc[u]
      BY <1>t, <2>1, OtherThreads
    <3> QED
      BY <3>1, <3>2
  <2>3. \A q : InQueue(sendQueue'[t], q) <=> q = p
    BY <2>2, SingleQueue
  <2>4. \A q : ~InQueue(sendQueue[t], q)
    BY <1>1 DEF InQueue
  <2>5. \A k \in Names, v \in Owners, q \in Packets :
            HeldIn(k, v, q)' <=> HeldIn(k, v, q) \/ (q = p /\ k = "batch" /\ v = t)
    BY <1>2, <1>t, <2>1, <2>2, <2>3, <2>4, ThreadFacts DEF HeldIn, Compact
  <2>6. Counted'
    <3>1. "batch" \in Names
      BY DEF Names
    <3>2. \A k \in Names, v \in Owners, q \in Packets :
              HeldIn(k, v, q)' <=> IF q = p THEN k = "batch" /\ v = t ELSE HeldIn(k, v, q)
      BY <1>3, <2>5
    <3>3. Counted
      BY DEF PacketInv, PlaceInv
    <3> QED
      BY <1>4, <1>t, <3>1, <3>2, <3>3, MoveStep
  <2>7. NoRepeats'
    BY <1>2, <2>2, SingleQueue DEF PacketInv, PlaceInv, NoRepeats, Compact
  <2>8. LocalsFree'
    BY <1>1, <1>2, <1>t, <2>1, <2>2, LocalsStep DEF PacketInv, PlaceInv, LocalsFree
  <2>9. LookupOrder'
    BY <1>1, <1>2, <1>t, <2>1, LookupKept DEF PacketInv, PlaceInv
  <2> QED
    BY <2>6, <2>7, <2>8, <2>9 DEF PlaceInv
<1>6. CASE SendFullActions # {}
  <2>1. /\ callersQueue' = [callersQueue EXCEPT ![t] = p] /\ UNCHANGED sendQueue
        /\ Goto(t, "testDepth")
    BY <1>6 DEF HTCSendPkt
  <2>2. /\ callersQueue'[t] = p /\ \A u \in Threads : u # t => callersQueue'[u] = callersQueue[u]
        /\ pc'[t] = "testDepth" /\ \A u \in Threads : u # t => pc'[u] = pc[u]
    <3>1. callersQueue'[t] = p /\ \A u \in Threads : u # t => callersQueue'[u] = callersQueue[u]
      BY <1>t, <2>1, OtherThreads
    <3>2. pc'[t] = "testDepth" /\ \A u \in Threads : u # t => pc'[u] = pc[u]
      BY <1>t, <2>1, OtherThreads
    <3> QED
      BY <3>1, <3>2
  <2>5. \A k \in Names, v \in Owners, q \in Packets :
            HeldIn(k, v, q)' <=> HeldIn(k, v, q) \/ (q = p /\ k = "caller" /\ v = t)
    <3>1. \A q \in Packets : callersQueue[t] # q
      BY <1>1, ThreadFacts
    <3> QED
      BY <1>2, <1>t, <2>1, <2>2, <3>1, ThreadFacts DEF HeldIn, Compact
  <2>6. Counted'
    <3>1. "caller" \in Names
      BY DEF Names
    <3>2. \A k \in Names, v \in Owners, q \in Packets :
              HeldIn(k, v, q)' <=> IF q = p THEN k = "caller" /\ v = t ELSE HeldIn(k, v, q)
      BY <1>3, <2>5
    <3>3. Counted
      BY DEF PacketInv, PlaceInv
    <3> QED
      BY <1>4, <1>t, <3>1, <3>2, <3>3, MoveStep
  <2>7. NoRepeats'
    BY <1>2, <2>1 DEF PacketInv, PlaceInv, NoRepeats, Compact
  <2>8. LocalsFree'
    BY <1>1, <1>2, <1>t, <2>1, <2>2, LocalsStep DEF PacketInv, PlaceInv, LocalsFree
  <2>9. LookupOrder'
    BY <1>1, <1>2, <1>t, <2>1, LookupKept DEF PacketInv, PlaceInv
  <2> QED
    BY <2>6, <2>7, <2>8, <2>9 DEF PlaceInv
<1> QED
  BY <1>5, <1>6

\* A packet moves from the caller's queue to the queue to be sent.
LEMMA CallerToBatch ==
    ASSUME PacketInv, NEW t \in Threads, NEW p \in Packets, callersQueue[t] = p, sendQueue[t] = <<>>,
           pc[t] \in {"addDepth", "sendFull"}, Goto(t, "readResources"),
           sendQueue' = [sendQueue EXCEPT ![t] = <<p>>],
           callersQueue' = [callersQueue EXCEPT ![t] = NoPacket],
           UNCHANGED <<endpoint, TxQueue, TxLookupQueue, tempQueue, issuing, wire, hifDone, netbuf,
                       seqOf, result>>
    PROVE  PlaceInv'
<1>1. /\ sendQueue'[t] = <<p>> /\ \A u \in Threads : u # t => sendQueue'[u] = sendQueue[u]
      /\ callersQueue'[t] = NoPacket /\ \A u \in Threads : u # t => callersQueue'[u] = callersQueue[u]
      /\ pc'[t] = "readResources" /\ \A u \in Threads : u # t => pc'[u] = pc[u]
  <2>1. sendQueue'[t] = <<p>> /\ \A u \in Threads : u # t => sendQueue'[u] = sendQueue[u]
    BY OtherThreads
  <2>2. callersQueue'[t] = NoPacket /\ \A u \in Threads : u # t => callersQueue'[u] = callersQueue[u]
    BY OtherThreads
  <2>3. pc'[t] = "readResources" /\ \A u \in Threads : u # t => pc'[u] = pc[u]
    BY OtherThreads
  <2> QED
    BY <2>1, <2>2, <2>3
<1>2. \A q : (InQueue(sendQueue'[t], q) <=> q = p) /\ ~InQueue(sendQueue[t], q)
  BY <1>1, SingleQueue DEF InQueue
<1>3. HeldIn("caller", t, p) /\ "caller" \in Names /\ "batch" \in Names /\ t \in Owners
  BY ThreadFacts DEF HeldIn, Names
<1>4. \A k \in Names, v \in Owners, q \in Packets :
          HeldIn(k, v, q)' <=> \/ HeldIn(k, v, q) /\ ~(k = "caller" /\ v = t)
                               \/ q = p /\ k = "batch" /\ v = t
  BY <1>1, <1>2, ThreadFacts DEF HeldIn, Compact
<1>5. /\ \A k \in Names, v \in Owners : HeldIn(k, v, p) => k = "caller" /\ v = t
      /\ \A q \in Packets : HeldIn("caller", t, q) => q = p
  <2>1. \A k \in Names, v \in Owners : HeldIn(k, v, p) => k = "caller" /\ v = t
    BY <1>3, HeldOnce DEF PacketInv, PlaceInv
  <2>2. \A q \in Packets : HeldIn("caller", t, q) => q = p
    BY DEF HeldIn
  <2> QED
    BY <2>1, <2>2
<1>6. Counted'
  <2>1. Awaited(p)'
    BY <1>3, HeldOnce DEF Awaited, PacketInv, PlaceInv
  <2>2. \A k \in Names, v \in Owners, q \in Packets :
            HeldIn(k, v, q)' <=> IF q = p THEN k = "batch" /\ v = t ELSE HeldIn(k, v, q)
    BY <1>4, <1>5
  <2>3. Counted
    BY DEF PacketInv, PlaceInv
  <2> QED
    BY <1>3, <2>1, <2>2, <2>3, MoveStep
<1>7. NoRepeats'
  BY <1>1, SingleQueue DEF PacketInv, PlaceInv, NoRepeats, Compact
<1>8. LocalsFree'
  BY <1>1, LocalsStep DEF PacketInv, PlaceInv, LocalsFree
<1>9. LookupOrder'
  BY LookupKept DEF PacketInv, PlaceInv
<1> QED
  BY <1>6, <1>7, <1>8, <1>9 DEF PlaceInv

\* One packet moves from one place to another, and the others stay.
Transferred(p, m, t, n, u) ==
    \A k \in Names, v \in Owners, q \in Packets :
        HeldIn(k, v, q)' <=> \/ HeldIn(k, v, q) /\ ~(q = p /\ k = m /\ v = t)
                             \/ q = p /\ k = n /\ v = u

\* One packet moves from one place to another.
LEMMA TransferStep ==
    ASSUME Counted, NEW p \in Packets, NEW m \in Names, NEW t \in Owners, NEW n \in Names, NEW u \in Owners,
           HeldIn(m, t, p), UNCHANGED <<seqOf, result>>, Transferred(p, m, t, n, u)
    PROVE  Counted'
<1>1. \A k \in Names, v \in Owners : HeldIn(k, v, p) => k = m /\ v = t
  BY HeldOnce
<1>2. \A k \in Names, v \in Owners, q \in Packets :
          HeldIn(k, v, q)' <=> IF q = p THEN k = n /\ v = u ELSE HeldIn(k, v, q)
  BY <1>1 DEF Transferred
<1>3. Awaited(p)'
  BY HeldOnce DEF Awaited
<1> QED
  BY <1>2, <1>3, MoveStep

\* EpSendFull decides: a dropped packet stays with the caller.
LEMMA SendFullPlaces ==
    ASSUME PacketInv, NEW t \in Threads, SendFull(t) PROVE PlaceInv'
<1>1. pc[t] = "sendFull" /\ callersQueue[t] \in Packets
  BY DEF SendFull, PacketInv, TypeInv, PacketInHand
<1>2. sendQueue[t] = <<>> /\ tempQueue[t] = <<>>
  BY <1>1 DEF PacketInv, PlaceInv, LocalsFree
<1>3. UNCHANGED <<endpoint, TxQueue, TxLookupQueue, tempQueue, issuing, wire, hifDone, netbuf, seqOf, result>>
  BY DEF SendFull, epVars, pktVars, hifVars, tgtVars
<1>4. CASE /\ sendQueue' = [sendQueue EXCEPT ![t] = <<callersQueue[t]>>]
           /\ callersQueue' = [callersQueue EXCEPT ![t] = NoPacket]
           /\ Goto(t, "readResources")
  BY <1>1, <1>2, <1>3, <1>4, CallerToBatch
<1>5. CASE Goto(t, "return") /\ UNCHANGED <<sendQueue, callersQueue>>
  BY <1>1, <1>2, <1>3, <1>5, QuietStep
<1> QED
  BY <1>4, <1>5 DEF SendFull

\* The second reading of the depth lets the packet in or leaves it to EpSendFull.
LEMMA AddDepthPlaces ==
    ASSUME PacketInv, NEW t \in Threads, AddDepth(t) PROVE PlaceInv'
<1>1. pc[t] = "addDepth" /\ callersQueue[t] \in Packets
  BY DEF AddDepth, PacketInv, TypeInv, PacketInHand
<1>2. sendQueue[t] = <<>> /\ tempQueue[t] = <<>>
  BY <1>1 DEF PacketInv, PlaceInv, LocalsFree
<1>3. UNCHANGED <<endpoint, TxQueue, TxLookupQueue, tempQueue, issuing, wire, hifDone, netbuf, seqOf, result>>
  BY DEF AddDepth, epVars, pktVars, hifVars, tgtVars, cliVars
<1>4. CASE overflow'[t] > 0
  <2>1. Goto(t, "sendFull") /\ UNCHANGED <<sendQueue, callersQueue>>
    BY <1>4 DEF AddDepth
  <2> QED
    BY <1>1, <1>2, <1>3, <2>1, QuietStep
<1>5. CASE ~(overflow'[t] > 0)
  <2>1. /\ sendQueue' = [sendQueue EXCEPT ![t] = <<callersQueue[t]>>]
        /\ callersQueue' = [callersQueue EXCEPT ![t] = NoPacket]
        /\ Goto(t, "readResources")
    BY <1>5 DEF AddDepth
  <2> QED
    BY <1>1, <1>2, <1>3, <2>1, CallerToBatch
<1> QED
  BY <1>4, <1>5

\* The steps of HTCTrySend that move no packet.
LEMMA QuietPlaces ==
    ASSUME PacketInv, NEW t \in Threads,
           \/ TestDepth(t) \/ ReadResources(t) \/ Relock(t) \/ BeginPass(t) \/ EndDrain(t) \/ EndIssue(t)
    PROVE  PlaceInv'
<1>1. UNCHANGED <<endpoint, TxQueue, TxLookupQueue, tempQueue, sendQueue, callersQueue, issuing, wire,
                  hifDone, netbuf, seqOf, result>>
  BY DEF TestDepth, ReadResources, Relock, BeginPass, EndDrain, EndIssue, epVars, pktVars, thVars, hifVars,
         tgtVars, cliVars
<1>l. LocalsFree
  BY DEF PacketInv, PlaceInv
<1>2. CASE TestDepth(t)
  <2>1. pc[t] = "testDepth" /\ (Goto(t, "sendFull") \/ Goto(t, "addDepth"))
    BY <1>2 DEF TestDepth
  <2>2. sendQueue[t] = <<>> /\ tempQueue[t] = <<>>
    BY <1>l, <2>1 DEF LocalsFree
  <2>3. CASE Goto(t, "sendFull")
    BY <1>1, <2>1, <2>2, <2>3, QuietStep
  <2>4. CASE Goto(t, "addDepth")
    BY <1>1, <2>1, <2>2, <2>4, QuietStep
  <2> QED
    BY <2>1, <2>3, <2>4
<1>3. CASE ReadResources(t)
  <2>1. CASE pc[t] = "readResources"
    <3>1. Goto(t, "enter")
      BY <1>3, <2>1 DEF ReadResources
    <3>2. tempQueue[t] = <<>> /\ callersQueue[t] = NoPacket
      BY <1>l, <2>1 DEF LocalsFree
    <3> QED
      BY <1>1, <2>1, <3>1, <3>2, QuietStep
  <2>2. CASE pc[t] = "rereadResources"
    <3>1. Goto(t, "relock")
      BY <1>3, <2>2 DEF ReadResources
    <3>2. sendQueue[t] = <<>> /\ tempQueue[t] = <<>> /\ callersQueue[t] = NoPacket
      BY <1>l, <2>2 DEF LocalsFree
    <3> QED
      BY <1>1, <2>2, <3>1, <3>2, QuietStep
  <2> QED
    BY <1>3, <2>1, <2>2 DEF ReadResources
<1>4. CASE Relock(t) \/ BeginPass(t) \/ EndDrain(t) \/ EndIssue(t)
  <2>1. PICK label \in {"drain", "pull", "get", "return", "rereadResources"} : Goto(t, label)
    BY <1>4 DEF Relock, BeginPass, EndDrain, EndIssue
  <2>2. pc[t] \in {"relock", "drain", "issue", "failBatch"}
    BY <1>4 DEF Relock, BeginPass, EndDrain, EndIssue
  <2>3. tempQueue[t] = <<>> /\ callersQueue[t] = NoPacket
    BY <1>l, <2>2 DEF LocalsFree
  <2>4. sendQueue[t] = <<>>
    BY <1>l, <1>4 DEF LocalsFree, Relock, BeginPass, EndDrain, EndIssue
  <2> QED
    BY <1>1, <2>1, <2>2, <2>3, <2>4, QuietStep
<1> QED
  BY <1>2, <1>3, <1>4

\* All the packets that a thread has in one place move to TxQueue.
LEMMA QueuedStep ==
    ASSUME Counted, NEW m \in Names, NEW t \in Owners,
           UNCHANGED <<seqOf, result>>,
           \A k \in Names, v \in Owners, q \in Packets :
               HeldIn(k, v, q)' <=> \/ HeldIn(k, v, q) /\ ~(k = m /\ v = t)
                                    \/ HeldIn(m, t, q) /\ k = "queue" /\ v = NoThread
    PROVE  Counted'
<1>1. "queue" \in Names /\ NoThread \in Owners
  BY ThreadFacts DEF Names
<1>2. ASSUME NEW p \in Packets
      PROVE  /\ \/ /\ Awaited(p)' <=> Awaited(p)
                   /\ \A k \in Names, v \in Owners : HeldIn(k, v, p)' <=> HeldIn(k, v, p)
                \/ /\ Awaited(p)'
                   /\ \E n \in Names, u \in Owners :
                          \A k \in Names, v \in Owners : HeldIn(k, v, p)' <=> k = n /\ v = u
             /\ seqOf'[p] = -1 => result'[p] = "none"
  <2>1. seqOf'[p] = -1 => result'[p] = "none"
    BY DEF Counted
  <2>2. Awaited(p)' <=> Awaited(p)
    BY DEF Awaited
  <2>3. CASE HeldIn(m, t, p)
    <3>1. Awaited(p) /\ \A k \in Names, v \in Owners : HeldIn(k, v, p) => k = m /\ v = t
      BY <2>3, HeldOnce
    <3>2. \A k \in Names, v \in Owners : HeldIn(k, v, p)' <=> k = "queue" /\ v = NoThread
      BY <2>3, <3>1
    <3> QED
      BY <1>1, <2>1, <2>2, <3>1, <3>2
  <2>4. CASE ~HeldIn(m, t, p)
    <3>1. \A k \in Names, v \in Owners : HeldIn(k, v, p)' <=> HeldIn(k, v, p)
      BY <2>4
    <3> QED
      BY <2>1, <2>2, <3>1
  <2> QED
    BY <2>3, <2>4
<1> QED
  BY <1>2, CountedStep

\* The locked entry of HTCTrySend appends the thread's packets to TxQueue.
LEMMA EnterPlaces ==
    ASSUME PacketInv, NEW t \in Threads, Enter(t) PROVE PlaceInv'
<1>1. PICK label \in {"return", "drain"} : Goto(t, label)
  BY DEF Enter
<1>2. /\ pc[t] = "enter" /\ tempQueue[t] = <<>> /\ callersQueue[t] = NoPacket /\ issuing[t] = NoPacket
      /\ t \in Owners
  BY ThreadFacts DEF Enter, PacketInv, PlaceInv, LocalsFree
<1>3. /\ UNCHANGED <<endpoint, TxLookupQueue, tempQueue, callersQueue, issuing, wire, hifDone, netbuf,
                     seqOf, result>>
      /\ TxQueue' = TxQueue \o sendQueue[t] /\ sendQueue' = [sendQueue EXCEPT ![t] = <<>>]
  BY DEF Enter, Queued, pktVars, hifVars, tgtVars, cliVars
<1>4. /\ sendQueue'[t] = <<>> /\ \A u \in Threads : u # t => sendQueue'[u] = sendQueue[u]
      /\ pc'[t] = label /\ \A u \in Threads : u # t => pc'[u] = pc[u]
  <2>1. sendQueue'[t] = <<>> /\ \A u \in Threads : u # t => sendQueue'[u] = sendQueue[u]
    BY <1>1, <1>3, OtherThreads
  <2>2. pc'[t] = label /\ \A u \in Threads : u # t => pc'[u] = pc[u]
    BY <1>1, <1>3, OtherThreads
  <2> QED
    BY <2>1, <2>2
<1>5. PICK r \in Seq(Packets) : r = sendQueue[t]
  BY PlaceTypes
<1>6. TxQueue \in Seq(Packets) /\ NoRepeat(TxQueue) /\ NoRepeat(r)
  BY <1>5, PlaceTypes DEF PacketInv, PlaceInv, NoRepeats
<1>7. \A p \in Packets : ~(InQueue(TxQueue, p) /\ InQueue(r, p))
  <2> SUFFICES ASSUME NEW p \in Packets, InQueue(TxQueue, p), InQueue(r, p) PROVE FALSE
    OBVIOUS
  <2>1. /\ HeldIn("queue", NoThread, p) /\ HeldIn("batch", t, p)
        /\ "queue" \in Names /\ "batch" \in Names /\ NoThread \in Owners
    BY <1>5, ThreadFacts DEF HeldIn, Names
  <2>2. "queue" = "batch"
    BY <1>2, <2>1, HeldOnce DEF PacketInv, PlaceInv
  <2> QED
    BY <2>2
<1>8. (\A p : InQueue(TxQueue \o r, p) <=> InQueue(TxQueue, p) \/ InQueue(r, p)) /\ NoRepeat(TxQueue \o r)
  BY <1>6, <1>7, ConcatQueue
<1>9. TxQueue' = TxQueue \o r
  BY <1>3, <1>5
<1>10. \A q : (InQueue(TxQueue', q) <=> InQueue(TxQueue, q) \/ InQueue(r, q)) /\ ~InQueue(sendQueue'[t], q)
  <2>1. \A q : InQueue(TxQueue', q) <=> InQueue(TxQueue, q) \/ InQueue(r, q)
    BY <1>8, <1>9, Zenon
  <2>2. \A q : ~InQueue(sendQueue'[t], q)
    BY <1>4 DEF InQueue
  <2> QED
    BY <2>1, <2>2
<1>11. \A k \in Names, v \in Owners, q \in Packets :
           HeldIn(k, v, q)' <=> \/ HeldIn(k, v, q) /\ ~(k = "batch" /\ v = t)
                                \/ InQueue(r, q) /\ k = "queue" /\ v = NoThread
  BY <1>1, <1>2, <1>3, <1>4, <1>10, ThreadFacts DEF HeldIn, Compact
<1>12. Counted'
  <2>1. Counted /\ "batch" \in Names
    BY DEF PacketInv, PlaceInv, Names
  <2>2. \A k \in Names, v \in Owners, q \in Packets :
            HeldIn(k, v, q)' <=> \/ HeldIn(k, v, q) /\ ~(k = "batch" /\ v = t)
                                 \/ HeldIn("batch", t, q) /\ k = "queue" /\ v = NoThread
    <3>1. \A q \in Packets : InQueue(r, q) <=> HeldIn("batch", t, q)
      BY <1>5 DEF HeldIn
    <3> QED
      BY <1>11, <3>1
  <2>3. UNCHANGED <<seqOf, result>>
    BY <1>3
  <2>4. t \in Owners
    BY <1>2
  <2> QED
    BY <2>1, <2>2, <2>3, <2>4, QueuedStep
<1>13. NoRepeats'
  <2>1. NoRepeat(TxQueue')
    BY <1>8, <1>9, Zenon
  <2>2. NoRepeat(sendQueue'[t])
    BY <1>4 DEF NoRepeat
  <2> QED
    BY <1>3, <1>4, <2>1, <2>2 DEF PacketInv, PlaceInv, NoRepeats, Compact
<1>14. LocalsFree'
  BY <1>1, <1>2, <1>3, <1>4, LocalsStep DEF PacketInv, PlaceInv, LocalsFree
<1>15. LookupOrder'
  BY <1>1, <1>2, <1>3, LookupKept DEF PacketInv, PlaceInv
<1> QED
  BY <1>12, <1>13, <1>14, <1>15 DEF PlaceInv

\* The first AUTO_PM packet of TxQueue is moved to the private queue of the pass.
LEMMA AutoPmPlaces ==
    ASSUME PacketInv, NEW t \in Threads, GetHTCAutoPmSendPackets(t) PROVE PlaceInv'
<1>1. PICK i \in AutoPmAt : i = (CHOOSE j \in AutoPmAt : \A k \in AutoPmAt : j <= k)
  <2>1. AutoPmAt \in SUBSET Nat /\ AutoPmAt # {}
    BY PlaceTypes DEF GetHTCAutoPmSendPackets, AutoPmAt
  <2>2. \E j \in AutoPmAt : \A k \in AutoPmAt : j <= k
    BY <2>1, LeastNatural
  <2> QED
    BY <2>2
<1>2. /\ pc[t] = "pull" /\ callersQueue[t] = NoPacket /\ issuing[t] = NoPacket /\ t \in Owners
      /\ sendQueue[t] = <<>>
  BY ThreadFacts DEF GetHTCAutoPmSendPackets, PacketInv, PlaceInv, LocalsFree
<1>3. PICK q0 \in Seq(Packets) : q0 = TxQueue
  BY PlaceTypes
<1>4. PICK t0 \in Seq(Packets) : t0 = tempQueue[t]
  BY PlaceTypes
<1>5. PICK p \in Packets : p = q0[i] /\ i \in DOMAIN q0
  BY <1>3 DEF AutoPmAt
<1>6. PICK label \in {"pull", "get"} : Goto(t, label)
  BY <1>1 DEF GetHTCAutoPmSendPackets
<1>7. /\ UNCHANGED <<endpoint, TxLookupQueue, sendQueue, callersQueue, issuing, wire, hifDone, netbuf,
                     seqOf, result>>
      /\ TxQueue' = RemoveAt(q0, i) /\ tempQueue' = [tempQueue EXCEPT ![t] = Append(t0, p)]
  BY <1>1, <1>3, <1>4, <1>5 DEF GetHTCAutoPmSendPackets, pktVars, hifVars, tgtVars, cliVars
<1>8. /\ tempQueue'[t] = Append(t0, p) /\ \A u \in Threads : u # t => tempQueue'[u] = tempQueue[u]
      /\ pc'[t] = label /\ \A u \in Threads : u # t => pc'[u] = pc[u]
  <2>1. tempQueue'[t] = Append(t0, p) /\ \A u \in Threads : u # t => tempQueue'[u] = tempQueue[u]
    BY <1>6, <1>7, OtherThreads
  <2>2. pc'[t] = label /\ \A u \in Threads : u # t => pc'[u] = pc[u]
    BY <1>6, <1>7, OtherThreads
  <2> QED
    BY <2>1, <2>2
<1>9. NoRepeat(q0) /\ NoRepeat(t0)
  BY <1>3, <1>4 DEF PacketInv, PlaceInv, NoRepeats
<1>10. /\ HeldIn("queue", NoThread, p) /\ "queue" \in Names /\ "temp" \in Names /\ NoThread \in Owners
       /\ \A k \in Names, v \in Owners : HeldIn(k, v, p) => k = "queue" /\ v = NoThread
  <2>1. HeldIn("queue", NoThread, p) /\ "queue" \in Names /\ "temp" \in Names /\ NoThread \in Owners
    BY <1>3, <1>5, ThreadFacts DEF HeldIn, InQueue, Names
  <2> QED
    BY <2>1, HeldOnce DEF PacketInv, PlaceInv
<1>11. ~InQueue(t0, p)
  <2>1. InQueue(t0, p) => HeldIn("temp", t, p)
    BY <1>4 DEF HeldIn
  <2>2. "temp" # "queue"
    OBVIOUS
  <2> QED
    BY <1>2, <1>10, <2>1, <2>2
<1>12. NoRepeat(RemoveAt(q0, i)) /\ \A q : InQueue(RemoveAt(q0, i), q) <=> InQueue(q0, q) /\ q # p
  BY <1>5, <1>9, RemoveAtQueue
<1>13. NoRepeat(Append(t0, p)) /\ \A q : InQueue(Append(t0, p), q) <=> InQueue(t0, q) \/ q = p
  BY <1>9, <1>11, AppendQueue
<1>14. \A q : /\ InQueue(TxQueue', q) <=> InQueue(TxQueue, q) /\ q # p
              /\ InQueue(tempQueue'[t], q) <=> InQueue(tempQueue[t], q) \/ q = p
  <2>1. TxQueue' = RemoveAt(q0, i) /\ tempQueue'[t] = Append(t0, p)
    BY <1>7, <1>8
  <2>2. TxQueue = q0 /\ tempQueue[t] = t0
    BY <1>3, <1>4
  <2> QED
    BY <1>12, <1>13, <2>1, <2>2, Zenon
<1>15. Counted'
  <2>1. Transferred(p, "queue", NoThread, "temp", t)
    <3> SUFFICES ASSUME NEW k \in Names, NEW v \in Owners, NEW q \in Packets
                 PROVE  HeldIn(k, v, q)' <=> \/ HeldIn(k, v, q) /\ ~(q = p /\ k = "queue" /\ v = NoThread)
                                             \/ q = p /\ k = "temp" /\ v = t
      BY DEF Transferred
    <3>1. CASE k = "queue"
      BY <1>14, <3>1, ThreadFacts DEF HeldIn
    <3>2. CASE k = "temp"
      BY <1>8, <1>14, <3>2, ThreadFacts DEF HeldIn
    <3>3. pc[Completer] = "complete" <=> pc'[Completer] = "complete"
      BY <1>2, <1>6, <1>8, ThreadFacts
    <3>4. CASE k # "queue" /\ k # "temp"
      BY <1>7, <3>3, <3>4, Zenon DEF HeldIn, Compact
    <3> QED
      BY <3>1, <3>2, <3>4
  <2>2. Counted /\ UNCHANGED <<seqOf, result>>
    BY <1>7 DEF PacketInv, PlaceInv
  <2> QED
    BY <1>2, <1>10, <2>1, <2>2, TransferStep
<1>16. NoRepeats'
  <2>1. NoRepeat(TxQueue') /\ NoRepeat(tempQueue'[t])
    BY <1>7, <1>8, <1>12, <1>13, Zenon
  <2> QED
    BY <1>7, <1>8, <2>1 DEF PacketInv, PlaceInv, NoRepeats, Compact
<1>17. LocalsFree'
  BY <1>2, <1>6, <1>7, <1>8, LocalsStep DEF PacketInv, PlaceInv
<1>18. LookupOrder'
  BY <1>2, <1>6, <1>7, LookupKept DEF PacketInv, PlaceInv
<1> QED
  BY <1>15, <1>16, <1>17, <1>18 DEF PlaceInv

\* A pass takes the head of its queue into the batch.
LEMMA TakePlaces ==
    ASSUME PacketInv, NEW t \in Threads, TakePacket(t) PROVE PlaceInv'
<1>1. /\ pc[t] = "get" /\ callersQueue[t] = NoPacket /\ issuing[t] = NoPacket /\ t \in Owners
      /\ PassQueue(t) # <<>>
  BY ThreadFacts DEF TakePacket, CanTake, PacketInv, PlaceInv, LocalsFree
<1>2. PICK q0 \in Seq(Packets) : q0 = PassQueue(t)
  BY PlaceTypes DEF PassQueue
<1>3. PICK b0 \in Seq(Packets) : b0 = sendQueue[t]
  BY PlaceTypes
<1>4. PICK p \in Packets : p = Head(q0)
  BY <1>1, <1>2
<1>5. /\ UNCHANGED <<pc, endpoint, TxLookupQueue, callersQueue, issuing, wire, hifDone, netbuf, seqOf, result>>
      /\ sendQueue' = [sendQueue EXCEPT ![t] = Append(b0, p)]
  BY <1>2, <1>3, <1>4 DEF TakePacket, hifVars, tgtVars, cliVars
<1>6. sendQueue'[t] = Append(b0, p) /\ \A u \in Threads : u # t => sendQueue'[u] = sendQueue[u]
  BY <1>5, OtherThreads
<1>g. Goto(t, "get")
  BY <1>1, <1>5, PlaceTypes DEF Goto
<1>7. NoRepeat(q0) /\ NoRepeat(b0)
  BY <1>2, <1>3 DEF PacketInv, PlaceInv, NoRepeats, PassQueue
<1>8. /\ NoRepeat(Tail(q0)) /\ InQueue(q0, p)
      /\ \A q : InQueue(Tail(q0), q) <=> InQueue(q0, q) /\ q # p
  BY <1>1, <1>2, <1>4, <1>7, TailQueue
<1>9. PICK m \in {"queue", "temp"}, u \in Owners :
          /\ m = IF autoPMQueue[t] THEN "temp" ELSE "queue"
          /\ u = IF autoPMQueue[t] THEN t ELSE NoThread
  BY <1>1, ThreadFacts
<1>10. /\ HeldIn(m, u, p) /\ m \in Names /\ "batch" \in Names
       /\ \A k \in Names, v \in Owners : HeldIn(k, v, p) => k = m /\ v = u
  <2>1. HeldIn(m, u, p) /\ m \in Names /\ "batch" \in Names
    BY <1>2, <1>8, <1>9 DEF HeldIn, PassQueue, Names
  <2> QED
    BY <2>1, HeldOnce DEF PacketInv, PlaceInv
<1>11. ~InQueue(b0, p)
  <2>1. InQueue(b0, p) => HeldIn("batch", t, p)
    BY <1>3 DEF HeldIn
  <2>2. m # "batch"
    OBVIOUS
  <2> QED
    BY <1>1, <1>10, <2>1, <2>2
<1>12. NoRepeat(Append(b0, p)) /\ \A q : InQueue(Append(b0, p), q) <=> InQueue(b0, q) \/ q = p
  BY <1>7, <1>11, AppendQueue
<1>13. NoRepeat(sendQueue'[t]) /\ \A q : InQueue(sendQueue'[t], q) <=> InQueue(sendQueue[t], q) \/ q = p
  BY <1>3, <1>6, <1>12, Zenon
<1>14. LookupOrder'
  <2>1. UNCHANGED <<endpoint, TxLookupQueue, wire, hifDone, netbuf, issuing>>
    BY <1>5
  <2> QED
    BY <1>1, <1>g, <2>1, LookupKept DEF PacketInv, PlaceInv
<1>15. Counted /\ UNCHANGED <<seqOf, result>>
  BY <1>5 DEF PacketInv, PlaceInv
<1>16. CASE autoPMQueue[t] = TRUE
  <2>1. UNCHANGED TxQueue /\ tempQueue' = [tempQueue EXCEPT ![t] = Tail(q0)] /\ q0 = tempQueue[t]
        /\ m = "temp" /\ u = t
    BY <1>2, <1>9, <1>16 DEF TakePacket, PassQueue
  <2>2. tempQueue'[t] = Tail(q0) /\ \A v \in Threads : v # t => tempQueue'[v] = tempQueue[v]
    BY <2>1, OtherThreads
  <2>3. NoRepeat(tempQueue'[t]) /\ \A q : InQueue(tempQueue'[t], q) <=> InQueue(tempQueue[t], q) /\ q # p
    BY <1>8, <2>1, <2>2, Zenon
  <2>4. Transferred(p, m, u, "batch", t)
    <3> SUFFICES ASSUME NEW k \in Names, NEW v \in Owners, NEW q \in Packets
                 PROVE  HeldIn(k, v, q)' <=> \/ HeldIn(k, v, q) /\ ~(q = p /\ k = m /\ v = u)
                                             \/ q = p /\ k = "batch" /\ v = t
      BY DEF Transferred
    <3>1. CASE k = "temp"
      BY <2>1, <2>2, <2>3, <3>1, ThreadFacts DEF HeldIn
    <3>2. CASE k = "batch"
      BY <1>6, <1>13, <2>1, <3>2, ThreadFacts DEF HeldIn
    <3>3. pc[Completer] = "complete" <=> pc'[Completer] = "complete"
      BY <1>1, <1>6, <1>g, PlaceTypes, ThreadFacts DEF Goto
    <3>4. CASE k # "temp" /\ k # "batch"
      BY <1>5, <2>1, <3>3, <3>4, Zenon DEF HeldIn, Compact
    <3> QED
      BY <3>1, <3>2, <3>4
  <2>5. Counted'
    BY <1>1, <1>10, <1>15, <2>4, TransferStep
  <2>6. NoRepeats'
    BY <1>5, <1>6, <1>13, <2>1, <2>2, <2>3 DEF PacketInv, PlaceInv, NoRepeats, Compact
  <2>7. LocalsFree'
    BY <1>1, <1>5, <1>6, <1>g, <2>2, LocalsStep DEF PacketInv, PlaceInv
  <2> QED
    BY <1>14, <2>5, <2>6, <2>7 DEF PlaceInv
<1>17. CASE autoPMQueue[t] # TRUE
  <2>1. UNCHANGED tempQueue /\ TxQueue' = Tail(q0) /\ q0 = TxQueue /\ m = "queue" /\ u = NoThread
    <3>1. autoPMQueue[t] \in BOOLEAN
      BY DEF PacketInv, TypeInv, TypeOK, ThreadTypeOK
    <3> QED
      BY <1>2, <1>9, <1>17, <3>1 DEF TakePacket, PassQueue
  <2>3. NoRepeat(TxQueue') /\ \A q : InQueue(TxQueue', q) <=> InQueue(TxQueue, q) /\ q # p
    BY <1>8, <2>1, Zenon
  <2>4. Transferred(p, m, u, "batch", t)
    <3> SUFFICES ASSUME NEW k \in Names, NEW v \in Owners, NEW q \in Packets
                 PROVE  HeldIn(k, v, q)' <=> \/ HeldIn(k, v, q) /\ ~(q = p /\ k = m /\ v = u)
                                             \/ q = p /\ k = "batch" /\ v = t
      BY DEF Transferred
    <3>1. CASE k = "queue"
      BY <2>1, <2>3, <3>1, ThreadFacts DEF HeldIn
    <3>2. CASE k = "batch"
      BY <1>6, <1>13, <2>1, <3>2, ThreadFacts DEF HeldIn
    <3>3. pc[Completer] = "complete" <=> pc'[Completer] = "complete"
      BY <1>1, <1>6, <1>g, PlaceTypes, ThreadFacts DEF Goto
    <3>4. CASE k # "queue" /\ k # "batch"
      BY <1>5, <2>1, <3>3, <3>4, Zenon DEF HeldIn, Compact
    <3> QED
      BY <3>1, <3>2, <3>4
  <2>5. Counted'
    BY <1>1, <1>10, <1>15, <2>4, TransferStep
  <2>6. NoRepeats'
    BY <1>5, <1>6, <1>13, <2>1, <2>3 DEF PacketInv, PlaceInv, NoRepeats, Compact
  <2>7. LocalsFree'
    BY <1>1, <1>5, <1>6, <1>g, <2>1, LocalsStep DEF PacketInv, PlaceInv
  <2> QED
    BY <1>14, <2>5, <2>6, <2>7 DEF PlaceInv
<1> QED
  BY <1>16, <1>17

\* What a pass leaves of the AUTO_PM packets returns to the head of TxQueue.
LEMMA EndPassPlaces ==
    ASSUME PacketInv, NEW t \in Threads, EndPass(t) PROVE PlaceInv'
<1>1. PICK label \in {"return", "issue"} : Goto(t, label) /\ (label = "return" => sendQueue[t] = <<>>)
  BY DEF EndPass
<1>2. pc[t] = "get" /\ callersQueue[t] = NoPacket /\ issuing[t] = NoPacket /\ t \in Owners
  BY ThreadFacts DEF EndPass, PacketInv, PlaceInv, LocalsFree
<1>3. /\ UNCHANGED <<endpoint, TxLookupQueue, sendQueue, callersQueue, issuing, wire, hifDone, netbuf,
                     seqOf, result>>
      /\ TxQueue' = tempQueue[t] \o TxQueue /\ tempQueue' = [tempQueue EXCEPT ![t] = <<>>]
  BY DEF EndPass, pktVars, hifVars, tgtVars, cliVars
<1>4. /\ tempQueue'[t] = <<>> /\ \A u \in Threads : u # t => tempQueue'[u] = tempQueue[u]
      /\ pc'[t] = label /\ \A u \in Threads : u # t => pc'[u] = pc[u]
  <2>1. tempQueue'[t] = <<>> /\ \A u \in Threads : u # t => tempQueue'[u] = tempQueue[u]
    BY <1>1, <1>3, OtherThreads
  <2>2. pc'[t] = label /\ \A u \in Threads : u # t => pc'[u] = pc[u]
    BY <1>1, <1>3, OtherThreads
  <2> QED
    BY <2>1, <2>2
<1>5. PICK r \in Seq(Packets) : r = tempQueue[t]
  BY PlaceTypes
<1>6. TxQueue \in Seq(Packets) /\ NoRepeat(TxQueue) /\ NoRepeat(r)
  BY <1>5, PlaceTypes DEF PacketInv, PlaceInv, NoRepeats
<1>7. \A p \in Packets : ~(InQueue(r, p) /\ InQueue(TxQueue, p))
  <2> SUFFICES ASSUME NEW p \in Packets, InQueue(TxQueue, p), InQueue(r, p) PROVE FALSE
    OBVIOUS
  <2>1. /\ HeldIn("queue", NoThread, p) /\ HeldIn("temp", t, p)
        /\ "queue" \in Names /\ "temp" \in Names /\ NoThread \in Owners
    BY <1>5, ThreadFacts DEF HeldIn, Names
  <2>2. "queue" = "temp"
    BY <1>2, <2>1, HeldOnce DEF PacketInv, PlaceInv
  <2> QED
    BY <2>2
<1>8. (\A p : InQueue(r \o TxQueue, p) <=> InQueue(r, p) \/ InQueue(TxQueue, p)) /\ NoRepeat(r \o TxQueue)
  BY <1>6, <1>7, ConcatQueue
<1>9. TxQueue' = r \o TxQueue
  BY <1>3, <1>5
<1>10. \A q : (InQueue(TxQueue', q) <=> InQueue(TxQueue, q) \/ InQueue(r, q)) /\ ~InQueue(tempQueue'[t], q)
  <2>1. \A q : InQueue(TxQueue', q) <=> InQueue(TxQueue, q) \/ InQueue(r, q)
    BY <1>8, <1>9, Zenon
  <2>2. \A q : ~InQueue(tempQueue'[t], q)
    BY <1>4 DEF InQueue
  <2> QED
    BY <2>1, <2>2
<1>11. \A k \in Names, v \in Owners, q \in Packets :
           HeldIn(k, v, q)' <=> \/ HeldIn(k, v, q) /\ ~(k = "temp" /\ v = t)
                                \/ InQueue(r, q) /\ k = "queue" /\ v = NoThread
  BY <1>1, <1>2, <1>3, <1>4, <1>10, ThreadFacts DEF HeldIn, Compact
<1>12. Counted'
  <2>1. Counted /\ "temp" \in Names
    BY DEF PacketInv, PlaceInv, Names
  <2>2. \A k \in Names, v \in Owners, q \in Packets :
            HeldIn(k, v, q)' <=> \/ HeldIn(k, v, q) /\ ~(k = "temp" /\ v = t)
                                 \/ HeldIn("temp", t, q) /\ k = "queue" /\ v = NoThread
    <3>1. \A q \in Packets : InQueue(r, q) <=> HeldIn("temp", t, q)
      BY <1>5 DEF HeldIn
    <3> QED
      BY <1>11, <3>1
  <2>3. UNCHANGED <<seqOf, result>>
    BY <1>3
  <2>4. t \in Owners
    BY <1>2
  <2> QED
    BY <2>1, <2>2, <2>3, <2>4, QueuedStep
<1>13. NoRepeats'
  <2>1. NoRepeat(TxQueue')
    BY <1>8, <1>9, Zenon
  <2>2. NoRepeat(tempQueue'[t])
    BY <1>4 DEF NoRepeat
  <2> QED
    BY <1>3, <1>4, <2>1, <2>2 DEF PacketInv, PlaceInv, NoRepeats, Compact
<1>14. LocalsFree'
  BY <1>1, <1>2, <1>3, <1>4, LocalsStep DEF PacketInv, PlaceInv, LocalsFree
<1>15. LookupOrder'
  BY <1>1, <1>2, <1>3, LookupKept DEF PacketInv, PlaceInv
<1> QED
  BY <1>12, <1>13, <1>14, <1>15 DEF PlaceInv

\* The counters that the order of TxLookupQueue is stated with.
LEMMA OrderTypes ==
    ASSUME PacketInv
    PROVE  /\ Looked \in 0..1 /\ OnWire \in Nat /\ hifDone \in Nat /\ Len(wire) \in Nat
           /\ Len(TxLookupQueue) \in Nat /\ DOMAIN TxLookupQueue = 1..Len(TxLookupQueue)
           /\ hifDone <= Len(wire) /\ OnWire = Len(wire) - hifDone
<1>1. hifDone \in Nat /\ Len(wire) \in Nat /\ hifDone <= Len(wire)
  BY PlaceTypes DEF PacketInv, PlaceInv, LookupOrder
<1>2. Len(TxLookupQueue) \in Nat /\ DOMAIN TxLookupQueue = 1..Len(TxLookupQueue)
  BY PlaceTypes
<1>3. Looked \in 0..1 /\ OnWire \in Nat
  BY <1>1 DEF Looked, OnWire
<1> QED
  BY <1>1, <1>2, <1>3 DEF OnWire

\* Only one thread hands a packet to HIF at a time.
LEMMA OneIssuer ==
    ASSUME PacketInv, NEW t \in Threads, pc[t] \in DrainLabels
    PROVE  \A u \in Threads : u # t => pc[u] # "hifSend"
<1>1. "hifSend" \in DrainLabels
  BY DEF DrainLabels
<1> QED
  BY <1>1 DEF PacketInv, DrainInv, SingleDrainer

\* A packet that HTCIssuePackets starts with becomes the last of TxLookupQueue.
LEMMA LookupStarted ==
    ASSUME PacketInv, NEW t \in Threads, NEW p \in Packets, pc[t] = "issue", Goto(t, "hifSend"),
           issuing' = [issuing EXCEPT ![t] = p], UNCHANGED <<endpoint, wire, hifDone, netbuf>>,
           ~Compact => TxLookupQueue' = Append(TxLookupQueue, p)
    PROVE  LookupOrder'
<1>1. /\ issuing'[t] = p /\ pc'[t] = "hifSend" /\ \A u \in Threads : u # t => pc'[u] = pc[u]
      /\ \A u \in Threads : pc[u] # "hifSend"
  <2>1. "issue" \in DrainLabels
    BY DEF DrainLabels
  <2>2. \A u \in Threads : pc[u] # "hifSend"
    BY <2>1, OneIssuer
  <2>3. issuing'[t] = p
    BY PlaceTypes
  <2> QED
    BY <2>2, <2>3, OtherThreads
<1>2. /\ Looked' = Looked /\ OnWire' = OnWire /\ (Compact' <=> Compact)
      /\ (pc'[Completer] = "lookup" <=> pc[Completer] = "lookup")
      /\ (pc'[Completer] \in {"lookup", "complete", "notFound"} =>
            pc[Completer] \in {"lookup", "complete", "notFound"})
  BY <1>1, ThreadFacts DEF Looked, OnWire, Compact
<1>3. LookupOrder
  BY DEF PacketInv, PlaceInv
<1>4. CASE Compact
  BY <1>2, <1>3, <1>4 DEF LookupOrder
<1>5. CASE ~Compact
  <2>1. PICK q0 \in Seq(Packets) : q0 = TxLookupQueue
    BY PlaceTypes
  <2>2. /\ TxLookupQueue' = Append(q0, p) /\ Len(TxLookupQueue') = Len(q0) + 1 /\ Len(q0) \in Nat
        /\ \A i \in 1..Len(q0) : TxLookupQueue'[i] = q0[i]
        /\ TxLookupQueue'[Len(q0) + 1] = p /\ TxLookupQueue' # <<>>
    BY <1>5, <2>1, AppendProperties
  <2>3. Len(q0) = Looked + OnWire
    BY <1>1, <1>3, <1>5, <2>1, OrderTypes DEF LookupOrder
  <2>4. pc'[Completer] = "lookup" => TxLookupQueue' # <<>> /\ TxLookupQueue'[1] = netbuf'
    <3> SUFFICES ASSUME pc[Completer] = "lookup" PROVE TxLookupQueue'[1] = netbuf
      BY <1>2, <2>2
    <3>1. 1 \in 1..Len(q0)
      BY <2>2, <2>3, OrderTypes DEF Looked
    <3>2. q0[1] = netbuf
      BY <1>3, <1>5, <2>1 DEF LookupOrder
    <3> QED
      BY <2>2, <3>1, <3>2
  <2>5. \A i \in 1..OnWire : TxLookupQueue'[Looked + i] = wire[hifDone + i]
    <3> SUFFICES ASSUME NEW i \in 1..OnWire PROVE TxLookupQueue'[Looked + i] = wire[hifDone + i]
      OBVIOUS
    <3>1. Looked + i \in 1..Len(q0)
      BY <2>2, <2>3, OrderTypes
    <3>2. q0[Looked + i] = wire[hifDone + i]
      BY <1>3, <1>5, <2>1 DEF LookupOrder
    <3> QED
      BY <2>2, <3>1, <3>2
  <2>6. \A u \in Threads : pc'[u] = "hifSend" => TxLookupQueue'[Looked + OnWire + 1] = issuing'[u]
    BY <1>1, <2>2, <2>3
  <2>7. Len(TxLookupQueue') = Looked + OnWire + (IF \E u \in Threads : pc'[u] = "hifSend" THEN 1 ELSE 0)
    BY <1>1, <2>2, <2>3, OrderTypes
  <2> QED
    BY <1>2, <1>3, <1>5, <2>4, <2>5, <2>6, <2>7 DEF LookupOrder
<1> QED
  BY <1>4, <1>5

\* HTCIssuePackets takes the head of the batch.
LEMMA StartIssuePlaces ==
    ASSUME PacketInv, NEW t \in Threads, StartIssue(t) PROVE PlaceInv'
<1>1. /\ pc[t] = "issue" /\ sendQueue[t] # <<>> /\ tempQueue[t] = <<>> /\ callersQueue[t] = NoPacket
      /\ issuing[t] = NoPacket /\ t \in Owners
  BY ThreadFacts DEF StartIssue, PacketInv, PlaceInv, LocalsFree
<1>2. PICK b0 \in Seq(Packets) : b0 = sendQueue[t]
  BY PlaceTypes
<1>3. PICK p \in Packets : p = Head(b0)
  BY <1>1, <1>2
<1>4. /\ UNCHANGED <<endpoint, TxQueue, tempQueue, callersQueue, wire, hifDone, netbuf, seqOf, result>>
      /\ sendQueue' = [sendQueue EXCEPT ![t] = Tail(b0)] /\ issuing' = [issuing EXCEPT ![t] = p]
      /\ TxLookupQueue' = IF Compact THEN TxLookupQueue ELSE Append(TxLookupQueue, p)
      /\ Goto(t, "hifSend")
  BY <1>2, <1>3 DEF StartIssue, pktVars, hifVars, tgtVars, cliVars
<1>5. /\ sendQueue'[t] = Tail(b0) /\ \A u \in Threads : u # t => sendQueue'[u] = sendQueue[u]
      /\ issuing'[t] = p /\ \A u \in Threads : u # t => issuing'[u] = issuing[u]
      /\ pc'[t] = "hifSend" /\ \A u \in Threads : u # t => pc'[u] = pc[u]
  <2>1. sendQueue'[t] = Tail(b0) /\ \A u \in Threads : u # t => sendQueue'[u] = sendQueue[u]
    BY <1>4, OtherThreads
  <2>2. issuing'[t] = p /\ \A u \in Threads : u # t => issuing'[u] = issuing[u]
    BY <1>4, OtherThreads
  <2>3. pc'[t] = "hifSend" /\ \A u \in Threads : u # t => pc'[u] = pc[u]
    BY <1>4, OtherThreads
  <2> QED
    BY <2>1, <2>2, <2>3
<1>6. NoRepeat(b0)
  BY <1>2 DEF PacketInv, PlaceInv, NoRepeats
<1>7. /\ NoRepeat(Tail(b0)) /\ InQueue(b0, p)
      /\ \A q : InQueue(Tail(b0), q) <=> InQueue(b0, q) /\ q # p
  BY <1>1, <1>2, <1>3, <1>6, TailQueue
<1>8. NoRepeat(sendQueue'[t]) /\ \A q : InQueue(sendQueue'[t], q) <=> InQueue(sendQueue[t], q) /\ q # p
  BY <1>2, <1>5, <1>7, Zenon
<1>9. /\ HeldIn("batch", t, p) /\ NoThread \in Owners
      /\ "batch" \in Names /\ "issuing" \in Names /\ "lookup" \in Names
  BY <1>2, <1>7, ThreadFacts DEF HeldIn, Names
<1>10. Counted /\ UNCHANGED <<seqOf, result>>
  BY <1>4 DEF PacketInv, PlaceInv
<1>11. \A k \in Names, v \in Owners : HeldIn(k, v, p) => k = "batch" /\ v = t
  BY <1>1, <1>9, <1>10, HeldOnce
<1>12. LookupOrder'
  BY <1>1, <1>4, LookupStarted
<1>13. LocalsFree'
  BY <1>1, <1>4, <1>5, LocalsStep DEF PacketInv, PlaceInv
<1>14. CASE Compact
  <2>1. Transferred(p, "batch", t, "issuing", t)
    BY <1>1, <1>4, <1>5, <1>8, <1>14, ThreadFacts DEF Transferred, HeldIn, Compact
  <2>2. Counted'
    <3>1. t \in Owners /\ t \in Owners /\ "batch" \in Names /\ "issuing" \in Names
      BY <1>1, <1>9
    <3>2. HeldIn("batch", t, p)
      BY <1>9
    <3> QED
      BY <1>10, <2>1, <3>1, <3>2, TransferStep
  <2>3. NoRepeats'
    BY <1>4, <1>5, <1>8, <1>14 DEF PacketInv, PlaceInv, NoRepeats, Compact
  <2> QED
    BY <1>12, <1>13, <2>2, <2>3 DEF PlaceInv
<1>15. CASE ~Compact
  <2>1. PICK q0 \in Seq(Packets) : q0 = TxLookupQueue
    BY PlaceTypes
  <2>2. NoRepeat(q0)
    BY <1>15, <2>1 DEF PacketInv, PlaceInv, NoRepeats
  <2>3. ~InQueue(q0, p)
    <3>1. InQueue(q0, p) => HeldIn("lookup", NoThread, p)
      BY <1>15, <2>1 DEF HeldIn
    <3>2. "lookup" # "batch"
      OBVIOUS
    <3> QED
      BY <1>9, <1>11, <3>1, <3>2
  <2>4. NoRepeat(Append(q0, p)) /\ \A q : InQueue(Append(q0, p), q) <=> InQueue(q0, q) \/ q = p
    BY <2>2, <2>3, AppendQueue
  <2>5. TxLookupQueue' = Append(q0, p)
    BY <1>4, <1>15, <2>1
  <2>6. /\ NoRepeat(TxLookupQueue')
        /\ \A q : InQueue(TxLookupQueue', q) <=> InQueue(TxLookupQueue, q) \/ q = p
    BY <2>1, <2>4, <2>5, Zenon
  <2>7. Transferred(p, "batch", t, "lookup", NoThread)
    BY <1>1, <1>4, <1>5, <1>8, <1>15, <2>6, ThreadFacts DEF Transferred, HeldIn, Compact
  <2>8. Counted'
    <3>1. t \in Owners /\ NoThread \in Owners /\ "batch" \in Names /\ "lookup" \in Names
      BY <1>1, <1>9
    <3>2. HeldIn("batch", t, p)
      BY <1>9
    <3> QED
      BY <1>10, <2>7, <3>1, <3>2, TransferStep
  <2>9. NoRepeats'
    BY <1>4, <1>5, <1>8, <1>15, <2>6 DEF PacketInv, PlaceInv, NoRepeats, Compact
  <2> QED
    BY <1>12, <1>13, <2>8, <2>9 DEF PlaceInv
<1> QED
  BY <1>14, <1>15

\* A packet that HIF has taken is the last transfer of the copy engine.
LEMMA LookupSent ==
    ASSUME PacketInv, NEW t \in Threads, NEW p \in Packets, pc[t] = "hifSend", Goto(t, "issue"),
           issuing[t] = p, wire' = Append(wire, p), UNCHANGED <<endpoint, TxLookupQueue, hifDone, netbuf>>
    PROVE  LookupOrder'
<1>1. /\ pc'[t] = "issue" /\ (\A u \in Threads : u # t => pc'[u] = pc[u])
      /\ \A u \in Threads : pc'[u] # "hifSend"
  BY OtherThreads, OneIssuer DEF DrainLabels
<1>2. PICK w0 \in Seq(Packets) : w0 = wire
  BY PlaceTypes
<1>3. /\ Len(wire') = Len(w0) + 1 /\ Len(w0) \in Nat /\ hifDone \in Nat /\ hifDone <= Len(w0)
      /\ \A i \in 1..Len(w0) : wire'[i] = w0[i]
      /\ wire'[Len(w0) + 1] = p
  BY <1>2, AppendProperties, OrderTypes
<1>4. /\ Looked' = Looked /\ OnWire' = OnWire + 1 /\ (Compact' <=> Compact) /\ hifDone <= Len(wire')
      /\ (pc'[Completer] = "lookup" <=> pc[Completer] = "lookup")
      /\ (pc'[Completer] \in {"lookup", "complete", "notFound"} =>
            pc[Completer] \in {"lookup", "complete", "notFound"})
  BY <1>1, <1>2, <1>3, ThreadFacts DEF Looked, OnWire, Compact
<1>5. LookupOrder
  BY DEF PacketInv, PlaceInv
<1>6. CASE Compact
  BY <1>4, <1>5, <1>6 DEF LookupOrder
<1>7. CASE ~Compact
  <2>1. TxLookupQueue[Looked + OnWire + 1] = p /\ Len(TxLookupQueue) = Looked + OnWire + 1
    BY <1>5, <1>7 DEF LookupOrder
  <2>2. \A i \in 1..OnWire + 1 : TxLookupQueue[Looked + i] = wire'[hifDone + i]
    <3> SUFFICES ASSUME NEW i \in 1..OnWire + 1 PROVE TxLookupQueue[Looked + i] = wire'[hifDone + i]
      OBVIOUS
    <3>1. CASE i \in 1..OnWire
      <4>1. TxLookupQueue[Looked + i] = w0[hifDone + i]
        BY <1>2, <1>5, <1>7, <3>1 DEF LookupOrder
      <4>2. hifDone + i \in 1..Len(w0)
        BY <1>2, <1>3, <3>1, OrderTypes
      <4> QED
        BY <1>3, <4>1, <4>2
    <3>2. CASE i = OnWire + 1
      <4>1. hifDone + i = Len(w0) + 1 /\ Looked + i = Looked + OnWire + 1
        BY <1>2, <1>3, <3>2, OrderTypes
      <4> QED
        BY <1>3, <2>1, <4>1
    <3> QED
      BY <3>1, <3>2, OrderTypes
  <2>3. Len(TxLookupQueue) = Looked + (OnWire + 1) + 0
    BY <2>1, OrderTypes
  <2> QED
    BY <1>1, <1>4, <1>5, <1>7, <2>2, <2>3 DEF LookupOrder
<1> QED
  BY <1>6, <1>7

\* HIFSend_head takes the packet.
LEMMA HIFSendPlaces ==
    ASSUME PacketInv, NEW t \in Threads, HIFSend(t) PROVE PlaceInv'
<1>1. /\ pc[t] = "hifSend" /\ tempQueue[t] = <<>> /\ callersQueue[t] = NoPacket /\ t \in Owners
      /\ issuing[t] \in Packets
  BY ThreadFacts DEF HIFSend, PacketInv, PlaceInv, LocalsFree, TypeInv, PacketInHand
<1>2. PICK p \in Packets : p = issuing[t]
  BY <1>1
<1>3. /\ UNCHANGED <<endpoint, TxQueue, TxLookupQueue, sendQueue, tempQueue, callersQueue, hifDone, netbuf,
                     seqOf, result>>
      /\ wire' = Append(wire, p) /\ issuing' = [issuing EXCEPT ![t] = NoPacket] /\ Goto(t, "issue")
  BY <1>2 DEF HIFSend, epVars, pktVars, tgtVars, cliVars
<1>4. /\ issuing'[t] = NoPacket /\ \A u \in Threads : u # t => issuing'[u] = issuing[u]
      /\ pc'[t] = "issue" /\ \A u \in Threads : u # t => pc'[u] = pc[u]
  <2>1. issuing'[t] = NoPacket /\ \A u \in Threads : u # t => issuing'[u] = issuing[u]
    BY <1>3, OtherThreads
  <2>2. pc'[t] = "issue" /\ \A u \in Threads : u # t => pc'[u] = pc[u]
    BY <1>3, OtherThreads
  <2> QED
    BY <2>1, <2>2
<1>5. LookupOrder'
  BY <1>1, <1>2, <1>3, LookupSent
<1>6. LocalsFree'
  BY <1>1, <1>3, <1>4, LocalsStep DEF PacketInv, PlaceInv
<1>7. Counted /\ UNCHANGED <<seqOf, result>>
  BY <1>3 DEF PacketInv, PlaceInv
<1>8. CASE Compact
  <2>1. PICK w0 \in Seq(Packets) : w0 = wire
    BY PlaceTypes
  <2>2. HeldIn("issuing", t, p) /\ "issuing" \in Names /\ "wire" \in Names /\ NoThread \in Owners
    BY <1>2, <1>8, ThreadFacts DEF HeldIn, Names
  <2>3. \A k \in Names, v \in Owners : HeldIn(k, v, p) => k = "issuing" /\ v = t
    BY <1>1, <1>7, <2>2, HeldOnce
  <2>4. NoRepeat(w0) /\ ~InQueue(w0, p)
    <3>1. InQueue(w0, p) => HeldIn("wire", NoThread, p)
      BY <1>8, <2>1 DEF HeldIn
    <3>2. "wire" # "issuing"
      OBVIOUS
    <3>3. NoRepeat(w0)
      BY <1>8, <2>1 DEF PacketInv, PlaceInv, NoRepeats
    <3> QED
      BY <2>2, <2>3, <3>1, <3>2, <3>3
  <2>5. NoRepeat(Append(w0, p)) /\ \A q : InQueue(Append(w0, p), q) <=> InQueue(w0, q) \/ q = p
    BY <2>4, AppendQueue
  <2>6. wire' = Append(w0, p)
    BY <1>3, <2>1
  <2>7. NoRepeat(wire') /\ \A q : InQueue(wire', q) <=> InQueue(wire, q) \/ q = p
    BY <2>1, <2>5, <2>6, Zenon
  <2>8. Transferred(p, "issuing", t, "wire", NoThread)
    BY <1>1, <1>2, <1>3, <1>4, <1>8, <2>7, ThreadFacts DEF Transferred, HeldIn, Compact
  <2>9. Counted'
    BY <1>1, <1>7, <2>2, <2>8, TransferStep
  <2>10. NoRepeats'
    BY <1>3, <1>8, <2>7 DEF PacketInv, PlaceInv, NoRepeats, Compact
  <2> QED
    BY <1>5, <1>6, <2>9, <2>10 DEF PlaceInv
<1>9. CASE ~Compact
  <2>1. \A k, v, q : HeldIn(k, v, q)' <=> HeldIn(k, v, q)
    BY <1>1, <1>3, <1>4, <1>9, ThreadFacts DEF HeldIn, Compact
  <2>2. Counted'
    BY <1>7, <2>1 DEF Counted, Awaited
  <2>3. NoRepeats'
    BY <1>3, <1>9 DEF PacketInv, PlaceInv, NoRepeats, Compact
  <2> QED
    BY <1>5, <1>6, <2>2, <2>3 DEF PlaceInv
<1> QED
  BY <1>8, <1>9

\* HIFSend_head refuses: HTC_PACKET_REMOVE takes the last packet out of TxLookupQueue again.
LEMMA LookupRefused ==
    ASSUME PacketInv, NEW t \in Threads, NEW p \in Packets, pc[t] = "hifSend", Goto(t, "failBatch"),
           issuing[t] = p, TxLookupQueue' = Without(TxLookupQueue, p),
           UNCHANGED <<endpoint, wire, hifDone, netbuf>>
    PROVE  LookupOrder'
<1>1. /\ pc'[t] = "failBatch" /\ (\A u \in Threads : u # t => pc'[u] = pc[u])
      /\ \A u \in Threads : pc'[u] # "hifSend"
  BY OtherThreads, OneIssuer DEF DrainLabels
<1>2. /\ Looked' = Looked /\ OnWire' = OnWire /\ (Compact' <=> Compact)
      /\ (pc'[Completer] = "lookup" <=> pc[Completer] = "lookup")
      /\ (pc'[Completer] \in {"lookup", "complete", "notFound"} =>
            pc[Completer] \in {"lookup", "complete", "notFound"})
  BY <1>1, ThreadFacts DEF Looked, OnWire, Compact
<1>3. LookupOrder
  BY DEF PacketInv, PlaceInv
<1>4. CASE Compact
  BY <1>2, <1>3, <1>4 DEF LookupOrder
<1>5. CASE ~Compact
  <2>1. PICK q0 \in Seq(Packets) : q0 = TxLookupQueue
    BY PlaceTypes
  <2>2. /\ NoRepeat(q0) /\ Len(q0) \in Nat /\ Len(q0) \in DOMAIN q0 /\ q0[Len(q0)] = p
        /\ Len(q0) = Looked + OnWire + 1
    <3>1. Len(q0) = Looked + OnWire + 1 /\ q0[Looked + OnWire + 1] = p
      BY <1>3, <1>5, <2>1 DEF LookupOrder
    <3>2. NoRepeat(q0)
      BY <1>5, <2>1 DEF PacketInv, PlaceInv, NoRepeats
    <3> QED
      BY <2>1, <3>1, <3>2, OrderTypes
  <2>3. TxLookupQueue' = RemoveAt(q0, Len(q0))
    <3>1. Without(q0, p) = RemoveAt(q0, Len(q0))
      BY <2>2, WithoutQueue
    <3> QED
      BY <2>1, <3>1
  <2>4. /\ Len(TxLookupQueue') = Len(q0) - 1 /\ TxLookupQueue' \in Seq(Packets)
        /\ \A k \in 1..Len(q0) - 1 : TxLookupQueue'[k] = q0[k]
    <3>1. /\ RemoveAt(q0, Len(q0)) \in Seq(Packets) /\ Len(RemoveAt(q0, Len(q0))) = Len(q0) - 1
          /\ \A k \in 1..Len(q0) - 1 :
                 RemoveAt(q0, Len(q0))[k] = IF k < Len(q0) THEN q0[k] ELSE q0[k + 1]
      BY <2>2, RemoveAtElements
    <3>2. \A k \in 1..Len(q0) - 1 : k < Len(q0)
      BY <2>2
    <3> QED
      BY <2>3, <3>1, <3>2
  <2>5. pc'[Completer] = "lookup" => TxLookupQueue' # <<>> /\ TxLookupQueue'[1] = netbuf'
    <3> SUFFICES ASSUME pc[Completer] = "lookup" PROVE TxLookupQueue' # <<>> /\ TxLookupQueue'[1] = netbuf
      BY <1>2
    <3>1. 1 \in 1..Len(q0) - 1
      BY <2>2, OrderTypes DEF Looked
    <3>2. q0[1] = netbuf
      BY <1>3, <1>5, <2>1 DEF LookupOrder
    <3> QED
      BY <2>2, <2>4, <3>1, <3>2
  <2>6. \A i \in 1..OnWire : TxLookupQueue'[Looked + i] = wire[hifDone + i]
    <3> SUFFICES ASSUME NEW i \in 1..OnWire PROVE TxLookupQueue'[Looked + i] = wire[hifDone + i]
      OBVIOUS
    <3>1. Looked + i \in 1..Len(q0) - 1
      BY <2>2, OrderTypes
    <3>2. q0[Looked + i] = wire[hifDone + i]
      BY <1>3, <1>5, <2>1 DEF LookupOrder
    <3> QED
      BY <2>4, <3>1, <3>2
  <2>7. Len(TxLookupQueue') = Looked + OnWire + 0
    BY <2>2, <2>4, OrderTypes
  <2> QED
    BY <1>1, <1>2, <1>3, <1>5, <2>5, <2>6, <2>7 DEF LookupOrder
<1> QED
  BY <1>4, <1>5

\* The refused packet goes back to the head of the batch.
LEMMA HIFSendFailedPlaces ==
    ASSUME PacketInv, NEW t \in Threads, HIFSendFailed(t) PROVE PlaceInv'
<1>1. /\ pc[t] = "hifSend" /\ tempQueue[t] = <<>> /\ callersQueue[t] = NoPacket /\ t \in Owners
      /\ issuing[t] \in Packets
  BY ThreadFacts DEF HIFSendFailed, PacketInv, PlaceInv, LocalsFree, TypeInv, PacketInHand
<1>2. PICK p \in Packets : p = issuing[t]
  BY <1>1
<1>3. PICK b0 \in Seq(Packets) : b0 = sendQueue[t]
  BY PlaceTypes
<1>r. PICK r \in Seq(Packets) : r = <<p>>
  <2>1. <<p>> \in Seq(Packets)
    OBVIOUS
  <2> QED
    BY <2>1
<1>4. /\ UNCHANGED <<endpoint, TxQueue, tempQueue, callersQueue, wire, hifDone, netbuf, seqOf, result>>
      /\ TxLookupQueue' = Without(TxLookupQueue, p) /\ sendQueue' = [sendQueue EXCEPT ![t] = r \o b0]
      /\ issuing' = [issuing EXCEPT ![t] = NoPacket] /\ Goto(t, "failBatch")
  BY <1>2, <1>3, <1>r DEF HIFSendFailed, pktVars, hifVars, tgtVars, cliVars
<1>5. /\ issuing'[t] = NoPacket /\ \A u \in Threads : u # t => issuing'[u] = issuing[u]
      /\ sendQueue'[t] = r \o b0 /\ \A u \in Threads : u # t => sendQueue'[u] = sendQueue[u]
      /\ pc'[t] = "failBatch" /\ \A u \in Threads : u # t => pc'[u] = pc[u]
  <2>1. issuing'[t] = NoPacket /\ \A u \in Threads : u # t => issuing'[u] = issuing[u]
    BY <1>4, OtherThreads
  <2>2. sendQueue'[t] = r \o b0 /\ \A u \in Threads : u # t => sendQueue'[u] = sendQueue[u]
    BY <1>4, OtherThreads
  <2>3. pc'[t] = "failBatch" /\ \A u \in Threads : u # t => pc'[u] = pc[u]
    BY <1>4, OtherThreads
  <2> QED
    BY <2>1, <2>2, <2>3
<1>6. LookupOrder'
  BY <1>1, <1>2, <1>4, LookupRefused
<1>7. LocalsFree'
  BY <1>1, <1>4, <1>5, LocalsStep DEF PacketInv, PlaceInv
<1>8. Counted /\ UNCHANGED <<seqOf, result>>
  BY <1>4 DEF PacketInv, PlaceInv
<1>9. PICK m \in {"issuing", "lookup"}, w \in Owners :
          /\ m = IF Compact THEN "issuing" ELSE "lookup"
          /\ w = IF Compact THEN t ELSE NoThread
  BY <1>1, ThreadFacts
<1>10. HeldIn(m, w, p) /\ m \in Names /\ "batch" \in Names
  <2>1. CASE Compact
    BY <1>2, <1>9, <2>1 DEF HeldIn, Names
  <2>2. CASE ~Compact
    <3>1. Len(TxLookupQueue) = Looked + OnWire + 1 /\ TxLookupQueue[Looked + OnWire + 1] = p
      BY <1>1, <1>2, <2>2 DEF PacketInv, PlaceInv, LookupOrder
    <3>2. Looked + OnWire + 1 \in DOMAIN TxLookupQueue
      BY <3>1, OrderTypes
    <3>3. InQueue(TxLookupQueue, p)
      BY <3>1, <3>2 DEF InQueue
    <3> QED
      BY <1>9, <2>2, <3>3 DEF HeldIn, Names
  <2> QED
    BY <2>1, <2>2
<1>11. ~InQueue(b0, p)
  <2>1. \A k \in Names, v \in Owners : HeldIn(k, v, p) => k = m /\ v = w
    BY <1>8, <1>10, HeldOnce
  <2>2. InQueue(b0, p) => HeldIn("batch", t, p)
    BY <1>3 DEF HeldIn
  <2>3. m # "batch"
    OBVIOUS
  <2> QED
    BY <1>1, <1>10, <2>1, <2>2, <2>3
<1>12. NoRepeat(r \o b0) /\ \A q : InQueue(r \o b0, q) <=> q = p \/ InQueue(b0, q)
  <2>1. NoRepeat(r) /\ \A q : InQueue(r, q) <=> q = p
    BY <1>r, SingleQueue
  <2>2. NoRepeat(b0)
    BY <1>3 DEF PacketInv, PlaceInv, NoRepeats
  <2>3. \A q \in Packets : ~(InQueue(r, q) /\ InQueue(b0, q))
    BY <1>11, <2>1
  <2>4. NoRepeat(r \o b0) /\ \A q : InQueue(r \o b0, q) <=> InQueue(r, q) \/ InQueue(b0, q)
    BY <2>1, <2>2, <2>3, ConcatQueue
  <2> QED
    BY <2>1, <2>4
<1>13. NoRepeat(sendQueue'[t]) /\ \A q : InQueue(sendQueue'[t], q) <=> q = p \/ InQueue(sendQueue[t], q)
  BY <1>3, <1>5, <1>12, Zenon
<1>14. /\ ~Compact => /\ NoRepeat(TxLookupQueue')
                      /\ \A q : InQueue(TxLookupQueue', q) <=> InQueue(TxLookupQueue, q) /\ q # p
  <2> SUFFICES ASSUME ~Compact
               PROVE  /\ NoRepeat(TxLookupQueue')
                      /\ \A q : InQueue(TxLookupQueue', q) <=> InQueue(TxLookupQueue, q) /\ q # p
    OBVIOUS
  <2>1. PICK q0 \in Seq(Packets) : q0 = TxLookupQueue
    BY PlaceTypes
  <2>2. NoRepeat(q0)
    BY <2>1 DEF PacketInv, PlaceInv, NoRepeats
  <2>3. NoRepeat(Without(q0, p)) /\ \A q : InQueue(Without(q0, p), q) <=> InQueue(q0, q) /\ q # p
    BY <2>2, WithoutQueue
  <2>4. TxLookupQueue' = Without(q0, p)
    BY <1>4, <2>1
  <2> QED
    BY <2>1, <2>3, <2>4, Zenon
<1>15. Transferred(p, m, w, "batch", t)
  <2>n. \A q \in Packets : issuing'[t] # q /\ (issuing[t] = q <=> q = p)
    BY <1>2, <1>5, ThreadFacts
  <2>1. CASE Compact
    BY <1>1, <1>4, <1>5, <1>9, <1>13, <2>1, <2>n, ThreadFacts DEF Transferred, HeldIn, Compact
  <2>2. CASE ~Compact
    BY <1>1, <1>4, <1>5, <1>9, <1>13, <1>14, <2>2, ThreadFacts DEF Transferred, HeldIn, Compact
  <2> QED
    BY <2>1, <2>2
<1>16. Counted'
  <2>1. t \in Owners /\ w \in Owners /\ m \in Names /\ "batch" \in Names
    BY <1>1, <1>10
  <2>2. HeldIn(m, w, p) /\ Counted /\ UNCHANGED <<seqOf, result>>
    BY <1>8, <1>10
  <2> QED
    BY <1>15, <2>1, <2>2, TransferStep
<1>17. NoRepeats'
  BY <1>4, <1>5, <1>13, <1>14 DEF PacketInv, PlaceInv, NoRepeats, Compact
<1> QED
  BY <1>6, <1>7, <1>16, <1>17 DEF PlaceInv

\* SendPacketCompletion tells the client of an awaited packet a status, and of no other one.
LEMMA CompletionTells ==
    ASSUME PacketInv, NEW P, NEW status, status # "none", SendPacketCompletion(P, status)
    PROVE  /\ \A q \in Packets \cap P : result'[q] # "none"
           /\ \A q \in Packets \ P : result'[q] = result[q]
<1>1. \A q \in Packets : result'[q] = IF q \notin P THEN result[q]
                                      ELSE IF result[q] = "none" THEN status ELSE "twice"
  BY DEF SendPacketCompletion
<1> QED
  BY <1>1

\* A packet of a failed batch is completed with the error.
LEMMA FailPacketPlaces ==
    ASSUME PacketInv, NEW t \in Threads, FailPacket(t) PROVE PlaceInv'
<1>1. /\ pc[t] = "failBatch" /\ sendQueue[t] # <<>> /\ tempQueue[t] = <<>> /\ callersQueue[t] = NoPacket
      /\ issuing[t] = NoPacket /\ t \in Owners
  BY ThreadFacts DEF FailPacket, PacketInv, PlaceInv, LocalsFree
<1>2. PICK b0 \in Seq(Packets) : b0 = sendQueue[t]
  BY PlaceTypes
<1>3. PICK p \in Packets : p = Head(b0)
  BY <1>1, <1>2
<1>4. /\ UNCHANGED <<pc, endpoint, TxQueue, TxLookupQueue, tempQueue, callersQueue, issuing, wire, hifDone,
                     netbuf, seqOf>>
      /\ sendQueue' = [sendQueue EXCEPT ![t] = Tail(b0)] /\ SendPacketCompletion({p}, "error")
  BY <1>2, <1>3 DEF FailPacket, epVars, pktVars, hifVars, tgtVars
<1>5. sendQueue'[t] = Tail(b0) /\ \A u \in Threads : u # t => sendQueue'[u] = sendQueue[u]
  BY <1>4, OtherThreads
<1>6. NoRepeat(b0)
  BY <1>2 DEF PacketInv, PlaceInv, NoRepeats
<1>7. /\ NoRepeat(Tail(b0)) /\ InQueue(b0, p)
      /\ \A q : InQueue(Tail(b0), q) <=> InQueue(b0, q) /\ q # p
  BY <1>1, <1>2, <1>3, <1>6, TailQueue
<1>8. NoRepeat(sendQueue'[t]) /\ \A q : InQueue(sendQueue'[t], q) <=> InQueue(sendQueue[t], q) /\ q # p
  BY <1>2, <1>5, <1>7, Zenon
<1>9. HeldIn("batch", t, p) /\ "batch" \in Names /\ Counted
  BY <1>2, <1>7 DEF HeldIn, Names, PacketInv, PlaceInv
<1>10. Awaited(p) /\ \A k \in Names, v \in Owners : HeldIn(k, v, p) => k = "batch" /\ v = t
  BY <1>1, <1>9, HeldOnce
<1>11. /\ \A q \in Packets \cap {p} : Awaited(q) /\ result'[q] # "none"
       /\ \A q \in Packets \ {p} : result'[q] = result[q]
  <2>1. /\ \A q \in Packets \cap {p} : result'[q] # "none"
        /\ \A q \in Packets \ {p} : result'[q] = result[q]
    BY <1>4, CompletionTells
  <2> QED
    BY <1>10, <2>1
<1>12. \A k \in Names, v \in Owners, q \in Packets : HeldIn(k, v, q)' <=> HeldIn(k, v, q) /\ q \notin {p}
  <2>1. \A k \in Names, v \in Owners, q \in Packets :
            HeldIn(k, v, q)' <=> HeldIn(k, v, q) /\ ~(q = p /\ k = "batch" /\ v = t)
    BY <1>1, <1>4, <1>5, <1>8, ThreadFacts DEF HeldIn, Compact
  <2> QED
    BY <1>10, <2>1
<1>13. Counted'
  BY <1>4, <1>9, <1>11, <1>12, GoneStep
<1>14. NoRepeats'
  BY <1>4, <1>5, <1>8 DEF PacketInv, PlaceInv, NoRepeats, Compact
<1>g. Goto(t, "failBatch")
  BY <1>1, <1>4, PlaceTypes DEF Goto
<1>15. LocalsFree'
  BY <1>1, <1>4, <1>5, <1>g, LocalsStep DEF PacketInv, PlaceInv
<1>16. LookupOrder'
  BY <1>1, <1>4, <1>g, LookupKept DEF PacketInv, PlaceInv
<1> QED
  BY <1>13, <1>14, <1>15, <1>16 DEF PlaceInv

\* Return completes the packet that EpSendFull dropped.
LEMMA ReturnPlaces ==
    ASSUME PacketInv, NEW t \in Threads, Return(t) PROVE PlaceInv'
<1>1. PICK label \in {"recycle", "idle"} : Goto(t, label)
  BY DEF Return
<1>2. pc[t] = "return" /\ sendQueue[t] = <<>> /\ tempQueue[t] = <<>> /\ issuing[t] = NoPacket /\ t \in Owners
  BY ThreadFacts DEF Return, PacketInv, PlaceInv, LocalsFree
<1>3. PICK P : P = {callersQueue[t]} \ {NoPacket}
  OBVIOUS
<1>4. /\ UNCHANGED <<endpoint, TxQueue, TxLookupQueue, sendQueue, tempQueue, issuing, wire, hifDone, netbuf,
                     seqOf>>
      /\ callersQueue' = [callersQueue EXCEPT ![t] = NoPacket] /\ SendPacketCompletion(P, "no_resource")
  BY <1>3 DEF Return, epVars, pktVars, hifVars, tgtVars
<1>5. /\ callersQueue'[t] = NoPacket /\ \A u \in Threads : u # t => callersQueue'[u] = callersQueue[u]
      /\ pc'[t] = label /\ \A u \in Threads : u # t => pc'[u] = pc[u]
  <2>1. callersQueue'[t] = NoPacket /\ \A u \in Threads : u # t => callersQueue'[u] = callersQueue[u]
    BY <1>1, <1>4, OtherThreads
  <2>2. pc'[t] = label /\ \A u \in Threads : u # t => pc'[u] = pc[u]
    BY <1>1, <1>4, OtherThreads
  <2> QED
    BY <2>1, <2>2
<1>6. \A q \in Packets : q \in P <=> HeldIn("caller", t, q)
  BY <1>3, ThreadFacts DEF HeldIn
<1>7. Counted /\ "caller" \in Names
  BY DEF PacketInv, PlaceInv, Names
<1>8. \A q \in Packets \cap P :
          Awaited(q) /\ \A k \in Names, v \in Owners : HeldIn(k, v, q) => k = "caller" /\ v = t
  BY <1>2, <1>6, <1>7, HeldOnce
<1>9. /\ \A q \in Packets \cap P : Awaited(q) /\ result'[q] # "none"
      /\ \A q \in Packets \ P : result'[q] = result[q]
  <2>1. /\ \A q \in Packets \cap P : result'[q] # "none"
        /\ \A q \in Packets \ P : result'[q] = result[q]
    BY <1>4, CompletionTells
  <2> QED
    BY <1>8, <2>1
<1>10. \A k \in Names, v \in Owners, q \in Packets : HeldIn(k, v, q)' <=> HeldIn(k, v, q) /\ q \notin P
  <2>0. \A q \in Packets : callersQueue'[t] # q
    BY <1>5, ThreadFacts
  <2>1. \A k \in Names, v \in Owners, q \in Packets :
            HeldIn(k, v, q)' <=> HeldIn(k, v, q) /\ ~(k = "caller" /\ v = t)
    BY <1>1, <1>2, <1>4, <1>5, <2>0, ThreadFacts DEF HeldIn, Compact
  <2> QED
    BY <1>6, <1>8, <2>1
<1>11. Counted'
  BY <1>4, <1>7, <1>9, <1>10, GoneStep
<1>12. NoRepeats'
  BY <1>4 DEF PacketInv, PlaceInv, NoRepeats, Compact
<1>13. LocalsFree'
  BY <1>1, <1>2, <1>4, <1>5, LocalsStep DEF PacketInv, PlaceInv
<1>14. LookupOrder'
  BY <1>1, <1>2, <1>4, LookupKept DEF PacketInv, PlaceInv
<1> QED
  BY <1>11, <1>12, <1>13, <1>14 DEF PlaceInv

\* A completion that hif_completion_thread takes up is for the head of TxLookupQueue.
LEMMA SendDonePlaces ==
    ASSUME PacketInv, SendDone PROVE PlaceInv'
<1>1. /\ ~Compact /\ pc[Completer] = "idle" /\ hifDone < Len(wire) /\ hifDone' = hifDone + 1
      /\ netbuf' = wire[hifDone + 1] /\ Goto(Completer, "lookup")
      /\ UNCHANGED <<endpoint, TxQueue, TxLookupQueue, sendQueue, tempQueue, callersQueue, issuing, wire,
                     seqOf, result>>
  BY DEF SendDone, epVars, pktVars, thVars, tgtVars, cliVars
<1>2. /\ pc'[Completer] = "lookup" /\ \A u \in Threads : u # Completer => pc'[u] = pc[u]
      /\ Completer \in Threads
  BY <1>1, OtherThreads, ThreadFacts
<1>3. Counted' /\ NoRepeats'
  <2>1. \A k, v, q : HeldIn(k, v, q)' <=> HeldIn(k, v, q)
    BY <1>1, <1>2 DEF HeldIn, Compact
  <2>2. Counted'
    BY <1>1, <2>1 DEF PacketInv, PlaceInv, Counted, Awaited
  <2> QED
    BY <1>1, <2>2 DEF PacketInv, PlaceInv, NoRepeats, Compact
<1>4. LocalsFree'
  BY <1>1, <1>2, LocalsStep DEF PacketInv, PlaceInv, LocalsFree
<1>5. LookupOrder'
  <2>1. LookupOrder
    BY DEF PacketInv, PlaceInv
  <2>2. Looked = 0 /\ Looked' = 1 /\ OnWire \in Nat /\ OnWire >= 1 /\ OnWire' = OnWire - 1
        /\ hifDone \in Nat /\ Len(wire) \in Nat /\ hifDone' <= Len(wire)
    BY <1>1, <1>2, OrderTypes DEF Looked, OnWire
  <2>3. \A u \in Threads : pc'[u] = "hifSend" <=> pc[u] = "hifSend"
    BY <1>1, <1>2
  <2>4. \A i \in 1..OnWire : TxLookupQueue[0 + i] = wire[hifDone + i]
    BY <1>1, <2>1, <2>2 DEF LookupOrder
  <2>5. Len(TxLookupQueue) = 0 + OnWire + (IF \E u \in Threads : pc[u] = "hifSend" THEN 1 ELSE 0)
    BY <1>1, <2>1, <2>2 DEF LookupOrder
  <2>6. TxLookupQueue # <<>> /\ TxLookupQueue[1] = netbuf'
    <3>1. TxLookupQueue[0 + 1] = wire[hifDone + 1]
      BY <2>2, <2>4
    <3>2. Len(TxLookupQueue) >= 1
      BY <2>2, <2>5
    <3> QED
      BY <1>1, <3>1, <3>2, PlaceTypes
  <2>7. \A i \in 1..OnWire - 1 : TxLookupQueue[1 + i] = wire[hifDone' + i]
    <3> SUFFICES ASSUME NEW i \in 1..OnWire - 1 PROVE TxLookupQueue[1 + i] = wire[hifDone' + i]
      OBVIOUS
    <3>1. 1 + i \in 1..OnWire /\ 0 + (1 + i) = 1 + i /\ hifDone' + i = hifDone + (1 + i)
      BY <1>1, <2>2
    <3> QED
      BY <2>4, <3>1
  <2>8. \A u \in Threads : pc'[u] = "hifSend" => TxLookupQueue[1 + (OnWire - 1) + 1] = issuing[u]
    <3>1. 1 + (OnWire - 1) + 1 = 0 + OnWire + 1
      BY <2>2
    <3> QED
      BY <1>1, <2>1, <2>2, <2>3, <3>1 DEF LookupOrder
  <2>9. Len(TxLookupQueue) = 1 + (OnWire - 1) + (IF \E u \in Threads : pc'[u] = "hifSend" THEN 1 ELSE 0)
    BY <2>2, <2>3, <2>5
  <2>10. UNCHANGED <<endpoint, TxLookupQueue, wire, issuing>>
    BY <1>1
  <2>11. /\ ~Compact' /\ \A i \in 1..OnWire' : (TxLookupQueue[Looked + i] = wire[hifDone + i])'
         /\ \A u \in Threads : pc'[u] = "hifSend" => (TxLookupQueue[Looked + OnWire + 1] = issuing[u])'
         /\ (Len(TxLookupQueue) = Looked + OnWire + (IF \E t \in Threads : pc[t] = "hifSend" THEN 1 ELSE 0))'
    BY <1>1, <2>2, <2>7, <2>8, <2>9, <2>10 DEF Compact
  <2> QED
    BY <2>2, <2>6, <2>10, <2>11 DEF LookupOrder
<1> QED
  BY <1>3, <1>4, <1>5 DEF PlaceInv

\* HTCLookupTxPacket takes the head out; what follows it moves up.
LEMMA LookupPlaces ==
    ASSUME PacketInv, HTCLookupTxPacket PROVE PlaceInv'
<1>1. /\ pc[Completer] = "lookup" /\ TxLookupQueue' = Without(TxLookupQueue, netbuf)
      /\ Goto(Completer, IF Contains(TxLookupQueue, netbuf) THEN "complete" ELSE "notFound")
      /\ UNCHANGED <<endpoint, TxQueue, sendQueue, tempQueue, callersQueue, issuing, wire, hifDone, netbuf,
                     seqOf, result>>
  BY DEF HTCLookupTxPacket, pktVars, thVars, hifVars, tgtVars, cliVars
<1>2. LookupOrder /\ ~Compact
  BY <1>1 DEF PacketInv, PlaceInv, LookupOrder
<1>3. PICK q0 \in Seq(Packets) : q0 = TxLookupQueue
  BY PlaceTypes
<1>4. q0 # <<>> /\ q0[1] = netbuf /\ Len(q0) \in Nat /\ 1 \in DOMAIN q0 /\ NoRepeat(q0)
  BY <1>1, <1>2, <1>3 DEF LookupOrder, PacketInv, PlaceInv, NoRepeats
<1>5. PICK p \in Packets : p = netbuf /\ p = q0[1]
  BY <1>4
<1>6. Contains(TxLookupQueue, netbuf)
  BY <1>3, <1>4 DEF Contains
<1>7. /\ Goto(Completer, "complete") /\ pc'[Completer] = "complete" /\ Completer \in Threads
      /\ \A u \in Threads : u # Completer => pc'[u] = pc[u]
  <2>1. Goto(Completer, "complete") /\ Completer \in Threads
    BY <1>1, <1>6, ThreadFacts
  <2> QED
    BY <2>1, OtherThreads
<1>8. /\ NoRepeat(Without(q0, p)) /\ Without(q0, p) = RemoveAt(q0, 1)
      /\ \A q : InQueue(Without(q0, p), q) <=> InQueue(q0, q) /\ q # p
  BY <1>4, <1>5, WithoutQueue
<1>9. TxLookupQueue' = Without(q0, p)
  BY <1>1, <1>3, <1>5
<1>10. NoRepeat(TxLookupQueue') /\ \A q : InQueue(TxLookupQueue', q) <=> InQueue(TxLookupQueue, q) /\ q # p
  BY <1>3, <1>8, <1>9, Zenon
<1>11. Counted'
  <2>1. Counted /\ UNCHANGED <<seqOf, result>>
    BY <1>1 DEF PacketInv, PlaceInv
  <2>2. "lookup" \in Names /\ "done" \in Names /\ NoThread \in Owners
    BY ThreadFacts DEF Names
  <2>3. HeldIn("lookup", NoThread, p)
    BY <1>2, <1>3, <1>4, <1>5 DEF HeldIn, InQueue
  <2>4. Transferred(p, "lookup", NoThread, "done", NoThread)
    BY <1>1, <1>2, <1>5, <1>7, <1>10 DEF Transferred, HeldIn, Compact
  <2> QED
    BY <2>1, <2>2, <2>3, <2>4, TransferStep
<1>12. NoRepeats'
  BY <1>1, <1>2, <1>10 DEF PacketInv, PlaceInv, NoRepeats, Compact
<1>13. LocalsFree'
  BY <1>1, <1>7, LocalsStep DEF PacketInv, PlaceInv, LocalsFree
<1>14. LookupOrder'
  <2>1. Looked = 1 /\ Looked' = 0 /\ OnWire \in Nat /\ OnWire' = OnWire
    BY <1>1, <1>7, OrderTypes DEF Looked, OnWire
  <2>2. \A u \in Threads : pc'[u] = "hifSend" <=> pc[u] = "hifSend"
    BY <1>1, <1>7
  <2>3. /\ Len(TxLookupQueue') = Len(q0) - 1
        /\ \A k \in 1..Len(q0) - 1 : TxLookupQueue'[k] = q0[k + 1]
    <3>1. /\ Len(RemoveAt(q0, 1)) = Len(q0) - 1
          /\ \A k \in 1..Len(q0) - 1 : RemoveAt(q0, 1)[k] = IF k < 1 THEN q0[k] ELSE q0[k + 1]
      BY <1>4, RemoveAtElements
    <3>2. TxLookupQueue' = RemoveAt(q0, 1)
      BY <1>8, <1>9
    <3>3. \A k \in 1..Len(q0) - 1 : ~(k < 1)
      BY <1>4
    <3> QED
      BY <3>1, <3>2, <3>3
  <2>4. /\ Len(q0) = 1 + OnWire + (IF \E u \in Threads : pc[u] = "hifSend" THEN 1 ELSE 0)
        /\ \A i \in 1..OnWire : q0[1 + i] = wire[hifDone + i]
        /\ \A u \in Threads : pc[u] = "hifSend" => q0[1 + OnWire + 1] = issuing[u]
    BY <1>2, <1>3, <2>1 DEF LookupOrder
  <2>5. ASSUME NEW i \in 1..OnWire PROVE TxLookupQueue'[0 + i] = wire[hifDone + i]
    <3>1. i \in 1..Len(q0) - 1 /\ 0 + i = i /\ i + 1 = 1 + i
      BY <2>1, <2>4
    <3> QED
      BY <2>3, <2>4, <3>1
  <2>6. ASSUME NEW u \in Threads, pc[u] = "hifSend" PROVE TxLookupQueue'[0 + OnWire + 1] = issuing[u]
    <3>1. 0 + OnWire + 1 \in 1..Len(q0) - 1 /\ (0 + OnWire + 1) + 1 = 1 + OnWire + 1
      BY <2>1, <2>4, <2>6
    <3>2. TxLookupQueue'[0 + OnWire + 1] = q0[(0 + OnWire + 1) + 1]
      BY <2>3, <3>1
    <3> QED
      BY <2>4, <2>6, <3>1, <3>2
  <2>7. Len(TxLookupQueue') = 0 + OnWire + (IF \E u \in Threads : pc'[u] = "hifSend" THEN 1 ELSE 0)
    BY <2>1, <2>2, <2>3, <2>4
  <2>8. UNCHANGED <<endpoint, wire, hifDone, issuing>> /\ ~Compact' /\ pc'[Completer] # "lookup"
    BY <1>1, <1>2, <1>7 DEF Compact
  <2>9. hifDone <= Len(wire)
    BY OrderTypes
  <2>10. /\ \A i \in 1..OnWire' : (TxLookupQueue[Looked + i] = wire[hifDone + i])'
         /\ \A u \in Threads : pc'[u] = "hifSend" => (TxLookupQueue[Looked + OnWire + 1] = issuing[u])'
         /\ (Len(TxLookupQueue) = Looked + OnWire + (IF \E t \in Threads : pc[t] = "hifSend" THEN 1 ELSE 0))'
    BY <2>1, <2>2, <2>5, <2>6, <2>7, <2>8
  <2> QED
    BY <2>8, <2>9, <2>10 DEF LookupOrder
<1> QED
  BY <1>11, <1>12, <1>13, <1>14 DEF PlaceInv

\* HTCTxCompletionHandler gives the packet back.
LEMMA HandlerPlaces ==
    ASSUME PacketInv, HTCTxCompletionHandler PROVE PlaceInv'
<1>1. PICK label \in {"recycle", "readResources"} : Goto(Completer, label)
  BY DEF HTCTxCompletionHandler
<1>2. PICK P : P = IF pc[Completer] = "complete" THEN {netbuf} ELSE {}
  OBVIOUS
<1>3. /\ pc[Completer] \in {"complete", "notFound"} /\ SendPacketCompletion(P, "ok")
      /\ UNCHANGED <<endpoint, TxQueue, TxLookupQueue, sendQueue, tempQueue, callersQueue, issuing, wire,
                     hifDone, netbuf, seqOf>>
  BY <1>2 DEF HTCTxCompletionHandler, epVars, pktVars, thVars, hifVars, tgtVars
<1>4. /\ pc'[Completer] = label /\ \A u \in Threads : u # Completer => pc'[u] = pc[u]
      /\ Completer \in Threads
  BY <1>1, OtherThreads, ThreadFacts
<1>5. Counted /\ "done" \in Names /\ NoThread \in Owners /\ ~Compact
  BY <1>3, ThreadFacts DEF PacketInv, PlaceInv, Names, LookupOrder
<1>6. \A q \in Packets : q \in P <=> HeldIn("done", NoThread, q)
  BY <1>2, <1>5 DEF HeldIn
<1>7. \A q \in Packets \cap P :
          Awaited(q) /\ \A k \in Names, v \in Owners : HeldIn(k, v, q) => k = "done" /\ v = NoThread
  BY <1>5, <1>6, HeldOnce
<1>8. /\ \A q \in Packets \cap P : Awaited(q) /\ result'[q] # "none"
      /\ \A q \in Packets \ P : result'[q] = result[q]
  <2>1. /\ \A q \in Packets \cap P : result'[q] # "none"
        /\ \A q \in Packets \ P : result'[q] = result[q]
    BY <1>3, CompletionTells
  <2> QED
    BY <1>7, <2>1
<1>9. \A k \in Names, v \in Owners, q \in Packets : HeldIn(k, v, q)' <=> HeldIn(k, v, q) /\ q \notin P
  <2>1. \A k \in Names, v \in Owners, q \in Packets :
            HeldIn(k, v, q)' <=> HeldIn(k, v, q) /\ ~(k = "done" /\ v = NoThread)
    BY <1>1, <1>3, <1>4, <1>5 DEF HeldIn, Compact
  <2> QED
    BY <1>6, <1>7, <2>1
<1>10. Counted'
  BY <1>3, <1>5, <1>8, <1>9, GoneStep
<1>11. NoRepeats'
  BY <1>3 DEF PacketInv, PlaceInv, NoRepeats, Compact
<1>12. LocalsFree'
  BY <1>1, <1>3, <1>4, LocalsStep DEF PacketInv, PlaceInv, LocalsFree
<1>13. LookupOrder'
  BY <1>1, <1>3, <1>4, LookupKept DEF PacketInv, PlaceInv
<1> QED
  BY <1>10, <1>11, <1>12, <1>13 DEF PlaceInv

\* HTCFlushEndpointTX gives the packets of TxQueue back.
LEMMA FlushPlaces ==
    ASSUME PacketInv, HTCFlushEndpoint PROVE PlaceInv'
<1>1. PICK P : P = ToSet(TxQueue)
  OBVIOUS
<1>2. /\ SendPacketCompletion(P, "canceled") /\ TxQueue' = <<>>
      /\ UNCHANGED <<pc, endpoint, TxLookupQueue, sendQueue, tempQueue, callersQueue, issuing, wire,
                     hifDone, netbuf, seqOf>>
  BY <1>1 DEF HTCFlushEndpoint, Flushed, pktVars, thVars, hifVars, tgtVars
<1>3. Counted /\ "queue" \in Names /\ NoThread \in Owners
  BY ThreadFacts DEF PacketInv, PlaceInv, Names
<1>4. \A q \in Packets : q \in P <=> HeldIn("queue", NoThread, q)
  BY <1>1 DEF HeldIn, InQueue, ToSet
<1>5. \A q \in Packets \cap P :
          Awaited(q) /\ \A k \in Names, v \in Owners : HeldIn(k, v, q) => k = "queue" /\ v = NoThread
  BY <1>3, <1>4, HeldOnce
<1>6. /\ \A q \in Packets \cap P : Awaited(q) /\ result'[q] # "none"
      /\ \A q \in Packets \ P : result'[q] = result[q]
  <2>1. /\ \A q \in Packets \cap P : result'[q] # "none"
        /\ \A q \in Packets \ P : result'[q] = result[q]
    BY <1>2, CompletionTells
  <2> QED
    BY <1>5, <2>1
<1>7. \A q : ~InQueue(TxQueue', q)
  BY <1>2 DEF InQueue
<1>8. \A k \in Names, v \in Owners, q \in Packets : HeldIn(k, v, q)' <=> HeldIn(k, v, q) /\ q \notin P
  <2>1. \A k \in Names, v \in Owners, q \in Packets :
            HeldIn(k, v, q)' <=> HeldIn(k, v, q) /\ ~(k = "queue" /\ v = NoThread)
    BY <1>2, <1>7 DEF HeldIn, Compact
  <2> QED
    BY <1>4, <1>5, <2>1
<1>9. Counted'
  BY <1>2, <1>3, <1>6, <1>8, GoneStep
<1>10. NoRepeat(TxQueue')
  BY <1>2 DEF NoRepeat
<1>11. NoRepeats'
  BY <1>2, <1>10 DEF PacketInv, PlaceInv, NoRepeats, Compact
<1>12. LocalsFree'
  BY <1>2 DEF PacketInv, PlaceInv, LocalsFree
<1>13. LookupOrder'
  BY <1>2 DEF PacketInv, PlaceInv, LookupOrder, Looked, OnWire, Compact
<1> QED
  BY <1>9, <1>11, <1>12, <1>13 DEF PlaceInv

\* The entry of the transfer goes back to the pipe.
LEMMA RecyclePlaces ==
    ASSUME PacketInv, Recycle PROVE PlaceInv'
<1>1. /\ pc[Completer] = "recycle" /\ Goto(Completer, "idle")
      /\ UNCHANGED <<endpoint, TxQueue, TxLookupQueue, sendQueue, tempQueue, callersQueue, issuing, wire,
                     hifDone, seqOf, result>>
  BY DEF Recycle, epVars, pktVars, thVars, tgtVars, cliVars
<1>2. /\ pc'[Completer] = "idle" /\ \A u \in Threads : u # Completer => pc'[u] = pc[u]
      /\ Completer \in Threads
  BY <1>1, OtherThreads, ThreadFacts
<1>3. Counted' /\ NoRepeats'
  <2>1. \A k, v, q : HeldIn(k, v, q)' <=> HeldIn(k, v, q)
    BY <1>1, <1>2 DEF HeldIn, Compact
  <2>2. Counted'
    BY <1>1, <2>1 DEF PacketInv, PlaceInv, Counted, Awaited
  <2> QED
    BY <1>1, <2>2 DEF PacketInv, PlaceInv, NoRepeats, Compact
<1>4. LocalsFree'
  BY <1>1, <1>2, LocalsStep DEF PacketInv, PlaceInv, LocalsFree
<1>5. LookupOrder'
  <2>1. Looked = 0 /\ Looked' = 0 /\ OnWire' = OnWire
    BY <1>1, <1>2 DEF Looked, OnWire
  <2>2. \A u \in Threads : pc'[u] = "hifSend" <=> pc[u] = "hifSend"
    BY <1>1, <1>2
  <2> QED
    BY <1>1, <1>2, <2>1, <2>2 DEF PacketInv, PlaceInv, LookupOrder, Compact
<1> QED
  BY <1>3, <1>4, <1>5 DEF PlaceInv

\* Every step keeps the account.
LEMMA PlaceStep == PacketInv /\ [Next]_vars => PlaceInv'
<1> SUFFICES ASSUME PacketInv, [Next]_vars PROVE PlaceInv'
  OBVIOUS
<1>1. ASSUME NEW t \in Senders, NEW p \in Packets, HTCSendPkt(t, p) PROVE PlaceInv'
  BY <1>1, SendPktPlaces
<1>2. ASSUME NEW t \in Threads, HTCTrySend(t) PROVE PlaceInv'
  BY <1>2, QuietPlaces, AddDepthPlaces, SendFullPlaces, EnterPlaces, AutoPmPlaces, TakePlaces, EndPassPlaces,
     StartIssuePlaces, HIFSendPlaces, HIFSendFailedPlaces, FailPacketPlaces, ReturnPlaces DEF HTCTrySend
<1>3. CASE SwallowCompletion
  <2>1. /\ Compact /\ UNCHANGED <<pc, endpoint, TxQueue, TxLookupQueue, tempQueue, sendQueue, callersQueue,
                                  issuing, wire, netbuf, seqOf, result>>
        /\ hifDone' = hifDone + 1 /\ hifDone < Len(wire)
    BY <1>3 DEF SwallowCompletion, epVars, pktVars, thVars, tgtVars, cliVars
  <2>2. hifDone' <= Len(wire)
    BY <2>1, OrderTypes
  <2> QED
    BY <2>1, <2>2, OthersStep
<1>4. CASE HTCProcessCreditRpt
  <2>1. /\ pc[Completer] = "idle"
        /\ UNCHANGED <<endpoint, TxQueue, TxLookupQueue, tempQueue, sendQueue, callersQueue, issuing, wire,
                       hifDone, netbuf, seqOf, result>>
    BY <1>4 DEF HTCProcessCreditRpt, pktVars, thVars, hifVars, cliVars
  <2>2. PICK label \in {"readResources", "idle"} : Goto(Completer, label)
    BY <1>4 DEF HTCProcessCreditRpt
  <2>3. /\ sendQueue[Completer] = <<>> /\ tempQueue[Completer] = <<>> /\ callersQueue[Completer] = NoPacket
        /\ Completer \in Threads
    BY <2>1, ThreadFacts DEF PacketInv, PlaceInv, LocalsFree
  <2> QED
    BY <2>1, <2>2, <2>3, QuietStep
<1>5. CASE Completion
  BY <1>3, <1>4, <1>5, SendDonePlaces, LookupPlaces, HandlerPlaces, RecyclePlaces DEF Completion
<1>6. CASE HTCTxResumeAllHandler
  <2>1. /\ pc[Resumer] = "idle" /\ Goto(Resumer, "readResources")
        /\ UNCHANGED <<endpoint, TxQueue, TxLookupQueue, tempQueue, sendQueue, callersQueue, issuing, wire,
                       hifDone, netbuf, seqOf, result>>
    BY <1>6 DEF HTCTxResumeAllHandler, epVars, pktVars, thVars, hifVars, tgtVars, cliVars
  <2>2. /\ sendQueue[Resumer] = <<>> /\ tempQueue[Resumer] = <<>> /\ callersQueue[Resumer] = NoPacket
        /\ Resumer \in Threads
    BY <2>1, ThreadFacts DEF PacketInv, PlaceInv, LocalsFree
  <2> QED
    BY <2>1, <2>2, QuietStep
<1>7. CASE TargetConsume \/ TargetReport \/ (\E p \in Packets : HttResponse(p))
  BY <1>7, OthersStep DEF TargetConsume, TargetReport, HttResponse, epVars, pktVars, thVars, hifVars, cliVars
<1>8. CASE PmCoreSuspend \/ RuntimeSuspend \/ RuntimeResume
  <2>1. UNCHANGED <<lock, epVars, pktVars, pc, thVars, netbuf, hifVars, tgtVars, pmUsage, cliVars>>
    BY <1>8 DEF PmCoreSuspend, RuntimeSuspend, RuntimeResume, SetPm
  <2> QED
    BY <2>1, OthersStep DEF epVars, pktVars, thVars, hifVars, tgtVars, cliVars
<1>9. CASE UNCHANGED vars
  BY <1>9, OthersStep DEF vars, epVars, pktVars, thVars, hifVars, tgtVars, cliVars
<1> QED
  BY <1>1, <1>2, <1>5, <1>6, <1>7, <1>8, <1>9, FlushPlaces DEF Next

\* Initially HTC holds nothing.
LEMMA PlaceInit == Init => PlaceInv
<1> SUFFICES ASSUME Init PROVE PlaceInv
  OBVIOUS
<1>1. /\ TxQueue = <<>> /\ TxLookupQueue = <<>> /\ wire = <<>> /\ netbuf = NoPacket /\ hifDone = 0
      /\ seqOf = [p \in Packets |-> -1] /\ result = [p \in Packets |-> "none"]
      /\ pc = [t \in Threads |-> "idle"] /\ sendQueue = [t \in Threads |-> <<>>]
      /\ tempQueue = [t \in Threads |-> <<>>] /\ callersQueue = [t \in Threads |-> NoPacket]
      /\ issuing = [t \in Threads |-> NoPacket]
  BY DEF Init
<1>2. \A k, v : \A p \in Packets : ~HeldIn(k, v, p)
  <2>1. \A p : ~InQueue(<<>>, p)
    BY DEF InQueue
  <2> QED
    BY <1>1, <2>1, ThreadFacts DEF HeldIn
<1>3. Counted
  BY <1>1, <1>2 DEF Counted, Awaited
<1>4. NoRepeats
  <2>1. NoRepeat(<<>>)
    BY DEF NoRepeat
  <2> QED
    BY <1>1, <2>1 DEF NoRepeats
<1>5. LocalsFree
  BY <1>1 DEF LocalsFree
<1>6. LookupOrder
  <2>1. Looked = 0 /\ OnWire = 0 /\ \A t \in Threads : pc[t] = "idle"
    BY <1>1, ThreadFacts DEF Looked, OnWire
  <2> QED
    BY <1>1, <2>1, ThreadFacts DEF LookupOrder
<1> QED
  BY <1>3, <1>4, <1>5, <1>6 DEF PlaceInv

\* PacketInv holds in every reachable state; RingInv and DrainInv are shown in HtcTxProofs.
THEOREM PacketInvariant == Spec => []PacketInv
<1>1. Init => RingInv /\ DrainInv /\ PlaceInv
  <2> SUFFICES ASSUME Init PROVE RingInv /\ DrainInv
    BY PlaceInit
  <2>1. CompleterHolds
    BY ThreadFacts DEF Init, CompleterHolds
  <2>2. RingEntriesConserved
    BY ParameterAssumption DEF Init, RingEntriesConserved
  <2>3. DrainInv
    BY DEF Init, DrainInv, SingleDrainer, Labels, DrainLabels
  <2> QED
    BY <2>1, <2>2, <2>3, TypeInit DEF RingInv
<1>2. RingInv /\ DrainInv /\ PlaceInv => PacketInv
  BY DEF RingInv, PacketInv
<1> QED
  BY <1>1, <1>2, RingStep, DrainStep, PlaceStep, PTL DEF Spec

----------------------------------------------------------------------------
(* What the account shows                                                  *)

\* "Dequeue first packet directly because of in-order completion": whatever the endpoint and
\* the order of sends, refusals and completions, HTCLookupTxPacket finds its packet at the
\* head of TxLookupQueue.
THEOREM LookupHitsHeadAlways == Spec => []LookupHitsHead
<1>1. PacketInv => LookupHitsHead
  <2> SUFFICES ASSUME PacketInv, pc[Completer] = "lookup"
               PROVE  TxLookupQueue # <<>> /\ Head(TxLookupQueue) = netbuf
    BY DEF LookupHitsHead
  <2>1. TxLookupQueue # <<>> /\ TxLookupQueue[1] = netbuf
    BY DEF PacketInv, PlaceInv, LookupOrder
  <2> QED
    BY <2>1, PlaceTypes
<1> QED
  BY <1>1, PacketInvariant, PTL

\* A position among the next n, counted from the one after l.
LEMMA AddWithin ==
    ASSUME NEW l \in 0..1, NEW n \in Nat, NEW j \in 1..n
    PROVE  /\ \A k \in 0..1 : l + j \in 1..(l + n + k)
           /\ l + j # l + n + 1
OBVIOUS

\* A client gets no buffer back while the copy engine may still read it, in every order of
\* sends, refusals, flushes and completions.
THEOREM NoCompletionDuringDmaAlways == Spec => []NoCompletionDuringDma
<1>1. PacketInv => NoCompletionDuringDma
  <2> SUFFICES ASSUME PacketInv, NEW i \in hifDone + 1 .. Len(wire) PROVE result[wire[i]] = "none"
    BY DEF NoCompletionDuringDma
  <2>1. i \in DOMAIN wire /\ i \in Nat /\ wire[i] \in Packets
    BY PlaceTypes, OrderTypes
  <2>2. Counted /\ "wire" \in Names /\ "lookup" \in Names /\ NoThread \in Owners
    BY ThreadFacts DEF PacketInv, PlaceInv, Names
  <2>3. CASE Compact
    <3>1. HeldIn("wire", NoThread, wire[i])
      BY <2>1, <2>3 DEF HeldIn, InQueue
    <3> QED
      BY <2>1, <2>2, <3>1, HeldOnce
  <2>4. CASE ~Compact
    <3>1. PICK j \in 1..OnWire : i = hifDone + j
      <4>1. i - hifDone \in 1..OnWire /\ i = hifDone + (i - hifDone)
        BY <2>1, OrderTypes
      <4> QED
        BY <4>1
    <3>2. TxLookupQueue[Looked + j] = wire[i]
      BY <2>4, <3>1 DEF PacketInv, PlaceInv, LookupOrder
    <3>3. Looked + j \in DOMAIN TxLookupQueue
      <4>1. Looked \in 0..1 /\ OnWire \in Nat /\ Len(TxLookupQueue) \in Nat
            /\ DOMAIN TxLookupQueue = 1..Len(TxLookupQueue)
        BY OrderTypes
      <4>2. PICK k \in 0..1 : Len(TxLookupQueue) = Looked + OnWire + k
        BY <2>4 DEF PacketInv, PlaceInv, LookupOrder
      <4>3. Looked + j \in 1..(Looked + OnWire + k)
        BY <4>1, AddWithin
      <4> QED
        BY <4>1, <4>2, <4>3
    <3>4. HeldIn("lookup", NoThread, wire[i])
      BY <2>4, <3>2, <3>3 DEF HeldIn, InQueue
    <3> QED
      BY <2>1, <2>2, <3>4, HeldOnce
  <2> QED
    BY <2>3, <2>4
<1> QED
  BY <1>1, PacketInvariant, PTL

\* Places are counted by position; a queue without repetition has one position for a packet.
LEMMA PositionsOnce ==
    ASSUME NEW name, NEW q, NEW p, NoRepeat(q)
    PROVE  /\ ~InQueue(q, p) => At(name, q, p) = {}
           /\ InQueue(q, p) => \E x : At(name, q, p) = {x}
<1>1. ~InQueue(q, p) => At(name, q, p) = {}
  BY DEF InQueue, At
<1>2. ASSUME InQueue(q, p) PROVE \E x : At(name, q, p) = {x}
  <2>1. PICK i \in DOMAIN q : q[i] = p
    BY <1>2 DEF InQueue
  <2>2. {j \in DOMAIN q : q[j] = p} = {i}
    BY <2>1 DEF NoRepeat
  <2>3. At(name, q, p) = {<<name, i>>}
    BY <2>2 DEF At
  <2> QED
    BY <2>3
<1> QED
  BY <1>1, <1>2

\* A packet is in the local variable of one thread at most.
LEMMA LocalsOnce ==
    ASSUME NEW name, NEW local, NEW p, \A t, u \in Threads : local[t] = p /\ local[u] = p => t = u
    PROVE  /\ (\A t \in Threads : local[t] # p) => Holds(name, local, p) = {}
           /\ (\E t \in Threads : local[t] = p) => \E x : Holds(name, local, p) = {x}
<1>1. (\A t \in Threads : local[t] # p) => Holds(name, local, p) = {}
  BY DEF Holds
<1>2. ASSUME \E t \in Threads : local[t] = p PROVE \E x : Holds(name, local, p) = {x}
  <2>1. PICK t \in Threads : local[t] = p
    BY <1>2
  <2>2. {u \in Threads : local[u] = p} = {t}
    BY <2>1
  <2>3. Holds(name, local, p) = {<<name, t>>}
    BY <2>2 DEF Holds
  <2> QED
    BY <2>3
<1> QED
  BY <1>1, <1>2

\* The batches of the threads hold a packet in one position, if any of them does.
LEMMA BatchesOnce ==
    ASSUME PacketInv, NEW p \in Packets
    PROVE  /\ (\A t \in Threads : ~HeldIn("temp", t, p) /\ ~HeldIn("batch", t, p)) => Batches(p) = {}
           /\ (\E t \in Threads : HeldIn("temp", t, p) \/ HeldIn("batch", t, p)) => \E x : Batches(p) = {x}
<1>n. "temp" \in Names /\ "batch" \in Names /\ Threads \subseteq Owners /\ Counted
  BY ThreadFacts DEF Names, PacketInv, PlaceInv
<1>1. ASSUME NEW t \in Threads
      PROVE  /\ NoRepeat(tempQueue[t] \o sendQueue[t])
             /\ InQueue(tempQueue[t] \o sendQueue[t], p) <=> HeldIn("temp", t, p) \/ HeldIn("batch", t, p)
  <2>1. PICK a \in Seq(Packets) : a = tempQueue[t]
    BY PlaceTypes
  <2>2. PICK b \in Seq(Packets) : b = sendQueue[t]
    BY PlaceTypes
  <2>3. NoRepeat(a) /\ NoRepeat(b)
    BY <2>1, <2>2 DEF PacketInv, PlaceInv, NoRepeats
  <2>4. \A q : (InQueue(a, q) <=> HeldIn("temp", t, q)) /\ (InQueue(b, q) <=> HeldIn("batch", t, q))
    BY <2>1, <2>2 DEF HeldIn
  <2>5. \A q \in Packets : ~(InQueue(a, q) /\ InQueue(b, q))
    <3>1. "temp" # "batch"
      OBVIOUS
    <3> QED
      BY <1>n, <2>4, <3>1 DEF Counted
  <2>6. NoRepeat(a \o b) /\ \A q : InQueue(a \o b, q) <=> InQueue(a, q) \/ InQueue(b, q)
    BY <2>3, <2>5, ConcatQueue
  <2> QED
    BY <2>1, <2>2, <2>4, <2>6, Zenon
<1>2. \A t \in Threads : ~HeldIn("temp", t, p) /\ ~HeldIn("batch", t, p) =>
                         At(<<"batch", t>>, tempQueue[t] \o sendQueue[t], p) = {}
  BY <1>1, PositionsOnce, Zenon
<1>3. ASSUME \A t \in Threads : ~HeldIn("temp", t, p) /\ ~HeldIn("batch", t, p) PROVE Batches(p) = {}
  BY <1>2, <1>3 DEF Batches
<1>4. ASSUME \E t \in Threads : HeldIn("temp", t, p) \/ HeldIn("batch", t, p) PROVE \E x : Batches(p) = {x}
  <2>1. PICK t \in Threads : HeldIn("temp", t, p) \/ HeldIn("batch", t, p)
    BY <1>4
  <2>2. \A u \in Threads : u # t => At(<<"batch", u>>, tempQueue[u] \o sendQueue[u], p) = {}
    BY <1>2, <1>n, <2>1 DEF Counted
  <2>3. PICK x : At(<<"batch", t>>, tempQueue[t] \o sendQueue[t], p) = {x}
    BY <1>1, <2>1, PositionsOnce, Zenon
  <2>4. Batches(p) = {x}
    BY <2>2, <2>3 DEF Batches
  <2> QED
    BY <2>4
<1> QED
  BY <1>3, <1>4

\* Outside the queues and batches a packet is being sent in one position, if at all.
LEMMA SendingOnce ==
    ASSUME PacketInv, NEW p \in Packets
    PROVE  LET held == \/ \E t \in Threads : HeldIn("issuing", t, p)
                       \/ HeldIn("lookup", NoThread, p) \/ HeldIn("done", NoThread, p)
           IN  (~held => Sending(p) = {}) /\ (held => \E x : Sending(p) = {x})
<1>n. /\ "issuing" \in Names /\ "lookup" \in Names /\ "done" \in Names /\ NoThread \in Owners
      /\ Threads \subseteq Owners /\ Counted
  BY ThreadFacts DEF Names, PacketInv, PlaceInv
<1>1. CASE Compact
  <2>1. Sending(p) = Holds("issuing", issuing, p)
    BY <1>1 DEF Sending
  <2>2. \A t \in Threads : HeldIn("issuing", t, p) <=> issuing[t] = p
    BY <1>1 DEF HeldIn
  <2>3. ~HeldIn("lookup", NoThread, p) /\ ~HeldIn("done", NoThread, p)
    BY <1>1 DEF HeldIn
  <2>4. \A t, u \in Threads : issuing[t] = p /\ issuing[u] = p => t = u
    BY <1>n, <2>2 DEF Counted
  <2>5. /\ (\A t \in Threads : issuing[t] # p) => Holds("issuing", issuing, p) = {}
        /\ (\E t \in Threads : issuing[t] = p) => \E x : Holds("issuing", issuing, p) = {x}
    BY <2>4, LocalsOnce
  <2> QED
    BY <2>1, <2>2, <2>3, <2>5
<1>2. CASE ~Compact
  <2>1. Sending(p) = At("lookup", TxLookupQueue, p) \cup
                     (IF pc[Completer] = "complete" /\ netbuf = p THEN {<<"done", 1>>} ELSE {})
    BY <1>2 DEF Sending
  <2>2. /\ HeldIn("lookup", NoThread, p) <=> InQueue(TxLookupQueue, p)
        /\ HeldIn("done", NoThread, p) <=> pc[Completer] = "complete" /\ netbuf = p
        /\ \A t \in Threads : ~HeldIn("issuing", t, p)
    BY <1>2 DEF HeldIn
  <2>3. NoRepeat(TxLookupQueue)
    BY <1>2 DEF PacketInv, PlaceInv, NoRepeats
  <2>4. /\ ~InQueue(TxLookupQueue, p) => At("lookup", TxLookupQueue, p) = {}
        /\ InQueue(TxLookupQueue, p) => \E x : At("lookup", TxLookupQueue, p) = {x}
    BY <2>3, PositionsOnce
  <2>5. ~(HeldIn("lookup", NoThread, p) /\ HeldIn("done", NoThread, p))
    <3>1. "lookup" # "done"
      OBVIOUS
    <3> QED
      BY <1>n, <3>1 DEF Counted
  <2> QED
    BY <2>1, <2>2, <2>4, <2>5
<1> QED
  BY <1>1, <1>2

\* A packet handed to HTCSendPkt is in exactly one place until its client gets it back, and
\* nowhere afterwards: whatever the threads, the credits and the refusals of the pipe, HTC
\* loses no packet, completes none twice and uses none after its completion.
THEOREM PacketsAccountedForAlways == Spec => []PacketsAccountedFor
<1>1. PacketInv => PacketsAccountedFor
  <2> SUFFICES ASSUME PacketInv, NEW p \in Packets
               PROVE  Cardinality(Places(p)) = IF p \in Submitted /\ result[p] = "none" THEN 1 ELSE 0
    BY DEF PacketsAccountedFor
  <2>n. Names = {"queue", "temp", "batch", "caller", "issuing", "wire", "lookup", "done"} /\ Counted
    BY DEF Names, PacketInv, PlaceInv
  <2>o. NoThread \in Owners /\ Threads \subseteq Owners
    BY ThreadFacts
  <2>1. /\ ~HeldIn("queue", NoThread, p) => At("queue", TxQueue, p) = {}
        /\ HeldIn("queue", NoThread, p) => \E x : At("queue", TxQueue, p) = {x}
    <3>1. NoRepeat(TxQueue) /\ (HeldIn("queue", NoThread, p) <=> InQueue(TxQueue, p))
      BY DEF PacketInv, PlaceInv, NoRepeats, HeldIn
    <3> QED
      BY <3>1, PositionsOnce
  <2>2. /\ (\A t \in Threads : ~HeldIn("caller", t, p)) => Holds("caller", callersQueue, p) = {}
        /\ (\E t \in Threads : HeldIn("caller", t, p)) => \E x : Holds("caller", callersQueue, p) = {x}
    <3>1. \A t \in Threads : HeldIn("caller", t, p) <=> callersQueue[t] = p
      BY DEF HeldIn
    <3>2. \A t, u \in Threads : callersQueue[t] = p /\ callersQueue[u] = p => t = u
      BY <2>n, <2>o, <3>1 DEF Counted
    <3>3. /\ (\A t \in Threads : callersQueue[t] # p) => Holds("caller", callersQueue, p) = {}
          /\ (\E t \in Threads : callersQueue[t] = p) => \E x : Holds("caller", callersQueue, p) = {x}
      BY <3>2, LocalsOnce
    <3> QED
      BY <3>1, <3>3
  <2>3. PICK W : W = IF Compact THEN At("wire", wire, p) ELSE {}
    OBVIOUS
  <2>4. (~HeldIn("wire", NoThread, p) => W = {}) /\ (HeldIn("wire", NoThread, p) => \E x : W = {x})
    <3>1. CASE Compact
      <4>1. NoRepeat(wire) /\ (HeldIn("wire", NoThread, p) <=> InQueue(wire, p))
        BY <3>1 DEF PacketInv, PlaceInv, NoRepeats, HeldIn
      <4>2. (~InQueue(wire, p) => At("wire", wire, p) = {}) /\ (InQueue(wire, p) => \E x : At("wire", wire, p) = {x})
        BY <4>1, PositionsOnce
      <4> QED
        BY <2>3, <3>1, <4>1, <4>2
    <3>2. CASE ~Compact
      BY <2>3, <3>2 DEF HeldIn
    <3> QED
      BY <3>1, <3>2
  <2>5. Places(p) = At("queue", TxQueue, p) \cup Batches(p) \cup Holds("caller", callersQueue, p)
                    \cup Sending(p) \cup W
    BY <2>3 DEF Places
  <2>6. /\ (\A t \in Threads : ~HeldIn("temp", t, p) /\ ~HeldIn("batch", t, p)) => Batches(p) = {}
        /\ (\E t \in Threads : HeldIn("temp", t, p) \/ HeldIn("batch", t, p)) => \E x : Batches(p) = {x}
    BY BatchesOnce
  <2>7. PICK held \in BOOLEAN : held <=> \/ \E t \in Threads : HeldIn("issuing", t, p)
                                         \/ HeldIn("lookup", NoThread, p) \/ HeldIn("done", NoThread, p)
    OBVIOUS
  <2>8. (~held => Sending(p) = {}) /\ (held => \E x : Sending(p) = {x})
    BY <2>7, SendingOnce
  <2>9. CASE ~Awaited(p)
    <3>1. \A k \in Names, v \in Owners : ~HeldIn(k, v, p)
      BY <2>9, <2>n DEF Counted
    <3>2. Places(p) = {}
      BY <2>1, <2>2, <2>4, <2>5, <2>6, <2>7, <2>8, <2>n, <2>o, <3>1
    <3>3. Cardinality(Places(p)) = 0
      BY <3>2, FS_EmptySet
    <3> QED
      BY <2>9, <3>3 DEF Awaited, Submitted
  <2>10. CASE Awaited(p)
    <3>1. PICK k \in Names, v \in Owners : HeldIn(k, v, p)
      BY <2>10, <2>n DEF Counted
    <3>2. \A n \in Names, u \in Owners : HeldIn(n, u, p) => n = k /\ u = v
      BY <2>n, <3>1, HeldOnce
    <3>3. \E x : Places(p) = {x}
      <4>1. CASE k = "queue"
        BY <2>1, <2>2, <2>4, <2>5, <2>6, <2>7, <2>8, <2>n, <2>o, <3>1, <3>2, <4>1 DEF HeldIn
      <4>2. CASE k \in {"temp", "batch"}
        BY <2>1, <2>2, <2>4, <2>5, <2>6, <2>7, <2>8, <2>n, <2>o, <3>1, <3>2, <4>2 DEF HeldIn
      <4>3. CASE k = "caller"
        BY <2>1, <2>2, <2>4, <2>5, <2>6, <2>7, <2>8, <2>n, <2>o, <3>1, <3>2, <4>3 DEF HeldIn
      <4>4. CASE k = "wire"
        BY <2>1, <2>2, <2>4, <2>5, <2>6, <2>7, <2>8, <2>n, <2>o, <3>1, <3>2, <4>4 DEF HeldIn
      <4>5. CASE k \in {"issuing", "lookup", "done"}
        BY <2>1, <2>2, <2>4, <2>5, <2>6, <2>7, <2>8, <2>n, <2>o, <3>1, <3>2, <4>5 DEF HeldIn
      <4> QED
        BY <2>n, <4>1, <4>2, <4>3, <4>4, <4>5
    <3>4. Cardinality(Places(p)) = 1
      BY <3>3, FS_Singleton
    <3> QED
      BY <2>10, <3>4 DEF Awaited, Submitted
  <2> QED
    BY <2>9, <2>10
<1> QED
  BY <1>1, PacketInvariant, PTL

----------------------------------------------------------------------------
(* What becomes of the packets *)

\* A packet that is given back was held for its client.
LEMMA ToldIsHeld ==
    ASSUME PacketInv, NEW P, NEW status, SendPacketCompletion(P, status),
           \A q \in Packets \cap P : \E m \in Names, u \in Owners : HeldIn(m, u, q)
    PROVE  \A q \in Packets : result'[q] = IF q \in P THEN status ELSE result[q]
<1>1. ASSUME NEW q \in Packets \cap P PROVE result[q] = "none"
  <2>1. PICK m \in Names, u \in Owners : HeldIn(m, u, q)
    BY <1>1
  <2> QED
    BY <2>1, HeldOnce DEF PacketInv, PlaceInv
<1> QED
  BY <1>1 DEF SendPacketCompletion

\* Whoever gives packets back holds them: a packet is told of once, and with these results.
LEMMA Told ==
    ASSUME PacketInv, [Next]_vars
    PROVE  \A q \in Packets :
               \/ result'[q] = result[q]
               \/ /\ result[q] = "none"
                  /\ \/ result'[q] = "error" /\ \E t \in Threads : pc[t] = "failBatch" /\ InQueue(sendQueue[t], q)
                     \/ result'[q] = "no_resource" /\ \E t \in Threads : callersQueue[t] = q
                     \/ result'[q] = "ok" /\ pc[Completer] = "complete" /\ netbuf = q /\ ~Compact
                     \/ result'[q] = "canceled" /\ InQueue(TxQueue, q)
<1>n. /\ {"queue", "batch", "caller", "done"} \subseteq Names
      /\ NoThread \in Owners /\ Threads \subseteq Owners /\ NoPacket \notin Packets
  BY ThreadFacts DEF Names
<1>1. ASSUME NEW t \in Threads, FailPacket(t)
      PROVE  \A q \in Packets : \/ result'[q] = result[q]
                                \/ /\ result[q] = "none" /\ result'[q] = "error"
                                   /\ pc[t] = "failBatch" /\ InQueue(sendQueue[t], q)
  <2>1. PICK b0 \in Seq(Packets) : b0 = sendQueue[t] /\ b0 # <<>>
    BY <1>1, PlaceTypes DEF FailPacket
  <2>2. NoRepeat(b0)
    BY <2>1 DEF PacketInv, PlaceInv, NoRepeats
  <2>3. InQueue(sendQueue[t], Head(b0))
    BY <2>1, <2>2, TailQueue
  <2>4. HeldIn("batch", t, Head(b0)) /\ pc[t] = "failBatch" /\ SendPacketCompletion({Head(b0)}, "error")
    BY <1>1, <2>1, <2>3 DEF HeldIn, FailPacket
  <2>5. \A q \in Packets \cap {Head(b0)} : \E m \in Names, u \in Owners : HeldIn(m, u, q)
    BY <1>n, <2>4
  <2>6. \A q \in Packets : result'[q] = IF q = Head(b0) THEN "error" ELSE result[q]
    BY <2>4, <2>5, ToldIsHeld
  <2>7. \A q \in Packets : q = Head(b0) => result[q] = "none"
    BY <1>n, <2>4, HeldOnce DEF PacketInv, PlaceInv
  <2> QED
    BY <2>3, <2>4, <2>6, <2>7
<1>2. ASSUME NEW t \in Threads, Return(t)
      PROVE  \A q \in Packets : \/ result'[q] = result[q]
                                \/ result[q] = "none" /\ result'[q] = "no_resource" /\ callersQueue[t] = q
  <2>1. SendPacketCompletion({callersQueue[t]} \ {NoPacket}, "no_resource")
    BY <1>2 DEF Return
  <2>2. \A q \in Packets : callersQueue[t] = q => HeldIn("caller", t, q)
    BY DEF HeldIn
  <2>3. \A q \in Packets \cap ({callersQueue[t]} \ {NoPacket}) : \E m \in Names, u \in Owners : HeldIn(m, u, q)
    BY <1>n, <2>2
  <2>4. \A q \in Packets : result'[q] = IF q \in {callersQueue[t]} \ {NoPacket} THEN "no_resource" ELSE result[q]
    BY <2>1, <2>3, ToldIsHeld
  <2>5. \A q \in Packets : callersQueue[t] = q => result[q] = "none"
    BY <1>n, <2>2, HeldOnce DEF PacketInv, PlaceInv
  <2> QED
    BY <2>4, <2>5
<1>3. ASSUME HTCTxCompletionHandler
      PROVE  \A q \in Packets : \/ result'[q] = result[q]
                                \/ /\ result[q] = "none" /\ result'[q] = "ok"
                                   /\ pc[Completer] = "complete" /\ netbuf = q /\ ~Compact
  <2>1. ~Compact /\ SendPacketCompletion(IF pc[Completer] = "complete" THEN {netbuf} ELSE {}, "ok")
    BY <1>3 DEF HTCTxCompletionHandler, PacketInv, PlaceInv, LookupOrder
  <2>2. CASE pc[Completer] = "complete"
    <3>1. HeldIn("done", NoThread, netbuf) /\ SendPacketCompletion({netbuf}, "ok")
      BY <2>1, <2>2 DEF HeldIn
    <3>2. \A q \in Packets : result'[q] = IF q \in {netbuf} THEN "ok" ELSE result[q]
      BY <1>n, <3>1, ToldIsHeld
    <3>3. \A q \in Packets : q = netbuf => result[q] = "none"
      BY <1>n, <3>1, HeldOnce DEF PacketInv, PlaceInv
    <3> QED
      BY <2>1, <2>2, <3>2, <3>3
  <2>3. CASE pc[Completer] # "complete"
    BY <2>1, <2>3 DEF SendPacketCompletion
  <2> QED
    BY <2>2, <2>3
<1>4. ASSUME HTCFlushEndpoint
      PROVE  \A q \in Packets : \/ result'[q] = result[q]
                                \/ result[q] = "none" /\ result'[q] = "canceled" /\ InQueue(TxQueue, q)
  <2>1. SendPacketCompletion(ToSet(TxQueue), "canceled")
    BY <1>4 DEF HTCFlushEndpoint, Flushed
  <2>2. \A q : q \in ToSet(TxQueue) <=> InQueue(TxQueue, q)
    BY DEF ToSet, InQueue
  <2>3. \A q \in Packets : InQueue(TxQueue, q) => HeldIn("queue", NoThread, q)
    BY DEF HeldIn
  <2>4. \A q \in Packets : result'[q] = IF q \in ToSet(TxQueue) THEN "canceled" ELSE result[q]
    BY <1>n, <2>1, <2>2, <2>3, ToldIsHeld
  <2>5. \A q \in Packets : InQueue(TxQueue, q) => result[q] = "none"
    BY <1>n, <2>3, HeldOnce DEF PacketInv, PlaceInv
  <2> QED
    BY <2>2, <2>4, <2>5
<1>5. ASSUME NEW t \in Threads, HTCTrySend(t) PROVE FailPacket(t) \/ Return(t) \/ UNCHANGED result
  <2>1. CASE \/ TestDepth(t) \/ AddDepth(t) \/ SendFull(t) \/ ReadResources(t) \/ Enter(t) \/ Relock(t)
             \/ BeginPass(t) \/ GetHTCAutoPmSendPackets(t) \/ TakePacket(t)
    BY <2>1 DEF TestDepth, AddDepth, SendFull, ReadResources, Enter, Relock, BeginPass,
                GetHTCAutoPmSendPackets, TakePacket, cliVars
  <2>2. CASE EndPass(t) \/ EndDrain(t) \/ StartIssue(t) \/ HIFSend(t) \/ HIFSendFailed(t) \/ EndIssue(t)
    BY <2>2 DEF EndPass, EndDrain, StartIssue, HIFSend, HIFSendFailed, EndIssue, cliVars
  <2> QED
    BY <1>5, <2>1, <2>2 DEF HTCTrySend
<1>6. ASSUME \/ \E t \in Senders, p \in Packets : HTCSendPkt(t, p)
             \/ SwallowCompletion \/ SendDone \/ HTCLookupTxPacket \/ Recycle \/ HTCProcessCreditRpt
             \/ TargetConsume \/ TargetReport \/ (\E p \in Packets : HttResponse(p))
             \/ PmCoreSuspend \/ RuntimeSuspend \/ RuntimeResume
             \/ HTCTxResumeAllHandler \/ UNCHANGED vars
      PROVE  UNCHANGED result
  BY <1>6 DEF HTCSendPkt, SwallowCompletion, SendDone, HTCLookupTxPacket, Recycle, HTCProcessCreditRpt,
              TargetConsume, TargetReport, HttResponse, PmCoreSuspend, RuntimeSuspend, RuntimeResume, SetPm,
              HTCTxResumeAllHandler, vars, cliVars
<1>7. CASE UNCHANGED result
  BY <1>7
<1>8. CASE \E t \in Threads : HTCTrySend(t)
  <2>1. PICK t \in Threads : HTCTrySend(t)
    BY <1>8
  <2> QED
    BY <1>1, <1>2, <1>5, <1>7, <2>1
<1>9. CASE HTCTxCompletionHandler
  BY <1>3, <1>9
<1>10. CASE HTCFlushEndpoint
  BY <1>4, <1>10
<1> QED
  BY <1>6, <1>7, <1>8, <1>9, <1>10 DEF Next, Completion

\* What became of the transfers: none is made twice, the target has consumed a part of them, and the
\* completed ones have been told of, except the one whose completion is being handled.
Completing == {"lookup", "complete"}
SentInv ==
    /\ NoRepeat(wire) /\ tgtDone <= Len(wire)
    /\ ~Compact =>
         /\ pc[Completer] # "notFound"
         /\ pc[Completer] \in Completing => hifDone > 0 /\ netbuf = wire[hifDone]
         /\ \A i \in 1..hifDone : i < hifDone \/ pc[Completer] \notin Completing => result[wire[i]] = "ok"

\* A step that completes nothing.
LEMMA SentKept ==
    ASSUME PacketInv, SentInv, [Next]_vars, UNCHANGED <<endpoint, wire>>, tgtDone' <= Len(wire),
           Compact \/ UNCHANGED hifDone,
           \/ UNCHANGED netbuf /\ pc'[Completer] = pc[Completer]
           \/ {pc[Completer], pc'[Completer]} \cap {"lookup", "complete", "notFound"} = {}
    PROVE  SentInv'
<1>1. \A i \in 1..hifDone : result[wire[i]] = "ok" => result'[wire[i]] = "ok"
  <2>1. \A i \in 1..hifDone : wire[i] \in Packets
    BY PlaceTypes DEF PacketInv, PlaceInv, LookupOrder
  <2> QED
    BY <2>1, Told
<1>2. UNCHANGED Compact
  BY DEF Compact
<1>3. CASE ~Compact
  <2>1. UNCHANGED <<wire, hifDone>> /\ ~Compact'
    BY <1>2, <1>3
  <2>2. pc'[Completer] # "notFound" /\ (pc'[Completer] \in Completing <=> pc[Completer] \in Completing)
        /\ (pc'[Completer] \in Completing => UNCHANGED netbuf)
    BY <1>3 DEF SentInv, Completing
  <2> QED
    BY <1>1, <1>3, <2>1, <2>2 DEF SentInv
<1> QED
  BY <1>2, <1>3 DEF SentInv

\* A packet that is being handed to HIF is not on the wire yet.
LEMMA IssuedIsApart ==
    ASSUME PacketInv, SentInv, NEW t \in Threads, pc[t] = "hifSend"
    PROVE  issuing[t] \in Packets /\ ~InQueue(wire, issuing[t])
<1>1. /\ issuing[t] \in Packets /\ LookupOrder /\ Counted
      /\ hifDone \in Nat /\ Len(wire) \in Nat /\ wire \in Seq(Packets)
  BY PlaceTypes DEF PacketInv, TypeInv, PacketInHand, PlaceInv
<1>2. PICK w \in Seq(Packets), p \in Packets : w = wire /\ p = issuing[t]
  BY <1>1
<1>3. {"wire", "issuing", "lookup", "done"} \subseteq Names /\ NoThread \in Owners /\ t \in Owners
  BY ThreadFacts DEF Names
<1>5. ~InQueue(w, p)
  <2>1. CASE Compact
    <3>1. HeldIn("issuing", t, p)
      BY <1>2, <2>1 DEF HeldIn
    <3>2. InQueue(w, p) => HeldIn("wire", NoThread, p)
      BY <1>2, <2>1 DEF HeldIn
    <3> QED
      BY <1>1, <1>3, <3>1, <3>2, HeldOnce
  <2>2. CASE ~Compact
    <3>1. /\ TxLookupQueue[Looked + OnWire + 1] = p /\ Len(TxLookupQueue) = Looked + OnWire + 1
          /\ DOMAIN TxLookupQueue = 1..Len(TxLookupQueue) /\ Looked \in 0..1 /\ OnWire = Len(wire) - hifDone
          /\ OnWire \in Nat /\ NoRepeat(TxLookupQueue)
      BY <1>1, <1>2, <2>2, OrderTypes DEF LookupOrder, PacketInv, PlaceInv, NoRepeats
    <3>2. HeldIn("lookup", NoThread, p)
      BY <2>2, <3>1 DEF HeldIn, InQueue
    <3>3. result[p] = "none" /\ ~HeldIn("done", NoThread, p)
      BY <1>1, <1>3, <3>2, HeldOnce
    <3>4. ASSUME NEW i \in DOMAIN w, w[i] = p PROVE FALSE
      <4>1. i \in 1..Len(wire) /\ i \in Nat
        BY <1>2
      <4>2. CASE i > hifDone
        <5>1. /\ i - hifDone \in 1..OnWire /\ Looked + (i - hifDone) \in DOMAIN TxLookupQueue
              /\ hifDone + (i - hifDone) = i /\ Looked + OnWire + 1 \in DOMAIN TxLookupQueue
              /\ Looked + (i - hifDone) # Looked + OnWire + 1
          <6>1. i - hifDone \in 1..OnWire /\ hifDone + (i - hifDone) = i
            BY <1>1, <3>1, <4>1, <4>2
          <6>2. /\ Looked + (i - hifDone) \in 1..(Looked + OnWire + 1)
                /\ Looked + (i - hifDone) # Looked + OnWire + 1
            BY <3>1, <6>1, AddWithin
          <6>3. Looked + OnWire + 1 \in 1..(Looked + OnWire + 1)
            BY <3>1
          <6> QED
            BY <3>1, <6>1, <6>2, <6>3
        <5>2. TxLookupQueue[Looked + (i - hifDone)] = wire[i]
          BY <1>1, <2>2, <5>1 DEF LookupOrder
        <5> QED
          BY <1>2, <3>1, <3>4, <5>1, <5>2 DEF NoRepeat
      <4>3. CASE i < hifDone
        BY <1>1, <1>2, <2>2, <3>3, <3>4, <4>1, <4>3 DEF SentInv
      <4>7. CASE i = hifDone /\ pc[Completer] \notin {"lookup", "complete"}
        BY <1>1, <1>2, <2>2, <3>3, <3>4, <4>1, <4>7 DEF SentInv, Completing
      <4>4. CASE i = hifDone /\ pc[Completer] = "complete"
        BY <1>2, <2>2, <3>3, <3>4, <4>4 DEF SentInv, Completing, HeldIn
      <4>5. CASE i = hifDone /\ pc[Completer] = "lookup"
        <5>1. TxLookupQueue[1] = p /\ Looked = 1
          BY <1>1, <1>2, <2>2, <3>4, <4>5 DEF SentInv, Completing, LookupOrder, Looked
        <5>2. 1 \in DOMAIN TxLookupQueue /\ 1 # Looked + OnWire + 1 /\ Looked + OnWire + 1 \in DOMAIN TxLookupQueue
          BY <3>1, <5>1
        <5> QED
          BY <3>1, <5>1, <5>2 DEF NoRepeat
      <4>6. i > hifDone \/ i < hifDone \/ i = hifDone
        BY <1>1, <4>1
      <4> QED
        BY <4>2, <4>3, <4>4, <4>5, <4>6, <4>7
    <3> QED
      BY <3>4 DEF InQueue
  <2> QED
    BY <2>1, <2>2
<1> QED
  BY <1>1, <1>2, <1>5

\* HIF gets a packet it never had.
LEMMA HIFSendSent ==
    ASSUME PacketInv, SentInv, NEW t \in Threads, HIFSend(t) PROVE SentInv'
<1>1. /\ pc[t] = "hifSend" /\ issuing[t] \in Packets /\ LookupOrder /\ Counted
      /\ hifDone \in Nat /\ Len(wire) \in Nat /\ wire \in Seq(Packets)
  BY PlaceTypes DEF HIFSend, PacketInv, TypeInv, PacketInHand, PlaceInv
<1>2. PICK w \in Seq(Packets), p \in Packets : w = wire /\ p = issuing[t] /\ wire' = Append(w, p)
  BY <1>1 DEF HIFSend
<1>3. /\ UNCHANGED <<endpoint, hifDone, netbuf, tgtDone, result>> /\ Goto(t, "issue")
      /\ {"wire", "issuing", "lookup", "done"} \subseteq Names /\ NoThread \in Owners /\ t \in Owners
  BY ThreadFacts DEF HIFSend, tgtVars, cliVars, Names
<1>4. UNCHANGED Compact /\ (pc'[Completer] = pc[Completer] \/ (pc[Completer] = "hifSend" /\ pc'[Completer] = "issue"))
  <2>1. pc'[t] = "issue" /\ \A u \in Threads : u # t => pc'[u] = pc[u]
    BY <1>3, OtherThreads
  <2>2. UNCHANGED Compact
    BY <1>3 DEF Compact
  <2>3. Completer \in Threads
    BY ThreadFacts
  <2> QED
    BY <1>1, <2>1, <2>2, <2>3
<1>5. ~InQueue(w, p)
  BY <1>1, <1>2, IssuedIsApart
<1>6. NoRepeat(wire')
  BY <1>2, <1>5, AppendQueue DEF SentInv
<1>7. /\ Len(wire') = Len(wire) + 1 /\ \A i \in 1..Len(wire) : wire'[i] = wire[i]
      /\ hifDone <= Len(wire)
  BY <1>1, <1>2 DEF LookupOrder
<1>8. tgtDone' <= Len(wire')
  BY <1>3, <1>1, <1>7 DEF SentInv, PacketInv, TypeInv, TypeOK, TargetTypeOK
<1>9. ~Compact => (pc'[Completer] \in Completing <=> pc[Completer] \in Completing) /\ pc'[Completer] # "notFound"
  BY <1>4 DEF Completing, SentInv
<1>10. \A i \in 1..hifDone : wire'[i] = wire[i]
  BY <1>1, <1>7
<1>11. hifDone > 0 => wire'[hifDone] = wire[hifDone]
  BY <1>1, <1>10
<1> QED
  BY <1>3, <1>4, <1>6, <1>8, <1>9, <1>10, <1>11 DEF SentInv

\* The copy engine completes the next transfer.
LEMMA SendDoneSent ==
    ASSUME PacketInv, SentInv, SendDone PROVE SentInv'
<1>1. /\ ~Compact /\ pc[Completer] = "idle" /\ hifDone' = hifDone + 1 /\ netbuf' = wire[hifDone + 1]
      /\ hifDone \in Nat /\ pc'[Completer] = "lookup"
      /\ UNCHANGED <<endpoint, wire, tgtDone, result>>
  BY PlaceTypes, ThreadFacts DEF SendDone, tgtVars, cliVars, Goto
<1>2. \A i \in 1..hifDone' : i < hifDone' => i \in 1..hifDone
  BY <1>1
<1>3. \A i \in 1..hifDone : result[wire[i]] = "ok"
  BY <1>1 DEF SentInv, Completing
<1>4. hifDone' > 0 /\ netbuf' = wire'[hifDone'] /\ pc'[Completer] \in Completing /\ pc'[Completer] # "notFound"
  BY <1>1 DEF Completing
<1> QED
  BY <1>1, <1>2, <1>3, <1>4 DEF SentInv, Compact

\* The lookup finds the packet.
LEMMA LookupSentInv ==
    ASSUME PacketInv, SentInv, HTCLookupTxPacket PROVE SentInv'
<1>1. /\ pc[Completer] = "lookup" /\ Contains(TxLookupQueue, netbuf)
      /\ UNCHANGED <<endpoint, wire, hifDone, netbuf, tgtDone, result>>
  <2>1. pc[Completer] = "lookup" /\ UNCHANGED <<endpoint, wire, hifDone, netbuf, tgtDone, result>>
    BY DEF HTCLookupTxPacket, hifVars, tgtVars, cliVars
  <2>2. TxLookupQueue # <<>> /\ TxLookupQueue[1] = netbuf /\ TxLookupQueue \in Seq(Packets)
    BY <2>1, PlaceTypes DEF PacketInv, PlaceInv, LookupOrder
  <2>3. 1 \in 1..Len(TxLookupQueue)
    BY <2>2
  <2> QED
    BY <2>1, <2>2, <2>3 DEF Contains
<1>2. pc'[Completer] = "complete"
  BY <1>1, PlaceTypes, ThreadFacts DEF HTCLookupTxPacket, Goto
<1> QED
  BY <1>1, <1>2 DEF SentInv, Completing, Compact

\* The client is told of the transfer.
LEMMA HandlerSent ==
    ASSUME PacketInv, SentInv, HTCTxCompletionHandler PROVE SentInv'
<1>1. ~Compact /\ pc[Completer] = "complete" /\ netbuf = wire[hifDone] /\ hifDone > 0
  <2>1. ~Compact
    BY DEF HTCTxCompletionHandler, PacketInv, PlaceInv, LookupOrder
  <2> QED
    BY <2>1 DEF HTCTxCompletionHandler, SentInv, Completing
<1>2. /\ pc'[Completer] \in {"recycle", "readResources"}
      /\ UNCHANGED <<endpoint, wire, hifDone, netbuf, tgtDone>>
      /\ hifDone \in Nat /\ hifDone <= Len(wire) /\ wire \in Seq(Packets)
  BY PlaceTypes, ThreadFacts DEF HTCTxCompletionHandler, Goto, hifVars, tgtVars, PacketInv, PlaceInv, LookupOrder
<1>3. HeldIn("done", NoThread, netbuf) /\ "done" \in Names /\ NoThread \in Owners
  BY <1>1, ThreadFacts DEF HeldIn, Names
<1>4. SendPacketCompletion({netbuf}, "ok")
  BY <1>1 DEF HTCTxCompletionHandler
<1>5. \A q \in Packets : result'[q] = IF q \in {netbuf} THEN "ok" ELSE result[q]
  BY <1>3, <1>4, ToldIsHeld
<1>6. ASSUME NEW i \in 1..hifDone PROVE result'[wire'[i]] = "ok"
  <2>1. wire[i] \in Packets /\ wire' = wire
    BY <1>2
  <2>2. CASE i = hifDone
    BY <1>1, <1>5, <2>1, <2>2
  <2>3. CASE i # hifDone
    <3>1. i < hifDone
      BY <1>2, <2>3
    <3>2. result[wire[i]] = "ok"
      BY <1>1, <3>1 DEF SentInv
    <3> QED
      BY <1>5, <2>1, <3>2
  <2> QED
    BY <2>2, <2>3
<1> QED
  BY <1>1, <1>2, <1>6 DEF SentInv, Completing, Compact

\* HTCTrySend touches neither the pipe nor the completion, apart from HIFSend.
LEMMA TrySendSent ==
    ASSUME PacketInv, SentInv, NEW t \in Threads, HTCTrySend(t) PROVE SentInv'
<1>0. [Next]_vars /\ Len(wire) \in Nat /\ tgtDone <= Len(wire)
  BY PlaceTypes DEF Next, SentInv
<1>1. CASE \/ TestDepth(t) \/ AddDepth(t) \/ SendFull(t) \/ ReadResources(t) \/ Enter(t) \/ Relock(t)
           \/ BeginPass(t) \/ GetHTCAutoPmSendPackets(t)
  <2>1. UNCHANGED <<endpoint, wire, hifDone, netbuf, tgtDone>>
    BY <1>1 DEF TestDepth, AddDepth, SendFull, ReadResources, Enter, Relock, BeginPass,
                GetHTCAutoPmSendPackets, hifVars, tgtVars
  <2>2. PICK label : Goto(t, label) /\ {pc[t], label} \cap {"lookup", "complete", "notFound"} = {}
    <3>1. CASE TestDepth(t) \/ AddDepth(t) \/ SendFull(t) \/ ReadResources(t)
      BY <3>1 DEF TestDepth, AddDepth, SendFull, ReadResources
    <3>2. CASE Enter(t) \/ Relock(t) \/ BeginPass(t) \/ GetHTCAutoPmSendPackets(t)
      BY <3>2 DEF Enter, Relock, BeginPass, GetHTCAutoPmSendPackets
    <3> QED
      BY <1>1, <3>1, <3>2
  <2>3. pc'[t] = label /\ \A u \in Threads : u # t => pc'[u] = pc[u]
    BY <2>2, OtherThreads
  <2> QED
    BY <1>0, <2>1, <2>2, <2>3, SentKept, ThreadFacts
<1>2. CASE EndPass(t) \/ EndDrain(t) \/ StartIssue(t) \/ HIFSendFailed(t) \/ EndIssue(t) \/ Return(t)
  <2>1. UNCHANGED <<endpoint, wire, hifDone, netbuf, tgtDone>>
    BY <1>2 DEF EndPass, EndDrain, StartIssue, HIFSendFailed, EndIssue, Return, hifVars, tgtVars
  <2>2. PICK label : Goto(t, label) /\ {pc[t], label} \cap {"lookup", "complete", "notFound"} = {}
    <3>1. CASE EndPass(t)
      BY <3>1 DEF EndPass
    <3>2. CASE EndDrain(t) \/ StartIssue(t) \/ HIFSendFailed(t) \/ EndIssue(t) \/ Return(t)
      BY <3>2 DEF EndDrain, StartIssue, HIFSendFailed, EndIssue, Return
    <3> QED
      BY <1>2, <3>1, <3>2
  <2>3. pc'[t] = label /\ \A u \in Threads : u # t => pc'[u] = pc[u]
    BY <2>2, OtherThreads
  <2> QED
    BY <1>0, <2>1, <2>2, <2>3, SentKept, ThreadFacts
<1>3. CASE TakePacket(t) \/ FailPacket(t)
  <2>1. UNCHANGED <<endpoint, wire, hifDone, netbuf, tgtDone, pc>>
    BY <1>3 DEF TakePacket, FailPacket, hifVars, tgtVars
  <2> QED
    BY <1>0, <2>1, SentKept
<1> QED
  BY <1>1, <1>2, <1>3, HIFSendSent DEF HTCTrySend

\* Every step keeps the account of the transfers.
LEMMA SentStep == PacketInv /\ SentInv /\ [Next]_vars => SentInv'
<1> SUFFICES ASSUME PacketInv, SentInv, [Next]_vars PROVE SentInv'
  OBVIOUS
<1>0. Len(wire) \in Nat /\ tgtDone \in Nat /\ tgtDone <= Len(wire)
  BY PlaceTypes DEF SentInv, PacketInv, TypeInv, TypeOK, TargetTypeOK
<1>1. ASSUME NEW t \in Senders, NEW p \in Packets, HTCSendPkt(t, p) PROVE SentInv'
  <2>1. UNCHANGED <<endpoint, wire, hifDone, netbuf, tgtDone>> /\ t # Completer /\ t \in Threads
    BY <1>1, ThreadFacts DEF HTCSendPkt, hifVars, tgtVars
  <2>2. PICK label : Goto(t, label)
    BY <1>1 DEF HTCSendPkt
  <2>3. pc'[Completer] = pc[Completer]
    BY <2>1, <2>2, OtherThreads, ThreadFacts
  <2> QED
    BY <1>0, <2>1, <2>3, SentKept
<1>2. CASE SwallowCompletion
  BY <1>0, <1>2, SentKept DEF SwallowCompletion, tgtVars
<1>3. CASE Recycle \/ HTCProcessCreditRpt
  <2>1. UNCHANGED <<endpoint, wire, hifDone, tgtDone>> /\ pc[Completer] \in {"recycle", "idle"}
    BY <1>3 DEF Recycle, HTCProcessCreditRpt, hifVars, tgtVars
  <2>2. PICK label \in {"idle", "readResources"} : Goto(Completer, label)
    BY <1>3 DEF Recycle, HTCProcessCreditRpt
  <2>3. pc'[Completer] \in {"idle", "readResources"}
    BY <2>2, OtherThreads, ThreadFacts
  <2> QED
    BY <1>0, <2>1, <2>3, SentKept
<1>4. CASE HTCTxResumeAllHandler
  <2>1. UNCHANGED <<endpoint, wire, hifDone, netbuf, tgtDone>> /\ Goto(Resumer, "readResources")
    BY <1>4 DEF HTCTxResumeAllHandler, hifVars, tgtVars
  <2>2. pc'[Completer] = pc[Completer]
    BY <2>1, OtherThreads, ThreadFacts
  <2> QED
    BY <1>0, <2>1, <2>2, SentKept
<1>5. CASE TargetConsume
  <2>1. UNCHANGED <<endpoint, wire, hifDone, netbuf, pc>> /\ tgtDone < Len(wire) /\ tgtDone' = tgtDone + 1
    BY <1>5 DEF TargetConsume, hifVars
  <2>2. tgtDone' <= Len(wire)
    BY <1>0, <2>1
  <2> QED
    BY <2>1, <2>2, SentKept
<1>6. CASE \/ (\E p \in Packets : HttResponse(p))
           \/ HTCFlushEndpoint \/ TargetReport \/ PmCoreSuspend \/ RuntimeSuspend \/ RuntimeResume
           \/ UNCHANGED vars
  <2>1. UNCHANGED <<endpoint, wire, hifDone, netbuf, pc, tgtDone>>
    BY <1>6 DEF HTCFlushEndpoint, TargetReport, HttResponse, PmCoreSuspend, RuntimeSuspend, RuntimeResume, SetPm, vars,
                hifVars, tgtVars
  <2> QED
    BY <1>0, <2>1, SentKept
<1> QED
  BY <1>1, <1>2, <1>3, <1>4, <1>5, <1>6, TrySendSent, SendDoneSent, LookupSentInv, HandlerSent
  DEF Next, Completion

\* HTCIssuePackets never hands HIF a packet twice, HTCLookupTxPacket finds the packet of every
\* completion, and once hif_completion_thread is done with a transfer the client has been told "ok".
THEOREM SentInvariant == Spec => []SentInv
<1>1. Init => SentInv
  BY ThreadFacts DEF Init, SentInv, NoRepeat, Completing
<1>2. PacketInv /\ SentInv /\ [Next]_vars => SentInv'
  BY SentStep
<1> QED
  BY <1>1, <1>2, PacketInvariant, PTL DEF Spec

\* A packet HIF has been given is in none of the queues before it.
LEMMA SentIsApart ==
    ASSUME PacketInv, SentInv, NEW q \in Packets, InQueue(wire, q)
    PROVE  /\ q \in Submitted
           /\ ~InQueue(TxQueue, q)
           /\ \A u \in Threads : /\ ~InQueue(tempQueue[u], q) /\ ~InQueue(sendQueue[u], q)
                                 /\ callersQueue[u] # q
<1>n. /\ {"queue", "temp", "batch", "caller", "wire", "lookup", "done"} \subseteq Names
      /\ NoThread \in Owners /\ Threads \subseteq Owners
  BY ThreadFacts DEF Names
<1>c. Counted
  BY DEF PacketInv, PlaceInv
<1>1. PICK i \in DOMAIN wire : wire[i] = q
  BY DEF InQueue
<1>2. /\ i \in 1..Len(wire) /\ hifDone \in Nat /\ hifDone <= Len(wire) /\ Len(wire) \in Nat
  BY PlaceTypes DEF PacketInv, PlaceInv, LookupOrder
<1>3. \/ result[q] = "ok"
      \/ \E m \in {"wire", "lookup", "done"} : HeldIn(m, NoThread, q)
  <2>1. CASE Compact
    BY <2>1 DEF HeldIn
  <2>2. CASE ~Compact /\ i > hifDone
    <3>1. /\ i - hifDone \in 1..OnWire /\ Looked + (i - hifDone) \in DOMAIN TxLookupQueue
          /\ hifDone + (i - hifDone) = i
      <4>1. /\ Looked \in 0..1 /\ OnWire = Len(wire) - hifDone /\ Len(TxLookupQueue) \in Nat
            /\ DOMAIN TxLookupQueue = 1..Len(TxLookupQueue) /\ Len(TxLookupQueue) >= Looked + OnWire
        BY <2>2, OrderTypes DEF PacketInv, PlaceInv, LookupOrder
      <4> QED
        BY <1>2, <2>2, <4>1
    <3>2. TxLookupQueue[Looked + (i - hifDone)] = wire[i]
      BY <2>2, <3>1 DEF PacketInv, PlaceInv, LookupOrder
    <3> QED
      BY <1>1, <2>2, <3>1, <3>2 DEF HeldIn, InQueue
  <2>3. CASE ~Compact /\ i = hifDone /\ pc[Completer] = "complete"
    BY <1>1, <2>3 DEF HeldIn, SentInv, Completing
  <2>4. CASE ~Compact /\ i = hifDone /\ pc[Completer] = "lookup"
    <3>1. TxLookupQueue # <<>> /\ TxLookupQueue[1] = q
      BY <1>1, <2>4 DEF SentInv, Completing, PacketInv, PlaceInv, LookupOrder
    <3>2. 1 \in DOMAIN TxLookupQueue
      BY <3>1, PlaceTypes
    <3> QED
      BY <2>4, <3>1, <3>2 DEF HeldIn, InQueue
  <2>5. CASE ~Compact /\ i < hifDone
    BY <1>1, <1>2, <2>5 DEF SentInv
  <2>6. CASE ~Compact /\ i = hifDone /\ pc[Completer] \notin {"lookup", "complete"}
    BY <1>1, <1>2, <2>6 DEF SentInv, Completing
  <2>7. i > hifDone \/ i < hifDone \/ i = hifDone
    BY <1>2
  <2> QED
    BY <2>1, <2>2, <2>3, <2>4, <2>5, <2>6, <2>7
<1>4. ASSUME NEW n \in {"queue", "temp", "batch", "caller"}, NEW u \in Owners, HeldIn(n, u, q) PROVE FALSE
  <2>1. n \in Names /\ n \notin {"wire", "lookup", "done"}
    BY <1>n
  <2>2. result[q] = "none" /\ \A k \in Names, v \in Owners : HeldIn(k, v, q) => k = n
    BY <1>4, <1>c, <2>1, HeldOnce
  <2> QED
    BY <1>3, <1>n, <2>1, <2>2
<1>5. q \in Submitted
  <2>1. seqOf[q] # -1
    BY <1>3, <1>c, <1>n DEF Counted, Awaited
  <2> QED
    BY <2>1 DEF Submitted
<1>6. ~InQueue(TxQueue, q)
  BY <1>4, <1>n DEF HeldIn
<1>7. ASSUME NEW u \in Threads
      PROVE  ~InQueue(tempQueue[u], q) /\ ~InQueue(sendQueue[u], q) /\ callersQueue[u] # q
  BY <1>4, <1>n DEF HeldIn
<1> QED
  BY <1>5, <1>6, <1>7

\* A packet that HTC holds outside the pipe may still go either way.
LEMMA HeldOpen ==
    ASSUME PacketInv, NEW q \in Packets, ~InQueue(wire, q), NEW m \in Names, NEW u \in Owners, HeldIn(m, u, q)
    PROVE  Contract!Open(q)
<1>1. Counted /\ \A i \in DOMAIN wire : wire[i] # q
  BY DEF PacketInv, PlaceInv, InQueue
<1>2. result[q] = "none" /\ seqOf[q] # -1
  BY <1>1 DEF Counted, Awaited
<1> QED
  BY <1>1, <1>2 DEF Contract!Open, Submitted

\* What HIFSend_head puts on the wire had not been sent or given back.
LEMMA HIFSendKeeps ==
    ASSUME PacketInv, SentInv, NEW t \in Threads, HIFSend(t) PROVE \E p \in Packets : Contract!Send(p)
<1>1. /\ pc[t] = "hifSend" /\ issuing[t] \in Packets /\ ~InQueue(wire, issuing[t])
  BY IssuedIsApart DEF HIFSend
<1>2. /\ {"issuing", "lookup"} \subseteq Names /\ t \in Owners /\ NoThread \in Owners
  BY ThreadFacts DEF Names
<1>3. HeldIn("issuing", t, issuing[t]) \/ HeldIn("lookup", NoThread, issuing[t])
  <2>1. CASE Compact
    BY <2>1 DEF HeldIn
  <2>2. CASE ~Compact
    <3>1. /\ Looked + OnWire + 1 \in DOMAIN TxLookupQueue
          /\ TxLookupQueue[Looked + OnWire + 1] = issuing[t]
      BY <1>1, <2>2, OrderTypes DEF PacketInv, PlaceInv, LookupOrder
    <3> QED
      BY <2>2, <3>1 DEF HeldIn, InQueue
  <2> QED
    BY <2>1, <2>2
<1>4. Contract!Open(issuing[t])
  BY <1>1, <1>2, <1>3, HeldOpen
<1>5. wire' = Append(wire, issuing[t]) /\ UNCHANGED <<seqOf, hifDone, result>>
  BY DEF HIFSend, pktVars, cliVars
<1> QED
  BY <1>1, <1>4, <1>5 DEF Contract!Send, Submitted

\* HTCTxCompletionHandler gives back the oldest transfer its client does not know of.
LEMMA HandlerKeeps ==
    ASSUME PacketInv, SentInv, HTCTxCompletionHandler PROVE \E i \in 1 .. hifDone : Contract!GiveBack(i)
<1>1. ~Compact /\ pc[Completer] = "complete" /\ netbuf = wire[hifDone] /\ hifDone > 0
  <2>1. ~Compact
    BY DEF HTCTxCompletionHandler, PacketInv, PlaceInv, LookupOrder
  <2> QED
    BY <2>1 DEF HTCTxCompletionHandler, SentInv, Completing
<1>2. /\ hifDone \in Nat /\ hifDone <= Len(wire) /\ wire \in Seq(Packets)
      /\ result \in [Packets -> Results] /\ UNCHANGED <<seqOf, wire, hifDone>>
  BY PlaceTypes DEF HTCTxCompletionHandler, PacketInv, TypeInv, TypeOK, ClientTypeOK, PlaceInv, LookupOrder,
                    pktVars, hifVars
<1>3. hifDone \in 1 .. hifDone /\ netbuf \in Packets
  BY <1>1, <1>2
<1>4. HeldIn("done", NoThread, netbuf) /\ "done" \in Names /\ NoThread \in Owners
  BY <1>1, ThreadFacts DEF HeldIn, Names
<1>5. SendPacketCompletion({netbuf}, "ok")
  BY <1>1 DEF HTCTxCompletionHandler
<1>6. \A q \in Packets : result'[q] = IF q = netbuf THEN "ok" ELSE result[q]
  <2>1. \A q \in Packets : result'[q] = IF q \in {netbuf} THEN "ok" ELSE result[q]
    BY <1>4, <1>5, ToldIsHeld
  <2> QED
    BY <2>1
<1>7. result' = [result EXCEPT ![netbuf] = "ok"]
  <2>1. result' = [p \in Packets |-> result'[p]]
    BY <1>5 DEF SendPacketCompletion
  <2> QED
    BY <1>2, <1>6, <2>1
<1>8. result[netbuf] = "none"
  BY <1>3, <1>4, HeldOnce DEF PacketInv, PlaceInv
<1>9. \A j \in 1 .. hifDone - 1 : result[wire[j]] = "ok"
  BY <1>1, <1>2 DEF SentInv
<1> QED
  BY <1>1, <1>2, <1>3, <1>7, <1>8, <1>9 DEF Contract!GiveBack, Submitted

\* What is completed with an error was never sent.
LEMMA GivenUp ==
    ASSUME PacketInv, SentInv, NEW P \in SUBSET Packets, NEW reason \in {"error", "no_resource", "canceled"},
           SendPacketCompletion(P, reason), UNCHANGED <<seqOf, wire, hifDone>>,
           \A q \in P : ~InQueue(wire, q) /\ \E m \in Names, u \in Owners : HeldIn(m, u, q)
    PROVE  Contract!GiveUp(P, reason)
<1>1. \A q \in P : Contract!Open(q)
  BY HeldOpen
<1>2. \A q \in Packets : result'[q] = IF q \in P THEN reason ELSE result[q]
  BY ToldIsHeld
<1>3. result' = [p \in Packets |-> IF p \in P THEN reason ELSE result[p]]
  <2>1. result' = [p \in Packets |-> result'[p]]
    BY DEF SendPacketCompletion
  <2> QED
    BY <1>2, <2>1
<1> QED
  BY <1>1, <1>3 DEF Contract!GiveUp, Submitted

LEMMA FailPacketKeeps ==
    ASSUME PacketInv, SentInv, NEW t \in Threads, FailPacket(t)
    PROVE  \E P \in SUBSET Packets : Contract!GiveUp(P, "error")
<1>1. PICK b0 \in Seq(Packets) : b0 = sendQueue[t] /\ b0 # <<>>
  BY PlaceTypes DEF FailPacket
<1>2. InQueue(sendQueue[t], Head(b0)) /\ Head(b0) \in Packets
  <2>1. NoRepeat(b0)
    BY <1>1 DEF PacketInv, PlaceInv, NoRepeats
  <2> QED
    BY <1>1, <2>1, TailQueue
<1>3. ~InQueue(wire, Head(b0))
  BY <1>2, SentIsApart
<1>4. HeldIn("batch", t, Head(b0)) /\ "batch" \in Names /\ t \in Owners
  BY <1>2, ThreadFacts DEF HeldIn, Names
<1>5. SendPacketCompletion({Head(b0)}, "error") /\ UNCHANGED <<seqOf, wire, hifDone>>
  BY <1>1 DEF FailPacket, pktVars, hifVars
<1>6. {Head(b0)} \in SUBSET Packets
  BY <1>2
<1>7. Contract!GiveUp({Head(b0)}, "error")
  BY <1>3, <1>4, <1>5, <1>6, GivenUp
<1> QED
  BY <1>6, <1>7

LEMMA ReturnKeeps ==
    ASSUME PacketInv, SentInv, NEW t \in Threads, Return(t)
    PROVE  \E P \in SUBSET Packets : Contract!GiveUp(P, "no_resource")
<1> DEFINE P == {callersQueue[t]} \ {NoPacket}
<1>1. P \in SUBSET Packets
  BY PlaceTypes
<1>2. SendPacketCompletion(P, "no_resource") /\ UNCHANGED <<seqOf, wire, hifDone>>
  BY DEF Return, pktVars, hifVars
<1>3. "caller" \in Names /\ t \in Owners
  BY ThreadFacts DEF Names
<1>4. \A q \in P : ~InQueue(wire, q) /\ HeldIn("caller", t, q)
  BY <1>1, SentIsApart DEF HeldIn
<1> HIDE DEF P
<1>5. Contract!GiveUp(P, "no_resource")
  BY <1>1, <1>2, <1>3, <1>4, GivenUp
<1> QED
  BY <1>1, <1>5

LEMMA FlushKeeps ==
    ASSUME PacketInv, SentInv, HTCFlushEndpoint
    PROVE  \E P \in SUBSET Packets : Contract!GiveUp(P, "canceled")
<1> DEFINE P == ToSet(TxQueue)
<1>1. \A q \in P : InQueue(TxQueue, q)
  BY DEF ToSet, InQueue
<1>2. P \in SUBSET Packets
  BY PlaceTypes DEF ToSet
<1>3. SendPacketCompletion(P, "canceled") /\ UNCHANGED <<seqOf, wire, hifDone>>
  BY DEF HTCFlushEndpoint, Flushed, pktVars, hifVars
<1>4. "queue" \in Names /\ NoThread \in Owners
  BY ThreadFacts DEF Names
<1>5. \A q \in P : ~InQueue(wire, q) /\ HeldIn("queue", NoThread, q)
  BY <1>1, <1>2, SentIsApart DEF HeldIn
<1> HIDE DEF P
<1>6. Contract!GiveUp(P, "canceled")
  BY <1>2, <1>3, <1>4, <1>5, GivenUp
<1> QED
  BY <1>2, <1>6

\* Every step of the endpoint is a step of the contract, or changes nothing a client can tell.
LEMMA ContractStep ==
    PacketInv /\ SentInv /\ [Next]_vars => [Contract!ContractNext]_(Contract!contractVars)
<1> SUFFICES ASSUME PacketInv, SentInv, [Next]_vars
             PROVE  Contract!ContractNext \/ UNCHANGED <<Submitted, wire, hifDone, result>>
  BY DEF Contract!contractVars
<1>1. ASSUME NEW t \in Senders, NEW p \in Packets, HTCSendPkt(t, p) PROVE Contract!Hand(p)
  <2>1. p \notin Submitted /\ seqOf' = [seqOf EXCEPT ![p] = SeqNo] /\ UNCHANGED <<wire, hifDone, result>>
    BY <1>1 DEF HTCSendPkt, hifVars
  <2>2. seqOf \in [Packets -> -1..255] /\ SeqNo \in 0..255
    BY DEF PacketInv, TypeInv, TypeOK, PktTypeOK, EpTypeOK
  <2>3. Submitted' = Submitted \cup {p}
    BY <2>1, <2>2 DEF Submitted
  <2> QED
    BY <2>1, <2>3 DEF Contract!Hand
<1>2. ASSUME SwallowCompletion \/ SendDone PROVE Contract!Transfer
  BY <1>2 DEF SwallowCompletion, SendDone, pktVars, cliVars, Contract!Transfer, Submitted
<1>3. ASSUME NEW t \in Threads, HTCTrySend(t)
      PROVE  FailPacket(t) \/ Return(t) \/ HIFSend(t) \/ UNCHANGED <<seqOf, wire, hifDone, result>>
  <2>1. CASE \/ TestDepth(t) \/ AddDepth(t) \/ SendFull(t) \/ ReadResources(t) \/ Enter(t) \/ Relock(t)
             \/ BeginPass(t) \/ GetHTCAutoPmSendPackets(t) \/ TakePacket(t)
    BY <2>1 DEF TestDepth, AddDepth, SendFull, ReadResources, Enter, Relock, BeginPass,
                GetHTCAutoPmSendPackets, TakePacket, pktVars, hifVars, cliVars
  <2>2. CASE EndPass(t) \/ EndDrain(t) \/ StartIssue(t) \/ HIFSendFailed(t) \/ EndIssue(t)
    BY <2>2 DEF EndPass, EndDrain, StartIssue, HIFSendFailed, EndIssue, pktVars, hifVars, cliVars
  <2> QED
    BY <1>3, <2>1, <2>2 DEF HTCTrySend
<1>4. ASSUME \/ HTCLookupTxPacket \/ Recycle \/ HTCProcessCreditRpt \/ TargetConsume \/ TargetReport
             \/ (\E p \in Packets : HttResponse(p))
             \/ PmCoreSuspend \/ RuntimeSuspend \/ RuntimeResume \/ HTCTxResumeAllHandler \/ UNCHANGED vars
      PROVE  UNCHANGED <<seqOf, wire, hifDone, result>>
  BY <1>4 DEF HTCLookupTxPacket, Recycle, HTCProcessCreditRpt, TargetConsume, TargetReport, HttResponse, PmCoreSuspend,
              RuntimeSuspend, RuntimeResume, SetPm, HTCTxResumeAllHandler, vars, pktVars, hifVars, cliVars
<1>5. CASE UNCHANGED <<seqOf, wire, hifDone, result>>
  BY <1>5 DEF Submitted
<1>6. CASE \E t \in Senders, p \in Packets : HTCSendPkt(t, p)
  BY <1>1, <1>6 DEF Contract!ContractNext
<1>7. CASE SwallowCompletion \/ SendDone
  BY <1>2, <1>7 DEF Contract!ContractNext
<1>8. CASE \E t \in Threads : FailPacket(t) \/ Return(t) \/ HIFSend(t)
  BY <1>8, FailPacketKeeps, ReturnKeeps, HIFSendKeeps DEF Contract!ContractNext
<1>9. CASE HTCTxCompletionHandler
  BY <1>9, HandlerKeeps DEF Contract!ContractNext
<1>10. CASE HTCFlushEndpoint
  BY <1>10, FlushKeeps DEF Contract!ContractNext
<1> QED
  BY <1>3, <1>4, <1>5, <1>6, <1>7, <1>8, <1>9, <1>10 DEF Next, Completion

\* HTC keeps its promise to the clients of an endpoint, however many they are and whatever HIF, the target
\* and the PM core do.
THEOREM KeepsContractAlways == Spec => KeepsContract
<1>1. Init => Contract!ContractInit
  BY DEF Init, Contract!ContractInit, Submitted
<1>2. PacketInv /\ SentInv /\ [Next]_vars => [Contract!ContractNext]_(Contract!contractVars)
  BY ContractStep
<1> QED
  BY <1>1, <1>2, PacketInvariant, SentInvariant, PTL DEF Spec, KeepsContract, Contract!ContractSpec
=============================================================================
