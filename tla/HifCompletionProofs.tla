------------------------ MODULE HifCompletionProofs ------------------------
(***************************************************************************)
(* Three results about HIF's completion processing, for any finite set of  *)
(* contexts, any pipes and rings of any size.                              *)
(*                                                                         *)
(* OneInstance is not inductive: it says nothing about hif_thread_idle.    *)
(* The contexts that have decremented the counter and not yet incremented  *)
(* it again are the one inside and the unlucky ones on their way out; the  *)
(* counter is at most 1 minus their number (less when a reset target made  *)
(* an instance return without its increment).  A context is admitted only  *)
(* if the counter was 1, so nobody was between decrement and increment.    *)
(*                                                                         *)
(* SlotInv: a completion state is free or holds a transfer                 *)
(* (StatesConserved), an entry of a send ring is allowed to senders, in    *)
(* the ring or holds a state (SendsConserved), and a context has a         *)
(* transfer in hand exactly where its label says so (LocalOK).  With       *)
(* OneInstance, the ring's entries leave a state free for each reap.       *)
(*                                                                         *)
(* OrderInv: the transfer in hand is the next of its pipe; those waiting   *)
(* have been reaped, stand in order and none is missing; what a context    *)
(* has reaped and not yet queued comes after all that is queued.           *)
(***************************************************************************)
EXTENDS HifCompletion, FiniteSetTheorems, SequenceTheorems, TLAPS

\* the contexts between the decrement of hif_thread_idle and its increment
Entered == {c \in Contexts : pc[c] \in Inside \cup {"unlucky"}}

\* the part of the type invariant the argument needs
CounterTypeOK == hif_thread_idle \in Int /\ pc \in [Contexts -> Labels]

\* at most 1 minus the number of contexts that hold a decrement
CounterBound == hif_thread_idle + Cardinality(Entered) <= 1

OneInstanceInv == CounterTypeOK /\ CounterBound /\ OneInstance

\* Entered is finite, so its cardinality is a number.
LEMMA EnteredFinite == IsFiniteSet(Entered) /\ Cardinality(Entered) \in Nat
<1>1. IsFiniteSet(Entered)
  BY ContextAssumption, FS_Subset DEF Entered
<1> QED
  BY <1>1, FS_CardinalityType

\* A step that moves one context and keeps it on its side of the counter keeps Entered.
LEMMA MoveKeepsEntered ==
    ASSUME NEW c \in Contexts, NEW label \in Labels, CounterTypeOK, Goto(c, label),
           pc[c] \in Inside \cup {"unlucky"} <=> label \in Inside \cup {"unlucky"}
    PROVE  Entered' = Entered
  BY DEF Entered, Goto, CounterTypeOK

\* A context that takes the decrement joins Entered, one that returns leaves it.
LEMMA MoveChangesEntered ==
    ASSUME NEW c \in Contexts, NEW label \in Labels, CounterTypeOK, Goto(c, label)
    PROVE  /\ (/\ pc[c] \notin Inside \cup {"unlucky"}
               /\ label \in Inside \cup {"unlucky"})
              => Cardinality(Entered') = Cardinality(Entered) + 1
           /\ (/\ pc[c] \in Inside \cup {"unlucky"}
               /\ label \notin Inside \cup {"unlucky"})
              => Cardinality(Entered') = Cardinality(Entered) - 1
<1>1. CASE pc[c] \notin Inside \cup {"unlucky"} /\ label \in Inside \cup {"unlucky"}
  <2>1. Entered' = Entered \cup {c} /\ c \notin Entered
    BY <1>1 DEF Entered, Goto, CounterTypeOK
  <2> QED
    BY <1>1, <2>1, EnteredFinite, FS_AddElement
<1>2. CASE pc[c] \in Inside \cup {"unlucky"} /\ label \notin Inside \cup {"unlucky"}
  <2>1. Entered' = Entered \ {c} /\ c \in Entered
    BY <1>2 DEF Entered, Goto, CounterTypeOK
  <2> QED
    BY <1>2, <2>1, EnteredFinite, FS_RemoveElement
<1> QED
  BY <1>1, <1>2

\* Nothing but a move into Inside can break OneInstance.
LEMMA OneInstanceKept ==
    ASSUME NEW c \in Contexts, NEW label \in Labels, CounterTypeOK, OneInstance, Goto(c, label),
           label \in Inside => pc[c] \in Inside
    PROVE  OneInstance'
  BY DEF OneInstance, Goto, CounterTypeOK

\* Every step keeps the counter argument.
LEMMA OneInstanceStep == OneInstanceInv /\ [Next]_vars => OneInstanceInv'
<1> SUFFICES ASSUME OneInstanceInv, [Next]_vars PROVE OneInstanceInv'
  OBVIOUS
<1> USE DEF OneInstanceInv
<1>a. Cardinality(Entered) \in Nat
  BY EnteredFinite
<1>u. ASSUME UNCHANGED <<hif_thread_idle, pc>> PROVE OneInstanceInv'
  BY <1>u DEF CounterTypeOK, CounterBound, OneInstance, Entered
\* a context moves without touching the counter, on its side of it
<1>m. ASSUME NEW c \in Contexts, NEW label \in Labels, Goto(c, label), UNCHANGED hif_thread_idle,
             pc[c] \in Inside \cup {"unlucky"} <=> label \in Inside \cup {"unlucky"},
             label \in Inside => pc[c] \in Inside
      PROVE  OneInstanceInv'
  <2>1. Entered' = Entered
    BY <1>m, MoveKeepsEntered
  <2>2. OneInstance'
    BY <1>m, OneInstanceKept
  <2>3. CounterTypeOK'
    BY <1>m DEF CounterTypeOK, Goto
  <2> QED
    BY <1>m, <2>1, <2>2, <2>3 DEF CounterBound
\* a context returns: with its increment, or without it from a reset target
<1>r. ASSUME NEW c \in Contexts, Goto(c, "idle"), pc[c] \in Inside \cup {"unlucky"},
             hif_thread_idle' \in {hif_thread_idle, hif_thread_idle + 1}
      PROVE  OneInstanceInv'
  <2>1. "idle" \in Labels /\ "idle" \notin Inside \cup {"unlucky"}
    BY DEF Labels, Inside
  <2>2. Cardinality(Entered') = Cardinality(Entered) - 1
    BY <1>r, <2>1, MoveChangesEntered
  <2>3. OneInstance'
    BY <1>r, <2>1, OneInstanceKept
  <2>4. CounterTypeOK'
    BY <1>r, <2>1 DEF CounterTypeOK, Goto
  <2>5. hif_thread_idle \in Int
    BY DEF CounterTypeOK
  <2>6. CounterBound'
    BY <1>r, <1>a, <2>2, <2>5 DEF CounterBound
  <2> QED
    BY <2>3, <2>4, <2>6
<1>1. ASSUME NEW p \in Pipes, HIFSend_head(p) \/ CopyEngine(p) PROVE OneInstanceInv'
  BY <1>1, <1>u DEF HIFSend_head, CopyEngine, queueVars
<1>2. CASE HIF_fw_interrupt_handler
  BY <1>2, <1>m, ContextAssumption
     DEF HIF_fw_interrupt_handler, queueVars, Labels, Inside
<1>3. ASSUME NEW c \in Contexts, NEW p \in Pipes, Reap(c, p) PROVE OneInstanceInv'
  BY <1>3, <1>m DEF Reap, queueVars, Labels, Inside
<1>4. ASSUME NEW c \in Contexts, NEW p \in Pipes, PostBuffer(c, p) PROVE OneInstanceInv'
  BY <1>4, <1>u DEF PostBuffer, queueVars
<1>5. ASSUME NEW c \in Contexts, Enqueue(c) PROVE OneInstanceInv'
  BY <1>5, <1>m DEF Enqueue, Labels, Inside
<1>6. ASSUME NEW c \in Contexts, DecAndTest(c) PROVE OneInstanceInv'
  <2> DEFINE label == IF IsLucky THEN "fwEvent" ELSE "unlucky"
  <2>1. label \in Labels /\ label \in Inside \cup {"unlucky"}
    BY DEF Labels, Inside
  <2>2. pc[c] \notin Inside \cup {"unlucky"}
    BY <1>6 DEF DecAndTest, Inside
  <2>3. Goto(c, label)
    BY <1>6 DEF DecAndTest
  <2>4. Cardinality(Entered') = Cardinality(Entered) + 1
    BY <2>1, <2>2, <2>3, MoveChangesEntered
  <2>5. CounterTypeOK'
    BY <1>6, <2>1, <2>3 DEF CounterTypeOK, Goto, DecAndTest
  <2>6. CounterBound'
    BY <1>6, <1>a, <2>4 DEF CounterBound, CounterTypeOK, DecAndTest
  <2>7. CASE IsLucky
    <3>1. Cardinality(Entered) = 0
      BY <1>a, <2>7 DEF IsLucky, CounterBound, CounterTypeOK
    <3>2. Entered = {}
      BY <3>1, EnteredFinite, FS_EmptySet
    <3>3. \A b \in Contexts : pc[b] \notin Inside
      BY <3>2 DEF Entered
    <3>4. OneInstance'
      BY <2>3, <3>3 DEF OneInstance, Goto, CounterTypeOK
    <3> QED
      BY <2>5, <2>6, <3>4
  <2>8. CASE ~IsLucky
    <3>1. label \notin Inside
      BY <2>8 DEF Inside
    <3>2. OneInstance'
      BY <2>1, <2>3, <3>1, OneInstanceKept
    <3> QED
      BY <2>5, <2>6, <3>2
  <2> QED
    BY <2>7, <2>8
<1>7. ASSUME NEW c \in Contexts, Unlucky(c) PROVE OneInstanceInv'
  BY <1>7, <1>r DEF Unlucky
<1>8. ASSUME NEW c \in Contexts, FwEvent(c) PROVE OneInstanceInv'
  BY <1>8, <1>u DEF FwEvent, queueVars
<1>9. ASSUME NEW c \in Contexts, EndFwEvents(c) PROVE OneInstanceInv'
  <2>1. CASE target_status = "RESET"
    BY <1>9, <2>1, <1>r DEF EndFwEvents, queueVars, Inside
  <2>2. CASE target_status # "RESET"
    BY <1>9, <2>2, <1>m DEF EndFwEvents, queueVars, Labels, Inside
  <2> QED
    BY <2>1, <2>2
<1>10. ASSUME NEW c \in Contexts, Dequeue(c) PROVE OneInstanceInv'
  BY <1>10, <1>m DEF Dequeue, Labels, Inside
<1>11. ASSUME NEW c \in Contexts, Leave(c) PROVE OneInstanceInv'
  BY <1>11, <1>r DEF Leave, Inside
<1>12. ASSUME NEW c \in Contexts, NeedBuffer(c) PROVE OneInstanceInv'
  BY <1>12, <1>m DEF NeedBuffer, queueVars, Labels, Inside
<1>13. ASSUME NEW c \in Contexts, EndPost(c) PROVE OneInstanceInv'
  BY <1>13, <1>m DEF EndPost, queueVars, Labels, Inside
<1>14. ASSUME NEW c \in Contexts, Callback(c) PROVE OneInstanceInv'
  BY <1>14, <1>m DEF Callback, queueVars, Labels, Inside
<1>15. ASSUME NEW c \in Contexts, Recycle(c) PROVE OneInstanceInv'
  BY <1>15, <1>m DEF Recycle, queueVars, Labels, Inside
<1>16. CASE UNCHANGED vars
  BY <1>16, <1>u DEF vars, queueVars
<1> QED
  BY <1>1, <1>2, <1>3, <1>4, <1>5, <1>6, <1>7, <1>8, <1>9, <1>10, <1>11, <1>12, <1>13, <1>14,
     <1>15, <1>16 DEF Next, Context

\* "Allow only one instance of the thread to execute at a time": in every behaviour, whatever
\* the number of contexts, pipes and ring entries, at most one context is past the test of
\* hif_thread_idle.
THEOREM OneInstanceAlways == Spec => []OneInstance
<1>1. Init => OneInstanceInv
  <2> SUFFICES ASSUME Init PROVE OneInstanceInv
    OBVIOUS
  <2>1. CounterTypeOK /\ OneInstance
    BY DEF Init, CounterTypeOK, OneInstance, Labels, Inside
  <2>2. Entered = {}
    BY DEF Init, Entered, Inside
  <2>3. CounterBound
    BY <2>2, FS_EmptySet DEF Init, CounterBound
  <2> QED
    BY <2>1, <2>3 DEF OneInstanceInv
<1>2. OneInstanceInv => OneInstance
  BY DEF OneInstanceInv
<1> QED
  BY <1>1, <1>2, OneInstanceStep, PTL DEF Spec

----------------------------------------------------------------------------
(* Completion states and receive slots                                     *)

Transfers == Pipes \X Nat

SlotTypeOK ==
    /\ completion_pendingq \in Seq(Transfers)
    /\ completion_freeq \in [Pipes -> Int]
    /\ num_sends_allowed \in [SendPipes -> Nat] /\ recv_bufs_needed \in [RecvPipes -> Nat]
    /\ pc \in [Contexts -> Labels]
    /\ compl_queue \in [Contexts -> Seq(Transfers)] /\ compl_state \in [Contexts -> Seq(Transfers)]
    /\ ring \in [Pipes -> Nat] /\ done \in [Pipes -> Nat] /\ reaped \in [Pipes -> Nat]
    /\ handled \in [Pipes -> Nat]

\* A context has a local queue only between its reaping and the enqueuing, and a completion state
\* in its hands only while it processes it; only received messages need a buffer.
Processing == {"needBuffer", "post", "callback", "recycle"}
LocalOK ==
    \A c \in Contexts :
        /\ pc[c] # "enqueue" => compl_queue[c] = <<>>
        /\ IF pc[c] \in Processing
           THEN \E t \in Transfers : compl_state[c] = <<t>>
           ELSE compl_state[c] = <<>>
        /\ pc[c] \in {"needBuffer", "post"} => PipeOf(c) \in RecvPipes

\* A completion state of a pipe is free or holds a transfer.
StatesConserved == \A p \in Pipes : completion_freeq[p] + InHif(p) = Entries

\* An entry of a send pipe that is not allowed to a sender is in the ring or holds a state.
SendsConserved ==
    \A p \in SendPipes : num_sends_allowed[p] + ring[p] + done[p] + InHif(p) = Entries - 1

SlotInv ==
    SlotTypeOK /\ LocalOK /\ StatesConserved /\ SendsConserved /\ ReceiveSlotsConserved

----------------------------------------------------------------------------
(* Order                                                                   *)

\* The context inside counts its transfer as handled when the handler of HTC has returned.
InHand == {"needBuffer", "post", "callback"}
Ahead(p) == \E c \in Contexts : pc[c] \in InHand /\ PipeOf(c) = p
LastTaken(p) == handled[p] + (IF Ahead(p) THEN 1 ELSE 0)

\* The transfer in the hands of a context is the next one of its pipe.
NextInHand ==
    /\ \A c \in Contexts : pc[c] \in InHand => compl_state[c][1][2] = handled[PipeOf(c)] + 1
    /\ \A p \in Pipes : LastTaken(p) <= reaped[p]

\* Waiting transfers have been reaped and not been taken, in this order.
InRange(q) == \A i \in DOMAIN q : LastTaken(q[i][1]) < q[i][2] /\ q[i][2] <= reaped[q[i][1]]
Increasing(q) == \A i, j \in DOMAIN q : i < j /\ q[i][1] = q[j][1] => q[i][2] < q[j][2]

WaitingInOrder ==
    /\ InRange(completion_pendingq) /\ Increasing(completion_pendingq)
    /\ \A c \in Contexts :
          /\ InRange(compl_queue[c]) /\ Increasing(compl_queue[c])
          /\ \A i \in DOMAIN compl_queue[c] :
                /\ Serves(c, compl_queue[c][i][1])
                /\ \A j \in DOMAIN completion_pendingq :
                      completion_pendingq[j][1] = compl_queue[c][i][1] =>
                          completion_pendingq[j][2] < compl_queue[c][i][2]

\* None is missing.
NoneMissing ==
    \A p \in Pipes : \A n \in Nat :
        LastTaken(p) < n /\ n <= reaped[p] =>
            \/ \E i \in DOMAIN completion_pendingq : completion_pendingq[i] = <<p, n>>
            \/ \E c \in Contexts : \E i \in DOMAIN compl_queue[c] : compl_queue[c][i] = <<p, n>>

OrderInv == NextInHand /\ WaitingInOrder /\ NoneMissing /\ lateOrEarly = FALSE

----------------------------------------------------------------------------
(* Counting                                                                *)

Queues == Seq(Transfers)

\* A queue has finitely many places.
LEMMA PlacesFinite ==
    ASSUME NEW q \in Queues, NEW p
    PROVE  /\ IsFiniteSet(Places(q, p)) /\ Cardinality(Places(q, p)) \in Nat
           /\ Places(q, p) \subseteq 1..Len(q) /\ Len(q) \in Nat
<1>1. Places(q, p) \subseteq 1..Len(q) /\ Len(q) \in Nat
  BY DEF Queues, Places
<1>2. IsFiniteSet(1..Len(q))
  BY <1>1, FS_Interval
<1>3. IsFiniteSet(Places(q, p))
  BY <1>1, <1>2, FS_Subset
<1> QED
  BY <1>1, <1>3, FS_CardinalityType

\* Numbers that are moved by n are as many as before.
LEMMA Shift ==
    ASSUME NEW S \in SUBSET Nat, IsFiniteSet(S), NEW n \in Int
    PROVE  LET T == {i + n : i \in S} IN IsFiniteSet(T) /\ Cardinality(T) = Cardinality(S)
<1> DEFINE T == {i + n : i \in S}
           f == [i \in S |-> i + n]
<1>1. f \in [S -> T] /\ \A i \in S : f[i] = i + n
  OBVIOUS
<1>2. \A t \in T : \E i \in S : f[i] = t
  OBVIOUS
<1>3. \A i, j \in S : f[i] = f[j] => i = j
  OBVIOUS
<1> HIDE DEF f, T
<1>4. f \in Injection(S, T) /\ f \in Surjection(S, T)
  BY <1>1, <1>2, <1>3 DEF Injection, Surjection, IsInjective
<1>5. IsFiniteSet(T) /\ Cardinality(T) = Cardinality(S)
  BY <1>4, FS_Surjection
<1> QED
  BY <1>5 DEF T

\* Adding two sets of places.
LEMMA CountUnion ==
    ASSUME NEW S, NEW T, IsFiniteSet(S), IsFiniteSet(T), S \cap T = {}
    PROVE  /\ IsFiniteSet(S \cup T) /\ Cardinality(S \cup T) = Cardinality(S) + Cardinality(T)
           /\ Cardinality(S) \in Nat /\ Cardinality(T) \in Nat
<1>1. /\ IsFiniteSet(S \cup T)
      /\ Cardinality(S \cup T) = Cardinality(S) + Cardinality(T) - Cardinality(S \cap T)
  BY FS_Union
<1>2. Cardinality(S \cap T) = 0
  BY FS_EmptySet
<1>3. Cardinality(S) \in Nat /\ Cardinality(T) \in Nat
  BY FS_CardinalityType
<1> QED
  BY <1>1, <1>2, <1>3

\* What is appended is counted in addition.
LEMMA PlacesConcat ==
    ASSUME NEW q \in Queues, NEW r \in Queues, NEW p
    PROVE  /\ q \o r \in Queues
           /\ Cardinality(Places(q \o r, p)) = Cardinality(Places(q, p)) + Cardinality(Places(r, p))
<1> DEFINE T == {i + Len(q) : i \in Places(r, p)}
<1>1. q \o r \in Queues /\ Len(q) \in Nat /\ Len(r) \in Nat /\ Len(q \o r) = Len(q) + Len(r)
  BY DEF Queues
<1>2. \A i \in 1..Len(q) : (q \o r)[i] = q[i]
  BY DEF Queues
<1>3. \A i \in 1..Len(r) : (q \o r)[i + Len(q)] = r[i]
  BY DEF Queues
<1>4. DOMAIN q = 1..Len(q) /\ DOMAIN r = 1..Len(r) /\ DOMAIN (q \o r) = 1..(Len(q) + Len(r))
  BY <1>1 DEF Queues
<1>5. ASSUME NEW i \in Places(q \o r, p) PROVE i \in Places(q, p) \cup T
  <2>1. i \in 1..(Len(q) + Len(r)) /\ (q \o r)[i][1] = p
    BY <1>4, <1>5 DEF Places
  <2>2. CASE i \in 1..Len(q)
    BY <1>2, <1>4, <2>1, <2>2 DEF Places
  <2>3. CASE i \notin 1..Len(q)
    <3>1. i - Len(q) \in 1..Len(r) /\ (i - Len(q)) + Len(q) = i
      BY <1>1, <2>1, <2>3
    <3>2. r[i - Len(q)] = (q \o r)[i]
      BY <1>3, <3>1
    <3>3. i - Len(q) \in Places(r, p)
      BY <1>4, <2>1, <3>1, <3>2 DEF Places
    <3> QED
      BY <3>1, <3>3
  <2> QED
    BY <2>2, <2>3
<1>6. ASSUME NEW i \in Places(q, p) PROVE i \in Places(q \o r, p) /\ i <= Len(q)
  <2>1. i \in 1..Len(q) /\ q[i][1] = p
    BY <1>4, <1>6 DEF Places
  <2>2. i \in 1..(Len(q) + Len(r))
    BY <1>1, <2>1
  <2> QED
    BY <1>2, <1>4, <2>1, <2>2 DEF Places
<1>7. ASSUME NEW i \in Places(r, p) PROVE i + Len(q) \in Places(q \o r, p) /\ i + Len(q) > Len(q)
  <2>1. i \in 1..Len(r) /\ r[i][1] = p
    BY <1>4, <1>7 DEF Places
  <2>2. i + Len(q) \in 1..(Len(q) + Len(r)) /\ i + Len(q) > Len(q)
    BY <1>1, <2>1
  <2> QED
    BY <1>3, <1>4, <2>1, <2>2 DEF Places
<1>8. Places(q \o r, p) = Places(q, p) \cup T
  BY <1>5, <1>6, <1>7
<1>9. Places(q, p) \cap T = {}
  <2>1. \A i \in Places(q, p) : i \in Int /\ i <= Len(q)
    BY <1>6, PlacesFinite
  <2>2. \A i \in T : i > Len(q)
    BY <1>7
  <2> QED
    BY <1>1, <2>1, <2>2
<1>10. Places(r, p) \in SUBSET Nat /\ IsFiniteSet(Places(r, p)) /\ IsFiniteSet(Places(q, p))
  BY PlacesFinite
<1>11. IsFiniteSet(T) /\ Cardinality(T) = Cardinality(Places(r, p))
  <2>1. Len(q) \in Int
    BY <1>1
  <2> HIDE DEF T
  <2>2. LET S == Places(r, p)
            U == {i + Len(q) : i \in S}
        IN IsFiniteSet(U) /\ Cardinality(U) = Cardinality(S)
    BY <1>10, <2>1, Shift
  <2> QED
    BY <2>2 DEF T
<1> HIDE DEF T
<1> QED
  BY <1>1, <1>8, <1>9, <1>10, <1>11, CountUnion

\* What is taken from the front is no longer counted.
LEMMA PlacesTail ==
    ASSUME NEW q \in Queues, q # <<>>, NEW p
    PROVE  /\ Head(q) \in Transfers /\ Tail(q) \in Queues
           /\ Cardinality(Places(q, p)) =
                  Cardinality(Places(Tail(q), p)) + (IF Head(q)[1] = p THEN 1 ELSE 0)
<1>1. Head(q) \in Transfers /\ Tail(q) \in Queues /\ <<Head(q)>> \in Queues /\ q = <<Head(q)>> \o Tail(q)
  <2>1. /\ q \in Seq(Transfers) /\ Head(q) \in Transfers /\ Tail(q) \in Seq(Transfers)
        /\ Len(Tail(q)) = Len(q) - 1 /\ Len(q) \in Nat
        /\ \A i \in 1..Len(Tail(q)) : Tail(q)[i] = q[i + 1]
    BY HeadTailProperties, LenProperties DEF Queues
  <2>2. Len(q) > 0 /\ Head(q) = q[1]
    BY <2>1 DEF Queues
  <2>3. <<Head(q)>> \in Seq(Transfers) /\ Len(<<Head(q)>>) = 1 /\ <<Head(q)>>[1] = Head(q)
    BY <2>1
  <2>4. /\ <<Head(q)>> \o Tail(q) \in Seq(Transfers) /\ Len(<<Head(q)>> \o Tail(q)) = 1 + (Len(q) - 1)
        /\ \A i \in 1..1 + (Len(q) - 1) : (<<Head(q)>> \o Tail(q))[i] =
               IF i <= 1 THEN <<Head(q)>>[i] ELSE Tail(q)[i - 1]
    BY <2>1, <2>3, ConcatProperties
  <2>5. ASSUME NEW i \in 1..Len(q) PROVE q[i] = (<<Head(q)>> \o Tail(q))[i]
    <3>1. CASE i = 1
      BY <2>1, <2>2, <2>3, <2>4, <3>1
    <3>2. CASE i # 1
      <4>1. i - 1 \in 1..Len(Tail(q)) /\ i \in 1..1 + (Len(q) - 1) /\ ~(i <= 1) /\ (i - 1) + 1 = i
        BY <2>1, <3>2
      <4> QED
        BY <2>1, <2>4, <4>1
    <3> QED
      BY <3>1, <3>2
  <2>6. Len(q) = Len(<<Head(q)>> \o Tail(q))
    BY <2>1, <2>4
  <2>7. q = <<Head(q)>> \o Tail(q)
    BY <2>1, <2>4, <2>5, <2>6, SeqEqual
  <2> QED
    BY <2>1, <2>3, <2>7 DEF Queues
<1>2. Cardinality(Places(q, p)) = Cardinality(Places(<<Head(q)>>, p)) + Cardinality(Places(Tail(q), p))
  <2> DEFINE h == <<Head(q)>>
             t == Tail(q)
  <2>1. h \in Queues /\ t \in Queues /\ q = h \o t
    BY <1>1
  <2> HIDE DEF h, t
  <2>2. Cardinality(Places(h \o t, p)) = Cardinality(Places(h, p)) + Cardinality(Places(t, p))
    BY <2>1, PlacesConcat
  <2>3. Cardinality(Places(q, p)) = Cardinality(Places(h, p)) + Cardinality(Places(t, p))
    BY <2>1, <2>2, Zenon
  <2> QED
    BY <2>3 DEF h, t
<1>3. Places(<<Head(q)>>, p) = IF Head(q)[1] = p THEN {1} ELSE {}
  <2>1. DOMAIN <<Head(q)>> = {1} /\ <<Head(q)>>[1] = Head(q)
    OBVIOUS
  <2>2. Places(<<Head(q)>>, p) = {i \in {1} : Head(q)[1] = p}
    BY <2>1 DEF Places
  <2> QED
    BY <2>2
<1>4. Cardinality(Places(<<Head(q)>>, p)) = IF Head(q)[1] = p THEN 1 ELSE 0
  BY <1>3, FS_Singleton, FS_EmptySet
<1>5. Cardinality(Places(Tail(q), p)) \in Nat
  BY <1>1, PlacesFinite
<1> QED
  BY <1>1, <1>2, <1>4, <1>5

\* A batch of reaped transfers counts for its own pipe.
LEMMA PlacesBatch ==
    ASSUME NEW q \in Queues, NEW o, \A i \in 1..Len(q) : q[i][1] = o, NEW p
    PROVE  Cardinality(Places(q, p)) = IF o = p THEN Len(q) ELSE 0
<1>1. Len(q) \in Nat /\ DOMAIN q = 1..Len(q)
  BY DEF Queues
<1>2. Places(q, p) = IF o = p THEN 1..Len(q) ELSE {}
  BY <1>1 DEF Places
<1>3. Cardinality(1..Len(q)) = Len(q)
  <2>1. Cardinality(1..Len(q)) = IF 1 > Len(q) THEN 0 ELSE Len(q) - 1 + 1
    BY <1>1, FS_Interval
  <2> QED
    BY <1>1, <2>1
<1> QED
  BY <1>2, <1>3, FS_EmptySet

\* One context's share of the places.
LEMMA OneContext ==
    ASSUME NEW c, NEW S, IsFiniteSet(S)
    PROVE  IsFiniteSet({c} \X S) /\ Cardinality({c} \X S) = Cardinality(S)
<1>1. IsFiniteSet({c}) /\ Cardinality({c}) = 1
  BY FS_Singleton
<1>2. IsFiniteSet({c} \X S) /\ Cardinality({c} \X S) = Cardinality({c}) * Cardinality(S)
  BY <1>1, FS_Product, Zenon
<1>3. Cardinality(S) \in Nat
  BY FS_CardinalityType
<1> QED
  BY <1>1, <1>2, <1>3

\* All contexts together have finitely many places.
LEMMA LocalFinite ==
    ASSUME NEW f \in [Contexts -> Queues], NEW p
    PROVE  IsFiniteSet(LocalPlaces(f, p)) /\ Cardinality(LocalPlaces(f, p)) \in Nat
<1> DEFINE share == [c \in Contexts |-> {c} \X Places(f[c], p)]
           U == {share[c] : c \in Contexts}
<1>1. IsFiniteSet(U)
  <2>1. share \in [Contexts -> U] /\ \A t \in U : \E c \in Contexts : share[c] = t
    OBVIOUS
  <2> HIDE DEF share, U
  <2>2. share \in Surjection(Contexts, U)
    BY <2>1 DEF Surjection
  <2> QED
    BY <2>2, FS_Surjection, ContextAssumption
<1>2. \A T \in U : IsFiniteSet(T)
  <2>1. ASSUME NEW c \in Contexts PROVE IsFiniteSet(share[c])
    <3>1. IsFiniteSet(Places(f[c], p))
      BY PlacesFinite
    <3> QED
      BY <3>1, OneContext
  <2> QED
    BY <2>1
<1>3. LocalPlaces(f, p) = UNION U
  BY DEF LocalPlaces
<1> HIDE DEF U
<1>4. IsFiniteSet(LocalPlaces(f, p))
  BY <1>1, <1>2, <1>3, FS_UNION
<1> QED
  BY <1>4, FS_CardinalityType

\* A context that changes its local queue changes the count by the difference.
LEMMA LocalMove ==
    ASSUME NEW f \in [Contexts -> Queues], NEW g \in [Contexts -> Queues], NEW c \in Contexts,
           \A b \in Contexts : b # c => g[b] = f[b], NEW p
    PROVE  /\ Cardinality(LocalPlaces(g, p)) =
                  Cardinality(LocalPlaces(f, p)) - Cardinality(Places(f[c], p)) + Cardinality(Places(g[c], p))
           /\ Cardinality(LocalPlaces(f, p)) >= Cardinality(Places(f[c], p))
<1> DEFINE Rest == {x \in LocalPlaces(f, p) : x[1] # c}
           Old == {c} \X Places(f[c], p)
           New == {c} \X Places(g[c], p)
<1>2. LocalPlaces(f, p) = Rest \cup Old /\ Rest \cap Old = {}
  BY DEF LocalPlaces
<1>3. LocalPlaces(g, p) = Rest \cup New /\ Rest \cap New = {}
  <2>1. LocalPlaces(g, p) \subseteq Rest \cup New
    BY DEF LocalPlaces
  <2>2. Rest \cup New \subseteq LocalPlaces(g, p)
    BY DEF LocalPlaces
  <2> QED
    BY <2>1, <2>2
<1>4. IsFiniteSet(Rest)
  BY LocalFinite, FS_Subset
<1>5. IsFiniteSet(Old) /\ Cardinality(Old) = Cardinality(Places(f[c], p))
  BY PlacesFinite, OneContext
<1>6. IsFiniteSet(New) /\ Cardinality(New) = Cardinality(Places(g[c], p))
  BY PlacesFinite, OneContext
<1> HIDE DEF Rest, Old, New
<1>7. /\ Cardinality(Rest \cup Old) = Cardinality(Rest) + Cardinality(Old)
      /\ Cardinality(Rest) \in Nat /\ Cardinality(Old) \in Nat
  BY <1>2, <1>4, <1>5, CountUnion
<1>8. /\ Cardinality(Rest \cup New) = Cardinality(Rest) + Cardinality(New)
      /\ Cardinality(New) \in Nat
  BY <1>3, <1>4, <1>6, CountUnion
<1>9. /\ Cardinality(LocalPlaces(f, p)) = Cardinality(Rest) + Cardinality(Places(f[c], p))
      /\ Cardinality(LocalPlaces(g, p)) = Cardinality(Rest) + Cardinality(Places(g[c], p))
      /\ Cardinality(Places(f[c], p)) \in Nat /\ Cardinality(Places(g[c], p)) \in Nat
  BY <1>2, <1>3, <1>5, <1>6, <1>7, <1>8
<1>10. /\ Cardinality(LocalPlaces(g, p)) =
              Cardinality(LocalPlaces(f, p)) - Cardinality(Places(f[c], p)) + Cardinality(Places(g[c], p))
       /\ Cardinality(LocalPlaces(f, p)) >= Cardinality(Places(f[c], p))
  BY <1>7, <1>9
<1> QED
  BY <1>10

\* What is counted in a queue of none and of one transfer.
LEMMA PlacesSmall ==
    ASSUME NEW t \in Transfers, NEW p
    PROVE  /\ <<>> \in Queues /\ <<t>> \in Queues
           /\ Cardinality(Places(<<>>, p)) = 0
           /\ Cardinality(Places(<<t>>, p)) = IF t[1] = p THEN 1 ELSE 0
<1>1. <<t>> \in Queues /\ <<>> \in Queues /\ <<t>> # <<>> /\ Head(<<t>>) = t /\ Tail(<<t>>) = <<>>
  BY DEF Queues
<1>2. Places(<<>>, p) = {}
  BY DEF Places
<1>3. Cardinality(Places(<<>>, p)) = 0
  BY <1>2, FS_EmptySet
<1>4. Cardinality(Places(<<t>>, p)) =
          Cardinality(Places(Tail(<<t>>), p)) + (IF Head(<<t>>)[1] = p THEN 1 ELSE 0)
  BY <1>1, PlacesTail
<1>5. Cardinality(Places(<<t>>, p)) = 0 + (IF t[1] = p THEN 1 ELSE 0)
  BY <1>1, <1>3, <1>4, Zenon
<1> QED
  BY <1>1, <1>3, <1>5

----------------------------------------------------------------------------
(* Every action keeps the completion states and the slots                  *)

\* the labels at which a received message has been counted in recv_bufs_needed
Counted == {"post", "callback", "recycle"}

\* The numbers of the invariant.
LEMMA Numbers ==
    ASSUME SlotInv, NEW p \in Pipes
    PROVE  /\ Cardinality(Places(completion_pendingq, p)) \in Nat
           /\ Cardinality(LocalPlaces(compl_queue, p)) \in Nat
           /\ Cardinality(LocalPlaces(compl_state, p)) \in Nat
           /\ InHif(p) \in Nat
           /\ IsFiniteSet(Replacing(p)) /\ Cardinality(Replacing(p)) \in Nat
           /\ Entries \in Nat
<1>1. /\ completion_pendingq \in Queues /\ compl_queue \in [Contexts -> Queues]
      /\ compl_state \in [Contexts -> Queues]
  BY DEF SlotInv, SlotTypeOK, Queues
<1>2. /\ Cardinality(Places(completion_pendingq, p)) \in Nat
      /\ Cardinality(LocalPlaces(compl_queue, p)) \in Nat
      /\ Cardinality(LocalPlaces(compl_state, p)) \in Nat
  BY <1>1, PlacesFinite, LocalFinite
<1>3. InHif(p) \in Nat
  BY <1>2 DEF InHif
<1>4. IsFiniteSet(Replacing(p))
  BY ContextAssumption, FS_Subset DEF Replacing
<1> QED
  BY <1>2, <1>3, <1>4, FS_CardinalityType, BoundAssumption

\* A transfer in the hands of a context is counted.
LEMMA InHandCounted ==
    ASSUME SlotInv, NEW c \in Contexts, pc[c] \in Processing
    PROVE  /\ PipeOf(c) \in Pipes /\ compl_state[c] \in Queues
           /\ \A p : Cardinality(Places(compl_state[c], p)) = IF PipeOf(c) = p THEN 1 ELSE 0
           /\ InHif(PipeOf(c)) >= 1
<1>1. PICK t \in Transfers : compl_state[c] = <<t>>
  BY DEF SlotInv, LocalOK
<1>2. PipeOf(c) = t[1] /\ t[1] \in Pipes
  BY <1>1 DEF PipeOf, Transfers
<1>3. \A p : Cardinality(Places(compl_state[c], p)) = IF PipeOf(c) = p THEN 1 ELSE 0
  BY <1>1, <1>2, PlacesSmall
<1>4. compl_state \in [Contexts -> Queues]
  BY DEF SlotInv, SlotTypeOK, Queues
<1>5. Cardinality(LocalPlaces(compl_state, PipeOf(c))) >= 1
  <2>1. Cardinality(Places(compl_state[c], PipeOf(c))) = 1
    BY <1>3
  <2>3. Cardinality(LocalPlaces(compl_state, PipeOf(c))) >= Cardinality(Places(compl_state[c], PipeOf(c)))
    BY <1>4, LocalMove
  <2>4. Cardinality(LocalPlaces(compl_state, PipeOf(c))) \in Nat
    BY <1>4, LocalFinite
  <2> QED
    BY <2>1, <2>3, <2>4
<1>6. InHif(PipeOf(c)) >= 1
  BY <1>2, <1>5, Numbers DEF InHif
<1> QED
  BY <1>2, <1>3, <1>4, <1>6

\* A step of one context that is not past NeedBuffer with this pipe, or stays there.
LEMMA ReplacingKept ==
    ASSUME SlotTypeOK, NEW c \in Contexts, NEW label \in Labels, Goto(c, label), NEW p,
           \A b \in Contexts : b # c => compl_state'[b] = compl_state[b],
           (pc[c] \in Counted /\ compl_state[c][1][1] = p) <=>
               (label \in Counted /\ compl_state'[c][1][1] = p)
    PROVE  Replacing(p)' = Replacing(p)
<1>1. pc'[c] = label /\ \A b \in Contexts : b # c => pc'[b] = pc[b]
  BY DEF Goto, SlotTypeOK
<1>2. \A b \in Contexts : b \in Replacing(p) <=> b \in Replacing(p)'
  BY <1>1 DEF Replacing, PipeOf, Counted
<1>3. Replacing(p) \subseteq Contexts /\ Replacing(p)' \subseteq Contexts
  BY DEF Replacing
<1> QED
  BY <1>2, <1>3

\* A step that moves a context and changes no count.
LEMMA QuietMove ==
    ASSUME SlotInv, NEW c \in Contexts, NEW label \in Labels, Goto(c, label),
           UNCHANGED <<completion_pendingq, pipeVars, ctxVars, ring, done, reaped>>,
           handled' \in [Pipes -> Nat],
           pc[c] # "enqueue", label \notin {"enqueue", "needBuffer", "post"},
           pc[c] \in Processing <=> label \in Processing,
           pc[c] \in Counted <=> label \in Counted
    PROVE  SlotInv'
<1>1. SlotTypeOK /\ LocalOK
  BY DEF SlotInv
<1>2. SlotTypeOK'
  <2>1. pc' \in [Contexts -> Labels]
    BY <1>1 DEF SlotTypeOK, Goto
  <2> QED
    BY <1>1, <2>1 DEF SlotTypeOK, pipeVars, ctxVars
<1>3. LocalOK'
  <2>1. pc'[c] = label /\ \A b \in Contexts : b # c => pc'[b] = pc[b]
    BY <1>1 DEF Goto, SlotTypeOK
  <2> SUFFICES ASSUME NEW b \in Contexts
               PROVE  /\ pc'[b] # "enqueue" => compl_queue'[b] = <<>>
                      /\ IF pc'[b] \in Processing
                         THEN \E t \in Transfers : compl_state'[b] = <<t>>
                         ELSE compl_state'[b] = <<>>
                      /\ pc'[b] \in {"needBuffer", "post"} => PipeOf(b)' \in RecvPipes
    BY Zenon DEF LocalOK
  <2>2. UNCHANGED <<compl_queue, compl_state>> /\ PipeOf(b)' = PipeOf(b)
    BY DEF ctxVars, PipeOf
  <2>3. CASE b = c
    BY <1>1, <2>1, <2>2, <2>3 DEF LocalOK
  <2>4. CASE b # c
    BY <1>1, <2>1, <2>2, <2>4 DEF LocalOK
  <2> QED
    BY <2>3, <2>4
<1>4. \A p : InHif(p)' = InHif(p)
  BY DEF InHif, ctxVars, LocalPlaces, Places
<1>5. \A p : Replacing(p)' = Replacing(p)
  BY <1>1, ReplacingKept DEF ctxVars
<1> QED
  BY <1>2, <1>3, <1>4, <1>5
  DEF SlotInv, StatesConserved, SendsConserved, ReceiveSlotsConserved, Unreplaced, pipeVars

\* A slot that changes between the ring, the finished and the needed is still one slot.
LEMMA SlotExchange ==
    ASSUME SlotInv, NEW p \in RecvPipes, NEW x \in Nat, NEW y \in Nat, NEW z \in Nat,
           z + x + y = recv_bufs_needed[p] + ring[p] + done[p]
    PROVE  x + y + Unreplaced(p) + z = Entries - 1
<1>1. p \in Pipes
  BY DEF Pipes
<1>2. ring[p] + done[p] + Unreplaced(p) + recv_bufs_needed[p] = Entries - 1
  BY DEF SlotInv, ReceiveSlotsConserved
<1>3. Unreplaced(p) \in Int /\ Entries \in Nat
  BY <1>1, Numbers DEF Unreplaced
<1>4. ring[p] \in Nat /\ done[p] \in Nat /\ recv_bufs_needed[p] \in Nat
  BY <1>1 DEF SlotInv, SlotTypeOK
<1> QED
  BY <1>2, <1>3, <1>4

\* A sender takes an entry; the engine finishes one; a buffer is posted.
LEMMA RingMove ==
    ASSUME SlotInv, UNCHANGED <<completion_pendingq, completion_freeq, pc, ctxVars, reaped, handled>>,
           num_sends_allowed' \in [SendPipes -> Nat], recv_bufs_needed' \in [RecvPipes -> Nat],
           ring' \in [Pipes -> Nat], done' \in [Pipes -> Nat],
           \A p \in SendPipes :
               num_sends_allowed'[p] + ring'[p] + done'[p] = num_sends_allowed[p] + ring[p] + done[p],
           \A p \in RecvPipes :
               recv_bufs_needed'[p] + ring'[p] + done'[p] = recv_bufs_needed[p] + ring[p] + done[p]
    PROVE  SlotInv'
<1>1. SlotTypeOK'
  BY DEF SlotInv, SlotTypeOK, ctxVars
<1>2. LocalOK'
  BY DEF SlotInv, LocalOK, ctxVars, PipeOf
<1>3. \A p : InHif(p)' = InHif(p) /\ Replacing(p)' = Replacing(p)
  BY DEF InHif, ctxVars, LocalPlaces, Places, Replacing, PipeOf
<1>4. StatesConserved'
  BY <1>3 DEF SlotInv, StatesConserved
<1>5. SendsConserved'
  <2> SUFFICES ASSUME NEW p \in SendPipes
               PROVE  num_sends_allowed'[p] + ring'[p] + done'[p] + InHif(p) = Entries - 1
    BY <1>3 DEF SendsConserved
  <2>1. num_sends_allowed[p] + ring[p] + done[p] + InHif(p) = Entries - 1
    BY DEF SlotInv, SendsConserved
  <2>2. p \in Pipes
    BY DEF Pipes
  <2>3. /\ ring[p] \in Nat /\ done[p] \in Nat /\ num_sends_allowed[p] \in Nat
        /\ ring'[p] \in Nat /\ done'[p] \in Nat /\ num_sends_allowed'[p] \in Nat
        /\ InHif(p) \in Nat
    BY <2>2, Numbers DEF SlotInv, SlotTypeOK
  <2>4. num_sends_allowed'[p] + ring'[p] + done'[p] = num_sends_allowed[p] + ring[p] + done[p]
    OBVIOUS
  <2> QED
    BY <2>1, <2>3, <2>4
<1>6. ReceiveSlotsConserved'
  <2> SUFFICES ASSUME NEW p \in RecvPipes
               PROVE  ring'[p] + done'[p] + Unreplaced(p) + recv_bufs_needed'[p] = Entries - 1
    BY <1>3 DEF ReceiveSlotsConserved, Unreplaced
  <2>1. p \in Pipes
    BY DEF Pipes
  <2>2. ring'[p] \in Nat /\ done'[p] \in Nat /\ recv_bufs_needed'[p] \in Nat
    BY <2>1
  <2>3. recv_bufs_needed'[p] + ring'[p] + done'[p] = recv_bufs_needed[p] + ring[p] + done[p]
    OBVIOUS
  <2> QED
    BY <2>2, <2>3, SlotExchange
<1> QED
  BY <1>1, <1>2, <1>4, <1>5, <1>6 DEF SlotInv

\* Reaping turns finished entries into states that hold transfers.
LEMMA ReapSlots ==
    ASSUME SlotInv, NEW c \in Contexts, NEW o \in Pipes, Reap(c, o) PROVE SlotInv'
<1>t. SlotTypeOK /\ LocalOK /\ pc[c] = "idle"
  BY DEF SlotInv, Reap
<1>1. PICK k \in 1..done[o] :
        /\ compl_queue' = [compl_queue EXCEPT ![c] = Batch(o, k)]
        /\ completion_freeq' = [completion_freeq EXCEPT ![o] = @ - k]
        /\ done' = [done EXCEPT ![o] = @ - k]
        /\ reaped' = [reaped EXCEPT ![o] = @ + k]
  BY DEF Reap
<1>2. /\ UNCHANGED <<completion_pendingq, num_sends_allowed, recv_bufs_needed, compl_state, ring, handled>>
      /\ Goto(c, "enqueue")
  BY DEF Reap, queueVars, htcVars
<1>3. k \in Nat /\ reaped[o] \in Nat /\ done[o] \in Nat /\ done[o] - k \in Nat
  BY <1>t DEF SlotTypeOK
<1>4. /\ Batch(o, k) \in Queues
      /\ \A p : Cardinality(Places(Batch(o, k), p)) = IF o = p THEN k ELSE 0
  <2>1. ASSUME NEW p
        PROVE  Batch(o, k) \in Queues /\ Cardinality(Places(Batch(o, k), p)) = IF o = p THEN k ELSE 0
    <3>1. /\ Batch(o, k) \in Queues /\ Len(Batch(o, k)) = k
          /\ \A i \in 1..k : Batch(o, k)[i] = <<o, reaped[o] + i>>
      BY <1>3 DEF Batch, Queues, Transfers
    <3> HIDE DEF Batch
    <3>2. \A i \in 1..Len(Batch(o, k)) : Batch(o, k)[i][1] = o
      BY <3>1
    <3> QED
      BY <3>1, <3>2, PlacesBatch
  <2> QED
    BY <2>1
<1>5. compl_queue[c] = <<>> /\ compl_queue \in [Contexts -> Queues]
  BY <1>t DEF SlotTypeOK, LocalOK, Queues
<1>6. \A p \in Pipes : InHif(p)' = InHif(p) + (IF p = o THEN k ELSE 0)
  <2> SUFFICES ASSUME NEW p \in Pipes PROVE InHif(p)' = InHif(p) + (IF p = o THEN k ELSE 0)
    OBVIOUS
  <2>1. /\ Cardinality(Places(completion_pendingq, p))' = Cardinality(Places(completion_pendingq, p))
        /\ Cardinality(LocalPlaces(compl_state, p))' = Cardinality(LocalPlaces(compl_state, p))
    BY <1>2 DEF Places, LocalPlaces
  <2>2. Cardinality(LocalPlaces(compl_queue', p)) =
            Cardinality(LocalPlaces(compl_queue, p)) - Cardinality(Places(compl_queue[c], p))
                + Cardinality(Places(Batch(o, k), p))
    <3>1. /\ compl_queue' \in [Contexts -> Queues] /\ compl_queue'[c] = Batch(o, k)
          /\ \A b \in Contexts : b # c => compl_queue'[b] = compl_queue[b]
      BY <1>1, <1>4, <1>5
    <3>2. Cardinality(LocalPlaces(compl_queue', p)) =
            Cardinality(LocalPlaces(compl_queue, p)) - Cardinality(Places(compl_queue[c], p))
                + Cardinality(Places(compl_queue'[c], p))
      BY <1>5, <3>1, LocalMove
    <3> QED
      BY <3>1, <3>2
  <2>3. Cardinality(Places(compl_queue[c], p)) = 0
    <3>1. Places(<<>>, p) = {}
      BY DEF Places
    <3> QED
      BY <1>5, <3>1, FS_EmptySet
  <2>4. Cardinality(LocalPlaces(compl_queue, p))' = Cardinality(LocalPlaces(compl_queue', p))
    BY DEF LocalPlaces, Places
  <2>5. Cardinality(LocalPlaces(compl_queue, p))' =
            Cardinality(LocalPlaces(compl_queue, p)) + Cardinality(Places(Batch(o, k), p))
    BY <2>2, <2>3, <2>4, Numbers
  <2> QED
    BY <1>3, <1>4, <2>1, <2>5, Numbers DEF InHif
<1>7. SlotTypeOK'
  <2>1. pc' \in [Contexts -> Labels] /\ compl_queue' \in [Contexts -> Queues]
    BY <1>1, <1>2, <1>4, <1>5, <1>t DEF SlotTypeOK, Goto, Labels
  <2>2. /\ done' \in [Pipes -> Nat] /\ completion_freeq' \in [Pipes -> Int]
        /\ reaped' \in [Pipes -> Nat]
    <3>1. /\ done \in [Pipes -> Nat] /\ completion_freeq \in [Pipes -> Int]
          /\ reaped \in [Pipes -> Nat]
      BY <1>t DEF SlotTypeOK
    <3>2. done' \in [Pipes -> Nat]
      BY <1>1, <3>1
    <3>3. completion_freeq' \in [Pipes -> Int]
      BY <1>1, <1>3, <3>1
    <3>4. reaped' \in [Pipes -> Nat]
      BY <1>1, <1>3, <3>1
    <3> QED
      BY <3>2, <3>3, <3>4
  <2> QED
    BY <1>2, <1>t, <2>1, <2>2 DEF SlotTypeOK, Queues
<1>8. LocalOK'
  <2>1. pc'[c] = "enqueue" /\ \A b \in Contexts : b # c => pc'[b] = pc[b] /\ compl_queue'[b] = compl_queue[b]
    BY <1>1, <1>2, <1>5, <1>t DEF Goto, SlotTypeOK
  <2> SUFFICES ASSUME NEW b \in Contexts
               PROVE  /\ pc'[b] # "enqueue" => compl_queue'[b] = <<>>
                      /\ IF pc'[b] \in Processing
                         THEN \E t \in Transfers : compl_state'[b] = <<t>>
                         ELSE compl_state'[b] = <<>>
                      /\ pc'[b] \in {"needBuffer", "post"} => PipeOf(b)' \in RecvPipes
    BY Zenon DEF LocalOK
  <2>2. compl_state' = compl_state /\ PipeOf(b)' = PipeOf(b)
    BY <1>2 DEF PipeOf
  <2>3. CASE b = c
    BY <1>t, <2>1, <2>2, <2>3 DEF LocalOK, Processing
  <2>4. CASE b # c
    BY <1>t, <2>1, <2>2, <2>4 DEF LocalOK
  <2> QED
    BY <2>3, <2>4
<1>9. \A p \in Pipes : Replacing(p)' = Replacing(p)
  BY <1>2, <1>t, ReplacingKept DEF Labels, Counted
<1>10. ASSUME NEW p \in Pipes
       PROVE  /\ completion_freeq'[p] = completion_freeq[p] - (IF p = o THEN k ELSE 0)
              /\ done'[p] = done[p] - (IF p = o THEN k ELSE 0)
              /\ completion_freeq[p] \in Int /\ done[p] \in Nat /\ ring[p] \in Nat
              /\ InHif(p) \in Nat /\ Entries \in Nat /\ Cardinality(Replacing(p)) \in Nat
              /\ p \in SendPipes => num_sends_allowed[p] \in Nat
              /\ p \in RecvPipes => recv_bufs_needed[p] \in Nat
  <2>1. /\ completion_freeq'[p] = completion_freeq[p] - (IF p = o THEN k ELSE 0)
        /\ done'[p] = done[p] - (IF p = o THEN k ELSE 0)
    <3>1. completion_freeq \in [Pipes -> Int] /\ done \in [Pipes -> Nat]
      BY <1>t DEF SlotTypeOK
    <3>2. completion_freeq'[p] = completion_freeq[p] - (IF p = o THEN k ELSE 0)
      BY <1>1, <1>3, <3>1
    <3>3. done'[p] = done[p] - (IF p = o THEN k ELSE 0)
      BY <1>1, <1>3, <3>1
    <3> QED
      BY <3>2, <3>3
  <2>2. /\ completion_freeq[p] \in Int /\ done[p] \in Nat /\ ring[p] \in Nat
        /\ p \in SendPipes => num_sends_allowed[p] \in Nat
        /\ p \in RecvPipes => recv_bufs_needed[p] \in Nat
    BY <1>t DEF SlotTypeOK
  <2> QED
    BY <2>1, <2>2, Numbers
<1>11. StatesConserved'
  <2> SUFFICES ASSUME NEW p \in Pipes PROVE completion_freeq'[p] + InHif(p)' = Entries
    BY DEF StatesConserved
  <2>1. completion_freeq[p] + InHif(p) = Entries
    BY DEF SlotInv, StatesConserved
  <2> QED
    BY <1>3, <1>6, <1>10, <2>1
<1>12. SendsConserved'
  <2> SUFFICES ASSUME NEW p \in SendPipes
               PROVE  num_sends_allowed[p] + ring[p] + done'[p] + InHif(p)' = Entries - 1
    BY <1>2 DEF SendsConserved
  <2>1. num_sends_allowed[p] + ring[p] + done[p] + InHif(p) = Entries - 1 /\ p \in Pipes
    BY DEF SlotInv, SendsConserved, Pipes
  <2> QED
    BY <1>3, <1>6, <1>10, <2>1
<1>13. ReceiveSlotsConserved'
  <2> SUFFICES ASSUME NEW p \in RecvPipes
               PROVE  ring[p] + done'[p] + (InHif(p)' - Cardinality(Replacing(p)))
                          + recv_bufs_needed[p] = Entries - 1
    BY <1>2, <1>9 DEF ReceiveSlotsConserved, Unreplaced, Pipes
  <2>1. /\ ring[p] + done[p] + (InHif(p) - Cardinality(Replacing(p))) + recv_bufs_needed[p] = Entries - 1
        /\ p \in Pipes
    BY DEF SlotInv, ReceiveSlotsConserved, Unreplaced, Pipes
  <2> QED
    BY <1>3, <1>6, <1>10, <2>1
<1> QED
  BY <1>7, <1>8, <1>11, <1>12, <1>13 DEF SlotInv

\* The local state of the other contexts is as before.
LEMMA OthersOK ==
    ASSUME LocalOK, NEW c \in Contexts,
           \A b \in Contexts : b # c => /\ pc'[b] = pc[b] /\ compl_queue'[b] = compl_queue[b]
                                        /\ compl_state'[b] = compl_state[b],
           pc'[c] # "enqueue" /\ compl_queue'[c] = <<>>,
           IF pc'[c] \in Processing THEN \E t \in Transfers : compl_state'[c] = <<t>>
                                    ELSE compl_state'[c] = <<>>,
           pc'[c] \in {"needBuffer", "post"} => compl_state'[c][1][1] \in RecvPipes
    PROVE  LocalOK'
<1> SUFFICES ASSUME NEW b \in Contexts
             PROVE  /\ pc'[b] # "enqueue" => compl_queue'[b] = <<>>
                    /\ IF pc'[b] \in Processing
                       THEN \E t \in Transfers : compl_state'[b] = <<t>>
                       ELSE compl_state'[b] = <<>>
                    /\ pc'[b] \in {"needBuffer", "post"} => PipeOf(b)' \in RecvPipes
  BY Zenon DEF LocalOK
<1>1. PipeOf(b)' = compl_state'[b][1][1] /\ PipeOf(b) = compl_state[b][1][1]
  BY DEF PipeOf
<1>2. CASE b = c
  BY <1>1, <1>2
<1>3. CASE b # c
  BY <1>1, <1>3 DEF LocalOK
<1> QED
  BY <1>2, <1>3

\* A step that keeps every count keeps what is conserved.
LEMMA CountsKept ==
    ASSUME SlotInv, SlotTypeOK', LocalOK',
           UNCHANGED <<pipeVars, ring, done>>,
           \A p \in Pipes : InHif(p)' = InHif(p),
           \A p \in RecvPipes : Replacing(p)' = Replacing(p)
    PROVE  SlotInv'
<1>1. \A p : p \in SendPipes \/ p \in RecvPipes => p \in Pipes
  BY DEF Pipes
<1>2. StatesConserved'
  BY DEF SlotInv, StatesConserved, pipeVars
<1>3. SendsConserved'
  BY <1>1 DEF SlotInv, SendsConserved, pipeVars
<1>4. ReceiveSlotsConserved'
  BY <1>1 DEF SlotInv, ReceiveSlotsConserved, Unreplaced, pipeVars
<1> QED
  BY <1>2, <1>3, <1>4 DEF SlotInv

\* The local queue is appended to the common one.
LEMMA EnqueueSlots == ASSUME SlotInv, NEW c \in Contexts, Enqueue(c) PROVE SlotInv'
<1>t. SlotTypeOK /\ LocalOK /\ pc[c] = "enqueue"
  BY DEF SlotInv, Enqueue
<1>q. /\ compl_queue \in [Contexts -> Queues] /\ compl_queue[c] \in Queues
      /\ completion_pendingq \in Queues /\ <<>> \in Queues
  BY <1>t DEF SlotTypeOK, Queues
<1>1. PICK label \in {"decAndTest", "idle"} : Goto(c, label)
  BY DEF Enqueue
<1>2. /\ completion_pendingq' = completion_pendingq \o compl_queue[c]
      /\ compl_queue' = [compl_queue EXCEPT ![c] = <<>>]
      /\ UNCHANGED <<pipeVars, compl_state, ring, done, reaped, handled>>
  BY DEF Enqueue, Appended, ceVars, htcVars
<1>3. /\ compl_queue' \in [Contexts -> Queues] /\ compl_queue'[c] = <<>>
      /\ \A b \in Contexts : b # c => compl_queue'[b] = compl_queue[b]
  BY <1>2, <1>q
<1>4. pc' \in [Contexts -> Labels] /\ pc'[c] = label /\ \A b \in Contexts : b # c => pc'[b] = pc[b]
  BY <1>1, <1>t DEF Goto, SlotTypeOK, Labels
<1>5. ASSUME NEW p \in Pipes PROVE InHif(p)' = InHif(p)
  <2>1. Cardinality(Places(completion_pendingq \o compl_queue[c], p)) =
            Cardinality(Places(completion_pendingq, p)) + Cardinality(Places(compl_queue[c], p))
    BY <1>q, PlacesConcat
  <2>2. Cardinality(LocalPlaces(compl_queue', p)) =
            Cardinality(LocalPlaces(compl_queue, p)) - Cardinality(Places(compl_queue[c], p))
                + Cardinality(Places(compl_queue'[c], p))
    BY <1>3, <1>q, LocalMove
  <2>3. Cardinality(Places(compl_queue'[c], p)) = 0
    <3>1. Places(<<>>, p) = {}
      BY DEF Places
    <3> QED
      BY <1>3, <3>1, FS_EmptySet
  <2>4. Cardinality(Places(compl_queue[c], p)) \in Nat
    BY <1>q, PlacesFinite
  <2>5. InHif(p)' = Cardinality(Places(completion_pendingq \o compl_queue[c], p))
                        + Cardinality(LocalPlaces(compl_queue', p)) + Cardinality(LocalPlaces(compl_state, p))
    BY <1>2 DEF InHif, LocalPlaces, Places
  <2>6. /\ Cardinality(Places(completion_pendingq, p)) \in Nat
        /\ Cardinality(LocalPlaces(compl_queue, p)) \in Nat
        /\ Cardinality(LocalPlaces(compl_state, p)) \in Nat
    BY Numbers
  <2> HIDE DEF LocalPlaces, Places
  <2> QED
    BY <2>1, <2>2, <2>3, <2>4, <2>5, <2>6 DEF InHif
<1>6. \A p : Replacing(p)' = Replacing(p)
  BY <1>1, <1>2, <1>t, ReplacingKept DEF Counted, Labels
<1>7. SlotTypeOK'
  <2>1. completion_pendingq' \in Queues
    BY <1>2, <1>q, PlacesConcat
  <2> QED
    BY <1>2, <1>3, <1>4, <1>t, <2>1 DEF SlotTypeOK, Queues, pipeVars
<1>8. LocalOK'
  <2>1. compl_state[c] = <<>> /\ pc'[c] \notin Processing /\ pc'[c] # "enqueue" /\ compl_state' = compl_state
    BY <1>2, <1>4, <1>t DEF LocalOK, Processing
  <2>2. pc'[c] \notin {"needBuffer", "post"}
    BY <1>4
  <2> QED
    BY <1>3, <1>4, <1>t, <2>1, <2>2, OthersOK
<1> QED
  BY <1>2, <1>5, <1>6, <1>7, <1>8, CountsKept

\* The head of the queue gets into the hands of the context.
LEMMA DequeueSlots == ASSUME SlotInv, NEW c \in Contexts, Dequeue(c) PROVE SlotInv'
<1>t. SlotTypeOK /\ LocalOK /\ pc[c] = "dequeue" /\ completion_pendingq # <<>>
  BY DEF SlotInv, Dequeue
<1>q. /\ compl_state \in [Contexts -> Queues] /\ completion_pendingq \in Queues
      /\ compl_state[c] = <<>> /\ compl_queue[c] = <<>>
  BY <1>t DEF SlotTypeOK, LocalOK, Queues, Processing
<1>h. PICK h \in Transfers : h = Head(completion_pendingq)
  BY <1>q, <1>t, PlacesTail
<1>1. /\ compl_state' = [compl_state EXCEPT ![c] = <<h>>]
      /\ completion_pendingq' = Tail(completion_pendingq)
      /\ UNCHANGED <<pipeVars, compl_queue, ring, done, reaped, handled>>
  BY <1>h DEF Dequeue, ceVars, htcVars
<1>2. PICK label : /\ Goto(c, label)
                   /\ label = IF h[1] \in SendPipes THEN "callback" ELSE "needBuffer"
  BY <1>h DEF Dequeue
<1>3. label \in Labels /\ label \in Processing /\ h[1] \in Pipes /\ <<h>> \in Queues /\ <<h>>[1] = h
  BY <1>2 DEF Labels, Processing, Transfers, Queues
<1>4. /\ compl_state' \in [Contexts -> Queues] /\ compl_state'[c] = <<h>>
      /\ \A b \in Contexts : b # c => compl_state'[b] = compl_state[b]
  BY <1>1, <1>3, <1>q
<1>5. pc' \in [Contexts -> Labels] /\ pc'[c] = label /\ \A b \in Contexts : b # c => pc'[b] = pc[b]
  BY <1>2, <1>3, <1>t DEF Goto, SlotTypeOK
<1>6. ASSUME NEW p \in Pipes PROVE InHif(p)' = InHif(p)
  <2>1. Cardinality(Places(completion_pendingq, p)) =
            Cardinality(Places(Tail(completion_pendingq), p)) + (IF h[1] = p THEN 1 ELSE 0)
    BY <1>h, <1>q, <1>t, PlacesTail
  <2>2. Cardinality(LocalPlaces(compl_state', p)) =
            Cardinality(LocalPlaces(compl_state, p)) - Cardinality(Places(compl_state[c], p))
                + Cardinality(Places(compl_state'[c], p))
    BY <1>4, <1>q, LocalMove
  <2>3. /\ Cardinality(Places(compl_state[c], p)) = 0
        /\ Cardinality(Places(compl_state'[c], p)) = IF h[1] = p THEN 1 ELSE 0
    BY <1>4, <1>q, PlacesSmall
  <2>4. Tail(completion_pendingq) \in Queues
    BY <1>q, <1>t, PlacesTail
  <2>5. Cardinality(Places(Tail(completion_pendingq), p)) \in Nat
    BY <2>4, PlacesFinite
  <2>6. InHif(p)' = Cardinality(Places(Tail(completion_pendingq), p))
                        + Cardinality(LocalPlaces(compl_queue, p)) + Cardinality(LocalPlaces(compl_state', p))
    BY <1>1 DEF InHif, LocalPlaces, Places
  <2>7. /\ Cardinality(Places(completion_pendingq, p)) \in Nat
        /\ Cardinality(LocalPlaces(compl_queue, p)) \in Nat
        /\ Cardinality(LocalPlaces(compl_state, p)) \in Nat
    BY Numbers
  <2> QED
    BY <2>1, <2>2, <2>3, <2>5, <2>6, <2>7 DEF InHif
<1>7. ASSUME NEW p \in RecvPipes PROVE Replacing(p)' = Replacing(p)
  <2>1. pc[c] \notin Counted
    BY <1>t DEF Counted
  <2>2. ~(label \in Counted /\ compl_state'[c][1][1] = p)
    <3>1. p \notin SendPipes
      BY ContextAssumption
    <3> QED
      BY <1>2, <1>3, <1>4, <3>1 DEF Counted
  <2> QED
    BY <1>2, <1>3, <1>4, <1>t, <2>1, <2>2, ReplacingKept
<1>8. SlotTypeOK'
  <2>1. completion_pendingq' \in Queues
    BY <1>1, <1>q, <1>t, PlacesTail
  <2> QED
    BY <1>1, <1>4, <1>5, <1>t, <2>1 DEF SlotTypeOK, Queues, pipeVars
<1>9. LocalOK'
  <2>1. pc'[c] # "enqueue" /\ compl_queue' = compl_queue
    BY <1>1, <1>2, <1>5
  <2>2. pc'[c] \in Processing /\ \E t \in Transfers : compl_state'[c] = <<t>>
    BY <1>3, <1>4, <1>5
  <2>3. pc'[c] \in {"needBuffer", "post"} => compl_state'[c][1][1] \in RecvPipes
    BY <1>2, <1>3, <1>4, <1>5 DEF Pipes
  <2> QED
    BY <1>4, <1>5, <1>q, <1>t, <2>1, <2>2, <2>3, OthersOK
<1> QED
  BY <1>1, <1>6, <1>7, <1>8, <1>9, CountsKept

\* A received message is counted in recv_bufs_needed when its context goes on to post buffers.
LEMMA NeedBufferSlots == ASSUME SlotInv, NEW c \in Contexts, NeedBuffer(c) PROVE SlotInv'
<1>t. SlotTypeOK /\ LocalOK /\ pc[c] = "needBuffer" /\ PipeOf(c) \in RecvPipes
  BY DEF SlotInv, NeedBuffer, LocalOK
<1>1. /\ recv_bufs_needed' = [recv_bufs_needed EXCEPT ![PipeOf(c)] = @ + 1] /\ Goto(c, "post")
      /\ UNCHANGED <<completion_pendingq, completion_freeq, num_sends_allowed, compl_queue,
                     compl_state, ring, done, reaped, handled>>
  BY DEF NeedBuffer, Needed, queueVars, ctxVars, ceVars, htcVars
<1>2. pc' \in [Contexts -> Labels] /\ pc'[c] = "post" /\ \A b \in Contexts : b # c => pc'[b] = pc[b]
  BY <1>1, <1>t DEF Goto, SlotTypeOK, Labels
<1>3. SlotTypeOK'
  BY <1>1, <1>2, <1>t DEF SlotTypeOK
<1>4. LocalOK'
  <2>1. compl_queue[c] = <<>> /\ \E t \in Transfers : compl_state[c] = <<t>>
    BY <1>t DEF LocalOK, Processing
  <2>2. pc'[c] \in Processing /\ pc'[c] # "enqueue"
    BY <1>2 DEF Processing
  <2>3. compl_state'[c][1][1] \in RecvPipes
    BY <1>1, <1>t DEF PipeOf
  <2> QED
    BY <1>1, <1>2, <1>t, <2>1, <2>2, <2>3, OthersOK
<1>5. \A p : InHif(p)' = InHif(p)
  BY <1>1 DEF InHif, LocalPlaces, Places
<1>6. StatesConserved' /\ SendsConserved'
  BY <1>1, <1>5 DEF SlotInv, StatesConserved, SendsConserved
<1>7. ASSUME NEW p \in RecvPipes
      PROVE  Cardinality(Replacing(p))' = Cardinality(Replacing(p)) + (IF p = PipeOf(c) THEN 1 ELSE 0)
  <2>1. CASE p = PipeOf(c)
    <3>1. Replacing(p)' = Replacing(p) \cup {c}
      BY <1>1, <1>2, <1>t, <2>1 DEF Replacing, PipeOf
    <3>2. c \notin Replacing(p)
      BY <1>t DEF Replacing
    <3>3. IsFiniteSet(Replacing(p))
      BY Numbers DEF Pipes
    <3> QED
      BY <2>1, <3>1, <3>2, <3>3, FS_AddElement
  <2>2. CASE p # PipeOf(c)
    <3>1. Replacing(p)' = Replacing(p)
      BY <1>1, <1>2, <1>t, <2>2 DEF Replacing, PipeOf
    <3>2. Cardinality(Replacing(p)) \in Nat
      BY Numbers DEF Pipes
    <3> QED
      BY <2>2, <3>1, <3>2
  <2> QED
    BY <2>1, <2>2
<1>8. ReceiveSlotsConserved'
  <2> SUFFICES ASSUME NEW p \in RecvPipes
               PROVE  ring[p] + done[p] + (InHif(p) - Cardinality(Replacing(p))') + recv_bufs_needed'[p]
                          = Entries - 1
    BY <1>1, <1>5 DEF ReceiveSlotsConserved, Unreplaced
  <2>1. /\ ring[p] + done[p] + (InHif(p) - Cardinality(Replacing(p))) + recv_bufs_needed[p] = Entries - 1
        /\ p \in Pipes
    BY DEF SlotInv, ReceiveSlotsConserved, Unreplaced, Pipes
  <2>2. recv_bufs_needed'[p] = recv_bufs_needed[p] + (IF p = PipeOf(c) THEN 1 ELSE 0)
    BY <1>1, <1>t DEF SlotTypeOK
  <2>3. /\ ring[p] \in Nat /\ done[p] \in Nat /\ recv_bufs_needed[p] \in Nat /\ InHif(p) \in Nat
        /\ Cardinality(Replacing(p)) \in Nat /\ Entries \in Nat
    BY <1>t, <2>1, Numbers DEF SlotTypeOK
  <2> QED
    BY <1>7, <2>1, <2>2, <2>3
<1> QED
  BY <1>3, <1>4, <1>6, <1>8 DEF SlotInv

\* The completion state goes back to its pipe.
LEMMA RecycleSlots == ASSUME SlotInv, NEW c \in Contexts, Recycle(c) PROVE SlotInv'
<1>t. SlotTypeOK /\ LocalOK /\ pc[c] = "recycle" /\ pc[c] \in Processing
  BY DEF SlotInv, Recycle, Processing
<1>h. /\ PipeOf(c) \in Pipes /\ compl_state[c] \in Queues
      /\ \A p : Cardinality(Places(compl_state[c], p)) = IF PipeOf(c) = p THEN 1 ELSE 0
  BY <1>t, InHandCounted
<1>1. /\ completion_freeq' = [completion_freeq EXCEPT ![PipeOf(c)] = @ + 1]
      /\ num_sends_allowed' =
             [p \in SendPipes |-> num_sends_allowed[p] + (IF p = PipeOf(c) THEN 1 ELSE 0)]
      /\ compl_state' = [compl_state EXCEPT ![c] = <<>>]
      /\ Goto(c, "dequeue")
      /\ UNCHANGED <<completion_pendingq, recv_bufs_needed, compl_queue, ring, done, reaped, handled>>
  BY DEF Recycle, Recycled, Allowed, queueVars, ceVars, htcVars
<1>2. pc' \in [Contexts -> Labels] /\ pc'[c] = "dequeue" /\ \A b \in Contexts : b # c => pc'[b] = pc[b]
  BY <1>1, <1>t DEF Goto, SlotTypeOK, Labels
<1>3. /\ compl_state \in [Contexts -> Queues] /\ compl_state' \in [Contexts -> Queues]
      /\ compl_state'[c] = <<>> /\ \A b \in Contexts : b # c => compl_state'[b] = compl_state[b]
  BY <1>1, <1>t DEF SlotTypeOK, Queues
<1>4. SlotTypeOK'
  <2>1. completion_freeq' \in [Pipes -> Int] /\ num_sends_allowed' \in [SendPipes -> Nat]
    <3>1. completion_freeq' \in [Pipes -> Int]
      BY <1>1, <1>h, <1>t DEF SlotTypeOK
    <3>2. \A p \in SendPipes : num_sends_allowed[p] + (IF p = PipeOf(c) THEN 1 ELSE 0) \in Nat
      BY <1>t DEF SlotTypeOK
    <3> QED
      BY <1>1, <3>1, <3>2
  <2> QED
    BY <1>1, <1>2, <1>3, <1>t, <2>1 DEF SlotTypeOK, Queues
<1>5. LocalOK'
  <2>1. compl_queue[c] = <<>>
    BY <1>t DEF LocalOK
  <2>2. pc'[c] \notin Processing /\ pc'[c] # "enqueue" /\ pc'[c] \notin {"needBuffer", "post"}
    BY <1>2 DEF Processing
  <2> QED
    BY <1>1, <1>2, <1>3, <1>t, <2>1, <2>2, OthersOK
<1>6. ASSUME NEW p \in Pipes
      PROVE  /\ InHif(p)' = InHif(p) - (IF p = PipeOf(c) THEN 1 ELSE 0)
             /\ InHif(p) \in Nat /\ Entries \in Nat
  <2>1. Cardinality(LocalPlaces(compl_state', p)) =
            Cardinality(LocalPlaces(compl_state, p)) - Cardinality(Places(compl_state[c], p))
                + Cardinality(Places(compl_state'[c], p))
    BY <1>3, LocalMove
  <2>2. Cardinality(Places(compl_state'[c], p)) = 0
    <3>1. Places(<<>>, p) = {}
      BY DEF Places
    <3> QED
      BY <1>3, <3>1, FS_EmptySet
  <2>3. InHif(p)' = Cardinality(Places(completion_pendingq, p))
                        + Cardinality(LocalPlaces(compl_queue, p)) + Cardinality(LocalPlaces(compl_state', p))
    BY <1>1 DEF InHif, LocalPlaces, Places
  <2>4. /\ Cardinality(Places(completion_pendingq, p)) \in Nat
        /\ Cardinality(LocalPlaces(compl_queue, p)) \in Nat
        /\ Cardinality(LocalPlaces(compl_state, p)) \in Nat
        /\ InHif(p) \in Nat /\ Entries \in Nat
    BY Numbers
  <2> QED
    BY <1>h, <2>1, <2>2, <2>3, <2>4 DEF InHif
<1>7. ASSUME NEW p \in Pipes
      PROVE  /\ Cardinality(Replacing(p))' = Cardinality(Replacing(p)) - (IF p = PipeOf(c) THEN 1 ELSE 0)
             /\ Cardinality(Replacing(p)) \in Nat
  <2>0. IsFiniteSet(Replacing(p)) /\ Cardinality(Replacing(p)) \in Nat
    BY Numbers
  <2>1. CASE p = PipeOf(c)
    <3>1. Replacing(p)' = Replacing(p) \ {c}
      BY <1>2, <1>3, <1>t, <2>1 DEF Replacing, PipeOf
    <3>2. c \in Replacing(p)
      BY <1>t, <2>1 DEF Replacing
    <3> QED
      BY <2>0, <2>1, <3>1, <3>2, FS_RemoveElement
  <2>2. CASE p # PipeOf(c)
    <3>1. Replacing(p)' = Replacing(p)
      BY <1>2, <1>3, <1>t, <2>2 DEF Replacing, PipeOf
    <3> QED
      BY <2>0, <2>2, <3>1
  <2> QED
    BY <2>1, <2>2
<1>8. StatesConserved'
  <2> SUFFICES ASSUME NEW p \in Pipes PROVE completion_freeq'[p] + InHif(p)' = Entries
    BY DEF StatesConserved
  <2>1. completion_freeq[p] + InHif(p) = Entries
    BY DEF SlotInv, StatesConserved
  <2>2. /\ completion_freeq'[p] = completion_freeq[p] + (IF p = PipeOf(c) THEN 1 ELSE 0)
        /\ completion_freeq[p] \in Int
    BY <1>1, <1>h, <1>t DEF SlotTypeOK
  <2> QED
    BY <1>6, <2>1, <2>2
<1>9. SendsConserved'
  <2> SUFFICES ASSUME NEW p \in SendPipes
               PROVE  num_sends_allowed'[p] + ring[p] + done[p] + InHif(p)' = Entries - 1
    BY <1>1 DEF SendsConserved
  <2>1. num_sends_allowed[p] + ring[p] + done[p] + InHif(p) = Entries - 1 /\ p \in Pipes
    BY DEF SlotInv, SendsConserved, Pipes
  <2>2. /\ num_sends_allowed'[p] = num_sends_allowed[p] + (IF p = PipeOf(c) THEN 1 ELSE 0)
        /\ num_sends_allowed[p] \in Nat /\ ring[p] \in Nat /\ done[p] \in Nat
    BY <1>1, <1>t, <2>1 DEF SlotTypeOK
  <2> QED
    BY <1>6, <2>1, <2>2
<1>10. ReceiveSlotsConserved'
  <2> SUFFICES ASSUME NEW p \in RecvPipes
               PROVE  ring[p] + done[p] + (InHif(p)' - Cardinality(Replacing(p))') + recv_bufs_needed[p]
                          = Entries - 1
    BY <1>1 DEF ReceiveSlotsConserved, Unreplaced
  <2>1. /\ ring[p] + done[p] + (InHif(p) - Cardinality(Replacing(p))) + recv_bufs_needed[p] = Entries - 1
        /\ p \in Pipes
    BY DEF SlotInv, ReceiveSlotsConserved, Unreplaced, Pipes
  <2>2. InHif(p)' - Cardinality(Replacing(p))' = InHif(p) - Cardinality(Replacing(p))
    BY <1>6, <1>7, <2>1
  <2> QED
    BY <2>1, <2>2
<1> QED
  BY <1>4, <1>5, <1>8, <1>9, <1>10 DEF SlotInv

\* A sender takes an entry that is allowed, the engine takes one that is posted, and a posted
\* buffer is one that was needed.
LEMMA RingSlots ==
    ASSUME SlotInv, NEW o \in Pipes,
           HIFSend_head(o) \/ CopyEngine(o) \/ \E c \in Contexts : PostBuffer(c, o)
    PROVE  SlotInv'
<1>t. /\ ring \in [Pipes -> Nat] /\ done \in [Pipes -> Nat]
      /\ num_sends_allowed \in [SendPipes -> Nat] /\ recv_bufs_needed \in [RecvPipes -> Nat]
      /\ \A p \in SendPipes : p \in Pipes /\ p \notin RecvPipes
      /\ \A p \in RecvPipes : p \in Pipes /\ p \notin SendPipes
  BY ContextAssumption DEF SlotInv, SlotTypeOK, Pipes
<1>1. CASE HIFSend_head(o)
  <2>1. /\ o \in SendPipes /\ num_sends_allowed[o] > 0
        /\ num_sends_allowed' = [num_sends_allowed EXCEPT ![o] = @ - 1]
        /\ ring' = [ring EXCEPT ![o] = @ + 1]
        /\ UNCHANGED <<completion_pendingq, completion_freeq, recv_bufs_needed, pc, ctxVars, done,
                       reaped, handled>>
    BY <1>1 DEF HIFSend_head, SendAccepted, queueVars, htcVars
  <2>2. num_sends_allowed' \in [SendPipes -> Nat] /\ ring' \in [Pipes -> Nat]
    BY <1>t, <2>1
  <2>3. \A p \in SendPipes :
            num_sends_allowed'[p] + ring'[p] + done'[p] = num_sends_allowed[p] + ring[p] + done[p]
    BY <1>t, <2>1
  <2>4. \A p \in RecvPipes :
            recv_bufs_needed'[p] + ring'[p] + done'[p] = recv_bufs_needed[p] + ring[p] + done[p]
    BY <1>t, <2>1
  <2> QED
    BY <1>t, <2>1, <2>2, <2>3, <2>4, RingMove
<1>2. CASE CopyEngine(o)
  <2>1. /\ ring[o] > 0
        /\ ring' = [ring EXCEPT ![o] = @ - 1] /\ done' = [done EXCEPT ![o] = @ + 1]
        /\ UNCHANGED <<completion_pendingq, completion_freeq, num_sends_allowed, recv_bufs_needed, pc,
                       ctxVars, reaped, handled>>
    BY <1>2 DEF CopyEngine, queueVars, pipeVars, htcVars
  <2>2. done' \in [Pipes -> Nat] /\ ring' \in [Pipes -> Nat]
    BY <1>t, <2>1
  <2>3. \A p \in SendPipes :
            num_sends_allowed'[p] + ring'[p] + done'[p] = num_sends_allowed[p] + ring[p] + done[p]
    BY <1>t, <2>1
  <2>4. \A p \in RecvPipes :
            recv_bufs_needed'[p] + ring'[p] + done'[p] = recv_bufs_needed[p] + ring[p] + done[p]
    BY <1>t, <2>1
  <2> QED
    BY <1>t, <2>1, <2>2, <2>3, <2>4, RingMove
<1>3. ASSUME NEW c \in Contexts, PostBuffer(c, o) PROVE SlotInv'
  <2>1. /\ o \in RecvPipes /\ recv_bufs_needed[o] > 0
        /\ recv_bufs_needed' = [recv_bufs_needed EXCEPT ![o] = @ - 1]
        /\ ring' = [ring EXCEPT ![o] = @ + 1]
        /\ UNCHANGED <<completion_pendingq, completion_freeq, num_sends_allowed, pc, ctxVars, done,
                       reaped, handled>>
    BY <1>3 DEF PostBuffer, queueVars, htcVars
  <2>2. recv_bufs_needed' \in [RecvPipes -> Nat] /\ ring' \in [Pipes -> Nat]
    BY <1>t, <2>1
  <2>3. \A p \in SendPipes :
            num_sends_allowed'[p] + ring'[p] + done'[p] = num_sends_allowed[p] + ring[p] + done[p]
    BY <1>t, <2>1
  <2>4. \A p \in RecvPipes :
            recv_bufs_needed'[p] + ring'[p] + done'[p] = recv_bufs_needed[p] + ring[p] + done[p]
    BY <1>t, <2>1
  <2> QED
    BY <1>t, <2>1, <2>2, <2>3, <2>4, RingMove
<1> QED
  BY <1>1, <1>2, <1>3

\* Every step keeps the completion states and the slots.
LEMMA SlotStep == SlotInv /\ [Next]_vars => SlotInv'
<1> SUFFICES ASSUME SlotInv, [Next]_vars PROVE SlotInv'
  OBVIOUS
<1>u. ASSUME UNCHANGED <<completion_pendingq, pipeVars, pc, ctxVars, ring, done, reaped, handled>>
      PROVE  SlotInv'
  <2>1. SlotTypeOK' /\ LocalOK'
    BY <1>u DEF SlotInv, SlotTypeOK, LocalOK, PipeOf, pipeVars, ctxVars
  <2>2. \A p : InHif(p)' = InHif(p) /\ Replacing(p)' = Replacing(p)
    BY <1>u DEF InHif, LocalPlaces, Places, Replacing, PipeOf, ctxVars
  <2> QED
    BY <1>u, <2>1, <2>2, CountsKept
<1>1. ASSUME NEW p \in Pipes,
             HIFSend_head(p) \/ CopyEngine(p) \/ \E c \in Contexts : PostBuffer(c, p)
      PROVE  SlotInv'
  BY <1>1, RingSlots
<1>2. CASE HIF_fw_interrupt_handler
  <2>1. /\ pc[FwContext] = "idle" /\ Goto(FwContext, "decAndTest") /\ handled' = handled
        /\ UNCHANGED <<completion_pendingq, pipeVars, ctxVars, ring, done, reaped>>
    BY <1>2 DEF HIF_fw_interrupt_handler, queueVars, ceVars, htcVars
  <2> QED
    BY <2>1, QuietMove, ContextAssumption
    DEF Labels, Processing, Counted, SlotInv, SlotTypeOK
<1>3. ASSUME NEW c \in Contexts, NEW p \in Pipes, Reap(c, p) PROVE SlotInv'
  BY <1>3, ReapSlots
<1>4. ASSUME NEW c \in Contexts, Enqueue(c) PROVE SlotInv'
  BY <1>4, EnqueueSlots
<1>5. ASSUME NEW c \in Contexts, NEW label \in Labels, Goto(c, label), handled' = handled,
             UNCHANGED <<completion_pendingq, pipeVars, ctxVars, ring, done, reaped>>,
             pc[c] \notin {"enqueue", "recycle", "callback"}, label \notin {"enqueue", "needBuffer", "post"},
             pc[c] \in Processing <=> label \in Processing,
             pc[c] \in Counted <=> label \in Counted
      PROVE  SlotInv'
  BY <1>5, QuietMove DEF SlotInv, SlotTypeOK
<1>6. ASSUME NEW c \in Contexts, DecAndTest(c) \/ Unlucky(c) \/ EndFwEvents(c) \/ Leave(c) PROVE SlotInv'
  <2>1. /\ pc[c] \in {"decAndTest", "unlucky", "fwEvent", "dequeue"}
        /\ \E label \in {"fwEvent", "unlucky", "idle", "dequeue"} : Goto(c, label)
        /\ UNCHANGED <<completion_pendingq, pipeVars, ctxVars, ring, done, reaped, handled>>
    BY <1>6 DEF DecAndTest, Unlucky, EndFwEvents, Leave, queueVars, ceVars, htcVars
  <2> QED
    BY <2>1, <1>5 DEF Labels, Processing, Counted
<1>7. ASSUME NEW c \in Contexts, FwEvent(c) PROVE SlotInv'
  BY <1>7, <1>u DEF FwEvent, queueVars, ceVars, htcVars
<1>8. ASSUME NEW c \in Contexts, Dequeue(c) PROVE SlotInv'
  BY <1>8, DequeueSlots
<1>9. ASSUME NEW c \in Contexts, NeedBuffer(c) PROVE SlotInv'
  BY <1>9, NeedBufferSlots
<1>10. ASSUME NEW c \in Contexts, EndPost(c) PROVE SlotInv'
  <2>1. /\ pc[c] = "post" /\ Goto(c, "callback") /\ handled' = handled
        /\ UNCHANGED <<completion_pendingq, pipeVars, ctxVars, ring, done, reaped>>
    BY <1>10 DEF EndPost, queueVars, ceVars, htcVars
  <2> QED
    BY <2>1, <1>5 DEF Labels, Processing, Counted
<1>11. ASSUME NEW c \in Contexts, Callback(c) PROVE SlotInv'
  <2>1. /\ pc[c] = "callback" /\ Goto(c, "recycle")
        /\ handled' = [handled EXCEPT ![PipeOf(c)] = @ + 1]
        /\ UNCHANGED <<completion_pendingq, pipeVars, ctxVars, ring, done, reaped>>
    BY <1>11 DEF Callback, queueVars, ceVars
  <2>2. handled' \in [Pipes -> Nat]
    <3>1. PipeOf(c) \in Pipes
      BY <2>1, InHandCounted DEF Processing
    <3> QED
      BY <2>1, <3>1 DEF SlotInv, SlotTypeOK
  <2> QED
    BY <2>1, <2>2, QuietMove DEF Labels, Processing, Counted
<1>12. ASSUME NEW c \in Contexts, Recycle(c) PROVE SlotInv'
  BY <1>12, RecycleSlots
<1>13. CASE UNCHANGED vars
  BY <1>13, <1>u DEF vars, queueVars, ceVars, htcVars
<1> QED
  BY <1>1, <1>2, <1>3, <1>4, <1>6, <1>7, <1>8, <1>9, <1>10, <1>11, <1>12, <1>13 DEF Next, Context

\* HIFStart leaves every state free, every send entry allowed and every buffer posted.
LEMMA SlotInit == Init => SlotInv
<1> SUFFICES ASSUME Init PROVE SlotInv
  OBVIOUS
<1>e. Entries \in Nat /\ Entries - 1 \in Nat
  BY BoundAssumption
<1>1. SlotTypeOK
  <2>1. /\ completion_freeq \in [Pipes -> Int] /\ num_sends_allowed \in [SendPipes -> Nat]
        /\ recv_bufs_needed \in [RecvPipes -> Nat] /\ done \in [Pipes -> Nat]
        /\ reaped \in [Pipes -> Nat] /\ handled \in [Pipes -> Nat]
    BY <1>e DEF Init
  <2>2. ring \in [Pipes -> Nat]
    BY <1>e DEF Init
  <2>3. /\ completion_pendingq \in Seq(Transfers)
        /\ compl_queue \in [Contexts -> Seq(Transfers)] /\ compl_state \in [Contexts -> Seq(Transfers)]
    BY DEF Init
  <2>4. pc \in [Contexts -> Labels]
    BY DEF Init, Labels
  <2> QED
    BY <2>1, <2>2, <2>3, <2>4 DEF SlotTypeOK
<1>2. LocalOK
  BY DEF Init, LocalOK, Processing
<1>3. ASSUME NEW p PROVE InHif(p) = 0 /\ Cardinality(Replacing(p)) = 0
  <2>1. /\ Places(completion_pendingq, p) = {} /\ LocalPlaces(compl_queue, p) = {}
        /\ LocalPlaces(compl_state, p) = {} /\ Replacing(p) = {}
    BY DEF Init, Places, LocalPlaces, Replacing
  <2> QED
    BY <2>1, FS_EmptySet DEF InHif
<1>4. StatesConserved
  BY <1>3, <1>e DEF Init, StatesConserved
<1>5. SendsConserved
  <2>1. \A p \in SendPipes : p \in Pipes /\ p \notin RecvPipes
    BY ContextAssumption DEF Pipes
  <2> QED
    BY <1>3, <1>e, <2>1 DEF Init, SendsConserved
<1>6. ReceiveSlotsConserved
  BY <1>3, <1>e DEF Init, ReceiveSlotsConserved, Unreplaced, Pipes
<1> QED
  BY <1>1, <1>2, <1>4, <1>5, <1>6 DEF SlotInv

\* Completion states and receive slots are conserved.
THEOREM SlotInvariant == Spec => []SlotInv
  BY SlotInit, SlotStep, PTL DEF Spec

\* hif_post_recv_buffers, failed allocations and the recycling of hif_completion_thread never lose
\* a receive slot, for any number of contexts, pipes, entries and failures.
THEOREM ReceiveSlotsConservedAlways == Spec => []ReceiveSlotsConserved
<1>1. SlotInv => ReceiveSlotsConserved
  BY DEF SlotInv
<1> QED
  BY <1>1, SlotInvariant, PTL

\* HIF_PCI_CE_send_done and HIF_PCI_CE_recv_data find a free completion state for every transfer
\* the engine has finished, and the ring takes everything that is posted.  That a single context
\* handles completions at a time is needed: each one that has counted its received message and
\* not given the state back takes a state more than the ring accounts for.
THEOREM FreeStateAvailableAlways == Spec => []FreeStateAvailable
<1>1. SlotInv /\ OneInstance => FreeStateAvailable
  <2> SUFFICES ASSUME SlotInv, OneInstance, NEW p \in Pipes
               PROVE  /\ completion_freeq[p] + InHif(p) = Entries
                      /\ done[p] <= completion_freeq[p]
                      /\ ring[p] + done[p] <= Entries - 1
    BY DEF FreeStateAvailable
  <2>1. completion_freeq[p] + InHif(p) = Entries
    BY DEF SlotInv, StatesConserved
  <2>2. /\ completion_freeq[p] \in Int /\ ring[p] \in Nat /\ done[p] \in Nat
        /\ InHif(p) \in Nat /\ Entries \in Nat /\ Cardinality(Replacing(p)) \in Nat
    BY Numbers DEF SlotInv, SlotTypeOK
  <2>3. CASE p \in SendPipes
    <3>1. num_sends_allowed[p] + ring[p] + done[p] + InHif(p) = Entries - 1
      BY <2>3 DEF SlotInv, SendsConserved
    <3>2. num_sends_allowed[p] \in Nat
      BY <2>3 DEF SlotInv, SlotTypeOK
    <3> QED
      BY <2>1, <2>2, <3>1, <3>2
  <2>4. CASE p \in RecvPipes
    <3>1. ring[p] + done[p] + (InHif(p) - Cardinality(Replacing(p))) + recv_bufs_needed[p] = Entries - 1
      BY <2>4 DEF SlotInv, ReceiveSlotsConserved, Unreplaced
    <3>2. recv_bufs_needed[p] \in Nat
      BY <2>4 DEF SlotInv, SlotTypeOK
    <3>3. Cardinality(Replacing(p)) <= 1 /\ Cardinality(Replacing(p)) <= InHif(p)
      <4>1. CASE Replacing(p) = {}
        BY <2>2, <4>1, FS_EmptySet
      <4>2. CASE Replacing(p) # {}
        <5>1. PICK c \in Replacing(p) : TRUE
          BY <4>2
        <5>2. c \in Contexts /\ pc[c] \in Processing /\ pc[c] \in Inside /\ PipeOf(c) = p
          BY <5>1 DEF Replacing, Processing, Inside
        <5>3. Replacing(p) = {c}
          BY <5>1, <5>2 DEF Replacing, OneInstance, Inside
        <5>4. Cardinality(Replacing(p)) = 1
          BY <5>3, FS_Singleton
        <5>5. InHif(p) >= 1
          BY <5>2, InHandCounted
        <5> QED
          BY <2>2, <5>4, <5>5
      <4> QED
        BY <4>1, <4>2
    <3> QED
      BY <2>1, <2>2, <3>1, <3>2, <3>3
  <2> QED
    BY <2>3, <2>4 DEF Pipes
<1> QED
  BY <1>1, SlotInvariant, OneInstanceAlways, PTL

----------------------------------------------------------------------------
(* Every action keeps the order                                            *)

\* The transfers of a queue.
LEMMA Elements ==
    ASSUME NEW q \in Queues, NEW i \in DOMAIN q
    PROVE  q[i][1] \in Pipes /\ q[i][2] \in Nat /\ q[i] = <<q[i][1], q[i][2]>> /\ i \in Nat /\ i >= 1
<1>1. q[i] \in Transfers /\ i \in 1..Len(q)
  BY DEF Queues
<1> QED
  BY <1>1 DEF Transfers

\* The elements of a concatenation.
LEMMA ConcatElements ==
    ASSUME NEW q \in Queues, NEW r \in Queues
    PROVE  /\ \A i \in DOMAIN (q \o r) :
                \/ i \in DOMAIN q /\ (q \o r)[i] = q[i]
                \/ /\ i \notin DOMAIN q /\ i - Len(q) \in DOMAIN r
                   /\ (q \o r)[i] = r[i - Len(q)]
           /\ \A i \in DOMAIN q : i \in DOMAIN (q \o r) /\ (q \o r)[i] = q[i]
           /\ \A i \in DOMAIN r : i + Len(q) \in DOMAIN (q \o r) /\ (q \o r)[i + Len(q)] = r[i]
           /\ Len(q) \in Nat
           /\ \A i \in DOMAIN q, j \in DOMAIN (q \o r) : j \notin DOMAIN q => ~(j < i)
<1>1. /\ q \in Seq(Transfers) /\ r \in Seq(Transfers) /\ Len(q) \in Nat /\ Len(r) \in Nat
      /\ DOMAIN q = 1..Len(q) /\ DOMAIN r = 1..Len(r)
  BY DEF Queues
<1>2. /\ Len(q \o r) = Len(q) + Len(r)
      /\ \A i \in 1..Len(q) + Len(r) : (q \o r)[i] = IF i <= Len(q) THEN q[i] ELSE r[i - Len(q)]
      /\ q \o r \in Seq(Transfers)
  BY <1>1, ConcatProperties
<1>3. DOMAIN (q \o r) = 1..Len(q) + Len(r)
  BY <1>2
<1>4. ASSUME NEW i \in 1..Len(q) + Len(r)
      PROVE  \/ i \in 1..Len(q) /\ (q \o r)[i] = q[i]
             \/ i \notin 1..Len(q) /\ i - Len(q) \in 1..Len(r) /\ (q \o r)[i] = r[i - Len(q)]
  BY <1>1, <1>2
<1>5. ASSUME NEW i \in 1..Len(q) PROVE i \in 1..Len(q) + Len(r) /\ (q \o r)[i] = q[i]
  BY <1>1, <1>2
<1>6. ASSUME NEW i \in 1..Len(r)
      PROVE  i + Len(q) \in 1..Len(q) + Len(r) /\ (q \o r)[i + Len(q)] = r[i]
  <2>1. i + Len(q) \in 1..Len(q) + Len(r) /\ ~(i + Len(q) <= Len(q)) /\ (i + Len(q)) - Len(q) = i
    BY <1>1
  <2> QED
    BY <1>2, <2>1
<1>7. \A i \in 1..Len(q), j \in 1..Len(q) + Len(r) : j \notin 1..Len(q) => ~(j < i)
  BY <1>1
<1> QED
  BY <1>1, <1>3, <1>4, <1>5, <1>6, <1>7

\* A step of one context that does not take or hand over a transfer.
LEMMA LastTakenKept ==
    ASSUME SlotTypeOK, NEW c \in Contexts, NEW label, Goto(c, label), handled' = handled,
           \A b \in Contexts : b # c => compl_state'[b] = compl_state[b], NEW p,
           (pc[c] \in InHand /\ compl_state[c][1][1] = p) <=>
               (label \in InHand /\ compl_state'[c][1][1] = p)
    PROVE  LastTaken(p)' = LastTaken(p)
<1>1. pc'[c] = label /\ \A b \in Contexts : b # c => pc'[b] = pc[b]
  BY DEF Goto, SlotTypeOK
<1>2. Ahead(p)' <=> Ahead(p)
  <2>1. ASSUME NEW b \in Contexts
        PROVE  (pc[b] \in InHand /\ compl_state[b][1][1] = p) <=>
                   (pc'[b] \in InHand /\ compl_state'[b][1][1] = p)
    BY <1>1
  <2>2. Ahead(p)' <=> \E b \in Contexts : pc'[b] \in InHand /\ compl_state'[b][1][1] = p
    BY DEF Ahead, PipeOf
  <2>3. Ahead(p) <=> \E b \in Contexts : pc[b] \in InHand /\ compl_state[b][1][1] = p
    BY DEF Ahead, PipeOf
  <2> QED
    BY <2>1, <2>2, <2>3
<1> QED
  BY <1>2 DEF LastTaken

\* A step that leaves the queues alone.
LEMMA OrderKept ==
    ASSUME OrderInv, UNCHANGED <<completion_pendingq, compl_queue, reaped, lateOrEarly, multipleMsi>>,
           \A p : LastTaken(p)' = LastTaken(p),
           \A c \in Contexts : pc'[c] \in InHand => compl_state'[c][1][2] = handled'[compl_state'[c][1][1]] + 1
    PROVE  OrderInv'
<1>1. NextInHand'
  BY DEF OrderInv, NextInHand, PipeOf
<1>2. WaitingInOrder'
  BY DEF OrderInv, WaitingInOrder, InRange, Increasing, Serves
<1>3. NoneMissing'
  BY DEF OrderInv, NoneMissing
<1> QED
  BY <1>1, <1>2, <1>3 DEF OrderInv

\* The step that moves a context between labels at which it has nothing in hand, or keeps it
\* at such with the same transfer.
LEMMA OrderMove ==
    ASSUME SlotInv, OrderInv, NEW c \in Contexts, NEW label, Goto(c, label),
           UNCHANGED <<completion_pendingq, ctxVars, reaped, handled, lateOrEarly, multipleMsi>>,
           pc[c] \in InHand <=> label \in InHand
    PROVE  OrderInv'
<1>1. SlotTypeOK /\ compl_state' = compl_state /\ compl_queue' = compl_queue
  BY DEF SlotInv, ctxVars
<1>2. \A p : LastTaken(p)' = LastTaken(p)
  BY <1>1, LastTakenKept
<1>3. \A b \in Contexts : pc'[b] \in InHand <=> pc[b] \in InHand
  BY <1>1 DEF SlotTypeOK, Goto
<1>4. \A b \in Contexts :
          pc'[b] \in InHand => compl_state'[b][1][2] = handled'[compl_state'[b][1][1]] + 1
  BY <1>1, <1>3 DEF OrderInv, NextInHand, PipeOf
<1> QED
  BY <1>1, <1>2, <1>4, OrderKept

\* What is reaped comes after all that has been reaped before.
LEMMA ReapOrder ==
    ASSUME SlotInv, OrderInv, NEW c \in Contexts, NEW o \in Pipes, Reap(c, o) PROVE OrderInv'
<1>t. SlotTypeOK /\ pc[c] = "idle" /\ Serves(c, o) /\ compl_queue[c] = <<>>
  BY DEF SlotInv, Reap, LocalOK
<1>1. PICK k \in 1..done[o] : /\ compl_queue' = [compl_queue EXCEPT ![c] = Batch(o, k)]
                              /\ reaped' = [reaped EXCEPT ![o] = @ + k]
  BY DEF Reap
<1>2. /\ UNCHANGED <<completion_pendingq, compl_state, handled, lateOrEarly, multipleMsi>>
      /\ Goto(c, "enqueue")
  BY DEF Reap, queueVars, htcVars, envVars
<1>3. k \in Nat /\ k >= 1 /\ reaped[o] \in Nat
  BY <1>t DEF SlotTypeOK
<1>q. completion_pendingq \in Queues /\ compl_queue \in [Contexts -> Queues]
  BY <1>t DEF SlotTypeOK, Queues
<1>4. \A p : LastTaken(p)' = LastTaken(p)
  BY <1>2, <1>t, LastTakenKept DEF InHand
<1>n. \A p \in Pipes : LastTaken(p) \in Nat /\ LastTaken(p) <= reaped[p] /\ reaped[p] \in Nat
  BY <1>t DEF OrderInv, NextInHand, LastTaken, SlotTypeOK
<1>5. /\ compl_queue'[c] = Batch(o, k)
      /\ \A b \in Contexts : b # c => compl_queue'[b] = compl_queue[b]
      /\ \A p \in Pipes : reaped'[p] = reaped[p] + (IF p = o THEN k ELSE 0)
  BY <1>1, <1>3, <1>t DEF SlotTypeOK
<1>6. /\ DOMAIN Batch(o, k) = 1..k
      /\ \A i \in 1..k : Batch(o, k)[i] = <<o, reaped[o] + i>>
  BY <1>3 DEF Batch
<1>7. NextInHand'
  <2>1. \A b \in Contexts : pc'[b] \in InHand => pc[b] \in InHand
    BY <1>2, <1>t DEF Goto, SlotTypeOK, InHand
  <2>2. \A p \in Pipes : LastTaken(p)' <= reaped'[p]
    BY <1>3, <1>4, <1>5, <1>n
  <2> QED
    BY <1>2, <2>1, <2>2 DEF OrderInv, NextInHand, PipeOf
<1>8. ASSUME NEW q \in Queues, InRange(q) PROVE InRange(q)'
  <2> SUFFICES ASSUME NEW i \in DOMAIN q
               PROVE  LastTaken(q[i][1]) < q[i][2] /\ q[i][2] <= reaped'[q[i][1]]
    BY <1>4 DEF InRange
  <2>1. q[i][1] \in Pipes /\ q[i][2] \in Nat
    BY Elements
  <2>2. LastTaken(q[i][1]) < q[i][2] /\ q[i][2] <= reaped[q[i][1]]
    BY <1>8 DEF InRange
  <2> QED
    BY <1>3, <1>5, <1>n, <2>1, <2>2
<1>9. WaitingInOrder'
  <2>1. InRange(completion_pendingq)' /\ Increasing(completion_pendingq)'
    <3>1. InRange(completion_pendingq) /\ Increasing(completion_pendingq)
      BY DEF OrderInv, WaitingInOrder
    <3>2. PICK q \in Queues : q = completion_pendingq
      BY <1>q
    <3>3. completion_pendingq' = q
      BY <1>2, <3>2
    <3>4. \A i \in DOMAIN q : LastTaken(q[i][1])' < q[i][2] /\ q[i][2] <= reaped'[q[i][1]]
      BY <1>8, <3>1, <3>2 DEF InRange
    <3> QED
      BY <3>1, <3>2, <3>3, <3>4 DEF InRange, Increasing
  <2>2. ASSUME NEW b \in Contexts
        PROVE  /\ InRange(compl_queue[b])' /\ Increasing(compl_queue[b])'
               /\ \A i \in DOMAIN compl_queue'[b] :
                     /\ Serves(b, compl_queue'[b][i][1])
                     /\ \A j \in DOMAIN completion_pendingq :
                           completion_pendingq[j][1] = compl_queue'[b][i][1] =>
                               completion_pendingq[j][2] < compl_queue'[b][i][2]
    <3>1. CASE b = c
      <4>1. ASSUME NEW i \in 1..k
            PROVE  /\ LastTaken(o) < reaped[o] + i /\ reaped[o] + i <= reaped'[o]
                   /\ Batch(o, k)[i][1] = o /\ Batch(o, k)[i][2] = reaped[o] + i
        BY <1>3, <1>5, <1>6, <1>n
      <4>2. InRange(compl_queue[b])'
        BY <1>4, <1>5, <1>6, <3>1, <4>1 DEF InRange
      <4>3. Increasing(compl_queue[b])'
        <5>1. ASSUME NEW i \in 1..k, NEW j \in 1..k, i < j PROVE Batch(o, k)[i][2] < Batch(o, k)[j][2]
          BY <1>3, <4>1, <5>1
        <5>2. compl_queue'[b] = Batch(o, k) /\ DOMAIN Batch(o, k) = 1..k
          BY <1>5, <1>6, <3>1
        <5> QED
          BY <5>1, <5>2, Zenon DEF Increasing
      <4>4. ASSUME NEW i \in 1..k, NEW j \in DOMAIN completion_pendingq, completion_pendingq[j][1] = o
            PROVE  completion_pendingq[j][2] < reaped[o] + i
        <5>1. completion_pendingq[j][2] <= reaped[o] /\ completion_pendingq[j][2] \in Nat
          BY <1>q, <4>4, Elements DEF OrderInv, WaitingInOrder, InRange
        <5> QED
          BY <1>3, <5>1
      <4> QED
        BY <1>5, <1>6, <1>t, <3>1, <4>1, <4>2, <4>3, <4>4
    <3>2. CASE b # c
      <4>1. /\ InRange(compl_queue[b]) /\ Increasing(compl_queue[b])
            /\ \A i \in DOMAIN compl_queue[b] :
                  /\ Serves(b, compl_queue[b][i][1])
                  /\ \A j \in DOMAIN completion_pendingq :
                        completion_pendingq[j][1] = compl_queue[b][i][1] =>
                            completion_pendingq[j][2] < compl_queue[b][i][2]
        BY DEF OrderInv, WaitingInOrder
      <4>2. compl_queue'[b] = compl_queue[b] /\ compl_queue[b] \in Queues
        BY <1>5, <1>q, <3>2
      <4>3. PICK q \in Queues : q = compl_queue[b]
        BY <4>2
      <4>4. \A i \in DOMAIN q : LastTaken(q[i][1])' < q[i][2] /\ q[i][2] <= reaped'[q[i][1]]
        BY <1>8, <4>1, <4>3 DEF InRange
      <4> QED
        BY <4>1, <4>2, <4>3, <4>4 DEF InRange, Increasing
    <3> QED
      BY <3>1, <3>2
  <2>3. \A b \in Contexts : \A p : Serves(b, p)' <=> Serves(b, p)
    BY <1>2 DEF Serves
  <2> QED
    BY <1>2, <2>1, <2>2, <2>3 DEF WaitingInOrder
<1>10. NoneMissing'
  <2> SUFFICES ASSUME NEW p \in Pipes, NEW n \in Nat, LastTaken(p) < n, n <= reaped'[p]
               PROVE  \/ \E i \in DOMAIN completion_pendingq : completion_pendingq[i] = <<p, n>>
                      \/ \E b \in Contexts : \E i \in DOMAIN compl_queue'[b] : compl_queue'[b][i] = <<p, n>>
    BY <1>2, <1>4 DEF NoneMissing
  <2>1. CASE n <= reaped[p]
    <3>1. \/ \E i \in DOMAIN completion_pendingq : completion_pendingq[i] = <<p, n>>
          \/ \E b \in Contexts : \E i \in DOMAIN compl_queue[b] : compl_queue[b][i] = <<p, n>>
      BY <2>1 DEF OrderInv, NoneMissing
    <3>2. \A b \in Contexts : \A i \in DOMAIN compl_queue[b] : b # c
      BY <1>t
    <3> QED
      BY <1>5, <3>1, <3>2
  <2>2. CASE ~(n <= reaped[p])
    <3>1. p = o /\ n - reaped[o] \in 1..k /\ reaped[o] + (n - reaped[o]) = n
      BY <1>3, <1>5, <1>n, <2>2
    <3>2. n - reaped[o] \in DOMAIN compl_queue'[c] /\ compl_queue'[c][n - reaped[o]] = <<p, n>>
      BY <1>5, <1>6, <3>1
    <3> QED
      BY <3>2
  <2> QED
    BY <2>1, <2>2
<1> QED
  BY <1>2, <1>7, <1>9, <1>10 DEF OrderInv

\* Enqueuing appends a batch to what has been reaped before it: another context's batch is of
\* another pipe.
LEMMA EnqueueOrder ==
    ASSUME SlotInv, OrderInv, NEW c \in Contexts, Enqueue(c) PROVE OrderInv'
<1>t. SlotTypeOK /\ pc[c] = "enqueue"
  BY DEF SlotInv, Enqueue
<1>1. /\ completion_pendingq' = completion_pendingq \o compl_queue[c]
      /\ compl_queue' = [compl_queue EXCEPT ![c] = <<>>]
      /\ UNCHANGED <<compl_state, handled, reaped, lateOrEarly, multipleMsi>>
  BY DEF Enqueue, Appended, ceVars, htcVars, envVars
<1>2. \A p : LastTaken(p)' = LastTaken(p)
  <2>1. CASE MustCall
    BY <1>t, <1>1, <2>1, LastTakenKept DEF InHand, Enqueue
  <2>2. CASE ~MustCall
    BY <1>t, <1>1, <2>2, LastTakenKept DEF InHand, Enqueue
  <2> QED
    BY <2>1, <2>2
<1>3. PICK q \in Queues, r \in Queues : q = completion_pendingq /\ r = compl_queue[c]
  BY <1>t DEF SlotTypeOK, Queues
<1>4. PICK s : s = q \o r
  OBVIOUS
<1>5. completion_pendingq' = s
  BY <1>1, <1>3, <1>4
<1>6. /\ compl_queue'[c] = <<>>
      /\ \A b \in Contexts : b # c => compl_queue'[b] = compl_queue[b]
  BY <1>1, <1>t DEF SlotTypeOK
<1>7. /\ \A i \in DOMAIN s : \/ i \in DOMAIN q /\ s[i] = q[i]
                             \/ i \notin DOMAIN q /\ i - Len(q) \in DOMAIN r /\ s[i] = r[i - Len(q)]
      /\ \A i \in DOMAIN q : i \in DOMAIN s /\ s[i] = q[i]
      /\ \A i \in DOMAIN r : i + Len(q) \in DOMAIN s /\ s[i + Len(q)] = r[i]
      /\ Len(q) \in Nat
      /\ \A i \in DOMAIN q, j \in DOMAIN s : j \notin DOMAIN q => ~(j < i)
  BY <1>4, ConcatElements
<1>8. /\ \A i \in DOMAIN q : LastTaken(q[i][1]) < q[i][2] /\ q[i][2] <= reaped[q[i][1]]
      /\ \A i, j \in DOMAIN q : i < j /\ q[i][1] = q[j][1] => q[i][2] < q[j][2]
      /\ \A i \in DOMAIN r : LastTaken(r[i][1]) < r[i][2] /\ r[i][2] <= reaped[r[i][1]]
      /\ \A i, j \in DOMAIN r : i < j /\ r[i][1] = r[j][1] => r[i][2] < r[j][2]
      /\ \A i \in DOMAIN r : Serves(c, r[i][1])
      /\ \A i \in DOMAIN r, j \in DOMAIN q : q[j][1] = r[i][1] => q[j][2] < r[i][2]
  BY <1>3 DEF OrderInv, WaitingInOrder, InRange, Increasing
<1>9. NextInHand'
  <2>1. \A b \in Contexts : pc'[b] \in InHand => pc[b] \in InHand
    BY <1>t DEF Enqueue, Goto, SlotTypeOK, InHand
  <2> QED
    BY <1>1, <1>2, <2>1 DEF OrderInv, NextInHand, PipeOf
<1>10. InRange(completion_pendingq)'
  <2>1. \A i \in DOMAIN s : LastTaken(s[i][1]) < s[i][2] /\ s[i][2] <= reaped[s[i][1]]
    BY <1>7, <1>8
  <2> QED
    BY <1>1, <1>2, <1>5, <2>1 DEF InRange
<1>11. Increasing(completion_pendingq)'
  <2>1. ASSUME NEW i \in DOMAIN s, NEW j \in DOMAIN s, i < j, s[i][1] = s[j][1]
        PROVE  s[i][2] < s[j][2]
    <3>1. CASE i \in DOMAIN q /\ j \in DOMAIN q
      BY <1>7, <1>8, <2>1, <3>1
    <3>2. CASE i \in DOMAIN q /\ j \notin DOMAIN q
      BY <1>7, <1>8, <2>1, <3>2
    <3>3. CASE i \notin DOMAIN q /\ j \in DOMAIN q
      BY <1>7, <2>1, <3>3
    <3>4. CASE i \notin DOMAIN q /\ j \notin DOMAIN q
      <4>1. /\ i - Len(q) \in DOMAIN r /\ s[i] = r[i - Len(q)]
            /\ j - Len(q) \in DOMAIN r /\ s[j] = r[j - Len(q)]
        BY <1>7, <3>4
      <4>2. i \in Int /\ j \in Int /\ Len(q) \in Int
        <5>1. DOMAIN s \subseteq Int
          BY <1>4 DEF Queues
        <5> QED
          BY <1>7, <5>1
      <4>3. i - Len(q) < j - Len(q)
        BY <2>1, <4>2
      <4> QED
        BY <1>8, <2>1, <4>1, <4>3
    <3> QED
      BY <3>1, <3>2, <3>3, <3>4
  <2> QED
    BY <1>5, <2>1 DEF Increasing
<1>12. ASSUME NEW b \in Contexts
       PROVE  /\ InRange(compl_queue[b])' /\ Increasing(compl_queue[b])'
              /\ \A i \in DOMAIN compl_queue'[b] :
                    /\ Serves(b, compl_queue'[b][i][1])
                    /\ \A j \in DOMAIN s :
                          s[j][1] = compl_queue'[b][i][1] => s[j][2] < compl_queue'[b][i][2]
  <2>1. CASE b = c
    BY <1>6, <2>1 DEF InRange, Increasing
  <2>2. CASE b # c
    <3>1. PICK z : z = compl_queue[b]
      OBVIOUS
    <3>2. compl_queue'[b] = z
      BY <1>6, <2>2, <3>1
    <3>3. /\ \A i \in DOMAIN z : LastTaken(z[i][1]) < z[i][2] /\ z[i][2] <= reaped[z[i][1]]
          /\ \A i, j \in DOMAIN z : i < j /\ z[i][1] = z[j][1] => z[i][2] < z[j][2]
          /\ \A i \in DOMAIN z : Serves(b, z[i][1])
          /\ \A i \in DOMAIN z, j \in DOMAIN q : q[j][1] = z[i][1] => q[j][2] < z[i][2]
      BY <1>3, <3>1 DEF OrderInv, WaitingInOrder, InRange, Increasing
    <3>4. \A i \in DOMAIN z, j \in DOMAIN r : r[j][1] # z[i][1]
      BY <1>8, <2>2, <3>3 DEF Serves
    <3>5. \A i \in DOMAIN z, j \in DOMAIN s : s[j][1] = z[i][1] => s[j][2] < z[i][2]
      BY <1>7, <3>3, <3>4
    <3> QED
      BY <1>1, <1>2, <3>2, <3>3, <3>5 DEF InRange, Increasing
  <2> QED
    BY <2>1, <2>2
<1>13. WaitingInOrder'
  BY <1>1, <1>5, <1>10, <1>11, <1>12 DEF WaitingInOrder, Serves
<1>14. NoneMissing'
  <2> SUFFICES ASSUME NEW p \in Pipes, NEW n \in Nat, LastTaken(p) < n, n <= reaped[p]
               PROVE  \/ \E i \in DOMAIN s : s[i] = <<p, n>>
                      \/ \E b \in Contexts : \E i \in DOMAIN compl_queue'[b] : compl_queue'[b][i] = <<p, n>>
    BY <1>1, <1>2, <1>5 DEF NoneMissing
  <2>1. \/ \E i \in DOMAIN q : q[i] = <<p, n>>
        \/ \E b \in Contexts : \E i \in DOMAIN compl_queue[b] : compl_queue[b][i] = <<p, n>>
    BY <1>3 DEF OrderInv, NoneMissing
  <2>2. CASE \E i \in DOMAIN q : q[i] = <<p, n>>
    BY <1>7, <2>2
  <2>3. CASE \E i \in DOMAIN r : r[i] = <<p, n>>
    BY <1>7, <2>3
  <2>4. CASE \E b \in Contexts : b # c /\ \E i \in DOMAIN compl_queue[b] : compl_queue[b][i] = <<p, n>>
    BY <1>6, <2>4
  <2> QED
    BY <1>3, <2>1, <2>2, <2>3, <2>4
<1> QED
  BY <1>1, <1>9, <1>13, <1>14 DEF OrderInv

\* The elements of a queue without its head.
LEMMA TailElements ==
    ASSUME NEW q \in Queues, q # <<>>
    PROVE  /\ 1 \in DOMAIN q /\ Head(q) = q[1]
           /\ \A i \in DOMAIN Tail(q) : i + 1 \in DOMAIN q /\ Tail(q)[i] = q[i + 1]
           /\ \A i \in DOMAIN q : i # 1 => i - 1 \in DOMAIN Tail(q) /\ Tail(q)[i - 1] = q[i]
           /\ DOMAIN q \subseteq Nat \ {0} /\ DOMAIN Tail(q) \subseteq Nat \ {0}
<1>1. /\ q \in Seq(Transfers) /\ Len(q) \in Nat /\ Len(q) # 0 /\ DOMAIN q = 1..Len(q)
      /\ Head(q) = q[1]
  BY DEF Queues
<1>2. /\ Tail(q) \in Seq(Transfers) /\ Len(Tail(q)) = Len(q) - 1
      /\ \A i \in 1..Len(q) - 1 : Tail(q)[i] = q[i + 1]
  BY <1>1, HeadTailProperties
<1>3. DOMAIN Tail(q) = 1..Len(q) - 1
  BY <1>2
<1>4. \A i \in 1..Len(q) - 1 : i + 1 \in 1..Len(q)
  BY <1>1
<1>5. ASSUME NEW i \in 1..Len(q), i # 1
      PROVE  i - 1 \in 1..Len(q) - 1 /\ Tail(q)[i - 1] = q[i]
  <2>1. i - 1 \in 1..Len(q) - 1 /\ (i - 1) + 1 = i
    BY <1>1, <1>5
  <2> QED
    BY <1>2, <2>1
<1>6. 1 \in 1..Len(q) /\ 1..Len(q) \subseteq Nat \ {0} /\ 1..Len(q) - 1 \subseteq Nat \ {0}
  BY <1>1
<1> QED
  BY <1>1, <1>2, <1>3, <1>4, <1>5, <1>6

\* The context inside is alone with a transfer in its hands.
LEMMA OneInHand ==
    ASSUME OneInstance, NEW c \in Contexts, pc[c] \in Inside, NEW b \in Contexts, pc[b] \in InHand
    PROVE  b = c
  BY DEF OneInstance, Inside, InHand

\* The head of the queue is the transfer that comes next on its pipe.
LEMMA HeadIsNext ==
    ASSUME SlotTypeOK, OrderInv, completion_pendingq # <<>>, NEW h, h = Head(completion_pendingq)
    PROVE  /\ h[1] \in Pipes /\ h[2] \in Nat /\ h[2] = LastTaken(h[1]) + 1
           /\ h[2] <= reaped[h[1]] /\ LastTaken(h[1]) \in Nat
<1>1. PICK q \in Queues : q = completion_pendingq
  BY DEF SlotTypeOK, Queues
<1>2. 1 \in DOMAIN q /\ h = q[1] /\ DOMAIN q \subseteq Nat \ {0}
  BY <1>1, TailElements
<1>3. h[1] \in Pipes /\ h[2] \in Nat /\ h = <<h[1], h[2]>>
  BY <1>2, Elements
<1>4. LastTaken(h[1]) \in Nat
  BY <1>3 DEF SlotTypeOK, LastTaken
<1>5. LastTaken(h[1]) < h[2] /\ h[2] <= reaped[h[1]] /\ reaped[h[1]] \in Nat
  BY <1>1, <1>2, <1>3 DEF OrderInv, WaitingInOrder, InRange, SlotTypeOK
<1>6. ASSUME h[2] # LastTaken(h[1]) + 1 PROVE FALSE
  <2>1. PICK n \in Nat : n = LastTaken(h[1]) + 1
    BY <1>4
  <2>2. LastTaken(h[1]) < n /\ n <= reaped[h[1]] /\ n < h[2]
    BY <1>3, <1>4, <1>5, <1>6, <2>1
  <2>3. \/ \E i \in DOMAIN q : q[i] = <<h[1], n>>
        \/ \E c \in Contexts : \E i \in DOMAIN compl_queue[c] : compl_queue[c][i] = <<h[1], n>>
    BY <1>1, <1>3, <2>2 DEF OrderInv, NoneMissing
  <2>4. ASSUME NEW i \in DOMAIN q, q[i] = <<h[1], n>> PROVE FALSE
    <3>1. i # 1
      BY <1>2, <1>3, <2>2, <2>4
    <3>2. 1 < i
      BY <1>2, <3>1
    <3>3. h[2] < n
      BY <1>1, <1>2, <2>4, <3>2 DEF OrderInv, WaitingInOrder, Increasing
    <3> QED
      BY <1>3, <2>2, <3>3
  <2>5. ASSUME NEW c \in Contexts, NEW i \in DOMAIN compl_queue[c], compl_queue[c][i] = <<h[1], n>>
        PROVE  FALSE
    <3>1. h[2] < n
      BY <1>1, <1>2, <2>5 DEF OrderInv, WaitingInOrder
    <3> QED
      BY <1>3, <2>2, <3>1
  <2> QED
    BY <2>3, <2>4, <2>5
<1> QED
  BY <1>3, <1>4, <1>5, <1>6

\* The head that is taken is the next transfer, and what stays comes after it.
LEMMA DequeueOrder ==
    ASSUME SlotInv, OneInstance, OrderInv, NEW c \in Contexts, Dequeue(c) PROVE OrderInv'
<1>t. SlotTypeOK /\ pc[c] = "dequeue" /\ completion_pendingq # <<>>
  BY DEF SlotInv, Dequeue
<1>1. PICK h : h = Head(completion_pendingq)
  OBVIOUS
<1>2. /\ compl_state' = [compl_state EXCEPT ![c] = <<h>>]
      /\ completion_pendingq' = Tail(completion_pendingq)
      /\ UNCHANGED <<compl_queue, handled, reaped, lateOrEarly, multipleMsi>>
  BY <1>1 DEF Dequeue, ceVars, htcVars, envVars
<1>3. /\ h[1] \in Pipes /\ h[2] \in Nat /\ h[2] = LastTaken(h[1]) + 1
      /\ h[2] <= reaped[h[1]] /\ LastTaken(h[1]) \in Nat
  BY <1>1, <1>t, HeadIsNext
<1>4. compl_state'[c] = <<h>> /\ compl_state'[c][1] = h
  BY <1>2, <1>t DEF SlotTypeOK
<1>5. pc'[c] \in InHand /\ \A b \in Contexts : b # c => pc'[b] \notin InHand /\ pc[b] \notin InHand
  <2>1. pc'[c] \in {"callback", "needBuffer"} /\ \A b \in Contexts : b # c => pc'[b] = pc[b]
    BY <1>t DEF Dequeue, Goto, SlotTypeOK
  <2> QED
    BY <1>t, <2>1, OneInHand DEF InHand, Inside
<1>6. \A p : LastTaken(p) = handled[p] + 0
  BY <1>5, <1>t DEF LastTaken, Ahead, InHand
<1>7. \A p : LastTaken(p)' = handled[p] + (IF p = h[1] THEN 1 ELSE 0)
  <2>1. \A p : Ahead(p)' <=> p = h[1]
    BY <1>4, <1>5 DEF Ahead, PipeOf
  <2> QED
    BY <1>2, <2>1 DEF LastTaken
<1>8. \A p \in Pipes : handled[p] \in Nat /\ reaped[p] \in Nat /\ handled[p] <= reaped[p]
  BY <1>6, <1>t DEF SlotTypeOK, OrderInv, NextInHand
<1>9. NextInHand'
  <2>1. h[2] = handled[h[1]] + 1
    BY <1>3, <1>6, <1>8
  <2>2. \A p \in Pipes : LastTaken(p)' <= reaped[p]
    BY <1>3, <1>7, <1>8, <2>1
  <2> QED
    BY <1>2, <1>4, <1>5, <2>1, <2>2 DEF NextInHand, PipeOf
<1>10. PICK q \in Queues : q = completion_pendingq
  BY <1>t DEF SlotTypeOK, Queues
<1>s. PICK s : s = Tail(q)
  OBVIOUS
<1>11. completion_pendingq' = s
  BY <1>2, <1>10, <1>s
<1>12. /\ 1 \in DOMAIN q /\ h = q[1] /\ DOMAIN q \subseteq Nat \ {0}
       /\ \A i \in DOMAIN s : i + 1 \in DOMAIN q /\ s[i] = q[i + 1]
       /\ \A i \in DOMAIN q : i # 1 => i - 1 \in DOMAIN s /\ s[i - 1] = q[i]
       /\ DOMAIN s \subseteq Nat \ {0}
  BY <1>1, <1>10, <1>s, <1>t, TailElements
<1>13. /\ \A i \in DOMAIN q : LastTaken(q[i][1]) < q[i][2] /\ q[i][2] <= reaped[q[i][1]]
       /\ \A i, j \in DOMAIN q : i < j /\ q[i][1] = q[j][1] => q[i][2] < q[j][2]
  BY <1>10 DEF OrderInv, WaitingInOrder, InRange, Increasing
<1>14. ASSUME NEW p \in Pipes, NEW n \in Nat, LastTaken(p) < n, p = h[1] => h[2] < n
       PROVE  LastTaken(p)' < n
  BY <1>3, <1>6, <1>7, <1>8, <1>14
<1>15. InRange(completion_pendingq)'
  <2>1. ASSUME NEW i \in DOMAIN s PROVE LastTaken(s[i][1])' < s[i][2] /\ s[i][2] <= reaped[s[i][1]]
    <3>1. i + 1 \in DOMAIN q /\ s[i] = q[i + 1] /\ 1 < i + 1
      BY <1>12
    <3>2. s[i][1] \in Pipes /\ s[i][2] \in Nat
      BY <3>1, Elements
    <3>3. LastTaken(s[i][1]) < s[i][2] /\ s[i][2] <= reaped[s[i][1]]
      BY <1>13, <3>1
    <3>4. s[i][1] = h[1] => h[2] < s[i][2]
      BY <1>12, <1>13, <3>1
    <3> QED
      BY <1>14, <3>2, <3>3, <3>4
  <2> QED
    BY <1>2, <1>11, <2>1 DEF InRange
<1>16. Increasing(completion_pendingq)'
  <2>1. ASSUME NEW i \in DOMAIN s, NEW j \in DOMAIN s, i < j, s[i][1] = s[j][1]
        PROVE  s[i][2] < s[j][2]
    <3>1. i + 1 < j + 1
      BY <1>12, <2>1
    <3> QED
      BY <1>12, <1>13, <2>1, <3>1
  <2> QED
    BY <1>11, <2>1 DEF Increasing
<1>17. ASSUME NEW b \in Contexts
       PROVE  /\ InRange(compl_queue[b])' /\ Increasing(compl_queue[b])'
              /\ \A i \in DOMAIN compl_queue[b] :
                    /\ Serves(b, compl_queue[b][i][1])
                    /\ \A j \in DOMAIN s :
                          s[j][1] = compl_queue[b][i][1] => s[j][2] < compl_queue[b][i][2]
  <2>1. PICK z \in Queues : z = compl_queue[b]
    BY <1>t DEF SlotTypeOK, Queues
  <2>2. /\ \A i \in DOMAIN z : LastTaken(z[i][1]) < z[i][2] /\ z[i][2] <= reaped[z[i][1]]
        /\ \A i, j \in DOMAIN z : i < j /\ z[i][1] = z[j][1] => z[i][2] < z[j][2]
        /\ \A i \in DOMAIN z : Serves(b, z[i][1])
        /\ \A i \in DOMAIN z, j \in DOMAIN q : q[j][1] = z[i][1] => q[j][2] < z[i][2]
    BY <1>10, <2>1 DEF OrderInv, WaitingInOrder, InRange, Increasing
  <2>3. \A i \in DOMAIN z : LastTaken(z[i][1])' < z[i][2]
    <3>1. ASSUME NEW i \in DOMAIN z PROVE LastTaken(z[i][1])' < z[i][2]
      <4>1. z[i][1] \in Pipes /\ z[i][2] \in Nat
        BY Elements
      <4>2. LastTaken(z[i][1]) < z[i][2] /\ (z[i][1] = h[1] => h[2] < z[i][2])
        BY <1>12, <2>2
      <4> QED
        BY <1>14, <4>1, <4>2
    <3> QED
      BY <3>1
  <2>4. \A i \in DOMAIN z, j \in DOMAIN s : s[j][1] = z[i][1] => s[j][2] < z[i][2]
    BY <1>12, <2>2
  <2>5. compl_queue'[b] = z
    BY <1>2, <2>1
  <2> QED
    BY <1>2, <2>1, <2>2, <2>3, <2>4, <2>5 DEF InRange, Increasing
<1>18. WaitingInOrder'
  BY <1>2, <1>11, <1>15, <1>16, <1>17 DEF WaitingInOrder, Serves
<1>19. NoneMissing'
  <2> SUFFICES ASSUME NEW p \in Pipes, NEW n \in Nat, LastTaken(p)' < n, n <= reaped[p]
               PROVE  \/ \E i \in DOMAIN s : s[i] = <<p, n>>
                      \/ \E b \in Contexts : \E i \in DOMAIN compl_queue[b] : compl_queue[b][i] = <<p, n>>
    BY <1>2, <1>11 DEF NoneMissing
  <2>1. LastTaken(p) < n /\ (p = h[1] => n # h[2])
    BY <1>3, <1>6, <1>7, <1>8
  <2>2. \/ \E i \in DOMAIN q : q[i] = <<p, n>>
        \/ \E b \in Contexts : \E i \in DOMAIN compl_queue[b] : compl_queue[b][i] = <<p, n>>
    BY <1>10, <2>1 DEF OrderInv, NoneMissing
  <2>3. ASSUME NEW i \in DOMAIN q, q[i] = <<p, n>> PROVE \E j \in DOMAIN s : s[j] = <<p, n>>
    <3>1. i # 1
      BY <1>12, <2>1, <2>3
    <3> QED
      BY <1>12, <2>3, <3>1
  <2> QED
    BY <2>2, <2>3
<1> QED
  BY <1>2, <1>9, <1>18, <1>19 DEF OrderInv

\* The handler is called for the next transfer of its pipe.
LEMMA CallbackOrder ==
    ASSUME SlotInv, OneInstance, OrderInv, NEW c \in Contexts, Callback(c) PROVE OrderInv'
<1>t. /\ SlotTypeOK /\ pc[c] = "callback"
      /\ UNCHANGED <<completion_pendingq, compl_queue, compl_state, reaped, multipleMsi>>
      /\ handled' = [handled EXCEPT ![PipeOf(c)] = @ + 1]
      /\ lateOrEarly' = (lateOrEarly \/ compl_state[c][1][2] # handled[PipeOf(c)] + 1)
      /\ Goto(c, "recycle")
  BY DEF SlotInv, Callback, queueVars, ctxVars, ceVars, envVars
<1>1. compl_state[c][1][2] = handled[PipeOf(c)] + 1
  BY <1>t DEF OrderInv, NextInHand, InHand
<1>2. UNCHANGED lateOrEarly
  BY <1>t, <1>1 DEF OrderInv
<1>3. /\ pc'[c] \notin InHand
      /\ \A b \in Contexts : b # c => pc'[b] \notin InHand /\ pc[b] \notin InHand
  <2>1. pc'[c] = "recycle" /\ \A b \in Contexts : b # c => pc'[b] = pc[b]
    BY <1>t DEF Goto, SlotTypeOK
  <2> QED
    BY <1>t, <2>1, OneInHand DEF InHand, Inside
<1>4. PipeOf(c) \in Pipes
  BY <1>t, InHandCounted DEF SlotInv, Processing
<1>5. ASSUME NEW p PROVE LastTaken(p)' = LastTaken(p)
  <2>1. ~Ahead(p)' /\ (Ahead(p) <=> p = PipeOf(c))
    BY <1>3, <1>t DEF Ahead, InHand
  <2>2. handled'[p] = handled[p] + 1 \/ p # PipeOf(c)
    BY <1>4, <1>t DEF SlotTypeOK
  <2>3. CASE p = PipeOf(c)
    <3>1. handled'[p] = handled[p] + 1 /\ handled[p] + 1 \in Nat
      BY <1>4, <1>t, <2>3 DEF SlotTypeOK
    <3> QED
      BY <2>1, <2>3, <3>1 DEF LastTaken
  <2>4. CASE p # PipeOf(c)
    <3>1. handled'[p] = handled[p]
      BY <1>t, <2>4
    <3> QED
      BY <2>1, <2>4, <3>1 DEF LastTaken
  <2> QED
    BY <2>3, <2>4
<1>6. \A b \in Contexts : pc'[b] \notin InHand
  BY <1>3
<1> QED
  BY <1>t, <1>2, <1>5, <1>6, OrderKept

\* A recycled transfer is not in hand any more.
LEMMA RecycleOrder ==
    ASSUME SlotInv, OneInstance, OrderInv, NEW c \in Contexts, Recycle(c) PROVE OrderInv'
<1>t. /\ SlotTypeOK /\ pc[c] = "recycle" /\ Goto(c, "dequeue")
      /\ compl_state' = [compl_state EXCEPT ![c] = <<>>]
      /\ UNCHANGED <<completion_pendingq, compl_queue, reaped, handled, lateOrEarly, multipleMsi>>
  BY DEF SlotInv, Recycle, queueVars, ceVars, htcVars, envVars
<1>1. \A b \in Contexts : b # c => compl_state'[b] = compl_state[b]
  BY <1>t DEF SlotTypeOK
<1>2. \A p : LastTaken(p)' = LastTaken(p)
  BY <1>t, <1>1, LastTakenKept DEF InHand
<1>3. \A b \in Contexts : pc'[b] \notin InHand
  <2>1. pc'[c] = "dequeue" /\ \A b \in Contexts : b # c => pc'[b] = pc[b]
    BY <1>t DEF Goto, SlotTypeOK
  <2> QED
    BY <1>t, <2>1, OneInHand DEF InHand, Inside
<1> QED
  BY <1>t, <1>2, <1>3, OrderKept

\* Every step keeps the order.
LEMMA OrderStep == SlotInv /\ OneInstance /\ OrderInv /\ [Next]_vars => OrderInv'
<1> SUFFICES ASSUME SlotInv, OneInstance, OrderInv, [Next]_vars PROVE OrderInv'
  OBVIOUS
<1>u. ASSUME UNCHANGED <<completion_pendingq, ctxVars, pc, reaped, handled, lateOrEarly, multipleMsi>>
      PROVE  OrderInv'
  <2>1. \A p : LastTaken(p)' = LastTaken(p)
    BY <1>u DEF LastTaken, Ahead, PipeOf, ctxVars
  <2>2. \A b \in Contexts :
            pc'[b] \in InHand => compl_state'[b][1][2] = handled'[compl_state'[b][1][1]] + 1
    BY <1>u DEF OrderInv, NextInHand, PipeOf, ctxVars
  <2> QED
    BY <1>u, <2>1, <2>2, OrderKept DEF ctxVars
<1>m. ASSUME NEW c \in Contexts, NEW label, Goto(c, label), UNCHANGED <<completion_pendingq, ctxVars, ceVars, htcVars, multipleMsi>>,
             pc[c] \in InHand <=> label \in InHand
      PROVE  OrderInv'
  BY <1>m, OrderMove DEF ceVars, htcVars
<1>1. ASSUME NEW p \in Pipes, HIFSend_head(p) \/ CopyEngine(p) PROVE OrderInv'
  <2>1. CASE HIFSend_head(p)
    BY <2>1, <1>u DEF HIFSend_head, queueVars, htcVars, envVars
  <2>2. CASE CopyEngine(p)
    BY <2>2, <1>u DEF CopyEngine, queueVars, htcVars, envVars
  <2> QED
    BY <1>1, <2>1, <2>2
<1>2. CASE HIF_fw_interrupt_handler
  BY <1>2, <1>m, ContextAssumption DEF HIF_fw_interrupt_handler, queueVars, InHand
<1>3. ASSUME NEW c \in Contexts, NEW p \in Pipes, Reap(c, p) PROVE OrderInv'
  BY <1>3, ReapOrder
<1>4. ASSUME NEW c \in Contexts, NEW p \in Pipes, PostBuffer(c, p) PROVE OrderInv'
  BY <1>4, <1>u DEF PostBuffer, queueVars, htcVars, envVars
<1>5. ASSUME NEW c \in Contexts, Enqueue(c) PROVE OrderInv'
  BY <1>5, EnqueueOrder
<1>6. ASSUME NEW c \in Contexts, DecAndTest(c) PROVE OrderInv'
  <2>1. CASE IsLucky
    BY <1>6, <2>1, <1>m DEF DecAndTest, envVars, InHand
  <2>2. CASE ~IsLucky
    BY <1>6, <2>2, <1>m DEF DecAndTest, envVars, InHand
  <2> QED
    BY <2>1, <2>2
<1>7. ASSUME NEW c \in Contexts, Unlucky(c) \/ Leave(c) PROVE OrderInv'
  <2>1. CASE Unlucky(c)
    BY <2>1, <1>m DEF Unlucky, envVars, InHand
  <2>2. CASE Leave(c)
    BY <2>2, <1>m DEF Leave, envVars, InHand
  <2> QED
    BY <1>7, <2>1, <2>2
<1>8. ASSUME NEW c \in Contexts, FwEvent(c) PROVE OrderInv'
  BY <1>8, <1>u DEF FwEvent, queueVars, ceVars, htcVars, envVars
<1>9. ASSUME NEW c \in Contexts, EndFwEvents(c) PROVE OrderInv'
  <2>1. CASE target_status = "RESET"
    BY <1>9, <2>1, <1>m DEF EndFwEvents, queueVars, envVars, InHand
  <2>2. CASE target_status # "RESET"
    BY <1>9, <2>2, <1>m DEF EndFwEvents, queueVars, envVars, InHand
  <2> QED
    BY <2>1, <2>2
<1>10. ASSUME NEW c \in Contexts, Dequeue(c) PROVE OrderInv'
  BY <1>10, DequeueOrder
<1>11. ASSUME NEW c \in Contexts, NeedBuffer(c) \/ EndPost(c) PROVE OrderInv'
  <2>1. CASE NeedBuffer(c)
    BY <2>1, <1>m DEF NeedBuffer, queueVars, envVars, InHand
  <2>2. CASE EndPost(c)
    BY <2>2, <1>m DEF EndPost, queueVars, InHand
  <2> QED
    BY <1>11, <2>1, <2>2
<1>12. ASSUME NEW c \in Contexts, Callback(c) PROVE OrderInv'
  BY <1>12, CallbackOrder
<1>13. ASSUME NEW c \in Contexts, Recycle(c) PROVE OrderInv'
  BY <1>13, RecycleOrder
<1>14. CASE UNCHANGED vars
  BY <1>14, <1>u DEF vars, queueVars, ceVars, htcVars, envVars
<1> QED
  BY <1>1, <1>2, <1>3, <1>4, <1>5, <1>6, <1>7, <1>8, <1>9, <1>10, <1>11, <1>12, <1>13, <1>14
     DEF Next, Context

\* At first nothing has been reaped, taken or handed over.
LEMMA OrderInit == Init => OrderInv
<1> SUFFICES ASSUME Init PROVE OrderInv
  OBVIOUS
<1>1. /\ completion_pendingq = <<>> /\ lateOrEarly = FALSE
      /\ \A c \in Contexts : compl_queue[c] = <<>> /\ pc[c] \notin InHand
      /\ \A p \in Pipes : handled[p] = 0 /\ reaped[p] = 0
  BY DEF Init, InHand
<1>2. \A p \in Pipes : LastTaken(p) = 0
  BY <1>1 DEF LastTaken, Ahead
<1> QED
  BY <1>1, <1>2 DEF OrderInv, NextInHand, WaitingInOrder, NoneMissing, InRange, Increasing

\* The order of the transfers is kept from the copy engine to the handlers of HTC.
THEOREM OrderInvariant == Spec => []OrderInv
<1>1. Init => OrderInv
  BY OrderInit
<1>2. SlotInv /\ OneInstance /\ OrderInv /\ [Next]_vars => OrderInv'
  BY OrderStep
<1> QED
  BY <1>1, <1>2, SlotInvariant, OneInstanceAlways, PTL DEF Spec

\* HTC gets the completions of a pipe in the order the copy engine finished the transfers, for any
\* number of contexts and pipes, with one interrupt or one per engine.
THEOREM InOrderAlways == Spec => []InOrder
<1>1. OrderInv => InOrder
  BY DEF OrderInv, InOrder
<1> QED
  BY <1>1, OrderInvariant, PTL
=============================================================================
