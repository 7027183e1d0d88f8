--------------------------- MODULE CeSourceProofs ---------------------------
(***************************************************************************)
(* The invariants of the source ring for a ring of any size, any number of *)
(* senders and pollers and lists of any length that fits.  One inductive   *)
(* invariant, RingInv: where each thread is, who holds target_lock, the    *)
(* order of the five indices around the ring, and the sum of the entries.  *)
(* Then that the ring implements TransferFifo: the transfers between two   *)
(* indices follow from those before them entry by entry, by induction over *)
(* the entries, and every step of the ring is one of the queue or none.    *)
(***************************************************************************)
EXTENDS CeSource, FiniteSetTheorems, WellFoundedInduction, TLAPS

----------------------------------------------------------------------------
(* Arithmetic of the ring                                                  *)

\* An index that leaves the ring on either side comes back on the other.
LEMMA WrapOnce ==
    ASSUME NEW x \in Int, 0 - nentries <= x, x <= nentries
    PROVE  x % nentries = IF x < 0 THEN x + nentries ELSE IF x = nentries THEN 0 ELSE x
  BY RingAssumption, SMT

\* The distance from one index to another.
LEMMA Delta ==
    ASSUME NEW i \in Entries, NEW j \in Entries
    PROVE  /\ CE_RING_DELTA(i, j) = IF j < i THEN j - i + nentries ELSE j - i
           /\ CE_RING_DELTA(i, j) \in Entries
           /\ CE_RING_DELTA(i, j - 1) = nentries - 1 - CE_RING_DELTA(j, i)
<1>1. /\ nentries \in Nat /\ nentries > 1 /\ i \in Int /\ j \in Int
      /\ 0 <= i /\ i < nentries /\ 0 <= j /\ j < nentries
  BY RingAssumption DEF Entries
<1>2. (j - i) % nentries = IF j < i THEN j - i + nentries ELSE j - i
  BY <1>1, WrapOnce
<1>3. (i - j) % nentries = IF i < j THEN i - j + nentries ELSE i - j
  BY <1>1, WrapOnce
<1>4. ((j - 1) - i) % nentries = IF j - 1 < i THEN j - 1 - i + nentries ELSE j - 1 - i
  BY <1>1, WrapOnce
<1> QED
  BY <1>1, <1>2, <1>3, <1>4 DEF CE_RING_DELTA, Entries

\* The next index.
LEMMA Incr ==
    ASSUME NEW i \in Entries
    PROVE  /\ CE_RING_IDX_INCR(i) \in Entries
           /\ CE_RING_IDX_INCR(i) = IF i = nentries - 1 THEN 0 ELSE i + 1
<1>1. nentries \in Nat /\ nentries > 1 /\ i \in Int /\ 0 <= i /\ i < nentries
  BY RingAssumption DEF Entries
<1>2. (i + 1) % nentries = IF i + 1 = nentries THEN 0 ELSE i + 1
  BY <1>1, WrapOnce
<1> QED
  BY <1>1, <1>2 DEF CE_RING_IDX_INCR, Entries

\* Moving the far index on by one makes the distance one longer unless the ring is full.
LEMMA DeltaFar ==
    ASSUME NEW i \in Entries, NEW j \in Entries, CE_RING_DELTA(i, j) # nentries - 1
    PROVE  CE_RING_DELTA(i, CE_RING_IDX_INCR(j)) = CE_RING_DELTA(i, j) + 1
<1> DEFINE k == CE_RING_IDX_INCR(j)
<1>1. /\ nentries \in Nat /\ nentries > 1 /\ i \in Int /\ j \in Int
      /\ 0 <= i /\ i < nentries /\ 0 <= j /\ j < nentries
  BY RingAssumption DEF Entries
<1>2. k \in Entries /\ k = IF j = nentries - 1 THEN 0 ELSE j + 1
  BY Incr
<1> HIDE DEF k
<1>3. CE_RING_DELTA(i, j) = IF j < i THEN j - i + nentries ELSE j - i
  BY Delta
<1>4. CE_RING_DELTA(i, k) = IF k < i THEN k - i + nentries ELSE k - i
  BY <1>2, Delta
<1>5. CE_RING_DELTA(i, k) = CE_RING_DELTA(i, j) + 1
  BY <1>1, <1>2, <1>3, <1>4
<1> QED
  BY <1>5 DEF k

\* Moving the near index on by one makes the distance one shorter unless there is none.
LEMMA DeltaNear ==
    ASSUME NEW i \in Entries, NEW j \in Entries, i # j
    PROVE  /\ CE_RING_DELTA(i, j) > 0
           /\ CE_RING_DELTA(CE_RING_IDX_INCR(i), j) = CE_RING_DELTA(i, j) - 1
<1> DEFINE k == CE_RING_IDX_INCR(i)
<1>1. /\ nentries \in Nat /\ nentries > 1 /\ i \in Int /\ j \in Int
      /\ 0 <= i /\ i < nentries /\ 0 <= j /\ j < nentries
  BY RingAssumption DEF Entries
<1>2. k \in Entries /\ k = IF i = nentries - 1 THEN 0 ELSE i + 1
  BY Incr
<1> HIDE DEF k
<1>3. CE_RING_DELTA(i, j) = IF j < i THEN j - i + nentries ELSE j - i
  BY Delta
<1>4. CE_RING_DELTA(k, j) = IF j < k THEN j - k + nentries ELSE j - k
  BY <1>2, Delta
<1>5. CE_RING_DELTA(k, j) = CE_RING_DELTA(i, j) - 1 /\ CE_RING_DELTA(i, j) > 0
  BY <1>1, <1>2, <1>3, <1>4
<1> QED
  BY <1>5 DEF k

\* No other index is at the same distance, and going back undoes going on.
LEMMA DeltaOther ==
    ASSUME NEW i \in Entries, NEW j \in Entries
    PROVE  /\ \A k \in Entries : CE_RING_DELTA(i, k) = CE_RING_DELTA(i, j) => k = j
           /\ CE_RING_DELTA(CE_RING_IDX_INCR(i), i) = nentries - 1
           /\ (j - 1) % nentries \in Entries /\ CE_RING_IDX_INCR((j - 1) % nentries) = j
           /\ (CE_RING_IDX_INCR(j) - 1) % nentries = j
<1>1. /\ nentries \in Nat /\ nentries > 1 /\ i \in Int /\ j \in Int
      /\ 0 <= i /\ i < nentries /\ 0 <= j /\ j < nentries
  BY RingAssumption DEF Entries
<1>2. ASSUME NEW k \in Entries, CE_RING_DELTA(i, k) = CE_RING_DELTA(i, j) PROVE k = j
  <2>1. k \in Int /\ 0 <= k /\ k < nentries
    BY <1>1 DEF Entries
  <2>2. CE_RING_DELTA(i, k) = IF k < i THEN k - i + nentries ELSE k - i
    BY Delta
  <2>3. CE_RING_DELTA(i, j) = IF j < i THEN j - i + nentries ELSE j - i
    BY Delta
  <2>4. (IF k < i THEN k - i + nentries ELSE k - i) = IF j < i THEN j - i + nentries ELSE j - i
    BY <1>2, <2>2, <2>3
  <2> QED
    BY <1>1, <2>1, <2>4
<1>3. CE_RING_DELTA(CE_RING_IDX_INCR(i), i) = nentries - 1
  <2> DEFINE k == CE_RING_IDX_INCR(i)
  <2>1. k \in Entries /\ k = IF i = nentries - 1 THEN 0 ELSE i + 1
    BY Incr
  <2> HIDE DEF k
  <2>2. CE_RING_DELTA(k, i) = IF i < k THEN i - k + nentries ELSE i - k
    BY <2>1, Delta
  <2>3. CE_RING_DELTA(k, i) = nentries - 1
    BY <1>1, <2>1, <2>2
  <2> QED
    BY <2>3 DEF k
<1>4. (j - 1) % nentries = IF j = 0 THEN nentries - 1 ELSE j - 1
  BY <1>1, WrapOnce
<1>5. (j - 1) % nentries \in Entries
  BY <1>1, <1>4 DEF Entries
<1>6. CE_RING_IDX_INCR((j - 1) % nentries) = j
  BY <1>1, <1>4, <1>5, Incr
<1>7. (CE_RING_IDX_INCR(j) - 1) % nentries = j
  <2> DEFINE k == CE_RING_IDX_INCR(j)
  <2>1. k \in Entries /\ k = IF j = nentries - 1 THEN 0 ELSE j + 1
    BY Incr
  <2> HIDE DEF k
  <2>2. (k - 1) % nentries = IF k - 1 < 0 THEN k - 1 + nentries ELSE k - 1
    BY <1>1, <2>1, WrapOnce
  <2>3. (k - 1) % nentries = j
    BY <1>1, <2>1, <2>2
  <2> QED
    BY <2>3 DEF k
<1> QED
  BY <1>2, <1>3, <1>5, <1>6, <1>7

----------------------------------------------------------------------------
(* The inductive invariant                                                 *)

RingTypeOK ==
    /\ write_index \in Entries /\ sw_index \in Entries /\ hw_index \in Entries \cup {AllOnes}
    /\ SR_WR_INDEX \in Entries /\ CURRENT_SRRI \in Entries
    /\ per_transfer_context \in [Entries -> Int] /\ gather \in [Entries -> BOOLEAN]
    /\ num_sends_allowed \in Nat /\ unreturned \in Nat /\ sent \in Nat
    /\ left \in [Senders -> 0..MaxFrags] /\ taken \in [Reapers -> Int]
    /\ pc = [t \in Threads |-> pc[t]]

\* a sender has entries reserved from HIFSend_head on, a reaper a context until HIF_PCI_CE_send_done
Labels ==
    /\ \A s \in Senders :
           pc[s] \in {"idle", "sendlist", "post"} /\ (left[s] = 0 <=> pc[s] = "idle")
    /\ \A r \in Reapers :
           /\ pc[r] \in {"idle", "next", "sendDone", "more", "clear", "check"}
           /\ taken[r] # NoContext <=> pc[r] = "sendDone"
    /\ stopped => \A t \in Threads : pc[t] = "idle"

\* target_lock is held by one
Locked(t) == pc[t] \in {"post", "clear", "check"}
OneHolder == \A t, u \in Threads : Locked(t) /\ Locked(u) => t = u

\* the indices follow each other around the ring
InOrder ==
    ~stopped =>
        /\ CE_RING_DELTA(sw_index, CURRENT_SRRI) <= CE_RING_DELTA(sw_index, SR_WR_INDEX)
        /\ CE_RING_DELTA(sw_index, SR_WR_INDEX) <= CE_RING_DELTA(sw_index, write_index)
        /\ hw_index # AllOnes =>
             CE_RING_DELTA(sw_index, hw_index) <= CE_RING_DELTA(sw_index, CURRENT_SRRI)

\* every entry that is in use has a context
Filled ==
    \A i \in Entries : CE_RING_DELTA(sw_index, i) < CE_RING_DELTA(sw_index, write_index)
                         => per_transfer_context[i] # NoContext

Holding == {r \in Reapers : taken[r] # NoContext}
Total ==
    num_sends_allowed + Cardinality(Reserved) + CE_RING_DELTA(sw_index, write_index)
        + Cardinality(Holding) + unreturned

\* no entry is counted twice, even when some are lost
Bounded == Total <= nentries - 1 /\ (~stopped /\ ~recovery => Total = nentries - 1)

RingInv ==
    RingTypeOK /\ Labels /\ OneHolder /\ InOrder /\ Filled /\ ListsWhole /\ Bounded

----------------------------------------------------------------------------
(* Counting                                                                *)

\* The counted sets are finite, so what a step adds or removes changes the count by one.
LEMMA CountsFinite ==
    /\ IsFiniteSet(Reserved) /\ Cardinality(Reserved) \in Nat
    /\ IsFiniteSet(Holding) /\ Cardinality(Holding) \in Nat
<1>0. MaxFrags \in Int /\ 1 \in Int
  BY RingAssumption
<1>1. IsFiniteSet(1..MaxFrags) /\ IsFiniteSet(Senders) /\ IsFiniteSet(Reapers)
  BY <1>0, RingAssumption, FS_Interval, FS_Singleton, FS_Union DEF Reapers
<1>2. IsFiniteSet(Senders \X (1..MaxFrags))
  BY <1>1, FS_Product
<1>3. IsFiniteSet(Reserved) /\ IsFiniteSet(Holding)
  BY <1>1, <1>2, FS_Subset DEF Reserved, Holding
<1> QED
  BY <1>3, FS_CardinalityType

\* The reservation of one sender counts as many entries as it has fragments left.
LEMMA OneReserved ==
    ASSUME NEW s, NEW k \in Nat
    PROVE  IsFiniteSet({s} \X (1..k)) /\ Cardinality({s} \X (1..k)) = k
<1>1. IsFiniteSet({s}) /\ Cardinality({s}) = 1
  BY FS_Singleton
<1>2. IsFiniteSet(1..k) /\ Cardinality(1..k) = k
  <2>1. IsFiniteSet(1..k) /\ Cardinality(1..k) = IF 1 > k THEN 0 ELSE k - 1 + 1
    BY FS_Interval
  <2> QED
    BY <2>1
<1>3. IsFiniteSet({s} \X (1..k)) /\ Cardinality({s} \X (1..k)) = Cardinality({s}) * Cardinality(1..k)
  BY <1>1, <1>2, FS_Product, Zenon
<1> QED
  BY <1>1, <1>2, <1>3

\* A sender that changes its reservation changes the sum by the difference.
LEMMA ReservedMove ==
    ASSUME RingTypeOK, NEW s \in Senders, NEW k \in 0..MaxFrags, left' = [left EXCEPT ![s] = k]
    PROVE  /\ Cardinality(Reserved') = Cardinality(Reserved) - left[s] + k
           /\ Cardinality(Reserved) >= left[s]
<1> DEFINE Rest == {e \in Reserved : e[1] # s}
           Old == {s} \X (1..left[s])
           New == {s} \X (1..k)
<1>1. left[s] \in 0..MaxFrags /\ left[s] \in Nat /\ k \in Nat /\ MaxFrags \in Nat
  BY RingAssumption DEF RingTypeOK
<1>2. Reserved = Rest \cup Old /\ Rest \cap Old = {}
  BY <1>1 DEF Reserved
<1>3. left'[s] = k /\ \A u \in Senders : u # s => left'[u] = left[u]
  BY DEF RingTypeOK
<1>4. Reserved' = Rest \cup New /\ Rest \cap New = {}
  <2>1. Reserved' = {e \in Senders \X (1..MaxFrags) : e[2] <= left'[e[1]]}
    BY DEF Reserved
  <2>2. ASSUME NEW e \in Senders \X (1..MaxFrags) PROVE e \in Reserved' <=> e \in Rest \cup New
    <3>1. CASE e[1] = s
      BY <1>1, <1>3, <2>1, <3>1
    <3>2. CASE e[1] # s
      BY <1>3, <2>1, <3>2 DEF Reserved
    <3> QED
      BY <3>1, <3>2
  <2>3. Reserved' \subseteq Senders \X (1..MaxFrags) /\ Rest \subseteq Senders \X (1..MaxFrags)
    BY <2>1 DEF Reserved
  <2>4. New \subseteq Senders \X (1..MaxFrags)
    BY <1>1
  <2>5. Reserved' = Rest \cup New
    BY <2>2, <2>3, <2>4
  <2> QED
    BY <2>5
<1>5. IsFiniteSet(Rest) /\ Cardinality(Rest) \in Nat
  BY CountsFinite, FS_Subset, FS_CardinalityType
<1>6. IsFiniteSet(Old) /\ Cardinality(Old) = left[s] /\ IsFiniteSet(New) /\ Cardinality(New) = k
  BY <1>1, OneReserved
<1> HIDE DEF Rest, Old, New
<1>7. Cardinality(Reserved) = Cardinality(Rest) + left[s] - 0
  BY <1>2, <1>5, <1>6, FS_Union, FS_EmptySet
<1>8. Cardinality(Reserved') = Cardinality(Rest) + k - 0
  <2>1. Cardinality(Rest \cup New) = Cardinality(Rest) + Cardinality(New) - Cardinality(Rest \cap New)
    BY <1>5, <1>6, FS_Union
  <2>2. Cardinality(Rest \cap New) = 0
    BY <1>4, FS_EmptySet
  <2> QED
    BY <1>4, <1>6, <2>1, <2>2
<1> QED
  BY <1>1, <1>5, <1>7, <1>8

----------------------------------------------------------------------------
(* Control                                                                 *)

\* Senders and reapers are different threads.
LEMMA ThreadsDiffer ==
    /\ Senders \subseteq Threads /\ Reapers \subseteq Threads /\ "service" \in Reapers
    /\ Pollers \subseteq Reapers
    /\ \A s \in Senders : s \notin Reapers
    /\ \A t \in Threads : t \in Senders \/ t \in Reapers
  BY RingAssumption DEF Threads, Reapers

\* One thread moves.
LEMMA Moved ==
    ASSUME RingTypeOK, NEW t \in Threads, NEW l, pc' = [pc EXCEPT ![t] = l]
    PROVE  /\ pc'[t] = l /\ \A u \in Threads : u # t => pc'[u] = pc[u]
           /\ pc' = [u \in Threads |-> pc'[u]]
  BY DEF RingTypeOK

\* target_lock is taken only when it is free.
LEMMA HolderMove ==
    ASSUME RingInv, NEW t \in Threads, NEW l, pc' = [pc EXCEPT ![t] = l],
           l \in {"post", "clear", "check"} => Locked(t) \/ TargetLockFree
    PROVE  OneHolder'
<1>1. pc'[t] = l /\ \A u \in Threads : u # t => pc'[u] = pc[u]
  BY Moved DEF RingInv
<1>2. OneHolder
  BY DEF RingInv
<1>3. \A u \in Threads : Locked(u)' <=> pc'[u] \in {"post", "clear", "check"}
  BY DEF Locked
<1> SUFFICES ASSUME NEW u \in Threads, NEW v \in Threads, Locked(u)', Locked(v)' PROVE u = v
  BY DEF OneHolder
<1> QED
  BY <1>1, <1>2, <1>3 DEF OneHolder, Locked, TargetLockFree

\* A step that moves one thread and leaves the ring, the registers and the counts alone.
LEMMA ControlMove ==
    ASSUME RingInv, NEW t \in Threads, NEW l, pc' = [pc EXCEPT ![t] = l],
           UNCHANGED <<ringVars, SR_WR_INDEX, CURRENT_SRRI, recovery, hifVars, left, taken, sent>>,
           l \in {"post", "clear", "check"} => Locked(t) \/ TargetLockFree,
           pc[t] # "post" \/ l = "post", ~stopped,
           t \in Senders => l \in {"sendlist", "post"} /\ pc[t] # "idle",
           t \in Reapers => l \in {"idle", "next", "more", "clear", "check"} /\ pc[t] # "sendDone"
    PROVE  RingInv'
<1>p. RingTypeOK /\ Labels /\ InOrder /\ Filled /\ ListsWhole /\ Bounded
  BY DEF RingInv
<1>m. /\ pc'[t] = l /\ \A u \in Threads : u # t => pc'[u] = pc[u]
      /\ pc' = [u \in Threads |-> pc'[u]]
  BY <1>p, Moved
<1>u. UNCHANGED <<write_index, sw_index, hw_index, per_transfer_context, gather, SR_WR_INDEX,
                  CURRENT_SRRI, recovery, num_sends_allowed, unreturned, stopped, left, taken, sent>>
  BY DEF ringVars, hifVars
<1>1. RingTypeOK'
  BY <1>m, <1>p, <1>u DEF RingTypeOK
<1>2. Labels'
  BY <1>m, <1>p, <1>u, ThreadsDiffer DEF Labels
<1>3. OneHolder'
  BY HolderMove
<1>4. InOrder' /\ Filled'
  BY <1>p, <1>u DEF InOrder, Filled, CE_RING_DELTA
<1>5. ListsWhole'
  <2>1. (\A s \in Senders : pc'[s] # "post") => (\A s \in Senders : pc[s] # "post")
    BY <1>m, ThreadsDiffer
  <2> QED
    BY <1>p, <1>u, <2>1 DEF ListsWhole
<1>6. Bounded'
  <2>1. Reserved' = Reserved /\ Holding' = Holding
    BY <1>u DEF Reserved, Holding
  <2> QED
    BY <1>p, <1>u, <2>1 DEF Bounded, Total, CE_RING_DELTA
<1> QED
  BY <1>1, <1>2, <1>3, <1>4, <1>5, <1>6 DEF RingInv

\* The control steps of the reapers.
LEMMA ControlStep ==
    ASSUME RingInv, \/ CE_per_engine_service \/ \E p \in Pollers : HIFSendCompleteCheck(p)
                    \/ CE_ENGINE_INT_STATUS_CLEAR \/ CE_send_entries_done_nolock
    PROVE  RingInv'
<1>p. RingTypeOK /\ Labels
  BY DEF RingInv
<1>1. ASSUME NEW r \in Reapers, NEW l \in {"idle", "next", "check"}, pc' = [pc EXCEPT ![r] = l],
             pc[r] \in {"idle", "clear", "check"}, l = "check" => pc[r] = "clear",
             UNCHANGED <<ringVars, SR_WR_INDEX, CURRENT_SRRI, recovery, hifVars, left, taken, sent>>,
             ~stopped
      PROVE  RingInv'
  <2>1. r \in Threads /\ r \notin Senders /\ (l = "check" => Locked(r)) /\ l # "post" /\ l # "clear"
    BY <1>1, ThreadsDiffer DEF Locked
  <2> QED
    BY <1>1, <2>1, ControlMove
<1>2. CASE CE_per_engine_service
  BY <1>1, <1>2, ThreadsDiffer DEF CE_per_engine_service, Goto, targetVars
<1>3. ASSUME NEW p \in Pollers, HIFSendCompleteCheck(p) PROVE RingInv'
  BY <1>1, <1>3, ThreadsDiffer DEF HIFSendCompleteCheck, Goto, targetVars
<1>s. pc["service"] # "idle" => ~stopped
  BY <1>p, ThreadsDiffer DEF Labels
<1>4. CASE CE_ENGINE_INT_STATUS_CLEAR
  BY <1>1, <1>4, <1>s, ThreadsDiffer DEF CE_ENGINE_INT_STATUS_CLEAR, Goto
<1>5. CASE CE_send_entries_done_nolock
  <2>1. \E l \in {"idle", "next"} : pc' = [pc EXCEPT !["service"] = l]
    BY <1>5 DEF CE_send_entries_done_nolock, Goto
  <2> QED
    BY <1>1, <1>5, <1>s, <2>1, ThreadsDiffer DEF CE_send_entries_done_nolock, targetVars
<1> QED
  BY <1>2, <1>3, <1>4, <1>5

----------------------------------------------------------------------------
(* Sending                                                                 *)

\* The ring has room for what is reserved.
LEMMA Room ==
    ASSUME RingInv, NEW s \in Senders
    PROVE  /\ left[s] <= CE_RING_DELTA(write_index, sw_index - 1)
           /\ CE_RING_DELTA(sw_index, write_index) + left[s] <= nentries - 1
           /\ CE_RING_DELTA(sw_index, write_index) \in Nat /\ left[s] \in Nat
<1>1. /\ RingTypeOK /\ Bounded /\ left[s] \in 0..MaxFrags /\ MaxFrags \in Nat /\ left[s] \in Nat
      /\ num_sends_allowed \in Nat /\ unreturned \in Nat /\ nentries \in Nat
  BY RingAssumption DEF RingInv, RingTypeOK
<1>2. Cardinality(Reserved) >= left[s]
  <2> DEFINE Mine == {s} \X (1..left[s])
  <2>1. Mine \subseteq Reserved
    BY <1>1 DEF Reserved
  <2>2. Cardinality(Mine) = left[s] /\ Mine \in SUBSET Reserved
    BY <1>1, <2>1, OneReserved
  <2>3. Cardinality(Mine) <= Cardinality(Reserved)
    BY <2>2, CountsFinite, FS_Subset
  <2> QED
    BY <1>1, <2>2, <2>3, CountsFinite
<1>3. /\ CE_RING_DELTA(sw_index, write_index) \in Entries
      /\ CE_RING_DELTA(write_index, sw_index - 1) = nentries - 1 - CE_RING_DELTA(sw_index, write_index)
  BY <1>1, Delta DEF RingTypeOK
<1>4. CE_RING_DELTA(sw_index, write_index) \in Nat
  BY <1>1, <1>3 DEF Entries
<1>5. Total <= nentries - 1
  BY <1>1 DEF Bounded
<1> QED
  BY <1>1, <1>2, <1>3, <1>4, <1>5, CountsFinite DEF Total

\* HIFSend_head turns free entries into reserved ones.
LEMMA ReserveStep ==
    ASSUME RingInv, NEW s \in Senders, NEW n \in 1..MaxFrags, HIFSend_head(s, n)
    PROVE  RingInv'
<1>p. RingTypeOK /\ Labels /\ InOrder /\ Filled /\ ListsWhole /\ Bounded /\ s \in Threads /\ left[s] = 0
  BY ThreadsDiffer DEF RingInv, Labels, HIFSend_head
<1>1. /\ num_sends_allowed >= n /\ num_sends_allowed' = num_sends_allowed - n
      /\ left' = [left EXCEPT ![s] = n] /\ pc' = [pc EXCEPT ![s] = "sendlist"]
      /\ pc[s] = "idle" /\ ~stopped
  BY DEF HIFSend_head, Reserve, Goto
<1>u. UNCHANGED <<write_index, sw_index, hw_index, per_transfer_context, gather, SR_WR_INDEX,
                  CURRENT_SRRI, recovery, unreturned, stopped, taken, sent>>
  BY DEF HIFSend_head, ringVars, targetVars
<1>m. /\ pc'[s] = "sendlist" /\ \A u \in Threads : u # s => pc'[u] = pc[u]
      /\ pc' = [u \in Threads |-> pc'[u]]
  BY <1>1, <1>p, Moved
<1>n. n \in Nat /\ n \in 0..MaxFrags /\ n # 0 /\ num_sends_allowed \in Nat
  BY <1>p, RingAssumption DEF RingTypeOK
<1>l. left'[s] = n /\ \A u \in Senders : u # s => left'[u] = left[u]
  BY <1>1, <1>p DEF RingTypeOK
<1>2. RingTypeOK'
  <2>1. left' \in [Senders -> 0..MaxFrags] /\ num_sends_allowed' \in Nat
    BY <1>1, <1>n, <1>p DEF RingTypeOK
  <2> QED
    BY <1>m, <1>p, <1>u, <2>1 DEF RingTypeOK
<1>3. Labels'
  BY <1>1, <1>l, <1>m, <1>n, <1>p, <1>u, ThreadsDiffer DEF Labels
<1>4. OneHolder'
  BY <1>1, <1>p, HolderMove
<1>5. InOrder' /\ Filled'
  BY <1>p, <1>u DEF InOrder, Filled, CE_RING_DELTA
<1>6. ListsWhole'
  <2>1. (\A u \in Senders : pc'[u] # "post") => (\A u \in Senders : pc[u] # "post")
    BY <1>1, <1>m, ThreadsDiffer
  <2> QED
    BY <1>p, <1>u, <2>1 DEF ListsWhole
<1>7. Bounded'
  <2>1. Cardinality(Reserved') = Cardinality(Reserved) - 0 + n
    BY <1>1, <1>n, <1>p, ReservedMove
  <2>2. Holding' = Holding /\ CE_RING_DELTA(sw_index, write_index)' = CE_RING_DELTA(sw_index, write_index)
    BY <1>u DEF Holding, CE_RING_DELTA
  <2>3. /\ CE_RING_DELTA(sw_index, write_index) \in Nat /\ unreturned \in Nat
    BY <1>p, Room DEF RingTypeOK
  <2>4. Total' = Total
    BY <1>1, <1>n, <1>u, <2>1, <2>2, <2>3, CountsFinite DEF Total
  <2> QED
    BY <1>p, <1>u, <2>4 DEF Bounded
<1> QED
  BY <1>2, <1>3, <1>4, <1>5, <1>6, <1>7 DEF RingInv

\* CE_sendlist_send finds the room that was reserved.
LEMMA SendlistStep ==
    ASSUME RingInv, NEW s \in Senders, CE_sendlist_send(s)
    PROVE  RingInv'
<1>1. pc[s] = "sendlist" /\ TargetLockFree /\ s \in Threads /\ s \notin Reapers /\ ~stopped
  BY ThreadsDiffer DEF CE_sendlist_send, RingInv, Labels
<1>2. CE_RING_DELTA(write_index, sw_index - 1) >= left[s]
  <2>1. CE_RING_DELTA(write_index, sw_index - 1) \in Int
    <3>1. write_index \in Entries /\ sw_index \in Entries
      BY DEF RingInv, RingTypeOK
    <3>2. CE_RING_DELTA(sw_index, write_index) \in Int /\ nentries \in Int
      BY Room, RingAssumption
    <3> QED
      BY <3>1, <3>2, Delta
  <2> QED
    BY <2>1, Room
<1>3. pc' = [pc EXCEPT ![s] = "post"]
  BY <1>2 DEF CE_sendlist_send, Goto
<1>4. UNCHANGED <<ringVars, SR_WR_INDEX, CURRENT_SRRI, recovery, hifVars, left, taken, sent>>
  BY DEF CE_sendlist_send, targetVars
<1> QED
  BY <1>1, <1>3, <1>4, ControlMove

\* A list that is abandoned gives up what it has reserved; the entries are lost.
LEMMA AbandonStep ==
    ASSUME RingInv, NEW s \in Senders, CE_send_nolock(s), recovery
    PROVE  RingInv'
<1>p. RingTypeOK /\ Labels /\ InOrder /\ Filled /\ ListsWhole /\ Bounded /\ s \in Threads
  BY ThreadsDiffer DEF RingInv
<1>1. /\ left' = [left EXCEPT ![s] = 0] /\ pc' = [pc EXCEPT ![s] = "idle"] /\ pc[s] = "post"
  BY DEF CE_send_nolock, Abandon, Goto
<1>u. UNCHANGED <<write_index, sw_index, hw_index, per_transfer_context, gather, SR_WR_INDEX,
                  CURRENT_SRRI, recovery, unreturned, stopped, taken, sent, num_sends_allowed>>
  BY DEF CE_send_nolock, Abandon, ringVars, hifVars
<1>m. /\ pc'[s] = "idle" /\ \A u \in Threads : u # s => pc'[u] = pc[u]
      /\ pc' = [u \in Threads |-> pc'[u]]
  BY <1>1, <1>p, Moved
<1>n. 0 \in 0..MaxFrags /\ left[s] \in Nat
  BY <1>p, Room, RingAssumption
<1>l. left'[s] = 0 /\ \A u \in Senders : u # s => left'[u] = left[u]
  BY <1>1, <1>p DEF RingTypeOK
<1>2. RingTypeOK'
  <2>1. left' \in [Senders -> 0..MaxFrags]
    BY <1>1, <1>n, <1>p DEF RingTypeOK
  <2> QED
    BY <1>m, <1>p, <1>u, <2>1 DEF RingTypeOK
<1>3. Labels'
  BY <1>1, <1>l, <1>m, <1>p, <1>u, ThreadsDiffer DEF Labels
<1>4. OneHolder'
  BY <1>1, <1>p, HolderMove
<1>5. InOrder' /\ Filled' /\ ListsWhole'
  BY <1>p, <1>u DEF InOrder, Filled, CE_RING_DELTA, ListsWhole
<1>7. Bounded'
  <2>1. Cardinality(Reserved') = Cardinality(Reserved) - left[s] + 0
    BY <1>1, <1>n, <1>p, ReservedMove
  <2>2. Holding' = Holding /\ CE_RING_DELTA(sw_index, write_index)' = CE_RING_DELTA(sw_index, write_index)
    BY <1>u DEF Holding, CE_RING_DELTA
  <2>3. /\ CE_RING_DELTA(sw_index, write_index) \in Nat /\ unreturned \in Nat /\ num_sends_allowed \in Nat
        /\ nentries \in Nat
    BY <1>p, Room, RingAssumption DEF RingTypeOK
  <2>4. Total' <= Total /\ Total' \in Int /\ Total \in Int
    BY <1>1, <1>n, <1>u, <2>1, <2>2, <2>3, CountsFinite DEF Total
  <2> QED
    BY <1>p, <1>u, <2>3, <2>4 DEF Bounded
<1> QED
  BY <1>2, <1>3, <1>4, <1>5, <1>7 DEF RingInv

\* A fragment is posted: a reserved entry becomes one in use, and the register moves only behind
\* the last of a list.
LEMMA PostStep ==
    ASSUME RingInv, NEW s \in Senders, CE_send_nolock(s), ~recovery
    PROVE  RingInv'
<1> DEFINE g == left[s] > 1
           w == CE_RING_IDX_INCR(write_index)
<1>p. /\ RingTypeOK /\ Labels /\ InOrder /\ Filled /\ ListsWhole /\ Bounded /\ s \in Threads
      /\ write_index \in Entries /\ sw_index \in Entries /\ SR_WR_INDEX \in Entries
      /\ CURRENT_SRRI \in Entries /\ nentries \in Nat /\ MaxFrags \in Nat /\ sent \in Nat
  BY RingAssumption, ThreadsDiffer DEF RingInv, RingTypeOK
<1>1. /\ pc[s] = "post"
      /\ per_transfer_context' = [per_transfer_context EXCEPT ![write_index] =
             IF g THEN CE_SENDLIST_ITEM_CTXT ELSE sent + 1]
      /\ gather' = [gather EXCEPT ![write_index] = g]
      /\ write_index' = w /\ SR_WR_INDEX' = IF g THEN SR_WR_INDEX ELSE w
      /\ sent' = IF g THEN sent ELSE sent + 1
      /\ left' = [left EXCEPT ![s] = @ - 1] /\ pc' = [pc EXCEPT ![s] = IF g THEN "post" ELSE "idle"]
  BY DEF CE_send_nolock, Post, Announces, Goto
<1>u. UNCHANGED <<sw_index, hw_index, CURRENT_SRRI, recovery, unreturned, stopped, taken, num_sends_allowed>>
  BY DEF CE_send_nolock, Post, hifVars
<1>m. /\ pc'[s] = (IF g THEN "post" ELSE "idle") /\ \A u \in Threads : u # s => pc'[u] = pc[u]
      /\ pc' = [u \in Threads |-> pc'[u]]
  BY <1>1, <1>p, Moved
<1>n. /\ left[s] \in Nat /\ left[s] >= 1 /\ left[s] <= MaxFrags /\ left[s] - 1 \in 0..MaxFrags
      /\ CE_RING_DELTA(sw_index, write_index) + left[s] <= nentries - 1
      /\ CE_RING_DELTA(sw_index, write_index) \in Nat /\ CE_RING_DELTA(sw_index, write_index) # nentries - 1
  <2>1. /\ left[s] \in Nat /\ CE_RING_DELTA(sw_index, write_index) + left[s] <= nentries - 1
        /\ CE_RING_DELTA(sw_index, write_index) \in Nat
    BY Room
  <2>2. left[s] # 0 /\ left[s] \in 0..MaxFrags
    BY <1>1, <1>p DEF Labels, RingTypeOK
  <2> QED
    BY <1>p, <2>1, <2>2
<1>b. (left[s] > 1) = TRUE \/ ((left[s] > 1) = FALSE /\ ~(left[s] > 1))
  BY <1>n
<1>l. left'[s] = left[s] - 1 /\ \A u \in Senders : u # s => left'[u] = left[u]
  BY <1>1, <1>p DEF RingTypeOK
<1>w. w \in Entries /\ CE_RING_DELTA(sw_index, w) = CE_RING_DELTA(sw_index, write_index) + 1
  BY <1>n, <1>p, Incr, DeltaFar
<1> HIDE DEF w
<1>2. RingTypeOK'
  <2>1. left' \in [Senders -> 0..MaxFrags]
    BY <1>1, <1>n, <1>p DEF RingTypeOK
  <2>2. per_transfer_context' \in [Entries -> Int] /\ sent' \in Nat
    BY <1>1, <1>p DEF RingTypeOK, CE_SENDLIST_ITEM_CTXT
  <2>4. gather' \in [Entries -> BOOLEAN]
    <3>1. gather' = [gather EXCEPT ![write_index] = TRUE] \/ gather' = [gather EXCEPT ![write_index] = FALSE]
      BY <1>1, <1>b
    <3> QED
      BY <1>p, <3>1 DEF RingTypeOK
  <2> QED
    BY <1>1, <1>m, <1>p, <1>u, <1>w, <2>1, <2>2, <2>4 DEF RingTypeOK
<1>3. Labels'
  BY <1>1, <1>l, <1>m, <1>n, <1>p, <1>u, ThreadsDiffer DEF Labels
<1>4. OneHolder'
  <2>1. Locked(s)
    BY <1>1 DEF Locked
  <2> QED
    BY <1>1, <1>p, <2>1, HolderMove
<1>5. InOrder'
  <2> SUFFICES ASSUME ~stopped PROVE InOrder'
    BY <1>u DEF InOrder
  <2>1. /\ CE_RING_DELTA(sw_index, CURRENT_SRRI) <= CE_RING_DELTA(sw_index, SR_WR_INDEX)
        /\ CE_RING_DELTA(sw_index, SR_WR_INDEX) <= CE_RING_DELTA(sw_index, write_index)
        /\ hw_index # AllOnes =>
             CE_RING_DELTA(sw_index, hw_index) <= CE_RING_DELTA(sw_index, CURRENT_SRRI)
    BY <1>p DEF InOrder
  <2>2. CE_RING_DELTA(sw_index, CURRENT_SRRI) \in Int /\ CE_RING_DELTA(sw_index, SR_WR_INDEX) \in Int
    BY <1>p, Delta DEF Entries
  <2>3. /\ CE_RING_DELTA(sw_index, CURRENT_SRRI)' = CE_RING_DELTA(sw_index, CURRENT_SRRI)
        /\ CE_RING_DELTA(sw_index, hw_index)' = CE_RING_DELTA(sw_index, hw_index)
        /\ CE_RING_DELTA(sw_index, write_index)' = CE_RING_DELTA(sw_index, w)
        /\ CE_RING_DELTA(sw_index, SR_WR_INDEX)'
             = IF g THEN CE_RING_DELTA(sw_index, SR_WR_INDEX) ELSE CE_RING_DELTA(sw_index, w)
    BY <1>1, <1>u DEF CE_RING_DELTA
  <2> QED
    BY <1>n, <1>u, <1>w, <2>1, <2>2, <2>3 DEF InOrder
<1>6. Filled'
  <2> SUFFICES ASSUME NEW i \in Entries, CE_RING_DELTA(sw_index, i) < CE_RING_DELTA(sw_index, w)
               PROVE  per_transfer_context'[i] # NoContext
    BY <1>1, <1>u DEF Filled, CE_RING_DELTA
  <2>1. CASE i = write_index
    BY <1>1, <1>p, <2>1 DEF RingTypeOK, CE_SENDLIST_ITEM_CTXT, NoContext
  <2>2. CASE i # write_index
    <3>1. CE_RING_DELTA(sw_index, i) # CE_RING_DELTA(sw_index, write_index)
      BY <1>p, <2>2, DeltaOther
    <3>2. CE_RING_DELTA(sw_index, i) \in Int
      BY <1>p, Delta DEF Entries
    <3>3. CE_RING_DELTA(sw_index, i) < CE_RING_DELTA(sw_index, write_index)
      BY <1>n, <1>w, <3>1, <3>2
    <3> QED
      BY <1>1, <1>p, <2>2, <3>3 DEF Filled, RingTypeOK
  <2> QED
    BY <2>1, <2>2
<1>7. ListsWhole'
  <2>1. ~gather'[(SR_WR_INDEX' - 1) % nentries]
    <3>1. CASE ~g
      <4>1. (w - 1) % nentries = write_index
        BY <1>p, DeltaOther DEF w
      <4>2. gather'[write_index] = FALSE
        <5>1. gather' = [gather EXCEPT ![write_index] = FALSE]
          BY <1>1, <1>b, <3>1
        <5> QED
          BY <1>p, <5>1 DEF RingTypeOK
      <4> QED
        BY <1>1, <3>1, <4>1, <4>2
    <3>2. CASE g
      <4>1. (SR_WR_INDEX - 1) % nentries \in Entries
            /\ CE_RING_IDX_INCR((SR_WR_INDEX - 1) % nentries) = SR_WR_INDEX
        BY <1>p, DeltaOther
      <4>2. (SR_WR_INDEX - 1) % nentries # write_index
        <5>1. ~stopped
          BY <1>1, <1>p DEF Labels
        <5>2. CE_RING_DELTA(sw_index, SR_WR_INDEX) <= CE_RING_DELTA(sw_index, write_index)
          BY <1>p, <5>1 DEF InOrder
        <5> QED
          BY <1>n, <1>w, <4>1, <5>2 DEF w
      <4>3. gather'[(SR_WR_INDEX - 1) % nentries] = gather[(SR_WR_INDEX - 1) % nentries]
        BY <1>1, <1>p, <4>1, <4>2 DEF RingTypeOK
      <4> QED
        BY <1>1, <1>p, <3>2, <4>3 DEF ListsWhole
    <3> QED
      BY <3>1, <3>2
  <2>2. (\A u \in Senders : pc'[u] # "post") => SR_WR_INDEX' = write_index'
    BY <1>1, <1>m
  <2> QED
    BY <2>1, <2>2 DEF ListsWhole
<1>8. Bounded'
  <2>1. Cardinality(Reserved') = Cardinality(Reserved) - left[s] + (left[s] - 1)
    <3>1. left' = [left EXCEPT ![s] = left[s] - 1]
      BY <1>1
    <3> QED
      BY <1>n, <1>p, <3>1, ReservedMove
  <2>2. Holding' = Holding
        /\ CE_RING_DELTA(sw_index, write_index)' = CE_RING_DELTA(sw_index, write_index) + 1
    BY <1>1, <1>u, <1>w DEF Holding, CE_RING_DELTA
  <2>3. unreturned \in Nat /\ num_sends_allowed \in Nat
    BY <1>p DEF RingTypeOK
  <2>4. Total' = Total
    BY <1>n, <1>u, <2>1, <2>2, <2>3, CountsFinite DEF Total
  <2> QED
    BY <1>p, <1>u, <2>4 DEF Bounded
<1> QED
  BY <1>2, <1>3, <1>4, <1>5, <1>6, <1>7, <1>8 DEF RingInv

----------------------------------------------------------------------------
(* Reaping                                                                 *)

\* The oldest entry in use leaves the ring.
LEMMA Shrink ==
    ASSUME RingInv, sw_index # write_index, sw_index' = CE_RING_IDX_INCR(sw_index),
           per_transfer_context' = [per_transfer_context EXCEPT ![sw_index] = NoContext],
           UNCHANGED write_index
    PROVE  /\ per_transfer_context[sw_index] # NoContext /\ per_transfer_context[sw_index] \in Int
           /\ sw_index' \in Entries /\ per_transfer_context' \in [Entries -> Int] /\ Filled'
           /\ CE_RING_DELTA(sw_index, write_index)' = CE_RING_DELTA(sw_index, write_index) - 1
           /\ \A i \in Entries : i # sw_index =>
                CE_RING_DELTA(sw_index', i) = CE_RING_DELTA(sw_index, i) - 1
<1>p. /\ RingTypeOK /\ Filled /\ sw_index \in Entries /\ write_index \in Entries /\ nentries \in Nat
      /\ nentries > 1
  BY RingAssumption DEF RingInv, RingTypeOK
<1>1. sw_index' \in Entries /\ CE_RING_DELTA(sw_index', sw_index) = nentries - 1
  BY <1>p, Incr, DeltaOther
<1>2. \A i \in Entries : i # sw_index =>
        CE_RING_DELTA(sw_index, i) > 0 /\ CE_RING_DELTA(sw_index', i) = CE_RING_DELTA(sw_index, i) - 1
  BY <1>p, DeltaNear
<1>3. CE_RING_DELTA(sw_index, sw_index) = 0
  BY <1>p, Delta DEF Entries
<1>4. /\ per_transfer_context[sw_index] # NoContext /\ per_transfer_context[sw_index] \in Int
  BY <1>2, <1>3, <1>p DEF Filled, RingTypeOK
<1>5. per_transfer_context' \in [Entries -> Int]
  BY <1>p DEF RingTypeOK, NoContext
<1>6. CE_RING_DELTA(sw_index, write_index)' = CE_RING_DELTA(sw_index, write_index) - 1
  <2>1. CE_RING_DELTA(sw_index, write_index)' = CE_RING_DELTA(sw_index', write_index)
    BY DEF CE_RING_DELTA
  <2> QED
    BY <1>2, <1>p, <2>1
<1>7. Filled'
  <2> SUFFICES ASSUME NEW i \in Entries, CE_RING_DELTA(sw_index', i) < CE_RING_DELTA(sw_index', write_index)
               PROVE  per_transfer_context'[i] # NoContext
    BY DEF Filled, CE_RING_DELTA
  <2>1. /\ CE_RING_DELTA(sw_index', write_index) \in Entries /\ CE_RING_DELTA(sw_index, i) \in Entries
        /\ CE_RING_DELTA(sw_index, write_index) \in Entries
    BY <1>1, <1>p, Delta
  <2>2. i # sw_index
    BY <1>1, <1>p, <2>1 DEF Entries
  <2>3. CE_RING_DELTA(sw_index, i) < CE_RING_DELTA(sw_index, write_index)
    BY <1>2, <1>p, <2>1, <2>2 DEF Entries
  <2> QED
    BY <1>p, <2>2, <2>3 DEF Filled, RingTypeOK
<1> QED
  BY <1>1, <1>2, <1>4, <1>5, <1>6, <1>7

\* CE_completed_send_next takes an entry the target has copied, or finds none.
LEMMA TakeStep ==
    ASSUME RingInv, NEW r \in Reapers, NEW l \in {"clear", "idle", "next"},
           pc[r] \in {"next", "more"}, TargetLockFree, TakeNext(r, l),
           UNCHANGED <<write_index, gather, targetVars, hifVars, left, sent>>
    PROVE  RingInv'
<1> DEFINE hw == IF hw_index = sw_index /\ ~recovery THEN CE_SRC_RING_READ_IDX_GET ELSE hw_index
           context == per_transfer_context[sw_index]
<1>p. /\ RingTypeOK /\ Labels /\ InOrder /\ Filled /\ ListsWhole /\ Bounded
      /\ r \in Threads /\ r \notin Senders /\ ~stopped
      /\ write_index \in Entries /\ sw_index \in Entries /\ SR_WR_INDEX \in Entries
      /\ CURRENT_SRRI \in Entries /\ nentries \in Nat /\ nentries > 1
  BY RingAssumption, ThreadsDiffer DEF RingInv, RingTypeOK, Labels
<1>u. UNCHANGED <<write_index, gather, SR_WR_INDEX, CURRENT_SRRI, recovery, num_sends_allowed,
                  unreturned, stopped, left, sent>>
  BY DEF targetVars, hifVars
<1>o. /\ CE_RING_DELTA(sw_index, CURRENT_SRRI) <= CE_RING_DELTA(sw_index, SR_WR_INDEX)
      /\ CE_RING_DELTA(sw_index, SR_WR_INDEX) <= CE_RING_DELTA(sw_index, write_index)
      /\ CE_RING_DELTA(sw_index, CURRENT_SRRI) \in Nat /\ CE_RING_DELTA(sw_index, SR_WR_INDEX) \in Nat
      /\ CE_RING_DELTA(sw_index, write_index) \in Nat
  BY <1>p, Delta DEF InOrder, Entries
<1>h. /\ hw \in Entries \cup {AllOnes}
      /\ hw # AllOnes => CE_RING_DELTA(sw_index, hw) <= CE_RING_DELTA(sw_index, CURRENT_SRRI)
  <2>1. CASE hw = hw_index
    BY <1>p, <2>1 DEF RingTypeOK, InOrder
  <2>2. CASE hw # hw_index
    <3>1. hw = AllOnes \/ hw = CURRENT_SRRI
      BY <2>2 DEF CE_SRC_RING_READ_IDX_GET
    <3> QED
      BY <1>o, <1>p, <3>1
  <2> QED
    BY <2>1, <2>2
<1>t. /\ hw_index' = hw
      /\ Completed(hw) =>
           /\ sw_index' = CE_RING_IDX_INCR(sw_index)
           /\ per_transfer_context' = [per_transfer_context EXCEPT ![sw_index] = NoContext]
           /\ taken' = [taken EXCEPT ![r] = context]
           /\ pc' = [pc EXCEPT ![r] = "sendDone"]
      /\ ~Completed(hw) => /\ pc' = [pc EXCEPT ![r] = l]
                           /\ UNCHANGED <<sw_index, per_transfer_context, taken>>
  BY DEF TakeNext, Goto
<1> HIDE DEF hw
<1>1. CASE ~Completed(hw)
  <2>m. /\ pc'[r] = l /\ \A u \in Threads : u # r => pc'[u] = pc[u]
        /\ pc' = [u \in Threads |-> pc'[u]]
    BY <1>1, <1>p, <1>t, Moved
  <2>1. RingTypeOK'
    BY <1>1, <1>h, <1>p, <1>t, <1>u, <2>m DEF RingTypeOK
  <2>2. Labels'
    BY <1>1, <1>p, <1>t, <1>u, <2>m, ThreadsDiffer DEF Labels
  <2>3. OneHolder'
    BY <1>1, <1>p, <1>t, HolderMove
  <2>4. InOrder' /\ Filled'
    BY <1>1, <1>h, <1>o, <1>p, <1>t, <1>u DEF InOrder, Filled, CE_RING_DELTA
  <2>5. ListsWhole'
    BY <1>p, <1>u, <2>m, ThreadsDiffer DEF ListsWhole
  <2>6. Bounded'
    <3>1. Reserved' = Reserved /\ Holding' = Holding
      BY <1>1, <1>t, <1>u DEF Reserved, Holding
    <3> QED
      BY <1>1, <1>p, <1>t, <1>u, <3>1 DEF Bounded, Total, CE_RING_DELTA
  <2> QED
    BY <2>1, <2>2, <2>3, <2>4, <2>5, <2>6 DEF RingInv
<1>2. CASE Completed(hw)
  <2>h. hw \in Entries /\ hw # sw_index /\ hw # AllOnes
    BY <1>2, <1>h DEF Completed
  <2>c. CE_RING_DELTA(sw_index, hw) > 0 /\ CE_RING_DELTA(sw_index, hw) \in Nat
    <3>1. CE_RING_DELTA(sw_index, hw) \in Entries
      BY <1>p, <2>h, Delta
    <3>2. CE_RING_DELTA(sw_index, hw) # 0
      <4>1. CE_RING_DELTA(sw_index, hw) =
              IF hw < sw_index THEN hw - sw_index + nentries ELSE hw - sw_index
        BY <1>p, <2>h, Delta
      <4>2. hw \in Int /\ sw_index \in Int /\ hw >= 0 /\ sw_index < nentries /\ nentries \in Nat
        BY <1>p, <2>h, RingAssumption DEF Entries
      <4> QED
        BY <2>h, <4>1, <4>2
    <3> QED
      BY <3>1, <3>2 DEF Entries
  <2>d. CE_RING_DELTA(sw_index, sw_index) = 0
    BY <1>p, Delta DEF Entries
  <2>n. CURRENT_SRRI # sw_index /\ SR_WR_INDEX # sw_index /\ write_index # sw_index
    <3>1. /\ CE_RING_DELTA(sw_index, CURRENT_SRRI) # 0 /\ CE_RING_DELTA(sw_index, SR_WR_INDEX) # 0
          /\ CE_RING_DELTA(sw_index, write_index) # 0
      BY <1>h, <1>o, <2>c, <2>h
    <3> QED
      BY <2>d, <3>1
  <2>s. /\ context # NoContext /\ context \in Int
        /\ sw_index' \in Entries /\ per_transfer_context' \in [Entries -> Int] /\ Filled'
        /\ CE_RING_DELTA(sw_index, write_index)' = CE_RING_DELTA(sw_index, write_index) - 1
        /\ \A i \in Entries : i # sw_index =>
             CE_RING_DELTA(sw_index', i) = CE_RING_DELTA(sw_index, i) - 1
    BY <1>2, <1>t, <1>u, <2>n, Shrink
  <2> HIDE DEF context
  <2>m. /\ pc'[r] = "sendDone" /\ \A u \in Threads : u # r => pc'[u] = pc[u]
        /\ pc' = [u \in Threads |-> pc'[u]]
    BY <1>2, <1>p, <1>t, Moved
  <2>k. taken'[r] = context /\ taken' \in [Reapers -> Int] /\ \A u \in Reapers : u # r => taken'[u] = taken[u]
    BY <1>2, <1>p, <1>t, <2>s DEF RingTypeOK
  <2>1. RingTypeOK'
    BY <1>h, <1>p, <1>t, <1>u, <2>k, <2>m, <2>s DEF RingTypeOK
  <2>2. Labels'
    BY <1>p, <1>u, <2>k, <2>m, <2>s, ThreadsDiffer DEF Labels
  <2>3. OneHolder'
    BY <1>2, <1>p, <1>t, HolderMove
  <2>4. InOrder'
    <3>1. /\ CE_RING_DELTA(sw_index, CURRENT_SRRI)' = CE_RING_DELTA(sw_index, CURRENT_SRRI) - 1
          /\ CE_RING_DELTA(sw_index, SR_WR_INDEX)' = CE_RING_DELTA(sw_index, SR_WR_INDEX) - 1
          /\ CE_RING_DELTA(sw_index, hw_index)' = CE_RING_DELTA(sw_index, hw) - 1
      <4>1. /\ CE_RING_DELTA(sw_index, CURRENT_SRRI)' = CE_RING_DELTA(sw_index', CURRENT_SRRI)
            /\ CE_RING_DELTA(sw_index, SR_WR_INDEX)' = CE_RING_DELTA(sw_index', SR_WR_INDEX)
            /\ CE_RING_DELTA(sw_index, hw_index)' = CE_RING_DELTA(sw_index', hw)
        BY <1>t, <1>u DEF CE_RING_DELTA
      <4> QED
        BY <1>p, <2>h, <2>n, <2>s, <4>1
    <3> QED
      BY <1>h, <1>o, <1>t, <2>c, <2>h, <2>s, <3>1 DEF InOrder
  <2>5. ListsWhole'
    BY <1>p, <1>u, <2>m, ThreadsDiffer DEF ListsWhole
  <2>6. Bounded'
    <3>1. Reserved' = Reserved
      BY <1>u DEF Reserved
    <3>2. r \notin Holding /\ Holding' = Holding \cup {r}
      BY <1>p, <2>k, <2>s DEF Holding, Labels
    <3>3. Cardinality(Holding') = Cardinality(Holding) + 1
      BY <3>2, CountsFinite, FS_AddElement
    <3>4. num_sends_allowed \in Nat /\ unreturned \in Nat
      BY <1>p DEF RingTypeOK
    <3>5. Total' = Total
      BY <1>o, <1>u, <2>s, <3>1, <3>3, <3>4, CountsFinite DEF Total
    <3> QED
      BY <1>p, <1>u, <3>5 DEF Bounded
  <2> QED
    BY <2>1, <2>2, <2>3, <2>4, <2>5, <2>6, <2>s DEF RingInv
<1> QED
  BY <1>1, <1>2

\* The reapers' other step: HIF_PCI_CE_send_done passes the entry on.
LEMMA SendDoneStep ==
    ASSUME RingInv, NEW r \in Reapers, HIF_PCI_CE_send_done(r)
    PROVE  RingInv'
<1>p. /\ RingTypeOK /\ Labels /\ InOrder /\ Filled /\ ListsWhole /\ Bounded
      /\ r \in Threads /\ r \notin Senders
  BY ThreadsDiffer DEF RingInv
<1>1. /\ pc[r] = "sendDone" /\ pc' = [pc EXCEPT ![r] = "more"]
      /\ taken' = [taken EXCEPT ![r] = NoContext]
      /\ \/ num_sends_allowed' = num_sends_allowed + 1 /\ unreturned' = unreturned
         \/ num_sends_allowed' = num_sends_allowed + 0 /\ unreturned' = unreturned + 1
  BY DEF HIF_PCI_CE_send_done, Goto, ReturnItem
<1>u. UNCHANGED <<write_index, sw_index, hw_index, per_transfer_context, gather, SR_WR_INDEX,
                  CURRENT_SRRI, recovery, stopped, left, sent>>
  BY DEF HIF_PCI_CE_send_done, ringVars, targetVars
<1>m. /\ pc'[r] = "more" /\ \A u \in Threads : u # r => pc'[u] = pc[u]
      /\ pc' = [u \in Threads |-> pc'[u]]
  BY <1>1, <1>p, Moved
<1>k. /\ taken'[r] = NoContext /\ taken' \in [Reapers -> Int]
      /\ \A u \in Reapers : u # r => taken'[u] = taken[u]
  BY <1>1, <1>p DEF RingTypeOK, NoContext
<1>n. num_sends_allowed \in Nat /\ unreturned \in Nat /\ CE_RING_DELTA(sw_index, write_index) \in Int
  BY <1>p, Delta DEF RingTypeOK, Entries
<1>2. RingTypeOK'
  <2>1. num_sends_allowed' \in Nat /\ unreturned' \in Nat
    BY <1>1, <1>n
  <2> QED
    BY <1>k, <1>m, <1>p, <1>u, <2>1 DEF RingTypeOK
<1>3. Labels'
  BY <1>1, <1>k, <1>m, <1>p, <1>u, ThreadsDiffer DEF Labels
<1>4. OneHolder'
  BY <1>1, <1>p, HolderMove
<1>5. InOrder' /\ Filled'
  BY <1>p, <1>u DEF InOrder, Filled, CE_RING_DELTA
<1>6. ListsWhole'
  BY <1>p, <1>u, <1>m, ThreadsDiffer DEF ListsWhole
<1>7. Bounded'
  <2>1. Reserved' = Reserved
    BY <1>u DEF Reserved
  <2>2. r \in Holding /\ Holding' = Holding \ {r}
    BY <1>1, <1>k, <1>p DEF Holding, Labels
  <2>3. Cardinality(Holding') = Cardinality(Holding) - 1
    BY <2>2, CountsFinite, FS_RemoveElement
  <2>4. CE_RING_DELTA(sw_index, write_index)' = CE_RING_DELTA(sw_index, write_index)
    BY <1>u DEF CE_RING_DELTA
  <2>5. Total' = Total
    BY <1>1, <1>n, <2>1, <2>3, <2>4, CountsFinite DEF Total
  <2> QED
    BY <1>p, <1>u, <2>5 DEF Bounded
<1> QED
  BY <1>2, <1>3, <1>4, <1>5, <1>6, <1>7 DEF RingInv

\* hif_completion_thread makes the entry free.
LEMMA ReturnStep ==
    ASSUME RingInv, ReturnEntry
    PROVE  RingInv'
<1>p. RingTypeOK /\ Labels /\ OneHolder /\ InOrder /\ Filled /\ ListsWhole /\ Bounded
  BY DEF RingInv
<1>1. unreturned > 0 /\ unreturned' = unreturned - 1 /\ num_sends_allowed' = num_sends_allowed + 1
  BY DEF ReturnEntry
<1>u. UNCHANGED <<write_index, sw_index, hw_index, per_transfer_context, gather, SR_WR_INDEX,
                  CURRENT_SRRI, recovery, stopped, left, taken, pc, sent>>
  BY DEF ReturnEntry, ringVars, targetVars, localVars
<1>n. num_sends_allowed \in Nat /\ unreturned \in Nat /\ CE_RING_DELTA(sw_index, write_index) \in Int
  BY <1>p, Delta DEF RingTypeOK, Entries
<1>2. RingTypeOK'
  <2>1. num_sends_allowed' \in Nat /\ unreturned' \in Nat
    BY <1>1, <1>n
  <2> QED
    BY <1>p, <1>u, <2>1 DEF RingTypeOK
<1>3. Labels' /\ OneHolder' /\ ListsWhole'
  BY <1>p, <1>u DEF Labels, OneHolder, Locked, ListsWhole
<1>4. InOrder' /\ Filled'
  BY <1>p, <1>u DEF InOrder, Filled, CE_RING_DELTA
<1>5. Bounded'
  <2>1. Reserved' = Reserved /\ Holding' = Holding
    BY <1>u DEF Reserved, Holding
  <2>2. CE_RING_DELTA(sw_index, write_index)' = CE_RING_DELTA(sw_index, write_index)
    BY <1>u DEF CE_RING_DELTA
  <2>3. Total' = Total
    BY <1>1, <1>n, <2>1, <2>2, CountsFinite DEF Total
  <2> QED
    BY <1>p, <1>u, <2>3 DEF Bounded
<1> QED
  BY <1>2, <1>3, <1>4, <1>5 DEF RingInv

----------------------------------------------------------------------------
(* The target and the end                                                  *)

\* The target moves its index towards the write register; a target or link that goes away, and
\* HIFStop, leave the indices where they are.
LEMMA TargetStep ==
    ASSUME RingInv, TargetCopy \/ TargetGone \/ LinkDown \/ HIFStop
    PROVE  RingInv'
<1>p. /\ RingTypeOK /\ Labels /\ OneHolder /\ InOrder /\ Filled /\ ListsWhole /\ Bounded
      /\ sw_index \in Entries /\ CURRENT_SRRI \in Entries /\ SR_WR_INDEX \in Entries /\ write_index \in Entries
      /\ nentries \in Nat /\ nentries > 1
  BY RingAssumption DEF RingInv, RingTypeOK
<1>u. UNCHANGED <<write_index, sw_index, hw_index, per_transfer_context, gather, SR_WR_INDEX,
                  num_sends_allowed, unreturned, left, taken, pc, sent>>
  BY DEF TargetCopy, TargetGone, LinkDown, HIFStop, ringVars, targetVars, hifVars, localVars
<1>c. /\ UNCHANGED recovery \/ recovery' = TRUE
      /\ \/ UNCHANGED stopped
         \/ stopped' = TRUE /\ \A t \in Threads : pc[t] = "idle"
      /\ \/ UNCHANGED CURRENT_SRRI
         \/ CURRENT_SRRI' = CE_RING_IDX_INCR(CURRENT_SRRI) /\ CURRENT_SRRI # SR_WR_INDEX /\ ~stopped
  <2>1. CASE TargetCopy
    BY <2>1 DEF TargetCopy, hifVars
  <2>2. CASE TargetGone
    BY <2>2 DEF TargetGone, hifVars
  <2>3. CASE LinkDown
    BY <2>3 DEF LinkDown, hifVars
  <2>4. CASE HIFStop
    BY <2>4 DEF HIFStop, targetVars
  <2> QED
    BY <2>1, <2>2, <2>3, <2>4
<1>i. /\ CURRENT_SRRI' \in Entries
      /\ ~stopped => /\ CE_RING_DELTA(sw_index, CURRENT_SRRI') <= CE_RING_DELTA(sw_index, SR_WR_INDEX)
                     /\ CE_RING_DELTA(sw_index, CURRENT_SRRI) <= CE_RING_DELTA(sw_index, CURRENT_SRRI')
  <2>1. /\ CE_RING_DELTA(sw_index, CURRENT_SRRI) \in Entries /\ CE_RING_DELTA(sw_index, SR_WR_INDEX) \in Entries
        /\ ~stopped => CE_RING_DELTA(sw_index, CURRENT_SRRI) <= CE_RING_DELTA(sw_index, SR_WR_INDEX)
    BY <1>p, Delta DEF InOrder
  <2>2. CASE UNCHANGED CURRENT_SRRI
    BY <1>p, <2>1, <2>2 DEF Entries
  <2>3. CASE CURRENT_SRRI' = CE_RING_IDX_INCR(CURRENT_SRRI) /\ CURRENT_SRRI # SR_WR_INDEX /\ ~stopped
    <3>1. CE_RING_DELTA(sw_index, CURRENT_SRRI) # CE_RING_DELTA(sw_index, SR_WR_INDEX)
      BY <1>p, <2>3, DeltaOther
    <3>2. CE_RING_DELTA(sw_index, CURRENT_SRRI) # nentries - 1
      BY <1>p, <2>1, <2>3, <3>1 DEF Entries
    <3>3. CURRENT_SRRI' \in Entries
          /\ CE_RING_DELTA(sw_index, CURRENT_SRRI') = CE_RING_DELTA(sw_index, CURRENT_SRRI) + 1
      BY <1>p, <2>3, <3>2, Incr, DeltaFar
    <3> QED
      BY <1>p, <2>1, <2>3, <3>1, <3>3 DEF Entries
  <2> QED
    BY <1>c, <2>2, <2>3
<1>1. RingTypeOK'
  BY <1>i, <1>p, <1>u DEF RingTypeOK
<1>2. Labels' /\ OneHolder'
  BY <1>c, <1>p, <1>u DEF Labels, OneHolder, Locked
<1>3. ListsWhole'
  BY <1>c, <1>p, <1>u DEF ListsWhole
<1>4. Filled'
  BY <1>p, <1>u DEF Filled, CE_RING_DELTA
<1>5. InOrder'
  <2> SUFFICES ASSUME ~stopped PROVE InOrder'
    BY <1>c DEF InOrder
  <2>1. /\ CE_RING_DELTA(sw_index, CURRENT_SRRI)' = CE_RING_DELTA(sw_index, CURRENT_SRRI')
        /\ CE_RING_DELTA(sw_index, SR_WR_INDEX)' = CE_RING_DELTA(sw_index, SR_WR_INDEX)
        /\ CE_RING_DELTA(sw_index, write_index)' = CE_RING_DELTA(sw_index, write_index)
        /\ CE_RING_DELTA(sw_index, hw_index)' = CE_RING_DELTA(sw_index, hw_index)
    BY <1>u DEF CE_RING_DELTA
  <2>2. /\ CE_RING_DELTA(sw_index, SR_WR_INDEX) <= CE_RING_DELTA(sw_index, write_index)
        /\ hw_index # AllOnes =>
             CE_RING_DELTA(sw_index, hw_index) <= CE_RING_DELTA(sw_index, CURRENT_SRRI)
    BY <1>p DEF InOrder
  <2>3. /\ CE_RING_DELTA(sw_index, CURRENT_SRRI) \in Int /\ CE_RING_DELTA(sw_index, CURRENT_SRRI') \in Int
        /\ hw_index # AllOnes => CE_RING_DELTA(sw_index, hw_index) \in Int
    BY <1>i, <1>p, Delta DEF Entries, RingTypeOK
  <2> QED
    BY <1>i, <1>u, <2>1, <2>2, <2>3 DEF InOrder
<1>6. Bounded'
  <2>1. Reserved' = Reserved /\ Holding' = Holding
    BY <1>u DEF Reserved, Holding
  <2>2. Total' = Total
    BY <1>u, <2>1 DEF Total, CE_RING_DELTA
  <2> QED
    BY <1>c, <1>p, <2>2 DEF Bounded
<1> QED
  BY <1>1, <1>2, <1>3, <1>4, <1>5, <1>6 DEF RingInv

\* CE_cancel_send_next takes an entry that is in use.
LEMMA CancelStep ==
    ASSUME RingInv, CE_cancel_send_next
    PROVE  RingInv'
<1>p. RingTypeOK /\ Labels /\ OneHolder /\ InOrder /\ Filled /\ ListsWhole /\ Bounded /\ nentries \in Nat
  BY RingAssumption DEF RingInv
<1>1. /\ stopped /\ write_index # sw_index /\ sw_index' = CE_RING_IDX_INCR(sw_index)
      /\ per_transfer_context' = [per_transfer_context EXCEPT ![sw_index] = NoContext]
  BY DEF CE_cancel_send_next
<1>u. UNCHANGED <<write_index, hw_index, gather, SR_WR_INDEX, CURRENT_SRRI, recovery, stopped,
                  num_sends_allowed, unreturned, left, taken, pc, sent>>
  BY DEF CE_cancel_send_next, targetVars, hifVars, localVars
<1>2. /\ sw_index' \in Entries /\ per_transfer_context' \in [Entries -> Int] /\ Filled'
      /\ CE_RING_DELTA(sw_index, write_index)' = CE_RING_DELTA(sw_index, write_index) - 1
  BY <1>1, <1>u, Shrink
<1>3. RingTypeOK'
  BY <1>2, <1>p, <1>u DEF RingTypeOK
<1>4. Labels' /\ OneHolder' /\ ListsWhole' /\ InOrder'
  BY <1>1, <1>p, <1>u DEF Labels, OneHolder, Locked, ListsWhole, InOrder
<1>5. Bounded'
  <2>1. Reserved' = Reserved /\ Holding' = Holding
    BY <1>u DEF Reserved, Holding
  <2>2. num_sends_allowed \in Nat /\ unreturned \in Nat /\ CE_RING_DELTA(sw_index, write_index) \in Int
    BY <1>p, Delta DEF RingTypeOK, Entries
  <2>3. Total' = Total - 1 /\ Total \in Int
    BY <1>2, <1>u, <2>1, <2>2, CountsFinite DEF Total
  <2> QED
    BY <1>1, <1>p, <1>u, <2>3 DEF Bounded
<1> QED
  BY <1>2, <1>3, <1>4, <1>5 DEF RingInv

----------------------------------------------------------------------------
(* The theorems                                                            *)

\* CE_init leaves an empty ring and all entries free.
LEMMA RingInit == Init => RingInv
<1> SUFFICES ASSUME Init PROVE RingInv
  OBVIOUS
<1>1. nentries \in Nat /\ nentries > 1 /\ MaxFrags \in Nat /\ write_index \in Entries /\ 0 \in 0..MaxFrags
  BY RingAssumption DEF Init
<1>2. RingTypeOK
  BY <1>1 DEF Init, RingTypeOK, NoContext
<1>3. Labels /\ OneHolder
  BY ThreadsDiffer DEF Init, Labels, OneHolder, Locked
<1>4. CE_RING_DELTA(write_index, write_index) = 0 /\ \A i \in Entries : CE_RING_DELTA(write_index, i) >= 0
  BY <1>1, Delta DEF Entries
<1>5. \A i \in Entries : CE_RING_DELTA(write_index, i) \in Int
  BY <1>1, Delta DEF Entries
<1>6. InOrder /\ Filled
  BY <1>1, <1>4, <1>5 DEF Init, InOrder, Filled
<1>7. ListsWhole
  <2>1. (write_index - 1) % nentries \in Entries
    BY <1>1, DeltaOther
  <2> QED
    BY <2>1 DEF Init, ListsWhole
<1>8. Reserved = {} /\ Holding = {}
  BY DEF Init, Reserved, Holding
<1>9. Bounded
  BY <1>1, <1>4, <1>8, FS_EmptySet DEF Init, Bounded, Total
<1> QED
  BY <1>2, <1>3, <1>6, <1>7, <1>9 DEF RingInv

\* Every step keeps the invariant.
LEMMA RingStep == RingInv /\ [Next]_vars => RingInv'
<1> SUFFICES ASSUME RingInv, [Next]_vars PROVE RingInv'
  OBVIOUS
<1>1. ASSUME NEW s \in Senders, Sending(s) PROVE RingInv'
  BY <1>1, SendlistStep, AbandonStep, PostStep DEF Sending
<1>2. ASSUME NEW s \in Senders, NEW n \in 1..MaxFrags, HIFSend_head(s, n) PROVE RingInv'
  BY <1>2, ReserveStep
<1>3. ASSUME NEW r \in Reapers, Reaping(r) PROVE RingInv'
  <2>1. CASE NextCompleted(r)
    <3>1. \E l \in {"clear", "idle", "next"} : TakeNext(r, l)
      BY <2>1 DEF NextCompleted
    <3> QED
      BY <2>1, <3>1, TakeStep DEF NextCompleted
  <2>2. CASE CE_completed_send_next(r)
    BY <2>2, TakeStep DEF CE_completed_send_next
  <2> QED
    BY <1>3, <2>1, <2>2, SendDoneStep DEF Reaping
<1>4. CASE UNCHANGED vars
  <2>u. UNCHANGED <<write_index, sw_index, hw_index, per_transfer_context, gather, SR_WR_INDEX,
                    CURRENT_SRRI, recovery, stopped, num_sends_allowed, unreturned, left, taken, pc, sent>>
    BY <1>4 DEF vars, ringVars, targetVars, hifVars, localVars
  <2>1. RingTypeOK' /\ Labels' /\ OneHolder' /\ ListsWhole'
    BY <2>u DEF RingInv, RingTypeOK, Labels, OneHolder, Locked, ListsWhole
  <2>2. InOrder' /\ Filled'
    BY <2>u DEF RingInv, InOrder, Filled, CE_RING_DELTA
  <2>3. Bounded'
    BY <2>u DEF RingInv, Bounded, Total, Reserved, Holding, CE_RING_DELTA
  <2> QED
    BY <2>1, <2>2, <2>3 DEF RingInv
<1> QED
  BY <1>1, <1>2, <1>3, <1>4, ControlStep, ReturnStep, TargetStep, CancelStep, ThreadsDiffer
     DEF Next, Service

\* The target never sees part of a list, for rings of any size: the write register only ever stands
\* behind a last fragment, because no post can come round to the entry behind it.
THEOREM ListsWholeAlways == Spec => []ListsWhole
<1>1. RingInv => ListsWhole
  BY DEF RingInv
<1> QED
  BY <1>1, RingInit, RingStep, PTL DEF Spec

\* The assertion in HIFSend_head holds: however many senders reserve and post concurrently, who has
\* reserved entries finds room for the whole list in the ring.
THEOREM NeverRefusedAlways == Spec => []NeverRefused
<1>1. RingInv => NeverRefused
  BY DEF RingInv, Labels, NeverRefused
<1> QED
  BY <1>1, RingInit, RingStep, PTL DEF Spec

\* No entry of the ring is lost or counted twice while the link is up.
THEOREM EntriesConservedAlways == Spec => []EntriesConserved
<1>1. RingInv => EntriesConserved
  <2> SUFFICES ASSUME RingInv, ~stopped, ~recovery PROVE Total = nentries - 1
    BY DEF EntriesConserved, Total, Holding
  <2> QED
    BY DEF RingInv, Bounded
<1> QED
  BY <1>1, RingInit, RingStep, PTL DEF Spec

\* Also when lists are abandoned and the device is stopped, no more entries are free to reserve than
\* the ring has room for.
THEOREM RoomForReservations ==
    Spec => [](num_sends_allowed + CE_RING_DELTA(sw_index, write_index) <= nentries - 1)
<1>1. RingInv => num_sends_allowed + CE_RING_DELTA(sw_index, write_index) <= nentries - 1
  <2> SUFFICES ASSUME RingInv PROVE num_sends_allowed + CE_RING_DELTA(sw_index, write_index) <= nentries - 1
    OBVIOUS
  <2>1. /\ num_sends_allowed \in Nat /\ unreturned \in Nat /\ nentries \in Nat
        /\ CE_RING_DELTA(sw_index, write_index) \in Int /\ Total <= nentries - 1
    BY RingAssumption, Delta DEF RingInv, RingTypeOK, Entries, Bounded
  <2> QED
    BY <2>1, CountsFinite DEF Total
<1> QED
  BY <1>1, RingInit, RingStep, PTL DEF Spec

----------------------------------------------------------------------------
(* The transfers in the ring                                               *)

\* A set of naturals with zero and the successor of each of its elements has all of them.
LEMMA AllNaturals ==
    ASSUME NEW S, 0 \in S, \A m \in Nat : m \in S => m + 1 \in S
    PROVE  Nat \subseteq S
<1> DEFINE R == OpToRel(<, Nat)
           Out == Nat \ S
<1> SUFFICES ASSUME Out # {} PROVE FALSE
  OBVIOUS
<1>1. PICK x \in Out : \A y \in Out : <<y, x>> \notin R
  BY NatLessThanWellFounded, WFMin
<1>2. x \in Nat /\ x # 0 /\ x - 1 \in Nat /\ x - 1 < x /\ x - 1 + 1 = x
  OBVIOUS
<1>3. x - 1 \in Out
  BY <1>2
<1>4. <<x - 1, x>> \in R
  BY <1>2 DEF OpToRel
<1> QED
  BY <1>1, <1>3, <1>4

\* The context k entries on from index i, in a ring with contexts c, and what it adds to the transfers s
At(c, i, k) == c[(i + k - 1) % nentries]
Adding(s, context) == IF context = CE_SENDLIST_ITEM_CTXT THEN s ELSE Append(s, context)
Collects(c, i, f, n) ==
    f = [k \in 0..n |-> IF k = 0 THEN <<>> ELSE Adding(f[k - 1], At(c, i, k))]

\* TransfersFrom for a ring with contexts c
From(c, i) == CHOOSE f : Collects(c, i, f, nentries - 1)

LEMMA TransfersAreFrom ==
    ASSUME NEW i
    PROVE  TransfersFrom(i) = From(per_transfer_context, i)
  BY DEF TransfersFrom, From, Collects, Adding, At, Entries

\* The recursion has a solution, which its equation determines: it is extended entry by entry.
LEMMA FromCollects ==
    ASSUME NEW c, NEW i
    PROVE  Collects(c, i, From(c, i), nentries - 1)
<1> DEFINE S == {n \in Nat : \E f : Collects(c, i, f, n)}
<1>1. 0 \in S
  <2> DEFINE f == [k \in 0..0 |-> <<>>]
  <2>1. Collects(c, i, f, 0)
    BY DEF Collects
  <2> QED
    BY <2>1
<1>2. ASSUME NEW n \in Nat, n \in S PROVE n + 1 \in S
  <2>1. PICK f : Collects(c, i, f, n)
    BY <1>2
  <2> DEFINE g == [k \in 0..n + 1 |->
                      IF k = n + 1 THEN Adding(f[n], At(c, i, n + 1)) ELSE f[k]]
             h == [k \in 0..n + 1 |-> IF k = 0 THEN <<>> ELSE Adding(g[k - 1], At(c, i, k))]
  <2>2. ASSUME NEW k \in 0..n + 1 PROVE g[k] = h[k]
    <3>1. CASE k = n + 1
      <4>1. k - 1 = n /\ k # 0 /\ n \in 0..n + 1 /\ n # n + 1
        BY <3>1
      <4>2. g[k - 1] = f[n]
        BY <4>1
      <4>3. h[k] = Adding(f[n], At(c, i, n + 1)) /\ g[k] = Adding(f[n], At(c, i, n + 1))
        BY <3>1, <4>1, <4>2
      <4> QED
        BY <4>3
    <3>2. CASE k = 0
      <4>1. f[0] = <<>> /\ 0 # n + 1 /\ 0 \in 0..n + 1
        BY <2>1 DEF Collects
      <4>2. g[0] = <<>> /\ h[0] = <<>>
        BY <4>1
      <4> QED
        BY <3>2, <4>2
    <3>3. CASE k # 0 /\ k # n + 1
      <4>1. k \in 0..n /\ k - 1 \in 0..n + 1 /\ k - 1 # n + 1
        BY <3>3
      <4>2. f[k] = Adding(f[k - 1], At(c, i, k))
        BY <2>1, <3>3, <4>1 DEF Collects
      <4>3. g[k] = f[k] /\ g[k - 1] = f[k - 1]
        BY <3>3, <4>1
      <4>4. h[k] = Adding(g[k - 1], At(c, i, k))
        BY <3>3
      <4> QED
        BY <4>2, <4>3, <4>4
    <3> QED
      BY <3>1, <3>2, <3>3
  <2>3. g = h
    <3>1. DOMAIN g = DOMAIN h /\ g = [k \in 0..n + 1 |-> g[k]] /\ h = [k \in 0..n + 1 |-> h[k]]
      OBVIOUS
    <3> HIDE DEF g, h
    <3> QED
      BY <2>2, <3>1
  <2>4. Collects(c, i, g, n + 1)
    BY <2>3 DEF Collects
  <2> QED
    BY <2>4
<1>3. nentries - 1 \in Nat
  BY RingAssumption
<1>4. nentries - 1 \in S
  BY <1>1, <1>2, <1>3, AllNaturals
<1>5. \E f : Collects(c, i, f, nentries - 1)
  BY <1>4
<1> QED
  BY <1>5 DEF From

\* One entry more adds its transfer, if it carries one.
LEMMA FromUnfolds ==
    ASSUME NEW c, NEW i
    PROVE  /\ From(c, i)[0] = <<>>
           /\ \A k \in Nat : k + 1 \in Entries =>
                From(c, i)[k + 1] = Adding(From(c, i)[k], At(c, i, k + 1))
<1> DEFINE f == From(c, i)
<1>1. Collects(c, i, f, nentries - 1)
  BY FromCollects
<1>2. nentries \in Nat /\ nentries > 1
  BY RingAssumption
<1> HIDE DEF f
<1>3. f[0] = <<>>
  BY <1>1, <1>2 DEF Collects
<1>4. ASSUME NEW k \in Nat, k + 1 \in Entries PROVE f[k + 1] = Adding(f[k], At(c, i, k + 1))
  <2>1. k + 1 \in 0..nentries - 1 /\ k + 1 # 0 /\ k + 1 - 1 = k
    BY <1>4 DEF Entries
  <2>2. \A m \in 0..nentries - 1 : m # 0 => f[m] = Adding(f[m - 1], At(c, i, m))
    BY <1>1 DEF Collects
  <2>3. f[k + 1] = Adding(f[k + 1 - 1], At(c, i, k + 1))
    BY <2>1, <2>2
  <2> QED
    BY <2>1, <2>3
<1> QED
  BY <1>3, <1>4 DEF f

\* The transfers among k entries are a sequence, at most k, and no fewer than among those before.
LEMMA FromType ==
    ASSUME NEW c \in [Entries -> Int], NEW i \in Entries
    PROVE  /\ \A k \in Entries : From(c, i)[k] \in Seq(Int) /\ Len(From(c, i)[k]) <= k
           /\ \A j, k \in Entries : j <= k => Len(From(c, i)[j]) <= Len(From(c, i)[k])
<1> DEFINE f == From(c, i)
<1>n. nentries \in Nat /\ nentries > 1 /\ i \in Nat
  BY RingAssumption DEF Entries
<1>a. \A k \in Nat : At(c, i, k + 1) \in Int
  <2> SUFFICES ASSUME NEW k \in Nat PROVE At(c, i, k + 1) \in Int
    OBVIOUS
  <2>1. (i + (k + 1) - 1) % nentries \in Entries
    BY <1>n DEF Entries
  <2> QED
    BY <2>1 DEF At
<1>f. f[0] = <<>> /\ \A k \in Nat : k + 1 \in Entries => f[k + 1] = Adding(f[k], At(c, i, k + 1))
  BY FromUnfolds
<1> HIDE DEF f
<1>s. ASSUME NEW s \in Seq(Int), NEW x \in Int
      PROVE  Adding(s, x) \in Seq(Int) /\ Len(Adding(s, x)) \in {Len(s), Len(s) + 1}
  <2>1. Append(s, x) \in Seq(Int) /\ Len(Append(s, x)) = Len(s) + 1
    OBVIOUS
  <2> QED
    BY <2>1 DEF Adding
<1> DEFINE Good(k) == k \in Entries =>
               /\ f[k] \in Seq(Int) /\ Len(f[k]) <= k
               /\ \A j \in Entries : j <= k => f[j] \in Seq(Int) /\ Len(f[j]) <= Len(f[k])
           S == {k \in Nat : Good(k)}
<1>1. 0 \in S
  <2>1. ASSUME NEW j \in Entries, j <= 0 PROVE f[j] \in Seq(Int) /\ Len(f[j]) <= Len(f[0])
    <3>1. f[j] = <<>> /\ f[0] = <<>>
      BY <1>f, <2>1 DEF Entries
    <3>2. <<>> \in Seq(Int) /\ Len(<<>>) <= Len(<<>>)
      OBVIOUS
    <3> QED
      BY <3>1, <3>2
  <2>2. f[0] \in Seq(Int) /\ Len(f[0]) <= 0
    BY <1>f
  <2> QED
    BY <2>1, <2>2
<1>2. ASSUME NEW k \in Nat, k \in S PROVE k + 1 \in S
  <2> SUFFICES ASSUME k + 1 \in Entries PROVE Good(k + 1)
    OBVIOUS
  <2>1. k \in Entries
    BY <1>n DEF Entries
  <2>2. Good(k)
    BY <1>2
  <2>3. /\ f[k] \in Seq(Int) /\ Len(f[k]) <= k /\ Len(f[k]) \in Nat
        /\ \A j \in Entries : j <= k => f[j] \in Seq(Int) /\ Len(f[j]) <= Len(f[k])
    BY <2>1, <2>2
  <2>4. f[k + 1] = Adding(f[k], At(c, i, k + 1)) /\ At(c, i, k + 1) \in Int
    BY <1>a, <1>f
  <2>5. f[k + 1] \in Seq(Int) /\ Len(f[k + 1]) \in {Len(f[k]), Len(f[k]) + 1}
    BY <1>s, <2>3, <2>4
  <2>6. ASSUME NEW j \in Entries, j <= k + 1
        PROVE f[j] \in Seq(Int) /\ Len(f[j]) <= Len(f[k + 1])
    <3>1. CASE j = k + 1
      BY <2>3, <2>5, <3>1
    <3>2. CASE j # k + 1
      <4>1. j <= k
        BY <2>6, <3>2 DEF Entries
      <4>2. Len(f[j]) <= Len(f[k]) /\ f[j] \in Seq(Int)
        BY <2>3, <4>1
      <4>3. Len(f[j]) \in Nat /\ Len(f[k]) \in Nat
        BY <2>3, <4>2
      <4>4. Len(f[j]) <= Len(f[k + 1])
        BY <2>5, <4>2, <4>3
      <4> QED
        BY <4>2, <4>4
    <3> QED
      BY <3>1, <3>2
  <2> QED
    BY <2>3, <2>5, <2>6
<1> HIDE DEF Good
<1>3. \A k \in Nat : Good(k)
  BY <1>1, <1>2, AllNaturals
<1>4. \A k \in Entries : k \in Nat
  BY DEF Entries
<1> QED
  BY <1>3, <1>4 DEF Good, f

\* The entry k on from index i: its index is at that distance, and the index at a distance is its.
LEMMA Position ==
    ASSUME NEW i \in Entries
    PROVE  /\ \A k \in Entries : /\ (i + (k + 1) - 1) % nentries \in Entries
                                 /\ CE_RING_DELTA(i, (i + (k + 1) - 1) % nentries) = k
           /\ \A j \in Entries : (i + (CE_RING_DELTA(i, j) + 1) - 1) % nentries = j
<1>n. nentries \in Nat /\ nentries > 1 /\ i \in Nat /\ i < nentries
  BY RingAssumption DEF Entries
<1>1. ASSUME NEW k \in Entries
      PROVE  (i + (k + 1) - 1) % nentries = IF i + k < nentries THEN i + k ELSE i + k - nentries
  <2>1. k \in Nat /\ k < nentries /\ i + (k + 1) - 1 = i + k
    BY <1>n DEF Entries
  <2>2. (i + k) % nentries = IF i + k < nentries THEN i + k ELSE i + k - nentries
    BY <1>n, <2>1
  <2> QED
    BY <2>1, <2>2
<1>2. ASSUME NEW k \in Entries
      PROVE  /\ (i + (k + 1) - 1) % nentries \in Entries
             /\ CE_RING_DELTA(i, (i + (k + 1) - 1) % nentries) = k
  <2> DEFINE p == (i + (k + 1) - 1) % nentries
  <2>1. p = IF i + k < nentries THEN i + k ELSE i + k - nentries
    BY <1>1
  <2>2. k \in Nat /\ k < nentries
    BY <1>n DEF Entries
  <2> HIDE DEF p
  <2>3. p \in Entries
    BY <1>n, <2>1, <2>2 DEF Entries
  <2>4. CE_RING_DELTA(i, p) = IF p < i THEN p - i + nentries ELSE p - i
    BY <2>3, Delta
  <2>5. CE_RING_DELTA(i, p) = k
    BY <1>n, <2>1, <2>2, <2>4
  <2> QED
    BY <2>3, <2>5 DEF p
<1>3. ASSUME NEW j \in Entries PROVE (i + (CE_RING_DELTA(i, j) + 1) - 1) % nentries = j
  <2> DEFINE k == CE_RING_DELTA(i, j)
  <2>1. k \in Entries /\ k = IF j < i THEN j - i + nentries ELSE j - i
    BY Delta
  <2> HIDE DEF k
  <2>2. (i + (k + 1) - 1) % nentries = IF i + k < nentries THEN i + k ELSE i + k - nentries
    BY <1>1, <2>1
  <2>3. j \in Nat /\ j < nentries
    BY <1>n DEF Entries
  <2>4. (i + (k + 1) - 1) % nentries = j
    BY <1>n, <2>1, <2>2, <2>3
  <2> QED
    BY <2>4 DEF k
<1> QED
  BY <1>2, <1>3

\* Rings that agree on n entries have the same transfers there.
LEMMA FromSame ==
    ASSUME NEW c, NEW d, NEW i, NEW n \in Entries,
           \A k \in Nat : k < n => At(c, i, k + 1) = At(d, i, k + 1)
    PROVE  From(c, i)[n] = From(d, i)[n]
<1> DEFINE f == From(c, i)
           g == From(d, i)
           S == {k \in Nat : k <= n => f[k] = g[k]}
<1>n. n \in Nat /\ \A k \in Nat : k + 1 <= n => k + 1 \in Entries /\ k < n
  BY RingAssumption DEF Entries
<1>f. /\ f[0] = <<>> /\ \A k \in Nat : k + 1 \in Entries => f[k + 1] = Adding(f[k], At(c, i, k + 1))
      /\ g[0] = <<>> /\ \A k \in Nat : k + 1 \in Entries => g[k + 1] = Adding(g[k], At(d, i, k + 1))
  BY FromUnfolds
<1> HIDE DEF f, g
<1>1. 0 \in S
  BY <1>f
<1>2. ASSUME NEW k \in Nat, k \in S PROVE k + 1 \in S
  <2> SUFFICES ASSUME k + 1 <= n PROVE f[k + 1] = g[k + 1]
    OBVIOUS
  <2>1. f[k] = g[k]
    BY <1>2, <1>n
  <2>2. /\ f[k + 1] = Adding(f[k], At(c, i, k + 1)) /\ g[k + 1] = Adding(g[k], At(d, i, k + 1))
        /\ At(c, i, k + 1) = At(d, i, k + 1)
    BY <1>f, <1>n
  <2> QED
    BY <2>1, <2>2
<1>3. n \in S
  BY <1>1, <1>2, <1>n, AllNaturals
<1>4. f[n] = g[n]
  BY <1>3, <1>n
<1> QED
  BY <1>4 DEF f, g

\* A sequence with a head, and one element more at its end.
LEMMA HeadAppend ==
    ASSUME NEW x \in Int, NEW s \in Seq(Int), NEW y \in Int
    PROVE  /\ Append(<<x>> \o s, y) = <<x>> \o Append(s, y)
           /\ <<x>> \o s \in Seq(Int) /\ Len(<<x>> \o s) = Len(s) + 1
           /\ Head(<<x>> \o s) = x /\ Tail(<<x>> \o s) = s
<1>1. /\ <<x>> \o s \in Seq(Int) /\ Len(<<x>> \o s) = Len(s) + 1
      /\ (<<x>> \o s)[1] = x /\ \A k \in 1..Len(s) : (<<x>> \o s)[k + 1] = s[k]
  OBVIOUS
<1>2. Head(<<x>> \o s) = x /\ Tail(<<x>> \o s) = s
  OBVIOUS
<1>3. Append(<<x>> \o s, y) = <<x>> \o Append(s, y)
  OBVIOUS
<1> QED
  BY <1>1, <1>2, <1>3

\* The transfers from an entry on are its own, if it carries one, and those from the next entry on.
LEMMA FromNext ==
    ASSUME NEW c \in [Entries -> Int], NEW i \in Entries
    PROVE  \A k \in Nat : k + 1 \in Entries =>
             From(c, i)[k + 1] =
               IF c[i] = CE_SENDLIST_ITEM_CTXT THEN From(c, CE_RING_IDX_INCR(i))[k]
               ELSE <<c[i]>> \o From(c, CE_RING_IDX_INCR(i))[k]
<1> DEFINE j == CE_RING_IDX_INCR(i)
           f == From(c, i)
           g == From(c, j)
           Both(s) == IF c[i] = CE_SENDLIST_ITEM_CTXT THEN s ELSE <<c[i]>> \o s
           S == {k \in Nat : k + 1 \in Entries => f[k + 1] = Both(g[k])}
<1>n. nentries \in Nat /\ nentries > 1 /\ i \in Nat /\ i < nentries
  BY RingAssumption DEF Entries
<1>j. j \in Entries /\ j = IF i = nentries - 1 THEN 0 ELSE i + 1
  BY Incr
<1>a. /\ At(c, i, 1) = c[i]
      /\ \A k \in Nat : k + 2 \in Entries => At(c, i, k + 2) = At(c, j, k + 1) /\ At(c, j, k + 1) \in Int
  <2>1. CE_RING_DELTA(i, i) = 0
    BY <1>n, Delta
  <2>2. At(c, i, 1) = c[i]
    BY <2>1, Position DEF At
  <2>3. ASSUME NEW k \in Nat, k + 2 \in Entries
        PROVE  At(c, i, k + 2) = At(c, j, k + 1) /\ At(c, j, k + 1) \in Int
    <3>1. k + 2 < nentries /\ k \in Entries /\ k + 1 \in Entries
      BY <1>n, <2>3 DEF Entries
    <3> DEFINE p == (i + (k + 2) - 1) % nentries
               q == (j + (k + 1) - 1) % nentries
    <3>2. /\ q \in Entries /\ p = (i + (k + 1 + 1) - 1) % nentries
      BY <1>j, <3>1, Position
    <3>3. p = (i + k + 1) % nentries /\ q = (j + k) % nentries
      <4>1. i + (k + 2) - 1 = i + k + 1 /\ j + (k + 1) - 1 = j + k
        BY <1>n, <1>j
      <4> QED
        BY <4>1
    <3>4. (i + k + 1) % nentries = IF i + k + 1 < nentries THEN i + k + 1 ELSE i + k + 1 - nentries
      BY <1>n, <3>1
    <3>5. (j + k) % nentries = IF j + k < nentries THEN j + k ELSE j + k - nentries
      BY <1>n, <1>j, <3>1
    <3>6. p = q
      BY <1>n, <1>j, <3>1, <3>3, <3>4, <3>5
    <3> QED
      BY <3>2, <3>6 DEF At
  <2> QED
    BY <2>2, <2>3
<1>f. /\ f[0] = <<>> /\ \A k \in Nat : k + 1 \in Entries => f[k + 1] = Adding(f[k], At(c, i, k + 1))
      /\ g[0] = <<>> /\ \A k \in Nat : k + 1 \in Entries => g[k + 1] = Adding(g[k], At(c, j, k + 1))
  BY FromUnfolds
<1>g. \A k \in Entries : g[k] \in Seq(Int)
  BY <1>j, FromType
<1>c. c[i] \in Int
  OBVIOUS
<1> HIDE DEF f, g, j
<1>1. 0 \in S
  <2>1. 1 \in Entries
    BY <1>n DEF Entries
  <2>2. f[0 + 1] = Adding(f[0], At(c, i, 0 + 1))
    BY <1>f, <2>1
  <2>3. f[0 + 1] = Adding(<<>>, c[i])
    BY <1>a, <1>f, <2>2
  <2>4. Append(<<>>, c[i]) = <<c[i]>> /\ <<c[i]>> \o <<>> = <<c[i]>>
    BY <1>c
  <2>5. f[0 + 1] = Both(g[0])
    BY <1>f, <2>3, <2>4 DEF Adding
  <2> QED
    BY <2>5
<1>2. ASSUME NEW k \in Nat, k \in S PROVE k + 1 \in S
  <2> SUFFICES ASSUME k + 1 + 1 \in Entries PROVE f[k + 1 + 1] = Both(g[k + 1])
    OBVIOUS
  <2>1. k + 1 + 1 = k + 2 /\ k + 1 \in Entries /\ k \in Entries
    BY <1>n DEF Entries
  <2>2. f[k + 1] = Both(g[k])
    BY <1>2, <2>1
  <2>3. f[k + 1 + 1] = Adding(Both(g[k]), At(c, j, k + 1))
    <3>1. f[k + 1 + 1] = Adding(f[k + 1], At(c, i, k + 1 + 1))
      BY <1>f
    <3> QED
      BY <1>a, <2>1, <2>2, <3>1
  <2>4. g[k + 1] = Adding(g[k], At(c, j, k + 1)) /\ g[k] \in Seq(Int) /\ At(c, j, k + 1) \in Int
    BY <1>a, <1>f, <1>g, <2>1
  <2>5. Append(<<c[i]>> \o g[k], At(c, j, k + 1)) = <<c[i]>> \o Append(g[k], At(c, j, k + 1))
    BY <1>c, <2>4, HeadAppend
  <2>6. Adding(Both(g[k]), At(c, j, k + 1)) = Both(Adding(g[k], At(c, j, k + 1)))
    BY <2>5 DEF Adding
  <2> QED
    BY <2>3, <2>4, <2>6
<1>3. Nat \subseteq S
  BY <1>1, <1>2, AllNaturals
<1> QED
  BY <1>3 DEF f, g, j

\* What CE_completed_send_next finds completed the target has copied.
LEMMA TakenIsCopied ==
    ASSUME RingInv, ~stopped, NEW hw,
           hw = IF hw_index = sw_index /\ ~recovery THEN CE_SRC_RING_READ_IDX_GET ELSE hw_index,
           Completed(hw)
    PROVE  CURRENT_SRRI # sw_index /\ write_index # sw_index
<1>p. /\ InOrder /\ hw_index \in Entries \cup {AllOnes} /\ nentries \in Nat
      /\ write_index \in Entries /\ sw_index \in Entries /\ SR_WR_INDEX \in Entries
      /\ CURRENT_SRRI \in Entries
  BY RingAssumption DEF RingInv, RingTypeOK
<1>o. /\ CE_RING_DELTA(sw_index, CURRENT_SRRI) <= CE_RING_DELTA(sw_index, write_index)
      /\ CE_RING_DELTA(sw_index, CURRENT_SRRI) \in Nat /\ CE_RING_DELTA(sw_index, write_index) \in Nat
  <2>1. /\ CE_RING_DELTA(sw_index, CURRENT_SRRI) <= CE_RING_DELTA(sw_index, SR_WR_INDEX)
        /\ CE_RING_DELTA(sw_index, SR_WR_INDEX) <= CE_RING_DELTA(sw_index, write_index)
    BY <1>p DEF InOrder
  <2>2. /\ CE_RING_DELTA(sw_index, CURRENT_SRRI) \in Entries
        /\ CE_RING_DELTA(sw_index, SR_WR_INDEX) \in Entries
        /\ CE_RING_DELTA(sw_index, write_index) \in Entries
    BY <1>p, Delta
  <2>3. \A e \in Entries : e \in Nat
    BY <1>p DEF Entries
  <2> HIDE DEF CE_RING_DELTA
  <2> QED
    BY <2>1, <2>2, <2>3
<1>1. hw # sw_index /\ hw # AllOnes
  BY DEF Completed
<1>2. hw = hw_index \/ hw = CURRENT_SRRI
  BY <1>1 DEF CE_SRC_RING_READ_IDX_GET
<1>3. hw \in Entries /\ CE_RING_DELTA(sw_index, hw) <= CE_RING_DELTA(sw_index, CURRENT_SRRI)
  <2>1. CASE hw = hw_index
    BY <1>1, <1>p, <2>1 DEF InOrder
  <2>2. CASE hw = CURRENT_SRRI
    BY <1>o, <1>p, <2>2
  <2> QED
    BY <1>2, <2>1, <2>2
<1>4. CE_RING_DELTA(sw_index, sw_index) = 0 /\ CE_RING_DELTA(sw_index, hw) # 0
      /\ CE_RING_DELTA(sw_index, hw) \in Nat
  <2>1. CE_RING_DELTA(sw_index, sw_index) = 0
    BY <1>p, Delta DEF Entries
  <2>2. CE_RING_DELTA(sw_index, hw) = CE_RING_DELTA(sw_index, sw_index) => hw = sw_index
    BY <1>3, <1>p, DeltaOther
  <2>3. CE_RING_DELTA(sw_index, hw) \in Entries
    BY <1>3, <1>p, Delta
  <2>4. \A e \in Entries : e \in Nat
    BY <1>p DEF Entries
  <2> QED
    BY <1>1, <2>1, <2>2, <2>3, <2>4
<1>5. CE_RING_DELTA(sw_index, CURRENT_SRRI) # 0 /\ CE_RING_DELTA(sw_index, write_index) # 0
  BY <1>3, <1>4, <1>o
<1> QED
  BY <1>4, <1>5

\* A context written behind the last entry in use is the last; nothing before it changes.
LEMMA PostRing ==
    ASSUME NEW c \in [Entries -> Int], NEW i \in Entries, NEW w \in Entries, NEW x \in Int,
           CE_RING_DELTA(i, w) # nentries - 1,
           NEW d, d[w] = x, \A e \in Entries : e # w => d[e] = c[e]
    PROVE  /\ From(d, i)[CE_RING_DELTA(i, w) + 1] = Adding(From(c, i)[CE_RING_DELTA(i, w)], x)
           /\ \A k \in Nat : k <= CE_RING_DELTA(i, w) => From(d, i)[k] = From(c, i)[k]
<1> DEFINE n == CE_RING_DELTA(i, w)
<1>n. nentries \in Nat /\ n \in Entries /\ n \in Nat /\ n + 1 \in Entries
  <2>1. nentries \in Nat /\ n \in Entries /\ n # nentries - 1
    BY RingAssumption, Delta
  <2> HIDE DEF n
  <2> QED
    BY <2>1 DEF Entries
<1>1. ASSUME NEW k \in Nat, k < n PROVE At(c, i, k + 1) = At(d, i, k + 1)
  <2> DEFINE p == (i + (k + 1) - 1) % nentries
  <2>1. k \in Entries
    <3> HIDE DEF n
    <3> QED
      BY <1>1, <1>n DEF Entries
  <2>2. p \in Entries /\ CE_RING_DELTA(i, p) = k
    BY <2>1, Position
  <2> HIDE DEF p
  <2>3. p # w
    BY <1>1, <1>n, <2>2
  <2>4. c[p] = d[p]
    BY <2>2, <2>3
  <2> QED
    BY <2>4 DEF At, p
<1>2. At(d, i, n + 1) = x
  <2>1. (i + (n + 1) - 1) % nentries = w
    BY Position
  <2> QED
    BY <2>1 DEF At
<1>3. \A k \in Nat : k <= n => From(c, i)[k] = From(d, i)[k]
  <2> SUFFICES ASSUME NEW k \in Nat, k <= n PROVE From(c, i)[k] = From(d, i)[k]
    OBVIOUS
  <2>1. \A m \in Nat : m < k => At(c, i, m + 1) = At(d, i, m + 1)
    <3>1. \A m \in Nat : m < k => m < n
      BY <1>n
    <3> QED
      BY <1>1, <3>1
  <2>2. k \in Entries
    BY <1>n DEF Entries
  <2> QED
    BY <2>1, <2>2, FromSame
<1>4. From(d, i)[n + 1] = Adding(From(d, i)[n], At(d, i, n + 1))
  <2> HIDE DEF n
  <2> QED
    BY <1>n, FromUnfolds
<1> HIDE DEF n
<1>5. From(d, i)[n + 1] = Adding(From(c, i)[n], x)
  <2>1. From(d, i)[n] = From(c, i)[n]
    BY <1>3, <1>n
  <2> QED
    BY <1>2, <1>4, <2>1
<1> QED
  BY <1>3, <1>5 DEF n

\* The first entry leaves the ring with its transfer, if it carries one.
LEMMA TakeRing ==
    ASSUME NEW c \in [Entries -> Int], NEW i \in Entries, NEW j \in Entries, j # i,
           NEW d, \A e \in Entries : e # i => d[e] = c[e]
    PROVE  LET rest == From(d, CE_RING_IDX_INCR(i))[CE_RING_DELTA(i, j) - 1] IN
           /\ From(c, i)[CE_RING_DELTA(i, j)] =
                IF c[i] = CE_SENDLIST_ITEM_CTXT THEN rest ELSE <<c[i]>> \o rest
           /\ rest \in Seq(Int)
<1> DEFINE n == CE_RING_DELTA(i, j) - 1
           s == CE_RING_IDX_INCR(i)
<1>n. nentries \in Nat /\ n \in Nat /\ n \in Entries /\ n + 1 \in Entries /\ n < nentries - 1
      /\ n + 1 = CE_RING_DELTA(i, j) /\ s \in Entries /\ CE_RING_DELTA(s, i) = nentries - 1
  <2>1. CE_RING_DELTA(i, j) > 0 /\ CE_RING_DELTA(i, j) \in Entries
    BY Delta, DeltaNear
  <2>2. s \in Entries /\ CE_RING_DELTA(s, i) = nentries - 1
    BY Incr, DeltaOther
  <2>3. nentries \in Nat
    BY RingAssumption
  <2> QED
    BY <2>1, <2>2, <2>3 DEF Entries
<1> HIDE DEF n, s
<1>1. ASSUME NEW k \in Nat, k < n PROVE At(c, s, k + 1) = At(d, s, k + 1)
  <2> DEFINE p == (s + (k + 1) - 1) % nentries
  <2>1. k \in Entries
    BY <1>1, <1>n DEF Entries
  <2>2. p \in Entries /\ CE_RING_DELTA(s, p) = k
    BY <1>n, <2>1, Position
  <2> HIDE DEF p
  <2>3. p # i
    BY <1>1, <1>n, <2>2
  <2>4. c[p] = d[p]
    BY <2>2, <2>3
  <2> QED
    BY <2>4 DEF At, p
<1>2. From(c, s)[n] = From(d, s)[n]
  <2>1. \A k \in Nat : k < n => At(c, s, k + 1) = At(d, s, k + 1)
    BY <1>1
  <2> QED
    BY <1>n, <2>1, FromSame
<1>3. From(c, i)[n + 1] = IF c[i] = CE_SENDLIST_ITEM_CTXT THEN From(c, s)[n] ELSE <<c[i]>> \o From(c, s)[n]
  BY <1>n, FromNext DEF s
<1>4. From(c, s)[n] \in Seq(Int)
  BY <1>n, FromType
<1>5. From(c, i)[CE_RING_DELTA(i, j)] =
        IF c[i] = CE_SENDLIST_ITEM_CTXT THEN From(d, s)[n] ELSE <<c[i]>> \o From(d, s)[n]
  BY <1>2, <1>3, <1>n
<1> QED
  BY <1>2, <1>4, <1>5 DEF n, s

----------------------------------------------------------------------------
(* The ring as a queue of transfers                                         *)

\* transfers are numbered as they are posted: those handed back, then those in the ring
Pending == TransfersBetween(sw_index, write_index)
InTarget == TransfersBetween(sw_index, CURRENT_SRRI)
Numbered == reaped \in Seq(Int) /\ sent = Len(reaped) + Len(Pending)

FifoInv == RingInv /\ Numbered

\* The transfers between two indices, before and after a step.
LEMMA BetweenType ==
    ASSUME RingTypeOK, NEW i \in Entries, NEW j \in Entries
    PROVE  /\ TransfersBetween(i, j) = From(per_transfer_context, i)[CE_RING_DELTA(i, j)]
           /\ TransfersBetween(i, j) \in Seq(Int) /\ Len(TransfersBetween(i, j)) \in Nat
           /\ Len(TransfersBetween(i, j)) <= CE_RING_DELTA(i, j)
           /\ i = j => TransfersBetween(i, j) = <<>>
<1>1. TransfersBetween(i, j) = From(per_transfer_context, i)[CE_RING_DELTA(i, j)]
  BY TransfersAreFrom DEF TransfersBetween
<1>2. CE_RING_DELTA(i, j) \in Entries /\ per_transfer_context \in [Entries -> Int]
  BY Delta DEF RingTypeOK
<1>3. /\ TransfersBetween(i, j) \in Seq(Int) /\ Len(TransfersBetween(i, j)) <= CE_RING_DELTA(i, j)
  BY <1>1, <1>2, FromType
<1>4. ASSUME i = j PROVE TransfersBetween(i, j) = <<>>
  <2>1. CE_RING_DELTA(i, j) = 0
    BY <1>4, Delta DEF Entries
  <2> QED
    BY <1>1, <2>1, FromUnfolds
<1> QED
  BY <1>1, <1>3, <1>4

LEMMA BetweenNext ==
    ASSUME RingTypeOK'
    PROVE  /\ Pending' = From(per_transfer_context', sw_index')[CE_RING_DELTA(sw_index', write_index')]
           /\ InTarget' =
                From(per_transfer_context', sw_index')[CE_RING_DELTA(sw_index', CURRENT_SRRI')]
           /\ Pending' \in Seq(Int)
<1>1. TransfersFrom(sw_index)' = From(per_transfer_context', sw_index')
  BY DEF TransfersFrom, From, Collects, Adding, At, Entries
<1>2. /\ Pending' = From(per_transfer_context', sw_index')[CE_RING_DELTA(sw_index', write_index')]
      /\ InTarget' =
           From(per_transfer_context', sw_index')[CE_RING_DELTA(sw_index', CURRENT_SRRI')]
  BY <1>1 DEF Pending, InTarget, TransfersBetween, CE_RING_DELTA
<1>3. /\ sw_index' \in Entries /\ write_index' \in Entries
      /\ per_transfer_context' \in [Entries -> Int]
  BY DEF RingTypeOK, Entries
<1>4. CE_RING_DELTA(sw_index', write_index') \in Entries
  BY <1>3, Delta
<1>5. Pending' \in Seq(Int)
  BY <1>2, <1>3, <1>4, FromType
<1> QED
  BY <1>2, <1>5

\* A step that leaves the ring, the target's index and the history alone changes nothing of the queue.
LEMMA QueueSame ==
    ASSUME Numbered,
           UNCHANGED <<write_index, sw_index, per_transfer_context, CURRENT_SRRI, stopped, sent, reaped>>
    PROVE  Numbered' /\ UNCHANGED Fifo!fifoVars
<1>1. TransfersFrom(sw_index)' = TransfersFrom(sw_index)
  BY DEF TransfersFrom
<1>2. /\ Pending' = Pending
      /\ TransfersBetween(sw_index, CURRENT_SRRI)' = TransfersBetween(sw_index, CURRENT_SRRI)
  BY <1>1 DEF Pending, TransfersBetween, CE_RING_DELTA
<1> QED
  BY <1>2 DEF Numbered, Pending, Fifo!fifoVars

\* CE_send_nolock accepts a transfer with its last fragment.
LEMMA PostAccepts ==
    ASSUME FifoInv, NEW s \in Senders, CE_send_nolock(s), ~recovery
    PROVE  Numbered' /\ (Fifo!Accept \/ UNCHANGED Fifo!fifoVars)
<1> DEFINE n == CE_RING_DELTA(sw_index, write_index)
           m == CE_RING_DELTA(sw_index, CURRENT_SRRI)
           c == per_transfer_context
           i == sw_index
           x == IF left[s] > 1 THEN CE_SENDLIST_ITEM_CTXT ELSE sent + 1
<1>p. /\ RingInv /\ RingTypeOK /\ RingTypeOK' /\ Labels /\ InOrder
      /\ write_index \in Entries /\ i \in Entries /\ CURRENT_SRRI \in Entries /\ SR_WR_INDEX \in Entries
      /\ c \in [Entries -> Int] /\ nentries \in Nat /\ sent \in Nat
      /\ reaped \in Seq(Int) /\ sent = Len(reaped) + Len(Pending)
  BY PostStep, RingAssumption DEF FifoInv, Numbered, RingInv, RingTypeOK
<1>1. /\ pc[s] = "post" /\ per_transfer_context' = [c EXCEPT ![write_index] = x]
      /\ write_index' = CE_RING_IDX_INCR(write_index)
      /\ sent' = IF left[s] > 1 THEN sent ELSE sent + 1
      /\ UNCHANGED <<sw_index, CURRENT_SRRI, stopped, reaped>>
  BY DEF CE_send_nolock, Post, hifVars
<1>2. ~stopped
  BY <1>1, <1>p, ThreadsDiffer DEF Labels
<1>3. /\ n \in Nat /\ n < nentries - 1 /\ n # nentries - 1 /\ left[s] \in Nat
  <2>1. left[s] # 0
    BY <1>1, <1>p DEF Labels
  <2>2. n \in Nat /\ left[s] \in Nat /\ n + left[s] <= nentries - 1
    BY <1>p, Room
  <2> HIDE DEF n
  <2> QED
    BY <1>p, <2>1, <2>2
<1>4. m \in Nat /\ m <= n
  <2>1. m \in Entries /\ CE_RING_DELTA(sw_index, SR_WR_INDEX) \in Entries /\ n \in Entries
    BY <1>p, Delta
  <2>2. m <= CE_RING_DELTA(sw_index, SR_WR_INDEX) /\ CE_RING_DELTA(sw_index, SR_WR_INDEX) <= n
    BY <1>2, <1>p DEF InOrder
  <2>3. \A e \in Entries : e \in Nat
    BY <1>p DEF Entries
  <2> HIDE DEF m, n
  <2> QED
    BY <2>1, <2>2, <2>3
<1>x. x \in Int
  BY <1>p DEF CE_SENDLIST_ITEM_CTXT
<1>5. /\ CE_RING_DELTA(i, CE_RING_IDX_INCR(write_index)) = n + 1
  BY <1>3, <1>p, DeltaFar
<1>6. /\ per_transfer_context'[write_index] = x
      /\ \A e \in Entries : e # write_index => per_transfer_context'[e] = c[e]
  BY <1>1, <1>p
<1>7. /\ From(per_transfer_context', i)[n + 1] = Adding(From(c, i)[n], x)
      /\ From(per_transfer_context', i)[m] = From(c, i)[m]
  <2> HIDE DEF x
  <2>1. /\ From(per_transfer_context', i)[CE_RING_DELTA(i, write_index) + 1]
             = Adding(From(c, i)[CE_RING_DELTA(i, write_index)], x)
        /\ \A k \in Nat : k <= CE_RING_DELTA(i, write_index) =>
             From(per_transfer_context', i)[k] = From(c, i)[k]
    <3>1. /\ i \in Entries /\ write_index \in Entries /\ CE_RING_DELTA(i, write_index) # nentries - 1
          /\ c \in [Entries -> Int]
      BY <1>3, <1>p
    <3> QED
      BY <1>6, <1>x, <3>1, PostRing
  <2> QED
    BY <1>4, <2>1
<1>8. /\ Pending = From(c, i)[n] /\ Pending \in Seq(Int) /\ Len(Pending) \in Nat /\ Len(Pending) <= n
      /\ InTarget = From(c, i)[m]
  BY <1>p, BetweenType DEF Pending, InTarget
<1>9. /\ Pending' = Adding(Pending, x)
      /\ InTarget' = InTarget
  <2>1. Pending' = From(per_transfer_context', i)[n + 1]
    BY <1>1, <1>5, <1>p, BetweenNext
  <2>2. InTarget' = From(per_transfer_context', i)[m]
    BY <1>1, <1>p, BetweenNext
  <2> QED
    BY <1>7, <1>8, <2>1, <2>2
<1>a. CASE left[s] > 1
  <2>1. Pending' = Pending
    BY <1>9, <1>a DEF Adding
  <2>2. sent' = sent
    BY <1>1, <1>a
  <2> QED
    BY <1>1, <1>9, <1>p, <2>1, <2>2 DEF Numbered, Fifo!fifoVars, Pending, InTarget
<1>b. CASE ~(left[s] > 1)
  <2>1. x = sent + 1 /\ x # CE_SENDLIST_ITEM_CTXT /\ sent' = sent + 1
    BY <1>1, <1>b, <1>p DEF CE_SENDLIST_ITEM_CTXT
  <2>2. Pending' = Append(Pending, sent + 1)
    BY <1>9, <2>1 DEF Adding
  <2>3. Len(Pending') = Len(Pending) + 1
    BY <1>8, <1>p, <2>2
  <2>4. Len(reaped) \in Nat
    BY <1>p
  <2>5. Numbered'
    <3>1. sent' = Len(reaped) + Len(Pending')
      BY <1>8, <1>p, <2>1, <2>3, <2>4
    <3> QED
      BY <1>1, <1>p, <3>1 DEF Numbered
  <2>6. Len(Pending) < nentries - 1
    BY <1>3, <1>8, <1>p
  <2>7. Pending' = Append(Pending, Len(reaped) + Len(Pending) + 1)
    BY <1>p, <2>2
  <2>8. Fifo!Accept
    BY <1>1, <1>2, <1>9, <2>6, <2>7 DEF Fifo!Accept, Pending, InTarget
  <2> QED
    BY <2>5, <2>8
<1> QED
  BY <1>a, <1>b

\* The step of the ring in which its oldest entry is taken, by CE_completed_send_next or by
\* CE_cancel_send_next
Taking ==
    /\ sw_index # write_index /\ (stopped \/ CURRENT_SRRI # sw_index)
    /\ sw_index' = CE_RING_IDX_INCR(sw_index)
    /\ \A e \in Entries : e # sw_index => per_transfer_context'[e] = per_transfer_context[e]
    /\ reaped' = IF per_transfer_context[sw_index] = CE_SENDLIST_ITEM_CTXT THEN reaped
                 ELSE Append(reaped, per_transfer_context[sw_index])
    /\ UNCHANGED <<write_index, CURRENT_SRRI, stopped, sent>>

\* The head and the tail of a sequence that is put together from them.
LEMMA HeadAndTail ==
    ASSUME NEW x \in Int, NEW t \in Seq(Int), NEW s, s = <<x>> \o t
    PROVE  t = Tail(s) /\ Head(s) = x /\ Len(s) = Len(t) + 1 /\ Len(t) \in Nat /\ s # <<>>
<1>1. Head(s) = x /\ t = Tail(s) /\ Len(s) = Len(t) + 1 /\ Len(t) \in Nat
  BY HeadAppend
<1> QED
  BY <1>1

\* CE_completed_send_next, or CE_cancel_send_next, hands the oldest transfer back with its last entry.
LEMMA TakingHandsBack ==
    ASSUME FifoInv, RingTypeOK', Taking
    PROVE  Numbered' /\ (Fifo!HandBack \/ UNCHANGED Fifo!fifoVars)
<1> DEFINE n == CE_RING_DELTA(sw_index, write_index)
           m == CE_RING_DELTA(sw_index, CURRENT_SRRI)
           c == per_transfer_context
           i == sw_index
<1>p. /\ RingTypeOK /\ write_index \in Entries /\ i \in Entries /\ CURRENT_SRRI \in Entries
      /\ c \in [Entries -> Int] /\ c[i] \in Int
      /\ reaped \in Seq(Int) /\ sent = Len(reaped) + Len(Pending)
  BY DEF FifoInv, Numbered, RingInv, RingTypeOK
<1>d. /\ \A e \in Entries : e # i => per_transfer_context'[e] = c[e]
      /\ write_index # i /\ (stopped \/ CURRENT_SRRI # i)
      /\ i' = CE_RING_IDX_INCR(i)
      /\ UNCHANGED <<write_index, CURRENT_SRRI, stopped, sent>>
  BY DEF Taking
<1>r. reaped' = IF c[i] = CE_SENDLIST_ITEM_CTXT THEN reaped ELSE Append(reaped, c[i])
  BY DEF Taking
<1>b. /\ Pending = From(c, i)[n] /\ InTarget = From(c, i)[m]
      /\ Pending' = From(per_transfer_context', i')[CE_RING_DELTA(i', write_index)]
      /\ InTarget' = From(per_transfer_context', i')[CE_RING_DELTA(i', CURRENT_SRRI)]
  <2>1. Pending = From(c, i)[n] /\ InTarget = From(c, i)[m]
    BY <1>p, BetweenType DEF Pending, InTarget
  <2> QED
    BY <1>d, <2>1, BetweenNext
<1>1. /\ Pending = IF c[i] = CE_SENDLIST_ITEM_CTXT THEN Pending' ELSE <<c[i]>> \o Pending'
      /\ Pending' \in Seq(Int)
  <2>1. CE_RING_DELTA(CE_RING_IDX_INCR(i), write_index) = n - 1
    BY <1>d, <1>p, DeltaNear
  <2>2. Pending' = From(per_transfer_context', CE_RING_IDX_INCR(i))[n - 1]
    BY <1>b, <1>d, <2>1
  <2> QED
    BY <1>b, <1>d, <1>p, <2>2, TakeRing
<1>2. ASSUME CURRENT_SRRI # sw_index
      PROVE  /\ InTarget = IF c[i] = CE_SENDLIST_ITEM_CTXT THEN InTarget' ELSE <<c[i]>> \o InTarget'
             /\ InTarget' \in Seq(Int)
  <2>1. CE_RING_DELTA(CE_RING_IDX_INCR(i), CURRENT_SRRI) = m - 1
    BY <1>2, <1>p, DeltaNear
  <2>2. InTarget' = From(per_transfer_context', CE_RING_IDX_INCR(i))[m - 1]
    BY <1>b, <1>d, <2>1
  <2> QED
    BY <1>2, <1>b, <1>d, <1>p, <2>2, TakeRing
<1>3. CASE c[i] = CE_SENDLIST_ITEM_CTXT
  <2>1. Pending' = Pending /\ UNCHANGED <<reaped, stopped, sent>>
    BY <1>1, <1>3, <1>d, <1>r
  <2>2. (IF stopped THEN 0 ELSE Len(InTarget))' = IF stopped THEN 0 ELSE Len(InTarget)
    BY <1>2, <1>3, <1>d, <2>1
  <2> QED
    BY <1>p, <2>1, <2>2 DEF Numbered, Fifo!fifoVars, Pending, InTarget
<1>4. CASE c[i] # CE_SENDLIST_ITEM_CTXT
  <2>1. Pending = <<c[i]>> \o Pending' /\ Pending' \in Seq(Int) /\ reaped' = Append(reaped, c[i])
    BY <1>1, <1>4, <1>r
  <2>2. /\ Pending' = Tail(Pending) /\ Head(Pending) = c[i] /\ Len(Pending) = Len(Pending') + 1
        /\ Len(Pending') \in Nat /\ Pending # <<>>
    BY <1>p, <2>1, HeadAndTail
  <2>3. reaped' \in Seq(Int) /\ Len(reaped') = Len(reaped) + 1 /\ Len(reaped) \in Nat
    BY <1>p, <2>1
  <2>4. Numbered'
    <3>1. sent = Len(reaped') + Len(Pending')
      BY <1>p, <2>2, <2>3
    <3> QED
      BY <1>d, <2>3, <3>1 DEF Numbered
  <2>6. ASSUME ~stopped PROVE Len(InTarget') = Len(InTarget) - 1 /\ Len(InTarget) > 0
    <3>1. InTarget = <<c[i]>> \o InTarget' /\ InTarget' \in Seq(Int)
      BY <1>2, <1>4, <1>d, <2>6
    <3>2. Len(InTarget) = Len(InTarget') + 1 /\ Len(InTarget') \in Nat
      BY <1>p, <3>1, HeadAndTail
    <3> QED
      BY <3>2
  <2>7. reaped' = Append(reaped, Head(Pending))
    BY <2>1, <2>2
  <2>8. Fifo!HandBack
    BY <1>d, <2>2, <2>6, <2>7 DEF Fifo!HandBack, Pending, InTarget
  <2> QED
    BY <2>4, <2>8
<1> QED
  BY <1>3, <1>4

\* The target copies one entry more; with the last of a list it has copied a transfer.
LEMMA CopyCopies ==
    ASSUME FifoInv, TargetCopy
    PROVE  Numbered' /\ (Fifo!Copied \/ UNCHANGED Fifo!fifoVars)
<1> DEFINE n == CE_RING_DELTA(sw_index, write_index)
           m == CE_RING_DELTA(sw_index, CURRENT_SRRI)
           c == per_transfer_context
           i == sw_index
<1>p. /\ RingTypeOK /\ InOrder /\ RingTypeOK'
      /\ write_index \in Entries /\ i \in Entries /\ CURRENT_SRRI \in Entries /\ SR_WR_INDEX \in Entries
      /\ c \in [Entries -> Int] /\ nentries \in Nat
      /\ Numbered
  BY TargetStep, RingAssumption DEF FifoInv, RingInv, RingTypeOK
<1>1. /\ ~stopped /\ CURRENT_SRRI # SR_WR_INDEX
      /\ CURRENT_SRRI' = CE_RING_IDX_INCR(CURRENT_SRRI)
      /\ UNCHANGED <<sw_index, write_index, per_transfer_context, stopped, reaped, sent>>
  BY DEF TargetCopy, ringVars, hifVars
<1>2. m \in Entries /\ n \in Entries /\ m \in Nat /\ m + 1 <= n /\ m + 1 \in Entries /\ m # nentries - 1
  <2> DEFINE w == CE_RING_DELTA(sw_index, SR_WR_INDEX)
  <2>1. m \in Entries /\ w \in Entries /\ n \in Entries
    BY <1>p, Delta
  <2>2. m <= w /\ w <= n
    BY <1>1, <1>p DEF InOrder
  <2>3. m # w
    BY <1>1, <1>p, DeltaOther
  <2> HIDE DEF m, n, w
  <2> QED
    BY <1>p, <2>1, <2>2, <2>3 DEF Entries
<1>3. CE_RING_DELTA(i, CURRENT_SRRI') = m + 1
  BY <1>1, <1>2, <1>p, DeltaFar
<1>4. Pending = From(c, i)[n] /\ InTarget = From(c, i)[m] /\ InTarget \in Seq(Int) /\ Len(Pending) \in Nat
  BY <1>p, BetweenType DEF Pending, InTarget
<1>5. Pending' = From(c, i)[n] /\ InTarget' = From(c, i)[m + 1]
  BY <1>1, <1>3, <1>p, BetweenNext
<1>6. From(c, i)[m + 1] = Adding(From(c, i)[m], At(c, i, m + 1)) /\ At(c, i, m + 1) \in Int
  <2>1. From(c, i)[m + 1] = Adding(From(c, i)[m], At(c, i, m + 1))
    BY <1>2, FromUnfolds
  <2>2. (i + (m + 1) - 1) % nentries \in Entries
    BY <1>2, <1>p, Position
  <2> QED
    BY <1>p, <2>1, <2>2 DEF At
<1>7. Len(From(c, i)[m + 1]) <= Len(From(c, i)[n])
  BY <1>2, <1>p, FromType
<1>8. Numbered' /\ Pending' = Pending
  BY <1>1, <1>4, <1>5, <1>p DEF Numbered
<1>9. InTarget' = InTarget \/ InTarget' = Append(InTarget, At(c, i, m + 1))
  BY <1>4, <1>5, <1>6 DEF Adding
<1>a. CASE InTarget' = InTarget
  BY <1>1, <1>8, <1>a DEF Fifo!fifoVars, Pending, InTarget
<1>b. CASE InTarget' = Append(InTarget, At(c, i, m + 1))
  <2>1. Len(InTarget') = Len(InTarget) + 1 /\ Len(InTarget) \in Nat
    BY <1>4, <1>6, <1>b
  <2>2. Len(InTarget') <= Len(Pending)
    BY <1>4, <1>5, <1>7
  <2>3. Len(InTarget) < Len(Pending)
    BY <1>4, <2>1, <2>2
  <2> QED
    BY <1>1, <1>8, <2>1, <2>3 DEF Fifo!Copied, Pending, InTarget
<1> QED
  BY <1>9, <1>a, <1>b

\* HIFStop halts the queue.
LEMMA StopHalts ==
    ASSUME FifoInv, HIFStop
    PROVE  Numbered' /\ Fifo!Halt
<1>1. /\ ~stopped /\ stopped' = TRUE
      /\ UNCHANGED <<sw_index, write_index, per_transfer_context, reaped, sent>>
  BY DEF HIFStop, ringVars
<1>2. TransfersFrom(sw_index)' = TransfersFrom(sw_index)
  BY <1>1 DEF TransfersFrom
<1>3. Pending' = Pending
  BY <1>1, <1>2 DEF Pending, TransfersBetween, CE_RING_DELTA
<1>4. Numbered'
  BY <1>1, <1>3 DEF FifoInv, Numbered
<1> QED
  BY <1>1, <1>3, <1>4 DEF Fifo!Halt, Pending

\* A step of CE_completed_send_next or CE_cancel_send_next hands the oldest transfer back or none.
LEMMA ReapHandsBack ==
    ASSUME FifoInv, RingTypeOK',
           \/ /\ ~stopped /\ \E r \in Reapers, l \in {"clear", "idle", "next"} : TakeNext(r, l)
              /\ UNCHANGED <<write_index, gather, targetVars, hifVars, left, sent>>
           \/ CE_cancel_send_next
    PROVE  Numbered' /\ (Fifo!HandBack \/ UNCHANGED Fifo!fifoVars)
<1>p. RingInv /\ Numbered /\ per_transfer_context \in [Entries -> Int] /\ sw_index \in Entries
  BY DEF FifoInv, RingInv, RingTypeOK
<1>1. CASE CE_cancel_send_next
  <2>1. Taking
    BY <1>1, <1>p DEF CE_cancel_send_next, Taking, targetVars, hifVars
  <2> QED
    BY <2>1, TakingHandsBack
<1>2. ASSUME ~stopped, NEW r \in Reapers, NEW l \in {"clear", "idle", "next"}, TakeNext(r, l),
             UNCHANGED <<write_index, gather, targetVars, hifVars, left, sent>>
      PROVE  Numbered' /\ (Fifo!HandBack \/ UNCHANGED Fifo!fifoVars)
  <2> DEFINE hw == IF hw_index = sw_index /\ ~recovery THEN CE_SRC_RING_READ_IDX_GET ELSE hw_index
             context == per_transfer_context[sw_index]
  <2>u. UNCHANGED <<write_index, CURRENT_SRRI, stopped, sent>>
    BY <1>2 DEF targetVars, hifVars
  <2>t. /\ Completed(hw) =>
             /\ sw_index' = CE_RING_IDX_INCR(sw_index)
             /\ per_transfer_context' = [per_transfer_context EXCEPT ![sw_index] = NoContext]
             /\ reaped' = IF context = CE_SENDLIST_ITEM_CTXT THEN reaped ELSE Append(reaped, context)
        /\ ~Completed(hw) => UNCHANGED <<sw_index, per_transfer_context, reaped>>
    BY <1>2 DEF TakeNext
  <2>1. CASE Completed(hw)
    <3>1. CURRENT_SRRI # sw_index /\ write_index # sw_index
      BY <1>2, <1>p, <2>1, TakenIsCopied
    <3> HIDE DEF hw
    <3>2. Taking
      BY <1>p, <2>1, <2>t, <2>u, <3>1 DEF Taking
    <3> QED
      BY <3>2, TakingHandsBack
  <2>2. CASE ~Completed(hw)
    BY <1>p, <2>2, <2>t, <2>u, QueueSame
  <2> QED
    BY <2>1, <2>2
<1> QED
  BY <1>1, <1>2

\* Every step of the ring is a step of the queue or leaves it alone.
LEMMA FifoStep ==
    ASSUME FifoInv, [Next]_vars
    PROVE  FifoInv' /\ [Fifo!Accept \/ Fifo!Copied \/ Fifo!HandBack \/ Fifo!Halt]_Fifo!fifoVars
<1> DEFINE Step == Fifo!Accept \/ Fifo!Copied \/ Fifo!HandBack \/ Fifo!Halt \/ UNCHANGED Fifo!fifoVars
           Same == UNCHANGED <<write_index, sw_index, per_transfer_context, CURRENT_SRRI, stopped, sent, reaped>>
<1>p. RingInv /\ RingInv' /\ RingTypeOK' /\ Labels /\ Numbered
  BY RingStep DEF FifoInv, RingInv
<1>0. Same => Numbered' /\ Step
  BY <1>p, QueueSame
<1>1. ASSUME NEW s \in Senders, Sending(s) PROVE Numbered' /\ Step
  <2>1. CASE CE_sendlist_send(s)
    <3>1. Same
      BY <2>1 DEF CE_sendlist_send, ringVars, targetVars, hifVars
    <3> HIDE DEF Same, Step
    <3> QED
      BY <1>0, <3>1
  <2>2. CASE CE_send_nolock(s) /\ recovery
    <3>1. Same
      BY <2>2 DEF CE_send_nolock, Abandon, ringVars, hifVars
    <3> HIDE DEF Same, Step
    <3> QED
      BY <1>0, <3>1
  <2>3. CASE CE_send_nolock(s) /\ ~recovery
    BY <2>3, PostAccepts
  <2> QED
    BY <1>1, <2>1, <2>2, <2>3 DEF Sending
<1>2. ASSUME NEW s \in Senders, NEW k \in 1..MaxFrags, HIFSend_head(s, k) PROVE Same
  BY <1>2 DEF HIFSend_head, ringVars, targetVars
<1>3. ASSUME NEW r \in Reapers, Reaping(r) PROVE Numbered' /\ Step
  <2>r. r \in Threads
    BY ThreadsDiffer
  <2>1. CASE NextCompleted(r) \/ CE_completed_send_next(r)
    <3>1. ~stopped
      BY <1>p, <2>1, <2>r DEF NextCompleted, CE_completed_send_next, Labels
    <3>2. \E l \in {"clear", "idle", "next"} : TakeNext(r, l)
      BY <2>1 DEF NextCompleted, CE_completed_send_next
    <3>3. UNCHANGED <<write_index, gather, targetVars, hifVars, left, sent>>
      BY <2>1 DEF NextCompleted, CE_completed_send_next
    <3> QED
      BY <1>p, <3>1, <3>2, <3>3, ReapHandsBack
  <2>2. CASE HIF_PCI_CE_send_done(r)
    <3>1. Same
      BY <2>2 DEF HIF_PCI_CE_send_done, ringVars, targetVars
    <3> HIDE DEF Same, Step
    <3> QED
      BY <1>0, <3>1
  <2> QED
    BY <1>3, <2>1, <2>2 DEF Reaping
<1>4. ASSUME \/ CE_per_engine_service \/ CE_ENGINE_INT_STATUS_CLEAR \/ CE_send_entries_done_nolock
             \/ \E q \in Pollers : HIFSendCompleteCheck(q)
             \/ ReturnEntry \/ TargetGone \/ LinkDown \/ UNCHANGED vars
      PROVE  Same
  <2>1. CASE CE_per_engine_service \/ CE_ENGINE_INT_STATUS_CLEAR \/ CE_send_entries_done_nolock
    BY <2>1 DEF CE_per_engine_service, CE_ENGINE_INT_STATUS_CLEAR, CE_send_entries_done_nolock,
                ringVars, targetVars, hifVars
  <2>2. CASE \E q \in Pollers : HIFSendCompleteCheck(q)
    BY <2>2 DEF HIFSendCompleteCheck, ringVars, targetVars, hifVars
  <2>3. CASE ReturnEntry \/ TargetGone \/ LinkDown
    BY <2>3 DEF ReturnEntry, TargetGone, LinkDown, ringVars, targetVars, hifVars
  <2>4. CASE UNCHANGED vars
    BY <2>4 DEF vars, ringVars, targetVars, hifVars
  <2> QED
    BY <1>4, <2>1, <2>2, <2>3, <2>4
<1>5. CE_cancel_send_next => Numbered' /\ Step
  BY <1>p, ReapHandsBack
<1>6. TargetCopy => Numbered' /\ Step
  BY CopyCopies
<1>7. HIFStop => Numbered' /\ Step
  BY StopHalts
<1>8. Numbered' /\ Step
  <2> HIDE DEF Same, Step
  <2>1. CASE \E s \in Senders : Sending(s) \/ \E k \in 1..MaxFrags : HIFSend_head(s, k)
    BY <1>0, <1>1, <1>2, <2>1
  <2>2. CASE \E r \in Reapers : Reaping(r)
    BY <1>3, <2>2
  <2>3. CASE \/ CE_per_engine_service \/ CE_ENGINE_INT_STATUS_CLEAR \/ CE_send_entries_done_nolock
             \/ \E q \in Pollers : HIFSendCompleteCheck(q)
             \/ ReturnEntry \/ TargetGone \/ LinkDown \/ UNCHANGED vars
    BY <1>0, <1>4, <2>3
  <2> QED
    BY <1>5, <1>6, <1>7, <2>1, <2>2, <2>3, ThreadsDiffer DEF Next, Service
<1> QED
  BY <1>8, <1>p DEF FifoInv

\* The source ring implements the bounded queue of whole transfers, for a ring of any size, any
\* number of threads and lists of any length that fits: a transfer is handed back once, in the order
\* of posting, and before HIFStop only when the target has copied all its fragments.
THEOREM IsFifoAlways == Spec => IsFifo
<1>1. Init => FifoInv /\ Fifo!FifoInit
  <2> SUFFICES ASSUME Init PROVE FifoInv /\ Fifo!FifoInit
    OBVIOUS
  <2>1. RingInv
    BY RingInit
  <2>2. /\ write_index \in Entries /\ sw_index = write_index /\ CURRENT_SRRI = write_index
        /\ sent = 0 /\ reaped = <<>> /\ stopped = FALSE
    BY DEF Init
  <2>3. Pending = <<>> /\ InTarget = <<>>
    BY <2>1, <2>2, BetweenType DEF RingInv, Pending, InTarget
  <2>4. Numbered
    BY <2>2, <2>3 DEF Numbered
  <2> QED
    BY <2>1, <2>2, <2>3, <2>4 DEF FifoInv, Fifo!FifoInit, Pending, InTarget
<1>2. FifoInv /\ [Next]_vars =>
        FifoInv' /\ [Fifo!Accept \/ Fifo!Copied \/ Fifo!HandBack \/ Fifo!Halt]_Fifo!fifoVars
  BY FifoStep
<1> QED
  BY <1>1, <1>2, PTL DEF Spec, IsFifo, Fifo!FifoSpec
=============================================================================
