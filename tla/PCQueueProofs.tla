--------------------------- MODULE PCQueueProofs ---------------------------
(***************************************************************************)
(* For any number of pushers and poppers and any capacity, the queue's      *)
(* mutexes are owned as the code believes, its circular buffer is           *)
(* consistent, and it implements the bounded FIFO of BoundedFIFO.           *)
(***************************************************************************)
EXTENDS PCQueue, SequenceTheorems, TLAPS

\* The three are inductive only together: the bounds of the size rest on the
\* room seen by the thread that owns its mutex.
IInv == TypeOK /\ LockOwnership /\ RingConsistent

(* Indices wrap once: an index below the capacity is itself modulo it.      *)
LEMMA ModBelow == ASSUME NEW x \in 0..Capacity - 1 PROVE x % Capacity = x
  BY CapacityAssumption

(* ... and one below twice the capacity loses the capacity once.            *)
LEMMA ModAbove ==
  ASSUME NEW x \in Capacity..2 * Capacity - 1
  PROVE  x % Capacity = x - Capacity
  BY CapacityAssumption

(* The slot k places after slot i, without a modulus.                       *)
LEMMA SlotValue ==
  ASSUME NEW i \in 0..Capacity - 1, NEW k \in 0..Capacity
  PROVE  /\ Slot(i, k) = IF i + k < Capacity THEN i + k ELSE i + k - Capacity
         /\ Slot(i, k) \in 0..Capacity - 1
<1>1. CASE i + k < Capacity
  BY <1>1, ModBelow, CapacityAssumption DEF Slot
<1>2. CASE ~(i + k < Capacity)
  BY <1>2, ModAbove, CapacityAssumption DEF Slot
<1> QED BY <1>1, <1>2

(* Advancing pcq_tail by one slot shifts the ring by one position.          *)
LEMMA SlotShift ==
  ASSUME NEW i \in 0..Capacity - 1, NEW k \in 0..Capacity - 1
  PROVE  Slot(Slot(i, 1), k) = Slot(i, k + 1)
<1> USE CapacityAssumption
<1>1. 1 \in 0..Capacity /\ k \in 0..Capacity /\ k + 1 \in 0..Capacity
  OBVIOUS
<1>2. /\ Slot(i, 1) \in 0..Capacity - 1
      /\ Slot(i, 1) = IF i + 1 < Capacity THEN i + 1 ELSE i + 1 - Capacity
  BY <1>1, SlotValue
<1>3. Slot(i, k + 1) = IF i + (k + 1) < Capacity THEN i + (k + 1)
                       ELSE i + (k + 1) - Capacity
  BY <1>1, SlotValue
<1>4. Slot(Slot(i, 1), k) = IF Slot(i, 1) + k < Capacity THEN Slot(i, 1) + k
                            ELSE Slot(i, 1) + k - Capacity
  BY <1>1, <1>2, SlotValue
<1> QED BY <1>2, <1>3, <1>4

(* Advancing pcq_head by one slot makes the ring one element longer.        *)
LEMMA SlotAdvance ==
  ASSUME NEW i \in 0..Capacity - 1, NEW k \in 0..Capacity - 1
  PROVE  Slot(Slot(i, k), 1) = Slot(i, k + 1)
<1> USE CapacityAssumption
<1>1. 1 \in 0..Capacity /\ k \in 0..Capacity /\ k + 1 \in 0..Capacity
  OBVIOUS
<1>2. /\ Slot(i, k) \in 0..Capacity - 1
      /\ Slot(i, k) = IF i + k < Capacity THEN i + k ELSE i + k - Capacity
  BY <1>1, SlotValue
<1>3. Slot(i, k + 1) = IF i + (k + 1) < Capacity THEN i + (k + 1)
                       ELSE i + (k + 1) - Capacity
  BY <1>1, SlotValue
<1>4. Slot(Slot(i, k), 1) = IF Slot(i, k) + 1 < Capacity THEN Slot(i, k) + 1
                            ELSE Slot(i, k) + 1 - Capacity
  BY <1>1, <1>2, SlotValue
<1> QED BY <1>2, <1>3, <1>4

(* Within one turn of the ring, different positions are different slots.    *)
LEMMA SlotInjective ==
  ASSUME NEW i \in 0..Capacity - 1, NEW k \in 0..Capacity - 1,
         NEW m \in 0..Capacity - 1, k # m
  PROVE  Slot(i, k) # Slot(i, m)
<1> USE CapacityAssumption
<1>1. k \in 0..Capacity /\ m \in 0..Capacity
  OBVIOUS
<1>2. /\ Slot(i, k) = IF i + k < Capacity THEN i + k ELSE i + k - Capacity
      /\ Slot(i, m) = IF i + m < Capacity THEN i + m ELSE i + m - Capacity
  BY <1>1, SlotValue
<1> QED BY <1>2

(* A slot one place after a slot of the buffer is in the buffer.            *)
LEMMA SlotInRange ==
  ASSUME NEW i \in 0..Capacity - 1
  PROVE  Slot(i, 1) \in 0..Capacity - 1
<1>1. 1 \in 0..Capacity
  BY CapacityAssumption
<1> QED BY <1>1, SlotValue

(* What pcq_create sets up satisfies the inductive invariant.               *)
LEMMA InitIInv == Init => IInv
<1> SUFFICES ASSUME Init PROVE IInv
  OBVIOUS
<1> USE CapacityAssumption, ThreadsAssumption DEF Init
<1>1. TypeOK
  BY DEF TypeOK, EnqueuePCs, DequeuePCs, Locks, Threads
<1>2. LockOwnership
  BY DEF LockOwnership, HasSize, HasHead, HasTail, HasPusher, HasPopper, Locks, Threads
<1>3. RingConsistent
  BY ModBelow DEF RingConsistent, Threads, Slot
<1> QED BY <1>1, <1>2, <1>3 DEF IInv

(* A mutex operation at any place the code performs one keeps the lock      *)
(* discipline: it suffices that the thread's next pc expects what it does.  *)
LEMMA LockStepOwnership ==
  ASSUME IInv, Next
  PROVE  LockOwnership'
<1> USE ThreadsAssumption DEF IInv, TypeOK, LockOwnership, HasSize, HasHead, HasTail,
        HasPusher, HasPopper, Locks, Goto
<1>1. ASSUME NEW t \in Pushers, NEW e \in Elems, E_Call(t, e) PROVE LockOwnership'
  BY <1>1 DEF E_Call, Threads
<1>2. ASSUME NEW t \in Pushers, Enqueue(t) PROVE LockOwnership'
  <2> t \in Threads BY DEF Threads
  <2>1. CASE E_LockPusher(t) BY <2>1 DEF E_LockPusher, Lock
  <2>2. CASE E_LockSize(t) BY <2>2 DEF E_LockSize, Lock
  <2>3. CASE E_Full(t) BY <2>3 DEF E_Full, Unlock
  <2>4. CASE E_Wait(t) BY <2>4 DEF E_Wait, Unlock
  <2>5. CASE E_Reacquire(t) BY <2>5 DEF E_Reacquire, Lock
  <2>6. CASE E_LockHead(t) BY <2>6 DEF E_LockHead, Lock
  <2>7. CASE E_Insert(t) BY <2>7 DEF E_Insert
  <2>8. CASE E_UnlockHead(t) BY <2>8 DEF E_UnlockHead, Unlock
  <2>9. CASE E_UnlockSize(t) BY <2>9 DEF E_UnlockSize, Unlock
  <2>10. CASE E_UnlockPusher(t) BY <2>10 DEF E_UnlockPusher, Unlock
  <2>11. CASE E_Broadcast(t) BY <2>11 DEF E_Broadcast, BroadcastAndReturn
  <2> QED BY <1>2, <2>1, <2>2, <2>3, <2>4, <2>5, <2>6, <2>7, <2>8, <2>9, <2>10,
             <2>11 DEF Enqueue
<1>3. ASSUME NEW t \in Poppers, D_Call(t) PROVE LockOwnership'
  BY <1>3 DEF D_Call, Threads
<1>4. ASSUME NEW t \in Poppers, Dequeue(t) PROVE LockOwnership'
  <2> t \in Threads BY DEF Threads
  <2>1. CASE D_LockPopper(t) BY <2>1 DEF D_LockPopper, Lock
  <2>2. CASE D_LockSize(t) BY <2>2 DEF D_LockSize, Lock
  <2>3. CASE D_Empty(t) BY <2>3 DEF D_Empty, Unlock
  <2>4. CASE D_Wait(t) BY <2>4 DEF D_Wait, Unlock
  <2>5. CASE D_Reacquire(t) BY <2>5 DEF D_Reacquire, Lock
  <2>6. CASE D_LockTail(t) BY <2>6 DEF D_LockTail, Lock
  <2>7. CASE D_Remove(t) BY <2>7 DEF D_Remove
  <2>8. CASE D_UnlockTail(t) BY <2>8 DEF D_UnlockTail, Unlock
  <2>9. CASE D_UnlockSize(t) BY <2>9 DEF D_UnlockSize, Unlock
  <2>10. CASE D_UnlockPopper(t) BY <2>10 DEF D_UnlockPopper, Unlock
  <2>11. CASE D_Broadcast(t) BY <2>11 DEF D_Broadcast, BroadcastAndReturn
  <2> QED BY <1>4, <2>1, <2>2, <2>3, <2>4, <2>5, <2>6, <2>7, <2>8, <2>9, <2>10,
             <2>11 DEF Dequeue
<1>5. ASSUME NEW t \in Threads, SpuriousWakeup(t) PROVE LockOwnership'
  BY <1>5 DEF SpuriousWakeup
<1> QED BY <1>1, <1>2, <1>3, <1>4, <1>5 DEF Next

(* The type invariant is kept: the size moves only where RingConsistent     *)
(* leaves it room to.                                                       *)
LEMMA StepTypeOK ==
  ASSUME IInv, Next
  PROVE  TypeOK'
<1> USE CapacityAssumption, ThreadsAssumption DEF IInv, TypeOK, Goto, EnqueuePCs,
        DequeuePCs, Locks, queue
<1>1. ASSUME NEW t \in Pushers, NEW e \in Elems, E_Call(t, e) PROVE TypeOK'
  BY <1>1 DEF E_Call, Threads
<1>2. ASSUME NEW t \in Pushers, Enqueue(t) PROVE TypeOK'
  <2> t \in Threads BY DEF Threads
  <2>1. CASE E_LockPusher(t) BY <2>1 DEF E_LockPusher, Lock
  <2>2. CASE E_LockSize(t) BY <2>2 DEF E_LockSize, Lock
  <2>3. CASE E_Full(t) BY <2>3 DEF E_Full, Unlock
  <2>4. CASE E_Wait(t) BY <2>4 DEF E_Wait, Unlock
  <2>5. CASE E_Reacquire(t) BY <2>5 DEF E_Reacquire, Lock
  <2>6. CASE E_LockHead(t) BY <2>6 DEF E_LockHead, Lock
  <2>7. CASE E_Insert(t)
    <3>1. pcq_head' \in 0..Capacity - 1
      BY <2>7, SlotInRange DEF E_Insert
    <3>2. pcq_current_size' \in 0..Capacity
      BY <2>7 DEF E_Insert, RingConsistent
    <3> QED BY <2>7, <3>1, <3>2 DEF E_Insert
  <2>8. CASE E_UnlockHead(t) BY <2>8 DEF E_UnlockHead, Unlock
  <2>9. CASE E_UnlockSize(t) BY <2>9 DEF E_UnlockSize, Unlock
  <2>10. CASE E_UnlockPusher(t) BY <2>10 DEF E_UnlockPusher, Unlock
  <2>11. CASE E_Broadcast(t)
    BY <2>11 DEF E_Broadcast, BroadcastAndReturn, Threads
  <2> QED BY <1>2, <2>1, <2>2, <2>3, <2>4, <2>5, <2>6, <2>7, <2>8, <2>9, <2>10,
             <2>11 DEF Enqueue
<1>3. ASSUME NEW t \in Poppers, D_Call(t) PROVE TypeOK'
  BY <1>3 DEF D_Call, Threads
<1>4. ASSUME NEW t \in Poppers, Dequeue(t) PROVE TypeOK'
  <2> t \in Threads BY DEF Threads
  <2>1. CASE D_LockPopper(t) BY <2>1 DEF D_LockPopper, Lock
  <2>2. CASE D_LockSize(t) BY <2>2 DEF D_LockSize, Lock
  <2>3. CASE D_Empty(t) BY <2>3 DEF D_Empty, Unlock
  <2>4. CASE D_Wait(t) BY <2>4 DEF D_Wait, Unlock
  <2>5. CASE D_Reacquire(t) BY <2>5 DEF D_Reacquire, Lock
  <2>6. CASE D_LockTail(t) BY <2>6 DEF D_LockTail, Lock
  <2>7. CASE D_Remove(t)
    <3>1. pcq_tail' \in 0..Capacity - 1
      BY <2>7, SlotInRange DEF D_Remove
    <3>2. pcq_current_size' \in 0..Capacity
      BY <2>7 DEF D_Remove, RingConsistent
    <3> QED BY <2>7, <3>1, <3>2 DEF D_Remove
  <2>8. CASE D_UnlockTail(t) BY <2>8 DEF D_UnlockTail, Unlock
  <2>9. CASE D_UnlockSize(t) BY <2>9 DEF D_UnlockSize, Unlock
  <2>10. CASE D_UnlockPopper(t) BY <2>10 DEF D_UnlockPopper, Unlock
  <2>11. CASE D_Broadcast(t)
    BY <2>11 DEF D_Broadcast, BroadcastAndReturn, Threads
  <2> QED BY <1>4, <2>1, <2>2, <2>3, <2>4, <2>5, <2>6, <2>7, <2>8, <2>9, <2>10,
             <2>11 DEF Dequeue
<1>5. ASSUME NEW t \in Threads, SpuriousWakeup(t) PROVE TypeOK'
  BY <1>5 DEF SpuriousWakeup, Threads
<1> QED BY <1>1, <1>2, <1>3, <1>4, <1>5 DEF Next

(* A step that leaves the queue alone keeps the ring consistent when it     *)
(* brings a thread to e_insert or d_remove only with room or an element.    *)
LEMMA RingFrame ==
  ASSUME IInv, UNCHANGED queue, UNCHANGED elem,
         \A u \in Threads : pc'[u] = "e_insert" =>
             pc[u] = "e_insert" \/ pcq_current_size # Capacity,
         \A u \in Threads : pc'[u] = "d_remove" =>
             pc[u] = "d_remove" \/ pcq_current_size # 0,
         \A u \in Pushers : pc'[u] # "idle" => pc[u] # "idle"
  PROVE  RingConsistent'
  BY CapacityAssumption DEF IInv, TypeOK, RingConsistent, queue

(* Every statement of the two operations keeps the ring consistent.         *)
LEMMA StepRingConsistent ==
  ASSUME IInv, Next
  PROVE  RingConsistent'
<1> USE CapacityAssumption DEF Goto
<1>t. pc \in [Threads -> {"idle"} \cup EnqueuePCs \cup DequeuePCs]
  BY DEF IInv, TypeOK
<1>1. ASSUME NEW t \in Pushers, NEW e \in Elems, E_Call(t, e) PROVE RingConsistent'
  BY <1>1, ThreadsAssumption DEF E_Call, Threads, IInv, TypeOK, RingConsistent, queue
<1>2. ASSUME NEW t \in Pushers, Enqueue(t) PROVE RingConsistent'
  <2> t \in Threads BY DEF Threads
  <2>1. CASE E_LockPusher(t) BY <1>t, <2>1, RingFrame DEF E_LockPusher, Lock, Threads
  <2>2. CASE E_LockSize(t) BY <1>t, <2>2, RingFrame DEF E_LockSize, Lock, Threads
  <2>3. CASE E_Full(t) BY <1>t, <2>3, RingFrame DEF E_Full, Unlock, Threads
  <2>4. CASE E_Wait(t) BY <1>t, <2>4, RingFrame DEF E_Wait, Unlock, Threads
  <2>5. CASE E_Reacquire(t) BY <1>t, <2>5, RingFrame DEF E_Reacquire, Lock, Threads
  <2>6. CASE E_LockHead(t) BY <1>t, <2>6, RingFrame DEF E_LockHead, Lock, Threads
  <2>7. CASE E_Insert(t)
    <3>1. pcq_current_size \in 0..Capacity - 1
      BY <2>7 DEF E_Insert, IInv, TypeOK, RingConsistent
    <3>2. \A u \in Threads \ {t} : pc[u] \notin {"e_insert", "d_remove"}
      BY <2>7 DEF E_Insert, IInv, LockOwnership, HasSize
    <3>3. pcq_head' = Slot(pcq_tail', pcq_current_size')
      BY <2>7, <3>1, SlotAdvance DEF E_Insert, IInv, TypeOK, RingConsistent
    <3>4. ASSUME NEW i \in 0..Capacity - 1, i < pcq_current_size'
          PROVE  pcq_buffer'[Slot(pcq_tail', i)] \in Elems
      <4>1. elem[t] \in Elems
        BY <2>7 DEF E_Insert, IInv, RingConsistent
      <4>2. CASE i = pcq_current_size
        BY <2>7, <4>1, <4>2 DEF E_Insert, IInv, TypeOK, RingConsistent
      <4>3. CASE i < pcq_current_size
        <5>1. Slot(pcq_tail, i) # pcq_head
          BY <3>1, <4>3, SlotInjective DEF IInv, TypeOK, RingConsistent
        <5> QED BY <2>7, <4>3, <5>1 DEF E_Insert, IInv, TypeOK, RingConsistent
      <4> QED BY <2>7, <3>1, <3>4, <4>2, <4>3 DEF E_Insert
    <3> QED BY <1>t, <2>7, <3>2, <3>3, <3>4 DEF E_Insert, IInv, RingConsistent, Threads
  <2>8. CASE E_UnlockHead(t) BY <1>t, <2>8, RingFrame DEF E_UnlockHead, Unlock, Threads
  <2>9. CASE E_UnlockSize(t) BY <1>t, <2>9, RingFrame DEF E_UnlockSize, Unlock, Threads
  <2>10. CASE E_UnlockPusher(t)
    BY <1>t, <2>10, RingFrame DEF E_UnlockPusher, Unlock, Threads
  <2>11. CASE E_Broadcast(t)
    BY <1>t, <2>11 DEF E_Broadcast, BroadcastAndReturn, Threads, IInv, TypeOK,
       RingConsistent, queue
  <2> QED BY <1>2, <2>1, <2>2, <2>3, <2>4, <2>5, <2>6, <2>7, <2>8, <2>9, <2>10,
             <2>11 DEF Enqueue
<1>3. ASSUME NEW t \in Poppers, D_Call(t) PROVE RingConsistent'
  BY <1>t, <1>3, RingFrame, ThreadsAssumption DEF D_Call, Threads
<1>4. ASSUME NEW t \in Poppers, Dequeue(t) PROVE RingConsistent'
  <2> t \in Threads /\ t \notin Pushers BY ThreadsAssumption DEF Threads
  <2>1. CASE D_LockPopper(t) BY <1>t, <2>1, RingFrame DEF D_LockPopper, Lock, Threads
  <2>2. CASE D_LockSize(t) BY <1>t, <2>2, RingFrame DEF D_LockSize, Lock, Threads
  <2>3. CASE D_Empty(t) BY <1>t, <2>3, RingFrame DEF D_Empty, Unlock, Threads
  <2>4. CASE D_Wait(t) BY <1>t, <2>4, RingFrame DEF D_Wait, Unlock, Threads
  <2>5. CASE D_Reacquire(t) BY <1>t, <2>5, RingFrame DEF D_Reacquire, Lock, Threads
  <2>6. CASE D_LockTail(t) BY <1>t, <2>6, RingFrame DEF D_LockTail, Lock, Threads
  <2>7. CASE D_Remove(t)
    <3>1. pcq_current_size \in 1..Capacity
      BY <2>7 DEF D_Remove, IInv, TypeOK, RingConsistent
    <3>2. \A u \in Threads \ {t} : pc[u] \notin {"e_insert", "d_remove"}
      BY <2>7 DEF D_Remove, IInv, LockOwnership, HasSize
    <3>3. pcq_head' = Slot(pcq_tail', pcq_current_size')
      <4>1. /\ pcq_tail \in 0..Capacity - 1
            /\ pcq_current_size' \in 0..Capacity - 1
            /\ pcq_current_size' + 1 = pcq_current_size
        BY <2>7, <3>1 DEF D_Remove, IInv, TypeOK
      <4>2. Slot(pcq_tail', pcq_current_size')
              = Slot(pcq_tail, pcq_current_size)
        BY <2>7, <4>1, SlotShift DEF D_Remove
      <4> QED BY <2>7, <4>2 DEF D_Remove, IInv, RingConsistent
    <3>4. ASSUME NEW i \in 0..Capacity - 1, i < pcq_current_size'
          PROVE  pcq_buffer'[Slot(pcq_tail', i)] \in Elems
      <4>1. pcq_tail \in 0..Capacity - 1 /\ pcq_current_size \in 0..Capacity
        BY DEF IInv, TypeOK
      <4>2. /\ i + 1 \in 0..Capacity - 1
            /\ i + 1 < pcq_current_size
        BY <2>7, <3>1, <3>4, <4>1 DEF D_Remove
      <4>3. Slot(pcq_tail', i) = Slot(pcq_tail, i + 1)
        BY <2>7, <4>1, SlotShift DEF D_Remove
      <4> QED BY <2>7, <4>2, <4>3 DEF D_Remove, IInv, RingConsistent
    <3> QED BY <1>t, <2>7, <3>2, <3>3, <3>4 DEF D_Remove, IInv, TypeOK, RingConsistent,
               Threads
  <2>8. CASE D_UnlockTail(t) BY <1>t, <2>8, RingFrame DEF D_UnlockTail, Unlock, Threads
  <2>9. CASE D_UnlockSize(t) BY <1>t, <2>9, RingFrame DEF D_UnlockSize, Unlock, Threads
  <2>10. CASE D_UnlockPopper(t)
    BY <1>t, <2>10, RingFrame DEF D_UnlockPopper, Unlock, Threads
  <2>11. CASE D_Broadcast(t)
    BY <1>t, <2>11 DEF D_Broadcast, BroadcastAndReturn, Threads, IInv, TypeOK,
       RingConsistent, queue
  <2> QED BY <1>4, <2>1, <2>2, <2>3, <2>4, <2>5, <2>6, <2>7, <2>8, <2>9, <2>10,
             <2>11 DEF Dequeue
<1>5. ASSUME NEW t \in Threads, SpuriousWakeup(t) PROVE RingConsistent'
  BY <1>t, <1>5, RingFrame DEF SpuriousWakeup, Threads
<1> QED BY <1>1, <1>2, <1>3, <1>4, <1>5 DEF Next

(* The inductive invariant holds in every state of the queue.               *)
LEMMA Invariance == Spec => []IInv
<1>1. IInv /\ [Next]_vars => IInv'
  <2> SUFFICES ASSUME IInv, [Next]_vars PROVE IInv'
    OBVIOUS
  <2>1. CASE Next
    BY <2>1, StepTypeOK, LockStepOwnership, StepRingConsistent DEF IInv
  <2>2. CASE UNCHANGED vars
    BY <2>2 DEF vars, queue, IInv, TypeOK, LockOwnership, HasSize, HasHead, HasTail,
       HasPusher, HasPopper, RingConsistent
  <2> QED BY <2>1, <2>2
<1> QED BY InitIInv, <1>1, PTL DEF Spec

(* pcq_current_size stays in 0..Capacity and both indices stay inside the   *)
(* buffer, for every capacity and every number of threads.                  *)
THEOREM TypeCorrect == Spec => []TypeOK
  BY Invariance, PTL DEF IInv

(* pcq_enqueue and pcq_dequeue unlock only what they own and leave no mutex *)
(* behind, across cond_wait too.                                            *)
THEOREM LocksOwned == Spec => []LockOwnership
  BY Invariance, PTL DEF IInv

(* The circular buffer never over- or underflows.                           *)
THEOREM RingCorrect == Spec => []RingConsistent
  BY Invariance, PTL DEF IInv

-----------------------------------------------------------------------------
(* Refinement: E_Insert is Put, D_Remove is Take, the calls and the         *)
(* broadcasts are calls and returns, and every other statement stutters.    *)

(* From tail on, the buffer holds a sequence of enqueued elements.          *)
LEMMA ContentsIsSeq ==
  ASSUME IInv
  PROVE  /\ Contents \in Seq(Elems)
         /\ Len(Contents) = pcq_current_size
         /\ \A k \in 1..pcq_current_size : Contents[k] = pcq_buffer[Slot(pcq_tail, k - 1)]
<1>1. pcq_current_size \in 0..Capacity
  BY DEF IInv, TypeOK
<1>2. ASSUME NEW k \in 1..pcq_current_size
      PROVE  pcq_buffer[Slot(pcq_tail, k - 1)] \in Elems
  <2>1. k - 1 \in 0..Capacity - 1 /\ k - 1 < pcq_current_size
    BY <1>1, CapacityAssumption
  <2> QED BY <2>1 DEF IInv, RingConsistent
<1> QED BY <1>1, <1>2, CapacityAssumption DEF Contents

(* The queue pcq_create makes is the empty FIFO.                            *)
LEMMA RefinesInit == Init => Abstract!Init
  BY CapacityAssumption, SMT DEF Init, Abstract!Init, Contents, OpState, Threads

(* A statement that leaves the queue alone and keeps the thread on the same *)
(* side of its linearization point changes nothing the caller sees.         *)
LEMMA Stutters ==
  ASSUME IInv, NEW t \in Threads, UNCHANGED queue, UNCHANGED elem,
         NEW from, NEW to, Goto(t, from, to), from # "idle", to # "idle",
         from \in Effected <=> to \in Effected
  PROVE  UNCHANGED <<Contents, OpState, elem>>
<1>1. Contents' = Contents
  BY DEF queue, Contents
<1>2. OpState' = OpState
  BY DEF OpState, Goto, IInv, TypeOK
<1> QED BY <1>1, <1>2

(* The critical section of pcq_enqueue appends its element to the FIFO.     *)
LEMMA PutStep ==
  ASSUME IInv, IInv', NEW t \in Pushers, E_Insert(t)
  PROVE  Abstract!Put(t)
<1> t \in Threads BY DEF Threads
<1>1. /\ pcq_current_size \in 0..Capacity - 1
      /\ pcq_current_size' = pcq_current_size + 1
      /\ pcq_head = Slot(pcq_tail, pcq_current_size)
      /\ pcq_tail' = pcq_tail
      /\ pcq_tail \in 0..Capacity - 1
  BY CapacityAssumption DEF E_Insert, Goto, IInv, TypeOK, RingConsistent
<1>2. OpState[t] = "busy" /\ OpState' = [OpState EXCEPT ![t] = "done"]
  BY DEF E_Insert, Goto, OpState, Effected, IInv, TypeOK
<1>3. Len(Contents) < Capacity
  BY <1>1, ContentsIsSeq, CapacityAssumption
<1>4. ASSUME NEW k \in 1..pcq_current_size + 1
      PROVE  Contents'[k] = Append(Contents, elem[t])[k]
  <2>1. k - 1 \in 0..Capacity - 1 /\ Contents'[k] = pcq_buffer'[Slot(pcq_tail, k - 1)]
    BY <1>1, CapacityAssumption DEF Contents
  <2>2. CASE k = pcq_current_size + 1
    <3>1. k - 1 = pcq_current_size
      BY <1>1, <2>2
    <3>2. Contents'[k] = elem[t]
      BY <1>1, <2>1, <3>1 DEF E_Insert, IInv, TypeOK
    <3> QED BY <1>1, <2>2, <3>2, ContentsIsSeq
  <2>3. CASE k # pcq_current_size + 1
    <3>1. k \in 1..pcq_current_size /\ k - 1 # pcq_current_size
      BY <1>1, <2>3
    <3>2. Slot(pcq_tail, k - 1) # pcq_head
      BY <1>1, <2>1, <3>1, SlotInjective
    <3>3. Contents'[k] = pcq_buffer[Slot(pcq_tail, k - 1)]
      BY <2>1, <3>2 DEF E_Insert, IInv, TypeOK
    <3> QED BY <1>1, <3>1, <3>3, ContentsIsSeq
  <2> QED BY <2>2, <2>3
<1>5. Contents' = Append(Contents, elem[t])
  <2>1. /\ Contents' = [k \in 1..pcq_current_size + 1 |-> Contents'[k]]
        /\ Contents \in Seq(Elems) /\ Len(Contents) = pcq_current_size
    BY <1>1, ContentsIsSeq DEF Contents
  <2>2. elem[t] \in Elems
    BY DEF IInv, RingConsistent, E_Insert, Goto
  <2>3. Append(Contents, elem[t])
          = [k \in 1..pcq_current_size + 1 |-> Append(Contents, elem[t])[k]]
    BY <1>1, <2>1, <2>2
  <2> QED BY <1>4, <2>1, <2>3
<1> QED BY <1>2, <1>3, <1>5 DEF Abstract!Put, E_Insert

(* The critical section of pcq_dequeue takes the FIFO's first element.      *)
LEMMA TakeStep ==
  ASSUME IInv, IInv', NEW t \in Poppers, D_Remove(t)
  PROVE  Abstract!Take(t)
<1> t \in Threads BY DEF Threads
<1>1. /\ pcq_current_size \in 1..Capacity
      /\ pcq_current_size' = pcq_current_size - 1
      /\ pcq_tail' = Slot(pcq_tail, 1)
      /\ pcq_tail \in 0..Capacity - 1
  BY CapacityAssumption DEF D_Remove, Goto, IInv, TypeOK, RingConsistent
<1>2. OpState[t] = "busy" /\ OpState' = [OpState EXCEPT ![t] = "done"]
  BY DEF D_Remove, Goto, OpState, Effected, IInv, TypeOK
<1>3. Contents # <<>>
  BY <1>1, ContentsIsSeq
<1>4. Head(Contents) = pcq_buffer[pcq_tail]
  <2>1. Slot(pcq_tail, 0) = pcq_tail
    BY <1>1, ModBelow DEF Slot
  <2>2. Contents[1] = pcq_buffer[Slot(pcq_tail, 1 - 1)]
    BY <1>1, ContentsIsSeq
  <2>3. 1 - 1 = 0 /\ Head(Contents) = Contents[1]
    BY <1>3, ContentsIsSeq
  <2> QED BY <2>1, <2>2, <2>3
<1>5. ASSUME NEW k \in 1..pcq_current_size - 1
      PROVE  Contents'[k] = Contents[k + 1]
  <2>1. /\ k - 1 \in 0..Capacity - 1 /\ k + 1 \in 1..pcq_current_size
        /\ (k - 1) + 1 = k /\ (k + 1) - 1 = k
    BY <1>1, CapacityAssumption
  <2>2. Contents'[k] = pcq_buffer[Slot(Slot(pcq_tail, 1), k - 1)]
    BY <1>1 DEF Contents, D_Remove
  <2>3. Slot(Slot(pcq_tail, 1), k - 1) = Slot(pcq_tail, k)
    BY <1>1, <2>1, SlotShift
  <2>4. Contents[k + 1] = pcq_buffer[Slot(pcq_tail, k)]
    BY <2>1, ContentsIsSeq
  <2> QED BY <2>2, <2>3, <2>4
<1>6. Contents' = Tail(Contents)
  <2>1. /\ Contents \in Seq(Elems) /\ Len(Contents) = pcq_current_size
        /\ pcq_current_size \in Nat
    BY <1>1, ContentsIsSeq
  <2>2. /\ Tail(Contents) \in Seq(Elems)
        /\ Len(Tail(Contents)) = pcq_current_size - 1
        /\ \A k \in 1..pcq_current_size - 1 : Tail(Contents)[k] = Contents[k + 1]
    BY <1>3, <2>1
  <2>3. Contents' \in Seq(Elems) /\ Len(Contents') = pcq_current_size - 1
    <3>1. \A k \in 1..pcq_current_size - 1 : Contents[k + 1] \in Elems
      BY <2>1
    <3>2. Contents' = [k \in 1..pcq_current_size - 1 |-> Contents[k + 1]]
      BY <1>1, <1>5 DEF Contents
    <3> QED BY <1>1, <3>1, <3>2
  <2> QED BY <1>5, <2>2, <2>3, SeqEqual
<1> QED BY <1>2, <1>3, <1>4, <1>6 DEF Abstract!Take, D_Remove

(* Every statement is a step of the FIFO or invisible to its callers.       *)
LEMMA RefinesStep ==
  ASSUME IInv, IInv', [Next]_vars
  PROVE  [Abstract!Next]_<<Contents, OpState, elem>>
<1>1. ASSUME NEW t \in Pushers, NEW e \in Elems, E_Call(t, e)
      PROVE  Abstract!CallEnqueue(t, e)
  <2>1. OpState[t] = "idle" /\ OpState' = [OpState EXCEPT ![t] = "busy"]
    BY <1>1 DEF E_Call, Goto, OpState, Effected, IInv, TypeOK, Threads
  <2>2. Contents' = Contents
    BY <1>1 DEF E_Call, Contents, queue
  <2> QED BY <1>1, <2>1, <2>2 DEF E_Call, Abstract!CallEnqueue
<1>2. ASSUME NEW t \in Pushers, Enqueue(t)
      PROVE  Abstract!Put(t) \/ Abstract!Return(t) \/ UNCHANGED <<Contents, OpState, elem>>
  <2> t \in Threads BY DEF Threads
  <2> USE DEF Effected
  <2>1. CASE E_LockPusher(t) BY <2>1, Stutters DEF E_LockPusher, Lock
  <2>2. CASE E_LockSize(t) BY <2>2, Stutters DEF E_LockSize, Lock
  <2>3. CASE E_Full(t) BY <2>3, Stutters DEF E_Full, Unlock
  <2>4. CASE E_Wait(t) BY <2>4, Stutters DEF E_Wait, Unlock
  <2>5. CASE E_Reacquire(t) BY <2>5, Stutters DEF E_Reacquire, Lock
  <2>6. CASE E_LockHead(t) BY <2>6, Stutters DEF E_LockHead, Lock
  <2>7. CASE E_Insert(t) BY <2>7, PutStep
  <2>8. CASE E_UnlockHead(t) BY <2>8, Stutters DEF E_UnlockHead, Unlock
  <2>9. CASE E_UnlockSize(t) BY <2>9, Stutters DEF E_UnlockSize, Unlock
  <2>10. CASE E_UnlockPusher(t) BY <2>10, Stutters DEF E_UnlockPusher, Unlock
  <2>11. CASE E_Broadcast(t)
    <3>1. OpState[t] = "done" /\ OpState' = [OpState EXCEPT ![t] = "idle"]
      BY <2>11 DEF E_Broadcast, BroadcastAndReturn, OpState, IInv, TypeOK
    <3>2. Contents' = Contents
      BY <2>11 DEF E_Broadcast, BroadcastAndReturn, Contents, queue
    <3> QED BY <2>11, <3>1, <3>2 DEF E_Broadcast, BroadcastAndReturn, Abstract!Return
  <2> QED BY <1>2, <2>1, <2>2, <2>3, <2>4, <2>5, <2>6, <2>7, <2>8, <2>9, <2>10,
             <2>11 DEF Enqueue
<1>3. ASSUME NEW t \in Poppers, D_Call(t) PROVE Abstract!CallDequeue(t)
  <2>1. OpState[t] = "idle" /\ OpState' = [OpState EXCEPT ![t] = "busy"]
    BY <1>3 DEF D_Call, Goto, OpState, Effected, IInv, TypeOK, Threads
  <2>2. Contents' = Contents
    BY <1>3 DEF D_Call, Contents, queue
  <2> QED BY <1>3, <2>1, <2>2 DEF D_Call, Abstract!CallDequeue
<1>4. ASSUME NEW t \in Poppers, Dequeue(t)
      PROVE  Abstract!Take(t) \/ Abstract!Return(t) \/ UNCHANGED <<Contents, OpState, elem>>
  <2> t \in Threads BY DEF Threads
  <2> USE DEF Effected
  <2>1. CASE D_LockPopper(t) BY <2>1, Stutters DEF D_LockPopper, Lock
  <2>2. CASE D_LockSize(t) BY <2>2, Stutters DEF D_LockSize, Lock
  <2>3. CASE D_Empty(t) BY <2>3, Stutters DEF D_Empty, Unlock
  <2>4. CASE D_Wait(t) BY <2>4, Stutters DEF D_Wait, Unlock
  <2>5. CASE D_Reacquire(t) BY <2>5, Stutters DEF D_Reacquire, Lock
  <2>6. CASE D_LockTail(t) BY <2>6, Stutters DEF D_LockTail, Lock
  <2>7. CASE D_Remove(t) BY <2>7, TakeStep
  <2>8. CASE D_UnlockTail(t) BY <2>8, Stutters DEF D_UnlockTail, Unlock
  <2>9. CASE D_UnlockSize(t) BY <2>9, Stutters DEF D_UnlockSize, Unlock
  <2>10. CASE D_UnlockPopper(t) BY <2>10, Stutters DEF D_UnlockPopper, Unlock
  <2>11. CASE D_Broadcast(t)
    <3>1. OpState[t] = "done" /\ OpState' = [OpState EXCEPT ![t] = "idle"]
      BY <2>11 DEF D_Broadcast, BroadcastAndReturn, OpState, IInv, TypeOK
    <3>2. Contents' = Contents
      BY <2>11 DEF D_Broadcast, BroadcastAndReturn, Contents, queue
    <3> QED BY <2>11, <3>1, <3>2 DEF D_Broadcast, BroadcastAndReturn, Abstract!Return
  <2> QED BY <1>4, <2>1, <2>2, <2>3, <2>4, <2>5, <2>6, <2>7, <2>8, <2>9, <2>10,
             <2>11 DEF Dequeue
<1>5. ASSUME NEW t \in Threads, SpuriousWakeup(t)
      PROVE  UNCHANGED <<Contents, OpState, elem>>
  BY <1>5, Stutters DEF SpuriousWakeup, Effected
<1>6. CASE UNCHANGED vars
  BY <1>6 DEF vars, queue, Contents, OpState
<1> QED BY <1>1, <1>2, <1>3, <1>4, <1>5, <1>6 DEF Next, Abstract!Next

(* Any number of concurrent pcq_enqueue and pcq_dequeue calls behave as a   *)
(* bounded first-in first-out queue.                                        *)
THEOREM QueueLinearizable == Spec => ImplementsFIFO
<1>1. Init => Abstract!Init
  BY RefinesInit
<1>2. IInv /\ IInv' /\ [Next]_vars => [Abstract!Next]_Abstract!vars
  BY RefinesStep DEF Abstract!vars
<1> QED BY <1>1, <1>2, Invariance, PTL DEF Spec, ImplementsFIFO, Abstract!Spec
=============================================================================
