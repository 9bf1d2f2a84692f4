------------------------------ MODULE PCQueue ------------------------------
(***************************************************************************)
(* The producer-consumer queue of src/producer-consumer/pcqueue.c at the    *)
(* granularity of its lock operations: five mutexes, two condition          *)
(* variables and a circular buffer.  In the broker the main thread pushes   *)
(* registration requests and the worker threads pop them.                   *)
(*                                                                          *)
(* A mutex is the thread that owns it, or NoThread.  A thread whose pc is   *)
(* "e_asleep" or "d_asleep" is blocked inside cond_wait; a broadcast moves  *)
(* it to "e_woken" or "d_woken", where it takes the condvar's mutex again.  *)
(***************************************************************************)
EXTENDS Naturals, Sequences

CONSTANTS Pushers,    \* threads that call pcq_enqueue
          Poppers,    \* threads that call pcq_dequeue
          Capacity,   \* pcq_capacity
          Elems,      \* the pointers that are enqueued
          None,       \* no element / an uninitialised slot
          NoThread    \* the owner of a free mutex

Threads == Pushers \cup Poppers

ASSUME CapacityAssumption == Capacity \in Nat \ {0}
ASSUME ThreadsAssumption == Pushers \cap Poppers = {} /\ NoThread \notin Threads
ASSUME NoneAssumption == None \notin Elems

VARIABLES pcq_buffer, pcq_current_size, pcq_head, pcq_tail,
          owner,   \* of each of the queue's five mutexes
          pc,      \* where each thread is
          elem     \* the argument of its pcq_enqueue / result of its pcq_dequeue

queue == <<pcq_buffer, pcq_current_size, pcq_head, pcq_tail>>
vars == <<queue, owner, pc, elem>>

Locks == {"current_size", "head", "tail", "pusher_condvar", "popper_condvar"}

\* the slot of the circular buffer k places after slot i
Slot(i, k) == (i + k) % Capacity

\* pcq_create: the buffer comes from malloc, uninitialised
Init == /\ pcq_buffer = [i \in 0..Capacity - 1 |-> None]
        /\ pcq_current_size = 0
        /\ pcq_head = 0
        /\ pcq_tail = 0
        /\ owner = [l \in Locks |-> NoThread]
        /\ pc = [t \in Threads |-> "idle"]
        /\ elem = [t \in Threads |-> None]

Goto(t, from, to) == /\ pc[t] = from
                     /\ pc' = [pc EXCEPT ![t] = to]

\* t takes mutex l / gives it back, and does nothing else
Lock(t, from, to, l) == /\ Goto(t, from, to)
                        /\ owner[l] = NoThread
                        /\ owner' = [owner EXCEPT ![l] = t]
                        /\ UNCHANGED <<queue, elem>>

Unlock(t, from, to, l) == /\ Goto(t, from, to)
                          /\ owner' = [owner EXCEPT ![l] = NoThread]
                          /\ UNCHANGED <<queue, elem>>

\* wakes every thread that sleeps on a condvar, holding no mutex, and returns
BroadcastAndReturn(t, from, asleep, woken) ==
    /\ pc[t] = from
    /\ pc' = [u \in Threads |-> IF u = t THEN "idle"
                                ELSE IF pc[u] = asleep THEN woken ELSE pc[u]]
    /\ elem' = [elem EXCEPT ![t] = None]
    /\ UNCHANGED <<queue, owner>>

-----------------------------------------------------------------------------
(* pcq_enqueue *)

E_Call(t, e) == /\ Goto(t, "idle", "e_lock")
                /\ elem' = [elem EXCEPT ![t] = e]
                /\ UNCHANGED <<queue, owner>>

E_LockPusher(t) == Lock(t, "e_lock", "e_size", "pusher_condvar")
E_LockSize(t) == Lock(t, "e_size", "e_test", "current_size")

\* the queue is full: give up the size lock, and only then go to sleep
E_Full(t) == /\ pcq_current_size = Capacity
             /\ Unlock(t, "e_test", "e_wait", "current_size")
E_Wait(t) == Unlock(t, "e_wait", "e_asleep", "pusher_condvar")
E_Reacquire(t) == Lock(t, "e_woken", "e_size", "pusher_condvar")

E_LockHead(t) == /\ pcq_current_size # Capacity
                 /\ Lock(t, "e_test", "e_insert", "head")

\* mutant: the element goes to index size, not head
E_Insert_at_size(t) == /\ Goto(t, "e_insert", "e_unlock_head")
                       /\ pcq_current_size' = pcq_current_size + 1
                       /\ pcq_buffer' = [pcq_buffer EXCEPT ![pcq_current_size] = elem[t]]
                       /\ pcq_head' = Slot(pcq_head, 1)
                       /\ UNCHANGED <<pcq_tail, owner, elem>>

E_Insert(t) == /\ Goto(t, "e_insert", "e_unlock_head")
               /\ pcq_current_size' = pcq_current_size + 1
               /\ pcq_buffer' = [pcq_buffer EXCEPT ![pcq_head] = elem[t]]
               /\ pcq_head' = Slot(pcq_head, 1)
               /\ UNCHANGED <<pcq_tail, owner, elem>>

E_UnlockHead(t) == Unlock(t, "e_unlock_head", "e_unlock_size", "head")
E_UnlockSize(t) == Unlock(t, "e_unlock_size", "e_unlock_pusher", "current_size")
E_UnlockPusher(t) == Unlock(t, "e_unlock_pusher", "e_broadcast", "pusher_condvar")
E_Broadcast(t) == BroadcastAndReturn(t, "e_broadcast", "d_asleep", "d_woken")

-----------------------------------------------------------------------------
(* pcq_dequeue *)

D_Call(t) == /\ Goto(t, "idle", "d_lock")
             /\ UNCHANGED <<queue, owner, elem>>

D_LockPopper(t) == Lock(t, "d_lock", "d_size", "popper_condvar")
D_LockSize(t) == Lock(t, "d_size", "d_test", "current_size")

\* mutant: goes to sleep with the size lock
D_Empty_keeps_lock(t) == /\ pcq_current_size = 0
                         /\ Goto(t, "d_test", "d_wait")
                         /\ UNCHANGED <<queue, owner, elem>>

D_Empty(t) == /\ pcq_current_size = 0
              /\ Unlock(t, "d_test", "d_wait", "current_size")
D_Wait(t) == Unlock(t, "d_wait", "d_asleep", "popper_condvar")

\* mutant: the size is not tested again after the wait
D_LockTail_no_retest(t) == Lock(t, "d_test", "d_remove", "tail")

\* mutant: cond_wait returns without its mutex
D_Reacquire_keeps_none(t) == /\ owner["popper_condvar"] = NoThread
                             /\ Goto(t, "d_woken", "d_size")
                             /\ UNCHANGED <<queue, owner, elem>>

D_Reacquire(t) == Lock(t, "d_woken", "d_size", "popper_condvar")

D_LockTail(t) == /\ pcq_current_size # 0
                 /\ Lock(t, "d_test", "d_remove", "tail")

D_Remove(t) == /\ Goto(t, "d_remove", "d_unlock_tail")
               /\ pcq_current_size' = pcq_current_size - 1
               /\ elem' = [elem EXCEPT ![t] = pcq_buffer[pcq_tail]]
               /\ pcq_tail' = Slot(pcq_tail, 1)
               /\ UNCHANGED <<pcq_buffer, pcq_head, owner>>

D_UnlockTail(t) == Unlock(t, "d_unlock_tail", "d_unlock_size", "tail")
D_UnlockSize(t) == Unlock(t, "d_unlock_size", "d_unlock_popper", "current_size")
D_UnlockPopper(t) == Unlock(t, "d_unlock_popper", "d_broadcast", "popper_condvar")
D_Broadcast(t) == BroadcastAndReturn(t, "d_broadcast", "e_asleep", "e_woken")

\* POSIX lets cond_wait return without a broadcast
SpuriousWakeup(t) == /\ \/ Goto(t, "e_asleep", "e_woken")
                        \/ Goto(t, "d_asleep", "d_woken")
                     /\ UNCHANGED <<queue, owner, elem>>

-----------------------------------------------------------------------------
\* a thread inside pcq_enqueue takes its next statement
Enqueue(t) == \/ E_LockPusher(t) \/ E_LockSize(t) \/ E_Full(t) \/ E_Wait(t)
              \/ E_Reacquire(t) \/ E_LockHead(t) \/ E_Insert(t)
              \/ E_UnlockHead(t) \/ E_UnlockSize(t) \/ E_UnlockPusher(t)
              \/ E_Broadcast(t)

\* a thread inside pcq_dequeue takes its next statement
Dequeue(t) == \/ D_LockPopper(t) \/ D_LockSize(t) \/ D_Empty(t) \/ D_Wait(t)
              \/ D_Reacquire(t) \/ D_LockTail(t) \/ D_Remove(t)
              \/ D_UnlockTail(t) \/ D_UnlockSize(t) \/ D_UnlockPopper(t)
              \/ D_Broadcast(t)

Next == \/ \E t \in Pushers : (\E e \in Elems : E_Call(t, e)) \/ Enqueue(t)
        \/ \E t \in Poppers : D_Call(t) \/ Dequeue(t)
        \/ \E t \in Threads : SpuriousWakeup(t)

Spec == Init /\ [][Next]_vars

(* The scheduler runs every thread, and a mutex that is free again and       *)
(* again is eventually granted to a thread that waits for it.  Nothing       *)
(* forces a new call, nor a spurious wakeup.                                 *)
Fairness == /\ \A t \in Pushers : SF_vars(Enqueue(t))
            /\ \A t \in Poppers : SF_vars(Dequeue(t))

FairSpec == Spec /\ Fairness

-----------------------------------------------------------------------------
(* Properties *)

EnqueuePCs == {"e_lock", "e_size", "e_test", "e_wait", "e_asleep", "e_woken",
               "e_insert", "e_unlock_head", "e_unlock_size", "e_unlock_pusher",
               "e_broadcast"}
DequeuePCs == {"d_lock", "d_size", "d_test", "d_wait", "d_asleep", "d_woken",
               "d_remove", "d_unlock_tail", "d_unlock_size", "d_unlock_popper",
               "d_broadcast"}

(* The types of pc_queue_t's fields: the size never leaves 0..Capacity       *)
(* (it is a size_t, an extra decrement would wrap it), head and tail always  *)
(* index the buffer, and a thread is only ever in its own operation.         *)
TypeOK == /\ pcq_buffer \in [0..Capacity - 1 -> Elems \cup {None}]
          /\ pcq_current_size \in 0..Capacity
          /\ pcq_head \in 0..Capacity - 1
          /\ pcq_tail \in 0..Capacity - 1
          /\ owner \in [Locks -> Threads \cup {NoThread}]
          /\ pc \in [Threads -> {"idle"} \cup EnqueuePCs \cup DequeuePCs]
          /\ \A t \in Pushers : pc[t] \notin DequeuePCs
          /\ \A t \in Poppers : pc[t] \notin EnqueuePCs
          /\ elem \in [Threads -> Elems \cup {None}]

\* where in its code a thread owns each mutex
HasSize(t) == pc[t] \in {"e_test", "e_insert", "e_unlock_head", "e_unlock_size",
                         "d_test", "d_remove", "d_unlock_tail", "d_unlock_size"}
HasHead(t) == pc[t] \in {"e_insert", "e_unlock_head"}
HasTail(t) == pc[t] \in {"d_remove", "d_unlock_tail"}
HasPusher(t) == pc[t] \in {"e_size", "e_test", "e_wait", "e_insert", "e_unlock_head",
                           "e_unlock_size", "e_unlock_pusher"}
HasPopper(t) == pc[t] \in {"d_size", "d_test", "d_wait", "d_remove", "d_unlock_tail",
                           "d_unlock_size", "d_unlock_popper"}

(* Every mutex is owned exactly by the thread whose code holds it: no path   *)
(* of pcq_enqueue or pcq_dequeue, through cond_wait included, unlocks a      *)
(* mutex it does not own or leaves one behind.                               *)
LockOwnership == \A t \in Threads :
                    /\ HasSize(t) <=> owner["current_size"] = t
                    /\ HasHead(t) <=> owner["head"] = t
                    /\ HasTail(t) <=> owner["tail"] = t
                    /\ HasPusher(t) <=> owner["pusher_condvar"] = t
                    /\ HasPopper(t) <=> owner["popper_condvar"] = t

(* The circular buffer is consistent: head is size places after tail, a      *)
(* thread about to insert has room, one about to remove has an element, and  *)
(* the occupied slots hold enqueued elements, like the call that brings one. *)
RingConsistent ==
    /\ pcq_head = Slot(pcq_tail, pcq_current_size)
    /\ \A t \in Threads : pc[t] = "e_insert" => pcq_current_size < Capacity
    /\ \A t \in Threads : pc[t] = "d_remove" => pcq_current_size > 0
    /\ \A i \in 0..Capacity - 1 :
          i < pcq_current_size => pcq_buffer[Slot(pcq_tail, i)] \in Elems
    /\ \A t \in Pushers : pc[t] # "idle" => elem[t] \in Elems

\* the queue, oldest element first, as the buffer represents it
Contents == [i \in 1..pcq_current_size |-> pcq_buffer[Slot(pcq_tail, i - 1)]]

Effected == {"e_unlock_head", "e_unlock_size", "e_unlock_pusher", "e_broadcast",
             "d_unlock_tail", "d_unlock_size", "d_unlock_popper", "d_broadcast"}

\* how far each thread is in its operation, as a caller of the queue sees it
OpState == [t \in Threads |-> IF pc[t] = "idle" THEN "idle"
                              ELSE IF pc[t] \in Effected THEN "done" ELSE "busy"]

Abstract == INSTANCE BoundedFIFO WITH q <- Contents, op <- OpState, val <- elem

(* The locks make the queue a linearizable bounded FIFO: what pcq_dequeue    *)
(* returns is the oldest element, never lost, duplicated or uninitialised.   *)
ImplementsFIFO == Abstract!Spec

(* No thread keeps the size lock for ever, whatever the others do: the       *)
(* nested mutexes are always taken in the same order.                        *)
SizeLockReleased == \A t \in Threads : owner["current_size"] = t ~> owner["current_size"] # t

(* producer-consumer.h: "If the queue is full, sleep until the queue has     *)
(* space" and "If the queue is empty, sleep until the queue has an element". *)
(* No thread sleeps for ever in cond_wait while it could go on.              *)
NobodySleepsInVain ==
    /\ \A t \in Pushers : ~ <>[](pc[t] = "e_asleep" /\ pcq_current_size < Capacity)
    /\ \A t \in Poppers : ~ <>[](pc[t] = "d_asleep" /\ pcq_current_size > 0)
=============================================================================
