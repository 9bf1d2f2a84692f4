---------------------------- MODULE BoundedFIFO ----------------------------
(***************************************************************************)
(* What the producer-consumer queue of producer-consumer.h promises: a      *)
(* bounded first-in first-out queue whose operations take effect in one     *)
(* step between their call and their return (linearizability).              *)
(* op[t] is "idle" outside a call, "busy" from the call until the operation *)
(* takes effect and "done" from there until it returns.  val[t] is the      *)
(* element a pusher brings or a popper takes away.                          *)
(***************************************************************************)
EXTENDS Naturals, Sequences

CONSTANTS Pushers, Poppers, Capacity, Elems, None

VARIABLES q, op, val

vars == <<q, op, val>>

Init == /\ q = <<>>
        /\ op = [t \in Pushers \cup Poppers |-> "idle"]
        /\ val = [t \in Pushers \cup Poppers |-> None]

CallEnqueue(t, e) == /\ op[t] = "idle"
                     /\ op' = [op EXCEPT ![t] = "busy"]
                     /\ val' = [val EXCEPT ![t] = e]
                     /\ UNCHANGED q

CallDequeue(t) == /\ op[t] = "idle"
                  /\ op' = [op EXCEPT ![t] = "busy"]
                  /\ UNCHANGED <<q, val>>

Put(t) == /\ op[t] = "busy"
          /\ Len(q) < Capacity
          /\ q' = Append(q, val[t])
          /\ op' = [op EXCEPT ![t] = "done"]
          /\ UNCHANGED val

Take(t) == /\ op[t] = "busy"
           /\ q # <<>>
           /\ q' = Tail(q)
           /\ val' = [val EXCEPT ![t] = Head(q)]
           /\ op' = [op EXCEPT ![t] = "done"]

Return(t) == /\ op[t] = "done"
             /\ op' = [op EXCEPT ![t] = "idle"]
             /\ val' = [val EXCEPT ![t] = None]
             /\ UNCHANGED q

Next == \/ \E t \in Pushers : (\E e \in Elems : CallEnqueue(t, e)) \/ Put(t) \/ Return(t)
        \/ \E t \in Poppers : CallDequeue(t) \/ Take(t) \/ Return(t)

Spec == Init /\ [][Next]_vars
=============================================================================
