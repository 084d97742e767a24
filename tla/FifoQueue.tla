----------------------------- MODULE FifoQueue -----------------------------
(***************************************************************************)
(* What util/mpmc_queue.h promises its callers: push(v) and pop(v) take    *)
(* effect at one instant on a first-in first-out queue.  push always       *)
(* succeeds; pop returns false only at an instant when the queue is empty. *)
(***************************************************************************)
EXTENDS Sequences

CONSTANTS Values,      \* what is pushed
          Consumers,   \* the threads that call pop
          Pending,     \* a call of pop that has not taken effect
          Empty        \* a call of pop that returned false

VARIABLES queue,       \* the values in the queue, the oldest first
          result       \* per consumer, the outcome of its current call of pop

vars == <<queue, result>>

Init == /\ queue = <<>>
        /\ result = [c \in Consumers |-> Pending]

\* push(v), mpmc_queue.h:52
Push(v) == /\ queue' = Append(queue, v)
           /\ UNCHANGED result

\* A consumer enters pop again, mpmc_queue.h:54
CallPop(c) == /\ result' = [result EXCEPT ![c] = Pending]
              /\ UNCHANGED queue

\* pop takes the oldest value and will return true
Pop(c) == /\ result[c] = Pending
          /\ queue # <<>>
          /\ result' = [result EXCEPT ![c] = Head(queue)]
          /\ queue' = Tail(queue)

\* pop finds nothing and returns false
PopEmpty(c) == /\ result[c] = Pending
               /\ queue = <<>>
               /\ result' = [result EXCEPT ![c] = Empty]
               /\ UNCHANGED queue

Next == \/ \E v \in Values : Push(v)
        \/ \E c \in Consumers : CallPop(c) \/ Pop(c) \/ PopEmpty(c)

Spec == Init /\ [][Next]_vars
=============================================================================
