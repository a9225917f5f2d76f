---------------------------- MODULE BoundedQueue ----------------------------
(***************************************************************************)
(* What the ring inside an afifo promises to its two users: a FIFO queue   *)
(* of at most Capacity elements in which the writer never waits and never  *)
(* fails, an overfull queue dropping its oldest element, and in which a    *)
(* reader gets the oldest element or is told that there is none.           *)
(***************************************************************************)
EXTENDS Naturals, Sequences

CONSTANTS
    Elements,  \* what may be queued
    None,      \* the answer of a read that found nothing
    Capacity   \* the most elements the queue keeps

VARIABLES
    queue,     \* oldest element first
    out        \* the answer of the last read

qvars == <<queue, out>>

Init ==
    /\ queue = <<>>
    /\ out = None

(* The queue after v came in: the oldest element is pushed out if there is *)
(* no room for one more (v itself, when Capacity is 0).                    *)
Enqueued(v) ==
    IF Len(queue) < Capacity THEN Append(queue, v) ELSE Tail(Append(queue, v))

Put(v) ==
    /\ queue' = Enqueued(v)
    /\ UNCHANGED out

Get ==
    /\ queue # <<>>
    /\ out' = Head(queue)
    /\ queue' = Tail(queue)

GetNothing ==
    /\ queue = <<>>
    /\ out' = None
    /\ UNCHANGED queue

Next == (\E v \in Elements : Put(v)) \/ Get \/ GetNothing

Spec == Init /\ [][Next]_qvars
=============================================================================
