----------------------------- MODULE MedianQueue -----------------------------
(***************************************************************************)
(* What an afifo promises about the values themselves: measurements are    *)
(* collected in batches of bin_size, a full batch is replaced by its       *)
(* median, and the medians form a BoundedQueue.  The batch is a bag: the   *)
(* order in which its measurements arrived does not matter.                *)
(***************************************************************************)
EXTENDS Integers, Sequences, FiniteSets

CONSTANTS Values, None, bin_size, Capacity

VARIABLES
    batch,      \* how often each value was measured since the last median
    queue, out  \* the queue of medians

mvars == <<batch, queue, out>>

Queue == INSTANCE BoundedQueue WITH Elements <- Values

NoMeasurements == [v \in Values |-> 0]

(* How many of the measurements in b are in S: the first of a value, its   *)
(* second, and so on.                                                      *)
Copies(b, S) == {c \in S \X (1 .. bin_size) : c[2] <= b[c[1]]}
Times(b, S) == Cardinality(Copies(b, S))

Below(v) == {u \in Values : u < v}

(* The element of rank bin_size \div 2, counted from 0, of a full batch.   *)
Median(b) ==
    CHOOSE v \in Values :
        /\ Times(b, Below(v)) <= bin_size \div 2
        /\ Times(b, Below(v)) + b[v] > bin_size \div 2

Init ==
    /\ batch = NoMeasurements
    /\ Queue!Init

Sample(v) ==
    LET collected == [batch EXCEPT ![v] = @ + 1]
    IN  IF Times(collected, Values) < bin_size
        THEN /\ batch' = collected
             /\ UNCHANGED <<queue, out>>
        ELSE /\ batch' = NoMeasurements
             /\ Queue!Put(Median(collected))

Read ==
    /\ Queue!Get \/ Queue!GetNothing
    /\ UNCHANGED batch

Next == (\E v \in Values : Sample(v)) \/ Read

Spec == Init /\ [][Next]_mvars
=============================================================================
