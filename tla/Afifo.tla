------------------------------- MODULE Afifo -------------------------------
(***************************************************************************)
(* The aggregating fifo of report.c.  The measuring thread writes raw      *)
(* ADC values; bin_size of them are insertion-sorted into bin, and the     *)
(* middle one goes into a ring of output_buffer_size slots that the report *)
(* timer drains.  Both operations hold the afifo's mutex from their first  *)
(* access of its fields to their last, so each is one step here.           *)
(*                                                                         *)
(* output_buffer_head is the slot written last, output_buffer_tail the     *)
(* slot read last; the ring is empty when they are equal.                  *)
(***************************************************************************)
EXTENDS Integers, FiniteSets

CONSTANTS
    bin_size,            \* the aggregation argument of afifo_create
    output_buffer_size,  \* its size argument
    Values,              \* what the ADC may measure
    None                 \* stands for afifo_read returning FALSE

ASSUME SizeAssumption == /\ bin_size \in Nat \ {0}
                         /\ output_buffer_size \in Nat \ {0}
ASSUME ValuesAssumption == Values \subseteq Int /\ None \notin Values

VARIABLES
    bin,
    bin_head,
    output_buffer,
    output_buffer_head,
    output_buffer_tail,
    out                  \* what the last afifo_read handed out

ring == <<output_buffer, output_buffer_head, output_buffer_tail>>
vars == <<bin, bin_head, ring, out>>

BinIndex == 0 .. bin_size - 1
Slot == 0 .. output_buffer_size - 1

(* afifo_create: both arrays come zeroed from vm_calloc.                   *)
Init ==
    /\ bin = [i \in BinIndex |-> 0]
    /\ bin_head = 0
    /\ output_buffer = [i \in Slot |-> 0]
    /\ output_buffer_head = 0
    /\ output_buffer_tail = 0
    /\ out = None

AdvanceNoWrap(index) == index + 1  \* mutant: without the modulus

Advance(index) == (index + 1) % output_buffer_size

(* Where the scan from the top of the sorted part stops: everything from p *)
(* on is greater than value, and the element before p is not.              *)
StopsAt(p, value) ==
    /\ \A i \in p .. bin_head - 1 : bin[i] > value
    /\ p > 0 => bin[p - 1] <= value

(* The bin with the elements from p on moved up by one and value at p.     *)
Inserted(p, value) ==
    [i \in BinIndex |->
        IF i = p THEN value
        ELSE IF i \in p + 1 .. bin_head THEN bin[i - 1] ELSE bin[i]]

PlaceInBinNothing(value, filled) ==  \* mutant: a lone value is not stored
    /\ bin' = bin
    /\ filled = 1

(* The two arms that put value into the bin, bin_head then being filled.   *)
PlaceInBin(value, filled) ==
    \/ /\ bin_size > 1
       /\ \E p \in 0 .. bin_head :
            /\ StopsAt(p, value)
            /\ bin' = Inserted(p, value)
       /\ filled = bin_head + 1
    \/ /\ bin_size <= 1
       /\ bin' = [bin EXCEPT ![0] = value]
       /\ filled = 1

FlushBinAdvancesLast ==  \* mutant: the slot is written before head moves
    /\ bin_head' = 0
    /\ output_buffer_head' = Advance(output_buffer_head)
    /\ output_buffer' = [output_buffer EXCEPT ![output_buffer_head] = bin'[bin_size \div 2]]
    /\ output_buffer_tail' = IF output_buffer_head' = output_buffer_tail
                             THEN Advance(output_buffer_tail)
                             ELSE output_buffer_tail

FlushBinKeepsTail ==  \* mutant: a full ring is not recognised
    /\ bin_head' = 0
    /\ output_buffer_head' = Advance(output_buffer_head)
    /\ output_buffer' =
         [output_buffer EXCEPT ![output_buffer_head'] = bin'[bin_size \div 2]]
    /\ UNCHANGED output_buffer_tail

FlushBinTakesLast ==  \* mutant: the largest element, not the middle one
    /\ bin_head' = 0
    /\ output_buffer_head' = Advance(output_buffer_head)
    /\ output_buffer' =
         [output_buffer EXCEPT ![output_buffer_head'] = bin'[bin_size - 1]]
    /\ output_buffer_tail' = IF output_buffer_head' = output_buffer_tail
                             THEN Advance(output_buffer_tail)
                             ELSE output_buffer_tail

(* A full bin is emptied and its middle element goes into the next slot;   *)
(* if that makes the ring look empty, the oldest element is given up.      *)
FlushBin ==
    /\ bin_head' = 0
    /\ output_buffer_head' = Advance(output_buffer_head)
    /\ output_buffer' =
         [output_buffer EXCEPT ![output_buffer_head'] = bin'[bin_size \div 2]]
    /\ output_buffer_tail' = IF output_buffer_head' = output_buffer_tail
                             THEN Advance(output_buffer_tail)
                             ELSE output_buffer_tail

afifo_write(value) ==
    /\ \E filled \in 1 .. bin_size :
         /\ PlaceInBin(value, filled)
         /\ \/ /\ filled >= bin_size
               /\ FlushBin
            \/ /\ filled < bin_size
               /\ bin_head' = filled
               /\ UNCHANGED ring
    /\ UNCHANGED out

afifo_read ==
    /\ \/ /\ output_buffer_head = output_buffer_tail
          /\ out' = None
          /\ UNCHANGED output_buffer_tail
       \/ /\ output_buffer_head # output_buffer_tail
          /\ output_buffer_tail' = Advance(output_buffer_tail)
          /\ out' = output_buffer[output_buffer_tail']
    /\ UNCHANGED <<bin, bin_head, output_buffer, output_buffer_head>>

Next == (\E value \in Values : afifo_write(value)) \/ afifo_read

Spec == Init /\ [][Next]_vars

-----------------------------------------------------------------------------
(* Every field stays within its array, and what is read was measured.      *)
TypeOK ==
    /\ bin \in [BinIndex -> Int]
    /\ bin_head \in BinIndex
    /\ output_buffer \in [Slot -> Int]
    /\ output_buffer_head \in Slot
    /\ output_buffer_tail \in Slot
    /\ out \in Values \cup {None}

(* How many slots wait to be read, and which slot holds the n-th of them.  *)
Waiting ==
    IF output_buffer_tail <= output_buffer_head
    THEN output_buffer_head - output_buffer_tail
    ELSE output_buffer_head - output_buffer_tail + output_buffer_size

WaitingSlot(n) ==
    IF output_buffer_tail + n < output_buffer_size
    THEN output_buffer_tail + n
    ELSE output_buffer_tail + n - output_buffer_size

Contents == [n \in 1 .. Waiting |-> output_buffer[WaitingSlot(n)]]

(* The filled part of the bin is sorted whatever order the measurements    *)
(* came in: without it bin[bin_size/2] is not the median (report.c:96-100).*)
BinSorted ==
    \A i, j \in 0 .. bin_head - 1 : i <= j => bin[i] <= bin[j]

(* Nothing waits in the bin or in the ring but measurements: the zeroes of *)
(* vm_calloc and the leftovers of overtaken slots are never handed out.    *)
OnlyMeasurements ==
    /\ \A i \in 0 .. bin_head - 1 : bin[i] \in Values
    /\ \A n \in 1 .. Waiting : output_buffer[WaitingSlot(n)] \in Values

(* The ring is a queue that keeps one element less than it has slots, in   *)
(* order, losing only the oldest and only when it is full.                 *)
BQ == INSTANCE BoundedQueue WITH
        Elements <- Values,
        Capacity <- output_buffer_size - 1,
        queue <- Contents

ImplementsBoundedQueue == BQ!Spec

(* What the device reports is the median of each complete batch, in order, *)
(* the oldest lost first: the whole of what afifo_write and afifo_read do, *)
(* seen from outside (report.c:78-131).                                    *)
MQ == INSTANCE MedianQueue WITH
        Capacity <- output_buffer_size - 1,
        batch <- [v \in Values |-> Cardinality({i \in 0 .. bin_head - 1 : bin[i] = v})],
        queue <- Contents

ImplementsMedianQueue == MQ!Spec
=============================================================================
