---------------------------- MODULE AfifoProofs ----------------------------
(***************************************************************************)
(* For every bin size, ring size and set of measurable values: the fields  *)
(* of an afifo stay in range, its bin stays sorted, it hands out nothing   *)
(* but measurements, its ring implements BoundedQueue, and the whole the   *)
(* MedianQueue.                                                            *)
(***************************************************************************)
EXTENDS Afifo, Sequences, FiniteSetTheorems, TLAPS

USE SizeAssumption, ValuesAssumption

(* BinSorted and OnlyMeasurements are inductive together: the value that   *)
(* reaches the ring is one of the bin, and the slots between the tail and  *)
(* the head are the ones written since they were last read.                *)
IInv == TypeOK /\ BinSorted /\ OnlyMeasurements

-----------------------------------------------------------------------------
(* Advancing an index wraps around at the end of the ring and nowhere else.*)
LEMMA AdvanceWraps ==
    ASSUME NEW s \in Slot
    PROVE  /\ Advance(s) \in Slot
           /\ Advance(s) = IF s + 1 = output_buffer_size THEN 0 ELSE s + 1
BY SMT DEF Advance, Slot

(* After a value is placed, the filled part of the bin is sorted and holds *)
(* nothing but measurements, wherever the scan of afifo_write stopped.     *)
LEMMA PlacedInOrder ==
    ASSUME IInv, NEW value \in Values, NEW filled \in 1 .. bin_size,
           PlaceInBin(value, filled)
    PROVE  /\ bin' \in [BinIndex -> Int]
           /\ \A i, j \in 0 .. filled - 1 : i <= j => bin'[i] <= bin'[j]
           /\ \A i \in 0 .. filled - 1 : bin'[i] \in Values
<1>1. CASE bin_size > 1
  <2>1. /\ filled = bin_head + 1
        /\ bin_head \in BinIndex
        /\ bin \in [BinIndex -> Int]
    BY <1>1, SMT DEF PlaceInBin, IInv, TypeOK
  <2>2. PICK p \in 0 .. bin_head : StopsAt(p, value) /\ bin' = Inserted(p, value)
    BY <1>1, SMT DEF PlaceInBin
  <2>3. bin' \in [BinIndex -> Int]
    BY <2>1, <2>2, SMT DEF Inserted, BinIndex
  <2>4. \A i \in 0 .. filled - 1 :
          bin'[i] = IF i = p THEN value ELSE IF i < p THEN bin[i] ELSE bin[i - 1]
    BY <2>1, <2>2, SMT DEF Inserted, BinIndex
  <2>5. \A i \in 0 .. filled - 1 : bin'[i] \in Values
    <3>1. \A i \in 0 .. bin_head - 1 : bin[i] \in Values
      BY DEF IInv, OnlyMeasurements
    <3>2. bin_head \in Nat
      BY <2>1, SMT DEF BinIndex
    <3> QED BY <2>1, <2>2, <2>4, <3>1, <3>2, SMT
  <2>6. \A i \in 0 .. bin_head - 1 : /\ i < p => bin[i] <= value
                                     /\ i >= p => value < bin[i]
    BY <2>1, <2>2, SMT DEF StopsAt, IInv, BinSorted, BinIndex
  <2>7. ASSUME NEW i \in 0 .. filled - 1, NEW j \in 0 .. filled - 1, i <= j
        PROVE  bin'[i] <= bin'[j]
    <3>1. \A m, n \in 0 .. bin_head - 1 : m <= n => bin[m] <= bin[n]
      BY DEF IInv, BinSorted
    <3>2. bin_head \in Nat /\ \A n \in 0 .. bin_head - 1 : bin[n] \in Int
      BY <2>1, SMT DEF BinIndex
    <3> QED BY <2>1, <2>2, <2>4, <2>6, <2>7, <3>1, <3>2, SMT
  <2> QED BY <2>3, <2>5, <2>7
<1>2. CASE bin_size <= 1
  <2>1. bin_size = 1 /\ filled = 1 /\ bin' = [bin EXCEPT ![0] = value]
    BY <1>2, SMT DEF PlaceInBin
  <2> QED BY <2>1, SMT DEF IInv, TypeOK, BinIndex
<1> QED BY <1>1, <1>2, SMT

(* Flushing a bin whose middle element is v queues v, the oldest element   *)
(* making room for it when the ring is full.                               *)
LEMMA FlushEnqueues ==
    ASSUME TypeOK, FlushBin, NEW v \in Values, v = bin'[bin_size \div 2],
           OnlyMeasurements
    PROVE  /\ output_buffer' \in [Slot -> Int]
           /\ output_buffer_head' \in Slot
           /\ output_buffer_tail' \in Slot
           /\ \A n \in 1 .. Waiting' : output_buffer'[WaitingSlot(n)'] \in Values
           /\ Contents' = BQ!Enqueued(v)
<1> DEFINE N == output_buffer_size
           h == output_buffer_head
           t == output_buffer_tail
<1>1. /\ h \in Slot /\ t \in Slot /\ h' \in Slot /\ t' \in Slot
      /\ h' = IF h + 1 = N THEN 0 ELSE h + 1
      /\ t' = IF h' = t THEN (IF t + 1 = N THEN 0 ELSE t + 1) ELSE t
  BY AdvanceWraps DEF TypeOK, FlushBin
<1>2. /\ output_buffer \in [Slot -> Int]
      /\ output_buffer' = [output_buffer EXCEPT ![h'] = v]
      /\ output_buffer' \in [Slot -> Int]
  BY <1>1, SMT DEF TypeOK, FlushBin
<1>3. Waiting \in 0 .. N - 1 /\ \A n \in 1 .. Waiting : WaitingSlot(n) \in Slot
  BY <1>1, SMT DEF Waiting, WaitingSlot, Slot
<1>4. Contents \in Seq(Values) /\ Len(Contents) = Waiting
  BY <1>3, SMT DEF Contents, OnlyMeasurements
<1>5. CASE Waiting < N - 1
  <2>1. t' = t /\ Waiting' = Waiting + 1
    BY <1>1, <1>5, SMT DEF Waiting, Slot
  <2>2. /\ \A n \in 1 .. Waiting : WaitingSlot(n) # h'
        /\ \A n \in 1 .. Waiting' :
             WaitingSlot(n)' = IF n = Waiting + 1 THEN h' ELSE WaitingSlot(n)
    BY <1>1, <1>3, <1>5, <2>1, SMT DEF WaitingSlot, Waiting, Slot
  <2>3. \A n \in 1 .. Waiting' :
          output_buffer'[WaitingSlot(n)'] = IF n = Waiting + 1 THEN v
                                            ELSE output_buffer[WaitingSlot(n)]
    BY <1>1, <1>2, <1>3, <2>1, <2>2, SMT
  <2>4. Contents' = Append(Contents, v)
    BY <1>3, <1>4, <2>1, <2>3, SMT DEF Contents
  <2>5. \A n \in 1 .. Waiting' : output_buffer'[WaitingSlot(n)'] \in Values
    BY <1>3, <2>1, <2>3, SMT DEF OnlyMeasurements
  <2>6. BQ!Enqueued(v) = Append(Contents, v)
    BY <1>4, <1>5 DEF BQ!Enqueued
  <2> QED BY <1>1, <1>2, <2>4, <2>5, <2>6
<1>6. CASE Waiting = N - 1
  <2>1. Waiting' = Waiting /\ h' = t /\ t' = IF t + 1 = N THEN 0 ELSE t + 1
    BY <1>1, <1>6, SMT DEF Waiting, Slot
  <2>2. /\ \A n \in 1 .. Waiting - 1 : WaitingSlot(n + 1) # h'
        /\ \A n \in 1 .. Waiting :
             WaitingSlot(n)' = IF n = Waiting THEN h' ELSE WaitingSlot(n + 1)
    BY <1>1, <1>3, <1>6, <2>1, SMT DEF WaitingSlot, Waiting, Slot
  <2>3. \A n \in 1 .. Waiting' :
          output_buffer'[WaitingSlot(n)'] = IF n = Waiting THEN v
                                            ELSE output_buffer[WaitingSlot(n + 1)]
    BY <1>1, <1>2, <1>3, <2>1, <2>2, SMT
  <2>4. Contents' = Tail(Append(Contents, v))
    BY <1>3, <1>4, <2>1, <2>3, SMT DEF Contents
  <2>5. \A n \in 1 .. Waiting' : output_buffer'[WaitingSlot(n)'] \in Values
    BY <1>3, <2>1, <2>3, SMT DEF OnlyMeasurements
  <2>6. BQ!Enqueued(v) = Tail(Append(Contents, v))
    BY <1>4, <1>6 DEF BQ!Enqueued
  <2> QED BY <1>1, <1>2, <2>4, <2>5, <2>6
<1> QED BY <1>3, <1>5, <1>6, SMT

(* A read takes the oldest waiting median out of the ring.                 *)
LEMMA ReadDequeues ==
    ASSUME TypeOK, OnlyMeasurements, afifo_read
    PROVE  /\ TypeOK' /\ OnlyMeasurements'
           /\ BQ!Get \/ BQ!GetNothing
<1> DEFINE N == output_buffer_size
           h == output_buffer_head
           t == output_buffer_tail
<1>1. UNCHANGED <<bin, bin_head, output_buffer, h>>
  BY DEF afifo_read
<1>2. Waiting \in 0 .. N - 1 /\ \A n \in 1 .. Waiting : WaitingSlot(n) \in Slot
  BY SMT DEF Waiting, WaitingSlot, Slot, TypeOK
<1>3. Contents \in Seq(Values) /\ Len(Contents) = Waiting
  BY <1>2, SMT DEF Contents, OnlyMeasurements
<1>4. CASE h = t
  <2>1. out' = None /\ t' = t
    BY <1>4 DEF afifo_read
  <2>2. Waiting' = Waiting /\ Contents' = Contents
    BY <1>1, <2>1 DEF Waiting, Contents, WaitingSlot
  <2>3. Waiting = 0
    BY <1>4, SMT DEF Waiting, TypeOK, Slot
  <2>4. Contents = <<>>
    BY <1>3, <2>3, SMT
  <2>5. TypeOK' /\ OnlyMeasurements'
    BY <1>1, <2>1, <2>2, <2>3, SMT DEF TypeOK, OnlyMeasurements
  <2> QED BY <2>1, <2>2, <2>4, <2>5 DEF BQ!GetNothing
<1>5. CASE h # t
  <2>1. /\ t' = IF t + 1 = N THEN 0 ELSE t + 1
        /\ t' \in Slot
        /\ out' = output_buffer[t']
    BY <1>5, AdvanceWraps DEF afifo_read, TypeOK
  <2>2. Waiting > 0 /\ Waiting' = Waiting - 1 /\ WaitingSlot(1) = t'
    BY <1>1, <1>5, <2>1, SMT DEF Waiting, WaitingSlot, TypeOK, Slot
  <2>3. \A n \in 1 .. Waiting - 1 : WaitingSlot(n)' = WaitingSlot(n + 1)
    BY <1>1, <2>1, <2>2, SMT DEF Waiting, WaitingSlot, TypeOK, Slot
  <2>4. /\ Contents # <<>>
        /\ out' = Head(Contents)
        /\ out' \in Values
    <3>1. Contents # <<>> /\ Head(Contents) = Contents[1]
      BY <1>2, <1>3, <2>2, SMT
    <3>2. Contents[1] = output_buffer[WaitingSlot(1)]
      BY <1>2, <2>2, SMT DEF Contents
    <3>3. output_buffer[WaitingSlot(1)] \in Values
      BY <1>2, <2>2, SMT DEF OnlyMeasurements
    <3> QED BY <2>1, <2>2, <3>1, <3>2, <3>3
  <2>5. Contents' = Tail(Contents)
    BY <1>1, <1>2, <1>3, <2>2, <2>3, SMT DEF Contents
  <2>6. OnlyMeasurements'
    BY <1>1, <1>2, <2>2, <2>3, SMT DEF OnlyMeasurements
  <2>7. TypeOK'
    BY <1>1, <2>1, <2>4 DEF TypeOK
  <2> QED BY <2>4, <2>5, <2>6, <2>7 DEF BQ!Get
<1> QED BY <1>4, <1>5

(* A write keeps the invariant, and either leaves the queue of medians     *)
(* alone or puts one measurement into it.                                  *)
LEMMA WriteStep ==
    ASSUME IInv, NEW value \in Values, afifo_write(value)
    PROVE  /\ IInv'
           /\ UNCHANGED <<Contents, out>> \/ \E v \in Values : BQ!Put(v)
<1>1. PICK filled \in 1 .. bin_size :
        /\ PlaceInBin(value, filled)
        /\ \/ filled >= bin_size /\ FlushBin
           \/ filled < bin_size /\ bin_head' = filled /\ UNCHANGED ring
  BY DEF afifo_write
<1>2. /\ bin' \in [BinIndex -> Int]
      /\ \A i, j \in 0 .. filled - 1 : i <= j => bin'[i] <= bin'[j]
      /\ \A i \in 0 .. filled - 1 : bin'[i] \in Values
  BY <1>1, PlacedInOrder
<1>3. out' = out
  BY DEF afifo_write
<1>4. CASE filled >= bin_size /\ FlushBin
  <2>1. bin'[bin_size \div 2] \in Values
    BY <1>2, <1>4, SMT
  <2>2. /\ output_buffer' \in [Slot -> Int]
        /\ output_buffer_head' \in Slot /\ output_buffer_tail' \in Slot
        /\ \A n \in 1 .. Waiting' : output_buffer'[WaitingSlot(n)'] \in Values
        /\ Contents' = BQ!Enqueued(bin'[bin_size \div 2])
    BY <1>4, <2>1, FlushEnqueues DEF IInv
  <2>3. bin_head' = 0
    BY <1>4 DEF FlushBin
  <2>4. TypeOK'
    <3>1. bin_head' \in BinIndex
      BY <2>3, SMT DEF BinIndex
    <3>2. out' \in Values \cup {None}
      BY <1>3 DEF IInv, TypeOK
    <3> QED BY <1>2, <2>2, <3>1, <3>2 DEF TypeOK
  <2>5. BinSorted' /\ OnlyMeasurements'
    BY <2>2, <2>3, SMT DEF BinSorted, OnlyMeasurements
  <2> QED BY <1>3, <2>1, <2>2, <2>4, <2>5 DEF IInv, BQ!Put
<1>5. CASE filled < bin_size /\ bin_head' = filled /\ UNCHANGED ring
  <2>1. Waiting' = Waiting /\ Contents' = Contents
    BY <1>5 DEF ring, Waiting, Contents, WaitingSlot
  <2>2. TypeOK'
    BY <1>2, <1>3, <1>5, SMT DEF TypeOK, ring, BinIndex, IInv
  <2>3. BinSorted'
    BY <1>2, <1>5, SMT DEF BinSorted
  <2>4. \A n \in 1 .. Waiting' : output_buffer'[WaitingSlot(n)'] \in Values
    BY <1>5, <2>1 DEF IInv, OnlyMeasurements, ring, WaitingSlot
  <2>5. OnlyMeasurements'
    BY <1>2, <1>5, <2>4, SMT DEF OnlyMeasurements
  <2> QED BY <1>3, <2>1, <2>2, <2>3, <2>5 DEF IInv
<1> QED BY <1>1, <1>4, <1>5

-----------------------------------------------------------------------------
LEMMA InitIInv == Init => IInv
BY SMT DEF Init, IInv, TypeOK, BinSorted, OnlyMeasurements, BinIndex, Slot,
           Waiting, WaitingSlot

LEMMA NextIInv == IInv /\ [Next]_vars => IInv'
<1> SUFFICES ASSUME IInv, [Next]_vars
             PROVE  IInv'
  OBVIOUS
<1>1. ASSUME NEW value \in Values, afifo_write(value)
      PROVE  IInv'
  BY <1>1, WriteStep
<1>2. CASE afifo_read
  <2>1. TypeOK' /\ OnlyMeasurements'
    BY <1>2, ReadDequeues DEF IInv
  <2>2. BinSorted'
    BY <1>2 DEF IInv, BinSorted, afifo_read
  <2> QED BY <2>1, <2>2 DEF IInv
<1>3. CASE UNCHANGED vars
  BY <1>3 DEF vars, ring, IInv, TypeOK, BinSorted, OnlyMeasurements, Waiting, WaitingSlot
<1> QED BY <1>1, <1>2, <1>3 DEF Next

THEOREM Invariance == Spec => []IInv
BY InitIInv, NextIInv, PTL DEF Spec

(* No index of afifo_write or afifo_read ever leaves its array, whatever   *)
(* the aggregation and the size the afifo was created with (report.c:84).  *)
THEOREM TypeCorrect == Spec => []TypeOK
BY Invariance, PTL DEF IInv

(* The insertion of afifo_write keeps the bin sorted (report.c:91-97).     *)
THEOREM AlwaysSorted == Spec => []BinSorted
BY Invariance, PTL DEF IInv

(* Nothing reaches a report but what was measured (report.c:119-131).      *)
THEOREM AlwaysMeasurements == Spec => []OnlyMeasurements
BY Invariance, PTL DEF IInv

(* The ring of an afifo is a drop-oldest queue of output_buffer_size - 1   *)
(* elements: no median is lost while there is room, none is read twice or  *)
(* out of order, and an empty ring says so (report.c:109-114, 122-128).    *)
THEOREM RingIsBoundedQueue == Spec => ImplementsBoundedQueue
<1>1. Init => BQ!Init
  <2> SUFFICES ASSUME Init PROVE Contents = <<>> /\ out = None
    BY DEF BQ!Init
  <2>1. Waiting = 0
    BY SMT DEF Init, Waiting
  <2>2. Contents = <<>>
    BY <2>1, SMT DEF Contents
  <2> QED BY <2>2 DEF Init
<1>2. IInv /\ [Next]_vars => [BQ!Next]_(BQ!qvars)
  <2> SUFFICES ASSUME IInv, [Next]_vars
               PROVE  BQ!Next \/ UNCHANGED <<Contents, out>>
    BY DEF BQ!qvars
  <2>1. ASSUME NEW value \in Values, afifo_write(value)
        PROVE  BQ!Next \/ UNCHANGED <<Contents, out>>
    BY <2>1, WriteStep DEF BQ!Next
  <2>2. CASE afifo_read
    BY <2>2, ReadDequeues DEF IInv, BQ!Next
  <2>3. CASE UNCHANGED vars
    BY <2>3 DEF vars, ring, Contents, Waiting, WaitingSlot
  <2> QED BY <2>1, <2>2, <2>3 DEF Next
<1> QED BY <1>1, <1>2, Invariance, PTL DEF Spec, ImplementsBoundedQueue, BQ!Spec
-----------------------------------------------------------------------------
(* Counting.  How many there are of what is mapped one to one.             *)
LEMMA AsMany ==
    ASSUME NEW S, NEW T, IsFiniteSet(S), NEW h, h \in [S -> T],
           \A a, b \in S : h[a] = h[b] => a = b,
           \A t \in T : \E a \in S : h[a] = t
    PROVE  IsFiniteSet(T) /\ Cardinality(T) = Cardinality(S)
<1>1. h \in Bijection(S, T)
  BY DEF Bijection, Injection, IsInjective, Surjection
<1>2. ExistsBijection(S, T)
  BY <1>1 DEF ExistsBijection
<1> QED BY <1>2, FS_Bijection

LEMMA PartOfInterval ==
    ASSUME NEW N \in Nat, NEW S, S \subseteq 0 .. N - 1
    PROVE  IsFiniteSet(S) /\ Cardinality(S) \in 0 .. N
<1>1. IsFiniteSet(0 .. N - 1) /\ Cardinality(0 .. N - 1) = N
  BY FS_Interval, SMT
<1>2. IsFiniteSet(S) /\ Cardinality(S) <= N
  BY <1>1, FS_Subset
<1>3. Cardinality(S) \in Nat
  BY <1>2, FS_CardinalityType
<1> QED BY <1>2, <1>3, SMT

LEMMA AroundInterval ==
    ASSUME NEW n \in Nat, NEW T, IsFiniteSet(T), 0 .. n \subseteq T
    PROVE  Cardinality(T) \in Nat /\ Cardinality(T) > n
<1>1. Cardinality(0 .. n) = n + 1
  BY FS_Interval, SMT
<1>2. Cardinality(0 .. n) <= Cardinality(T)
  BY FS_Subset
<1>3. Cardinality(T) \in Nat
  BY FS_CardinalityType
<1> QED BY <1>1, <1>2, <1>3, SMT

(* The first N places of f that hold v, and the number of one of them: the *)
(* first, the second, and so on.                                           *)
PlacesOf(f, N, v) == {i \in 0 .. N - 1 : f[i] = v}
Number(f, v, i) == Cardinality({j \in 0 .. i : f[j] = v})

LEMMA Numbered ==
    ASSUME NEW N \in Nat, NEW f, NEW v
    PROVE  /\ Cardinality(PlacesOf(f, N, v)) \in 0 .. N
           /\ \A i \in PlacesOf(f, N, v) : Number(f, v, i) \in 1 .. Cardinality(PlacesOf(f, N, v))
           /\ \A i, k \in PlacesOf(f, N, v) : Number(f, v, i) = Number(f, v, k) => i = k
           /\ \A n \in 1 .. Cardinality(PlacesOf(f, N, v)) :
                \E i \in PlacesOf(f, N, v) : Number(f, v, i) = n
<1> DEFINE E == PlacesOf(f, N, v)
           number == [i \in E |-> Number(f, v, i)]
<1>0. E = {i \in 0 .. N - 1 : f[i] = v}
  BY DEF PlacesOf
<1> DEFINE upTo(i) == {j \in 0 .. i : f[j] = v}
<1>1. IsFiniteSet(E) /\ Cardinality(E) \in 0 .. N
  BY <1>0, PartOfInterval
<1>2. ASSUME NEW i \in E
      PROVE  /\ i \in upTo(i) /\ upTo(i) \subseteq E
             /\ IsFiniteSet(upTo(i)) /\ Cardinality(upTo(i)) \in 1 .. Cardinality(E)
  <2>1. i \in 0 .. N - 1 /\ f[i] = v
    BY <1>0
  <2>2. i \in 0 .. i /\ 0 .. i \subseteq 0 .. N - 1
    BY <2>1, SMT
  <2>3. i \in upTo(i) /\ upTo(i) \subseteq E
    BY <1>0, <2>1, <2>2
  <2> HIDE DEF upTo
  <2>4. IsFiniteSet(upTo(i)) /\ Cardinality(upTo(i)) <= Cardinality(E)
    BY <1>1, <2>3, FS_Subset
  <2>5. Cardinality(upTo(i)) \in Nat /\ Cardinality(upTo(i)) # 0
    BY <2>3, <2>4, FS_CardinalityType, FS_EmptySet
  <2> QED BY <1>1, <2>3, <2>4, <2>5, SMT
<1>3. ASSUME NEW i \in E, NEW k \in E, i < k
      PROVE  Cardinality(upTo(i)) # Cardinality(upTo(k))
  <2>1. i \in Int /\ k \in Int
    BY <1>0, SMT
  <2>2. 0 .. i \subseteq 0 .. k /\ k \notin 0 .. i
    BY <1>3, <2>1, SMT
  <2>3. upTo(i) \subseteq upTo(k) /\ upTo(i) # upTo(k)
    BY <1>0, <2>2
  <2>4. IsFiniteSet(upTo(k))
    BY <1>2
  <2> HIDE DEF upTo
  <2> QED BY <2>3, <2>4, FS_Subset
<1>4. \A i \in E : number[i] = Cardinality(upTo(i))
  BY DEF Number
<1>4a. \A i \in E : number[i] = Number(f, v, i)
  OBVIOUS
<1> HIDE DEF upTo
<1>5. \A i \in E : number[i] \in 1 .. Cardinality(E)
  BY <1>2, <1>4
<1>6. \A i, k \in E : number[i] = number[k] => i = k
  <2> SUFFICES ASSUME NEW i \in E, NEW k \in E, i # k PROVE number[i] # number[k]
    OBVIOUS
  <2>1. i < k \/ k < i
    <3>1. i \in Int /\ k \in Int
      BY <1>0, SMT
    <3> QED BY <3>1, SMT
  <2> QED BY <1>3, <1>4, <2>1
<1>7. \A n \in 1 .. Cardinality(E) : \E i \in E : number[i] = n
  <2>1. number \in Injection(E, 1 .. Cardinality(E))
    BY <1>5, <1>6 DEF Injection, IsInjective
  <2>2. IsFiniteSet(1 .. Cardinality(E)) /\ Cardinality(1 .. Cardinality(E)) = Cardinality(E)
    BY <1>1, FS_Interval, SMT
  <2>3. number \in Surjection(E, 1 .. Cardinality(E))
    BY <2>1, <2>2, FS_Injection
  <2> QED BY <2>3 DEF Surjection
<1> QED BY <1>1, <1>4a, <1>5, <1>6, <1>7

(* So the bag of what lies in the first N places of f holds as many copies *)
(* of members of S as there are places with such members.                  *)
Bag(f, N) == [v \in Values |-> Cardinality({i \in 0 .. N - 1 : f[i] = v})]

LEMMA TimesIsPlaces ==
    ASSUME NEW N \in 0 .. bin_size, NEW f, \A i \in 0 .. N - 1 : f[i] \in Values,
           NEW S, S \subseteq Values
    PROVE  MQ!Times(Bag(f, N), S) = Cardinality({i \in 0 .. N - 1 : f[i] \in S})
<1> DEFINE places == {i \in 0 .. N - 1 : f[i] \in S}
           of(v) == PlacesOf(f, N, v)
           number(v, i) == Number(f, v, i)
           copy == [i \in places |-> <<f[i], number(f[i], i)>>]
           copies == MQ!Copies(Bag(f, N), S)
<1>1. N \in Nat /\ N <= bin_size
  BY SMT
<1>2. ASSUME NEW v \in S
      PROVE  /\ Cardinality(of(v)) \in 0 .. N
             /\ \A i \in of(v) : number(v, i) \in 1 .. Cardinality(of(v))
             /\ \A i, k \in of(v) : number(v, i) = number(v, k) => i = k
             /\ \A n \in 1 .. Cardinality(of(v)) : \E i \in of(v) : number(v, i) = n
  BY <1>1, Numbered
<1>3. \A v \in S : Bag(f, N)[v] = Cardinality(of(v))
  BY DEF Bag, PlacesOf
<1>4. copies = {c \in S \X (1 .. bin_size) : c[2] <= Bag(f, N)[c[1]]}
  BY DEF MQ!Copies
<1>5. \A i \in places : f[i] \in S /\ i \in of(f[i])
  BY DEF PlacesOf
<1>6. \A v \in S : of(v) \subseteq places
  BY DEF PlacesOf
<1>7. \A v \in S : \A i \in of(v) : f[i] = v
  BY DEF PlacesOf
<1>8. IsFiniteSet(places)
  BY <1>1, PartOfInterval
<1> HIDE DEF number, of, places
<1>9. copy \in [places -> copies]
  <2> SUFFICES ASSUME NEW i \in places PROVE <<f[i], number(f[i], i)>> \in copies
    OBVIOUS
  <2>1. number(f[i], i) \in 1 .. Cardinality(of(f[i])) /\ Cardinality(of(f[i])) \in 0 .. N
    BY <1>2, <1>5
  <2>2. number(f[i], i) \in 1 .. bin_size /\ number(f[i], i) <= Cardinality(of(f[i]))
    BY <1>1, <2>1, SMT
  <2> QED BY <1>3, <1>4, <1>5, <2>2
<1>10. \A i, k \in places : copy[i] = copy[k] => i = k
  <2> SUFFICES ASSUME NEW i \in places, NEW k \in places, copy[i] = copy[k] PROVE i = k
    OBVIOUS
  <2>1. f[i] = f[k] /\ number(f[i], i) = number(f[i], k)
    OBVIOUS
  <2>2. i \in of(f[i]) /\ k \in of(f[i]) /\ f[i] \in S
    BY <1>5, <2>1
  <2> QED BY <1>2, <2>1, <2>2
<1>11. \A c \in copies : \E i \in places : copy[i] = c
  <2> SUFFICES ASSUME NEW c \in copies PROVE \E i \in places : copy[i] = c
    OBVIOUS
  <2>1. PICK v \in S, n \in 1 .. bin_size : c = <<v, n>>
    <3>1. c \in S \X (1 .. bin_size)
      BY <1>4
    <3>2. c[1] \in S /\ c[2] \in 1 .. bin_size /\ c = <<c[1], c[2]>>
      BY <3>1, SMT
    <3> QED BY <3>2, Zenon
  <2>2. n \in 1 .. Cardinality(of(v))
    <3>1. n <= Cardinality(of(v))
      BY <1>3, <1>4, <2>1
    <3>2. Cardinality(of(v)) \in 0 .. N
      BY <1>2
    <3> QED BY <3>1, <3>2, SMT
  <2>3. PICK i \in of(v) : number(v, i) = n
    BY <1>2, <2>2
  <2>4. i \in places /\ f[i] = v
    BY <1>6, <1>7
  <2> QED BY <2>1, <2>3, <2>4
<1>12. Cardinality(copies) = Cardinality(places)
  <2> HIDE DEF copy, copies
  <2> QED BY <1>8, <1>9, <1>10, <1>11, AsMany
<1>13. MQ!Times(Bag(f, N), S) = Cardinality(copies)
  BY Zenon DEF MQ!Times, MQ!Cardinality, Cardinality
<1>14. places = {i \in 0 .. N - 1 : f[i] \in S}
  BY DEF places
<1> QED BY <1>12, <1>13, <1>14, Zenon

(* A value inserted at p adds one to its own count and to no other's.      *)
InsertedAt(p, value, f, g, N) ==
    \A i \in 0 .. N : g[i] = IF i = p THEN value ELSE IF i < p THEN f[i] ELSE f[i - 1]

LEMMA InsertedCounts ==
    ASSUME NEW N \in Nat, NEW f, NEW g, NEW p \in 0 .. N, NEW value, NEW u,
           InsertedAt(p, value, f, g, N)
    PROVE  Cardinality(PlacesOf(g, N + 1, u)) =
               IF u = value THEN Cardinality(PlacesOf(f, N, u)) + 1
                            ELSE Cardinality(PlacesOf(f, N, u))
<1> DEFINE before == PlacesOf(f, N, u)
           up(i) == IF i < p THEN i ELSE i + 1
           up_ == [i \in before |-> up(i)]
           moved == {j \in 0 .. N : j # p /\ g[j] = u}
<1>0. \A i \in 0 .. N :
        g[i] = IF i = p THEN value ELSE IF i < p THEN f[i] ELSE f[i - 1]
  BY DEF InsertedAt
<1>1. IsFiniteSet(before)
  BY PartOfInterval DEF PlacesOf
<1>2. \A i \in before : i \in 0 .. N - 1 /\ f[i] = u
  BY DEF PlacesOf
<1>3. \A i \in 0 .. N - 1 : f[i] = u => i \in before
  BY DEF PlacesOf
<1> HIDE DEF before
<1>4. up_ \in [before -> moved]
  BY <1>0, <1>2, SMT
<1>5. \A i, k \in before : up_[i] = up_[k] => i = k
  BY <1>2, SMT
<1>6. \A j \in moved : \E i \in before : up_[i] = j
  <2> SUFFICES ASSUME NEW j \in 0 .. N, j # p, g[j] = u
               PROVE  \E i \in before : up_[i] = j
    OBVIOUS
  <2>1. CASE j < p
    <3>1. j \in 0 .. N - 1 /\ f[j] = u
      BY <1>0, <2>1, SMT
    <3> QED BY <1>3, <2>1, <3>1
  <2>2. CASE j > p
    <3>1. j - 1 \in 0 .. N - 1 /\ f[j - 1] = u
      BY <1>0, <2>2, SMT
    <3>2. j - 1 \in before /\ up(j - 1) = j
      BY <1>3, <2>2, <3>1, SMT
    <3> QED BY <3>2
  <2> QED BY <2>1, <2>2, SMT
<1>7. IsFiniteSet(moved) /\ Cardinality(moved) = Cardinality(before)
  <2> HIDE DEF up_, moved
  <2> QED BY <1>1, <1>4, <1>5, <1>6, AsMany
<1>8. PlacesOf(g, N + 1, u) = {j \in 0 .. N : g[j] = u}
  BY SMT DEF PlacesOf
<1>9. g[p] = value
  BY <1>0
<1>10. CASE u = value
  <2>1. PlacesOf(g, N + 1, u) = moved \cup {p} /\ p \notin moved
    BY <1>8, <1>9, <1>10
  <2> HIDE DEF moved
  <2>2. Cardinality(moved \cup {p}) = Cardinality(moved) + 1
    BY <1>7, <2>1, FS_AddElement
  <2> QED BY <1>7, <1>10, <2>1, <2>2 DEF before
<1>11. CASE u # value
  <2>1. PlacesOf(g, N + 1, u) = moved
    BY <1>8, <1>9, <1>11
  <2> HIDE DEF moved
  <2> QED BY <1>7, <1>11, <2>1 DEF before
<1> QED BY <1>10, <1>11

(* The element of rank bin_size \div 2 lies in the middle of the sorted bin*)
(* and nowhere else: what FlushBin takes is the median.                    *)
LEMMA MiddleIsMedian ==
    ASSUME NEW f, \A i \in 0 .. bin_size - 1 : f[i] \in Values,
           \A i, j \in 0 .. bin_size - 1 : i <= j => f[i] <= f[j]
    PROVE  MQ!Median(Bag(f, bin_size)) = f[bin_size \div 2]
<1> DEFINE b == Bag(f, bin_size)
           m == bin_size \div 2
           lower(v) == {i \in 0 .. bin_size - 1 : f[i] \in MQ!Below(v)}
           equal(v) == PlacesOf(f, bin_size, v)
           middle(v) == /\ MQ!Times(b, MQ!Below(v)) <= m
                        /\ MQ!Times(b, MQ!Below(v)) + b[v] > m
<1>1. bin_size \in Nat /\ m \in 0 .. bin_size - 1 /\ bin_size \in 0 .. bin_size
  BY SMT
<1>2. \A v \in Values : MQ!Below(v) \subseteq Values
  BY DEF MQ!Below
<1>3. \A v \in Values : MQ!Times(b, MQ!Below(v)) = Cardinality(lower(v))
  BY <1>1, <1>2, TimesIsPlaces
<1>4. \A v \in Values : b[v] = Cardinality(equal(v))
  BY DEF Bag, PlacesOf
<1>5. \A v \in Values : lower(v) = {i \in 0 .. bin_size - 1 : f[i] < v}
  BY DEF MQ!Below
<1>6. \A v \in Values : equal(v) = {i \in 0 .. bin_size - 1 : f[i] = v}
  BY DEF PlacesOf
<1>7. \A i \in 0 .. bin_size - 1 : f[i] \in Int
  OBVIOUS
<1>8. \A v \in Values : v \in Int
  OBVIOUS
<1> HIDE DEF b, m, lower, equal
<1>9. ASSUME NEW v \in Values
      PROVE  /\ IsFiniteSet(lower(v)) /\ Cardinality(lower(v)) \in Nat
             /\ IsFiniteSet(lower(v) \cup equal(v))
             /\ Cardinality(lower(v) \cup equal(v)) = Cardinality(lower(v)) + Cardinality(equal(v))
             /\ lower(v) \cup equal(v) = {i \in 0 .. bin_size - 1 : f[i] <= v}
  <2>1. lower(v) \subseteq 0 .. bin_size - 1 /\ equal(v) \subseteq 0 .. bin_size - 1
    BY <1>5, <1>6
  <2>2. IsFiniteSet(lower(v)) /\ IsFiniteSet(equal(v))
    BY <1>1, <2>1, PartOfInterval
  <2>3. Cardinality(lower(v)) \in Nat
    BY <2>2, FS_CardinalityType
  <2>4. lower(v) \cap equal(v) = {}
    BY <1>5, <1>6, <1>7, <1>8, SMT
  <2>5. /\ IsFiniteSet(lower(v) \cup equal(v))
        /\ Cardinality(lower(v) \cup equal(v)) = Cardinality(lower(v)) + Cardinality(equal(v))
    <3>1. Cardinality(lower(v) \cap equal(v)) = 0
      BY <2>4, FS_EmptySet
    <3>2. Cardinality(lower(v)) \in Nat /\ Cardinality(equal(v)) \in Nat
      BY <2>2, FS_CardinalityType
    <3>3. /\ IsFiniteSet(lower(v) \cup equal(v))
          /\ Cardinality(lower(v) \cup equal(v)) =
               Cardinality(lower(v)) + Cardinality(equal(v)) - Cardinality(lower(v) \cap equal(v))
      BY <2>2, FS_Union
    <3> QED BY <3>1, <3>2, <3>3, SMT
  <2>6. lower(v) \cup equal(v) = {i \in 0 .. bin_size - 1 : f[i] <= v}
    BY <1>5, <1>6, <1>7, <1>8, SMT
  <2> QED BY <2>2, <2>3, <2>5, <2>6
<1>10. ASSUME NEW v \in Values
       PROVE  middle(v) <=> /\ Cardinality(lower(v)) <= m
                            /\ Cardinality(lower(v) \cup equal(v)) > m
  BY <1>3, <1>4, <1>9
<1> HIDE DEF middle
<1>11. \A i \in 0 .. bin_size - 1 : (i <= m => f[i] <= f[m]) /\ (m <= i => f[m] <= f[i])
  BY <1>1
<1>12. m \in Nat /\ f[m] \in Values
  BY <1>1, SMT
<1>13. middle(f[m])
  <2>1. lower(f[m]) \subseteq 0 .. m - 1
    <3> SUFFICES ASSUME NEW i \in 0 .. bin_size - 1, f[i] < f[m] PROVE i \in 0 .. m - 1
      BY <1>5, <1>12
    <3> QED BY <1>1, <1>7, <1>11, SMT
  <2>2. 0 .. m \subseteq lower(f[m]) \cup equal(f[m])
    <3> SUFFICES ASSUME NEW i \in 0 .. m PROVE i \in 0 .. bin_size - 1 /\ f[i] <= f[m]
      BY <1>9, <1>12
    <3>1. i \in 0 .. bin_size - 1 /\ i <= m
      BY <1>1, SMT
    <3> QED BY <1>11, <3>1
  <2>3. Cardinality(lower(f[m])) <= m
    <3>1. Cardinality(lower(f[m])) \in 0 .. m
      BY <1>12, <2>1, PartOfInterval
    <3> QED BY <1>12, <3>1, SMT
  <2>4. Cardinality(lower(f[m]) \cup equal(f[m])) > m
    <3>1. IsFiniteSet(lower(f[m]) \cup equal(f[m]))
      BY <1>9, <1>12
    <3> QED BY <1>12, <2>2, <3>1, AroundInterval
  <2> QED BY <1>10, <1>12, <2>3, <2>4
<1>14. ASSUME NEW v \in Values, middle(v)
       PROVE  v = f[m]
  <2>1. Cardinality(lower(v)) <= m /\ Cardinality(lower(v) \cup equal(v)) > m
    BY <1>10, <1>14
  <2>2. v \in Int /\ f[m] \in Int /\ Cardinality(lower(v)) \in Nat
    BY <1>8, <1>9, <1>12
  <2>3. ~ v < f[m]
    <3> SUFFICES ASSUME v < f[m] PROVE FALSE
      OBVIOUS
    <3>1. lower(v) \cup equal(v) \subseteq 0 .. m - 1
      <4> SUFFICES ASSUME NEW i \in 0 .. bin_size - 1, f[i] <= v PROVE i \in 0 .. m - 1
        BY <1>9
      <4> QED BY <1>1, <1>7, <1>11, <2>2, SMT
    <3>2. Cardinality(lower(v) \cup equal(v)) \in 0 .. m
      BY <1>12, <3>1, PartOfInterval
    <3> QED BY <1>12, <2>1, <3>2, SMT
  <2>4. ~ f[m] < v
    <3> SUFFICES ASSUME f[m] < v PROVE FALSE
      OBVIOUS
    <3>1. 0 .. m \subseteq lower(v)
      <4> SUFFICES ASSUME NEW i \in 0 .. m PROVE i \in 0 .. bin_size - 1 /\ f[i] < v
        BY <1>5
      <4>1. i \in 0 .. bin_size - 1 /\ i <= m
        BY <1>1, SMT
      <4>2. f[i] <= f[m] /\ f[i] \in Int
        BY <1>7, <1>11, <4>1
      <4> QED BY <2>2, <4>1, <4>2, SMT
    <3>2. IsFiniteSet(lower(v))
      BY <1>9
    <3>3. Cardinality(lower(v)) > m
      BY <1>12, <3>1, <3>2, AroundInterval
    <3> QED BY <1>12, <2>1, <2>2, <3>3, SMT
  <2> QED BY <2>2, <2>3, <2>4, SMT
<1>15. MQ!Median(b) = CHOOSE v \in Values : middle(v)
  BY DEF MQ!Median, middle, m
<1>16. (CHOOSE v \in Values : middle(v)) = f[m]
  BY <1>12, <1>13, <1>14
<1> QED BY <1>15, <1>16, Zenon DEF b, m

-----------------------------------------------------------------------------
(* A measurement joins the bag of those collected so far, in whichever arm *)
(* of afifo_write and wherever its scan stopped.                           *)
LEMMA PlacedIsCollected ==
    ASSUME IInv, NEW value \in Values, NEW filled \in 1 .. bin_size,
           PlaceInBin(value, filled)
    PROVE  Bag(bin', filled) = [Bag(bin, bin_head) EXCEPT ![value] = @ + 1]
<1>1. bin_head \in Nat /\ bin_head \in BinIndex /\ bin \in [BinIndex -> Int]
  BY SMT DEF IInv, TypeOK, BinIndex
<1>2. /\ filled = bin_head + 1
      /\ \E p \in 0 .. bin_head : InsertedAt(p, value, bin, bin', bin_head)
  <2>1. CASE bin_size > 1
    <3>1. PICK p \in 0 .. bin_head : bin' = Inserted(p, value)
      BY <2>1, SMT DEF PlaceInBin
    <3>2. filled = bin_head + 1
      BY <2>1, SMT DEF PlaceInBin
    <3>3. \A i \in 0 .. bin_head :
            bin'[i] = IF i = p THEN value ELSE IF i < p THEN bin[i] ELSE bin[i - 1]
      BY <1>1, <3>1, SMT DEF Inserted, BinIndex
    <3> QED BY <3>2, <3>3 DEF InsertedAt
  <2>2. CASE bin_size <= 1
    <3>1. bin_size = 1 /\ filled = 1 /\ bin' = [bin EXCEPT ![0] = value]
      BY <2>2, SMT DEF PlaceInBin
    <3>2. bin_head = 0 /\ bin'[0] = value
      BY <1>1, <3>1, SMT DEF BinIndex
    <3>3. InsertedAt(0, value, bin, bin', bin_head)
      BY <3>2, SMT DEF InsertedAt
    <3> QED BY <3>1, <3>2, <3>3, SMT
  <2> QED BY <2>1, <2>2, SMT
<1>3. PICK p \in 0 .. bin_head : InsertedAt(p, value, bin, bin', bin_head)
  BY <1>2
<1>4. \A u : Cardinality(PlacesOf(bin', bin_head + 1, u)) =
               IF u = value THEN Cardinality(PlacesOf(bin, bin_head, u)) + 1
                            ELSE Cardinality(PlacesOf(bin, bin_head, u))
  BY <1>1, <1>3, InsertedCounts
<1>5. Bag(bin', filled) = [u \in Values |-> Cardinality(PlacesOf(bin', bin_head + 1, u))]
  BY <1>2 DEF Bag, PlacesOf
<1>6. Bag(bin, bin_head) = [u \in Values |-> Cardinality(PlacesOf(bin, bin_head, u))]
  BY DEF Bag, PlacesOf
<1> DEFINE count(u) == Cardinality(PlacesOf(bin, bin_head, u))
<1>7. [Bag(bin, bin_head) EXCEPT ![value] = @ + 1] =
          [u \in Values |-> IF u = value THEN count(u) + 1 ELSE count(u)]
  BY <1>6
<1> QED BY <1>4, <1>5, <1>7

(* A write is a measurement joining the batch; the one that completes the  *)
(* batch puts its median into the queue.                                   *)
LEMMA WriteSamples ==
    ASSUME IInv, NEW value \in Values, afifo_write(value)
    PROVE  MQ!Sample(value)
<1> DEFINE collected == [Bag(bin, bin_head) EXCEPT ![value] = @ + 1]
<1>1. PICK filled \in 1 .. bin_size :
        /\ PlaceInBin(value, filled)
        /\ \/ filled >= bin_size /\ FlushBin
           \/ filled < bin_size /\ bin_head' = filled /\ UNCHANGED ring
  BY DEF afifo_write
<1>2. /\ \A i, j \in 0 .. filled - 1 : i <= j => bin'[i] <= bin'[j]
      /\ \A i \in 0 .. filled - 1 : bin'[i] \in Values
  BY <1>1, PlacedInOrder
<1>3. Bag(bin', filled) = collected
  BY <1>1, PlacedIsCollected
<1>4. MQ!Times(collected, Values) = filled
  <2>1. MQ!Times(Bag(bin', filled), Values) =
            Cardinality({i \in 0 .. filled - 1 : bin'[i] \in Values})
    <3>1. filled \in 0 .. bin_size
      BY SMT
    <3> QED BY <1>2, <3>1, TimesIsPlaces
  <2>2. {i \in 0 .. filled - 1 : bin'[i] \in Values} = 0 .. filled - 1
    BY <1>2
  <2>3. Cardinality(0 .. filled - 1) = filled
    BY FS_Interval, SMT
  <2> QED BY <1>3, <2>1, <2>2, <2>3
<1>5. out' = out
  BY DEF afifo_write
<1>6. [v \in Values |-> Cardinality({i \in 0 .. bin_head - 1 : bin[i] = v})] = Bag(bin, bin_head)
  BY DEF Bag
<1>7. [v \in Values |-> Cardinality({i \in 0 .. bin_head' - 1 : bin'[i] = v})] = Bag(bin', bin_head')
  BY DEF Bag
<1> HIDE DEF collected
<1>8. CASE filled < bin_size /\ bin_head' = filled /\ UNCHANGED ring
  <2>1. Contents' = Contents
    BY <1>8 DEF ring, Waiting, Contents, WaitingSlot
  <2>2. Bag(bin', bin_head') = collected
    BY <1>3, <1>8
  <2> QED BY <1>4, <1>5, <1>6, <1>7, <1>8, <2>1, <2>2 DEF MQ!Sample, collected
<1>9. CASE filled >= bin_size /\ FlushBin
  <2>1. filled = bin_size
    BY <1>9, SMT
  <2>2. MQ!Median(collected) = bin'[bin_size \div 2]
    BY <1>2, <1>3, <2>1, MiddleIsMedian
  <2>3. bin'[bin_size \div 2] \in Values
    BY <1>2, <2>1, SMT
  <2>4. Contents' = BQ!Enqueued(bin'[bin_size \div 2])
    BY <1>9, <2>3, FlushEnqueues DEF IInv
  <2>5. MQ!Queue!Put(MQ!Median(collected))
    BY <1>5, <2>2, <2>4 DEF MQ!Queue!Put, MQ!Queue!Enqueued, BQ!Enqueued
  <2>6. Bag(bin', bin_head') = MQ!NoMeasurements
    <3>1. bin_head' = 0
      BY <1>9 DEF FlushBin
    <3>2. 0 .. 0 - 1 = {}
      BY SMT
    <3>3. \A v \in Values : Cardinality({i \in 0 .. bin_head' - 1 : bin'[i] = v}) = 0
      BY <3>1, <3>2, FS_EmptySet
    <3> QED BY <3>3 DEF Bag, MQ!NoMeasurements
  <2>7. ~ MQ!Times(collected, Values) < bin_size
    BY <1>4, <2>1, SMT
  <2> QED BY <1>6, <1>7, <2>5, <2>6, <2>7 DEF MQ!Sample, collected
<1> QED BY <1>1, <1>8, <1>9

(* What the device reports is the median of each complete batch, in the    *)
(* order of the batches, and only the oldest are given up: afifo_write and *)
(* afifo_read together keep that promise (report.c:78-131).                *)
THEOREM AfifoIsMedianQueue == Spec => ImplementsMedianQueue
<1>1. Init => MQ!Init
  <2> SUFFICES ASSUME Init PROVE MQ!Init
    OBVIOUS
  <2>1. Waiting = 0
    BY SMT DEF Init, Waiting
  <2>2. Contents = <<>>
    BY <2>1, SMT DEF Contents
  <2>3. \A v \in Values : Cardinality({i \in 0 .. bin_head - 1 : bin[i] = v}) = 0
    <3>1. 0 .. 0 - 1 = {}
      BY SMT
    <3> QED BY <3>1, FS_EmptySet DEF Init
  <2>4. out = None
    BY DEF Init
  <2> QED BY <2>2, <2>3, <2>4 DEF MQ!Init, MQ!NoMeasurements, MQ!Queue!Init
<1>2. IInv /\ [Next]_vars => [MQ!Next]_(MQ!mvars)
  <2> SUFFICES ASSUME IInv, [Next]_vars
               PROVE  [MQ!Next]_(MQ!mvars)
    OBVIOUS
  <2>1. ASSUME NEW value \in Values, afifo_write(value)
        PROVE  MQ!Next
    BY <2>1, WriteSamples DEF MQ!Next
  <2>2. CASE afifo_read
    <3>1. BQ!Get \/ BQ!GetNothing
      BY <2>2, ReadDequeues DEF IInv
    <3>2. MQ!Queue!Get \/ MQ!Queue!GetNothing
      BY <3>1 DEF BQ!Get, BQ!GetNothing, MQ!Queue!Get, MQ!Queue!GetNothing
    <3>3. UNCHANGED <<bin, bin_head>>
      BY <2>2 DEF afifo_read
    <3>4. MQ!Read
      BY <3>2, <3>3 DEF MQ!Read
    <3> QED BY <3>4 DEF MQ!Next
  <2>3. CASE UNCHANGED vars
    BY <2>3 DEF vars, ring, Contents, Waiting, WaitingSlot, MQ!mvars
  <2> QED BY <2>1, <2>2, <2>3 DEF Next
<1> QED BY <1>1, <1>2, Invariance, PTL DEF Spec, ImplementsMedianQueue, MQ!Spec
=============================================================================
