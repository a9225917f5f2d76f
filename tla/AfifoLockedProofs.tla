------------------------- MODULE AfifoLockedProofs --------------------------
(***************************************************************************)
(* Two threads that take the afifo's mutex and work on its fields one      *)
(* statement after the other leave what the operations of Afifo leave, for *)
(* every bin size, ring size and set of values, and so what a bounded      *)
(* queue leaves.  No reader is inside of a freed afifo.                    *)
(***************************************************************************)
EXTENDS AfifoLocked, TLAPS

USE LockedAssumption

Fields == [bin : [BinIndex -> Int], bin_head : 0 .. bin_size,
           output_buffer : [Slot -> Int], head : Slot, tail : Slot]

Writing == {"scan", "full", "store", "overtake", "unlock"}
Reading == {"test", "fetch", "unlock"}

LockedTypeOK ==
    /\ fields \in Fields
    /\ before \in Fields
    /\ mutex \in {"free", "writer", "reader", "destroyer"}
    /\ pc \in [writer : Writing \cup {"idle", "gone"}, reader : Reading \cup {"idle", "lock"}]
    /\ local \in [value : Values \cup {None}, head : BinIndex, result : Int \cup {None}]

(* The mutex is held by whoever is between its lock and its unlock.        *)
Exclusive ==
    /\ mutex = "writer" <=> pc.writer \in Writing
    /\ mutex = "reader" <=> pc.reader \in Reading
    /\ mutex = "destroyer" <=> pc.writer = "gone"

(* What was found when the mutex was taken, and what is there while no     *)
(* write is under way, is a bin that is not full.                          *)
RoomForOne ==
    /\ before.bin_head < bin_size
    /\ pc.writer \notin Writing => fields.bin_head < bin_size

(* The part of the bin above p was moved up by one: all of it is greater   *)
(* than the value to be placed.                                            *)
MovedUp(p) ==
    /\ p \in 0 .. before.bin_head
    /\ \A i \in BinIndex :
          /\ i < p \/ i > before.bin_head => fields.bin[i] = before.bin[i]
          /\ i > p /\ i <= before.bin_head => fields.bin[i] = before.bin[i - 1]
    /\ \A i \in p .. before.bin_head - 1 : before.bin[i] > local.value

Placed ==
    /\ local.value \in Values
    /\ \E p \in 0 .. before.bin_head :
          /\ MovedUp(p)
          /\ fields.bin[p] = local.value
          /\ p > 0 => before.bin[p - 1] <= local.value

SameRing ==
    /\ fields.output_buffer = before.output_buffer
    /\ fields.head = before.head
    /\ fields.tail = before.tail

(* After the bin turned out to be full.                                    *)
Flushed ==
    /\ Placed
    /\ before.bin_head + 1 = bin_size
    /\ fields.bin_head = 0
    /\ fields.head = Advance(before.head)

Median == [before.output_buffer EXCEPT ![fields.head] = fields.bin[bin_size \div 2]]

(* How far afifo_write has come from what it found.                        *)
WriteUnderWay ==
    /\ pc.writer = "scan" => /\ SameRing
                             /\ local.value \in Values
                             /\ fields.bin_head = before.bin_head
                             /\ MovedUp(local.head)
    /\ pc.writer = "full" => /\ SameRing
                             /\ Placed
                             /\ fields.bin_head = before.bin_head + 1
    /\ pc.writer = "store" => /\ Flushed
                              /\ fields.output_buffer = before.output_buffer
                              /\ fields.tail = before.tail
    /\ pc.writer = "overtake" => /\ Flushed
                                 /\ fields.output_buffer = Median
                                 /\ fields.tail = before.tail
    /\ pc.writer = "unlock" => /\ Flushed
                               /\ fields.output_buffer = Median
                               /\ fields.tail = IF fields.head = before.tail
                                                THEN Advance(before.tail) ELSE before.tail

(* And afifo_read.                                                         *)
ReadUnderWay ==
    /\ pc.reader = "test" => fields = before
    /\ pc.reader \in {"fetch", "unlock"} =>
          /\ before.head # before.tail
          /\ fields = [before EXCEPT !.tail = Advance(before.tail)]
    /\ pc.reader = "unlock" => local.result = fields.output_buffer[fields.tail]

LockedInv ==
    /\ LockedTypeOK
    /\ Exclusive
    /\ RoomForOne
    /\ WriteUnderWay
    /\ ReadUnderWay

(* Nothing that the other thread may see changes.                          *)
Still == Seen' = Seen /\ out' = out

-----------------------------------------------------------------------------
LEMMA AdvanceInSlot == \A s \in Slot : Advance(s) \in Slot
BY DEF Advance, Slot

LEMMA BeforeInBin == LockedInv => before.bin_head \in BinIndex
BY DEF LockedInv, LockedTypeOK, RoomForOne, Fields, BinIndex

LEMMA InitLockedInv == Init => LockedInv /\ Atomic!Init
<1> SUFFICES ASSUME Init PROVE LockedInv /\ Atomic!Init
  OBVIOUS
<1>1. LockedTypeOK
  BY DEF Init, LockedTypeOK, Fields, Writing, Reading, BinIndex, Slot
<1>2. Exclusive /\ RoomForOne /\ WriteUnderWay /\ ReadUnderWay
  BY DEF Init, Exclusive, RoomForOne, WriteUnderWay, ReadUnderWay, Writing, Reading
<1>3. Atomic!Init
  BY DEF Init, Seen, Atomic!Init, Atomic!BinIndex, Atomic!Slot, BinIndex, Slot
<1> QED BY <1>1, <1>2, <1>3 DEF LockedInv

-----------------------------------------------------------------------------
(* afifo_write, statement by statement.                                    *)
LEMMA WriteLockKeeps ==
    ASSUME LockedInv, NEW value \in Values, WriteLock(value)
    PROVE  LockedInv' /\ Still
<1>1. /\ pc.writer = "idle" /\ pc' = [pc EXCEPT !["writer"] = "scan"]
      /\ mutex = "free" /\ mutex' = "writer" /\ before' = fields
      /\ UNCHANGED <<fields, out>>
      /\ local' = [local EXCEPT !.value = value, !.head = fields.bin_head]
  BY DEF WriteLock, Goto, Lock
<1>2. pc.reader \in {"idle", "lock"} /\ pc'.writer = "scan" /\ pc'.reader = pc.reader
  BY <1>1 DEF LockedInv, LockedTypeOK, Exclusive
<1>3. fields.bin_head \in BinIndex
  BY <1>1 DEF LockedInv, LockedTypeOK, RoomForOne, Fields, BinIndex, Writing
<1>4. LockedTypeOK'
  BY <1>1, <1>3 DEF LockedInv, LockedTypeOK, Writing
<1>5. Exclusive' /\ RoomForOne' /\ ReadUnderWay'
  BY <1>1, <1>2, <1>3 DEF LockedInv, Exclusive, RoomForOne, ReadUnderWay, Writing,
                          Reading, BinIndex
<1>6. /\ before'.bin_head = fields.bin_head /\ before'.bin = fields.bin /\ fields' = fields
      /\ local'.value = value /\ local'.head = fields.bin_head
  BY <1>1 DEF LockedInv, LockedTypeOK
<1>7. MovedUp(local.head)'
  BY <1>3, <1>6 DEF MovedUp, BinIndex
<1>8. WriteUnderWay'
  BY <1>1, <1>2, <1>6, <1>7 DEF WriteUnderWay, SameRing
<1>9. Still
  BY <1>1 DEF Still, Seen
<1> QED BY <1>4, <1>5, <1>8, <1>9 DEF LockedInv

LEMMA MoveUpKeeps ==
    ASSUME LockedInv, MoveUp
    PROVE  LockedInv' /\ Still
<1>1. /\ pc.writer = "scan" /\ pc' = [pc EXCEPT !["writer"] = "scan"]
      /\ local.head > 0 /\ fields.bin[local.head - 1] > local.value
      /\ fields' = [fields EXCEPT !.bin[local.head] = fields.bin[local.head - 1]]
      /\ UNCHANGED <<mutex, out, before>>
      /\ local' = [local EXCEPT !.head = @ - 1]
  BY DEF MoveUp, Goto, Greater, Assign
<1>2. mutex = "writer" /\ pc.reader \in {"idle", "lock"} /\ pc' = pc
  BY <1>1 DEF LockedInv, LockedTypeOK, Exclusive, Writing
<1>0. local.head - 1 \in BinIndex
  BY <1>1 DEF LockedInv, LockedTypeOK, BinIndex
<1>3. /\ local.head \in BinIndex
      /\ fields.bin \in [BinIndex -> Int] /\ before.bin \in [BinIndex -> Int]
      /\ fields.bin_head = before.bin_head
      /\ SameRing /\ local.value \in Values /\ MovedUp(local.head)
  BY <1>1 DEF LockedInv, LockedTypeOK, WriteUnderWay, Fields
<1>4. /\ fields'.bin = [fields.bin EXCEPT ![local.head] = fields.bin[local.head - 1]]
      /\ fields'.bin_head = fields.bin_head /\ fields'.output_buffer = fields.output_buffer
      /\ fields'.head = fields.head /\ fields'.tail = fields.tail
      /\ local'.head = local.head - 1 /\ local'.value = local.value
  BY <1>1 DEF LockedInv, LockedTypeOK, Fields
<1>5. fields' \in Fields
  BY <1>0, <1>1, <1>3 DEF LockedInv, LockedTypeOK, Fields
<1>6. LockedTypeOK'
  BY <1>0, <1>1, <1>2, <1>5 DEF LockedInv, LockedTypeOK
<1>7. Exclusive' /\ RoomForOne' /\ ReadUnderWay'
  BY <1>1, <1>2 DEF LockedInv, Exclusive, RoomForOne, ReadUnderWay, Writing, Reading
<1>8. fields.bin[local.head - 1] = before.bin[local.head - 1]
  <2>1. local.head - 1 < local.head
    BY <1>3 DEF BinIndex
  <2> QED BY <1>0, <1>3, <2>1 DEF MovedUp
<1>9. MovedUp(local.head)'
  <2>0. local.head \in 0 .. before.bin_head
    BY <1>3 DEF MovedUp
  <2>1. before.bin_head \in Nat /\ local.head - 1 \in 0 .. before.bin_head
    BY <1>0, <2>0, BeforeInBin DEF BinIndex
  <2>2. ASSUME NEW i \in BinIndex
        PROVE  /\ i < local.head - 1 \/ i > before.bin_head => fields'.bin[i] = before.bin[i]
               /\ i > local.head - 1 /\ i <= before.bin_head => fields'.bin[i] = before.bin[i - 1]
    <3>0. i \in Int /\ local.head \in Int /\ before.bin_head \in Int
      BY <2>0, <2>1 DEF BinIndex
    <3>1. CASE i = local.head
      <4>1. fields'.bin[i] = before.bin[i - 1]
        BY <1>3, <1>4, <1>8, <3>1
      <4>2. ~(i < local.head - 1 \/ i > before.bin_head)
        BY <2>0, <3>0, <3>1
      <4> QED BY <4>1, <4>2
    <3>2. CASE i # local.head
      <4>1. fields'.bin[i] = fields.bin[i]
        BY <1>3, <1>4, <3>2
      <4>2. /\ i < local.head \/ i > before.bin_head => fields.bin[i] = before.bin[i]
            /\ i > local.head /\ i <= before.bin_head => fields.bin[i] = before.bin[i - 1]
        BY <1>3 DEF MovedUp
      <4>3. /\ i < local.head - 1 => i < local.head
            /\ i > local.head - 1 => i > local.head
        BY <3>0, <3>2
      <4> QED BY <4>1, <4>2, <4>3
    <3> QED BY <3>1, <3>2
  <2>3. ASSUME NEW i \in local.head - 1 .. before.bin_head - 1
        PROVE  before.bin[i] > local.value
    <3>1. CASE i = local.head - 1
      BY <1>1, <1>8, <3>1
    <3>2. CASE i # local.head - 1
      <4>1. i \in local.head .. before.bin_head - 1
        BY <2>0, <2>1, <3>2
      <4> QED BY <1>3, <4>1 DEF MovedUp
    <3> QED BY <3>1, <3>2
  <2> QED BY <1>1, <1>4, <2>1, <2>2, <2>3 DEF MovedUp
<1>10. WriteUnderWay'
  BY <1>1, <1>2, <1>3, <1>4, <1>9 DEF WriteUnderWay, SameRing
<1>11. Still
  BY <1>1, <1>2 DEF Still, Seen
<1> QED BY <1>6, <1>7, <1>10, <1>11 DEF LockedInv

LEMMA PlaceKeeps ==
    ASSUME LockedInv, Place
    PROVE  LockedInv' /\ Still
<1>1. /\ pc.writer = "scan" /\ pc' = [pc EXCEPT !["writer"] = "full"]
      /\ ~(local.head > 0 /\ fields.bin[local.head - 1] > local.value)
      /\ fields' = [fields EXCEPT !.bin[local.head] = local.value, !.bin_head = @ + 1]
      /\ UNCHANGED <<mutex, out, before, local>>
  BY DEF Place, Goto, Greater, Assign
<1>2. /\ mutex = "writer" /\ pc.reader \in {"idle", "lock"}
      /\ pc'.writer = "full" /\ pc'.reader = pc.reader
  BY <1>1 DEF LockedInv, LockedTypeOK, Exclusive, Writing
<1>3. /\ local.head \in BinIndex /\ local.value \in Int
      /\ fields.bin \in [BinIndex -> Int] /\ before.bin \in [BinIndex -> Int]
      /\ before.bin_head \in BinIndex /\ fields.bin_head = before.bin_head
      /\ SameRing /\ local.value \in Values /\ MovedUp(local.head)
  <2>1. local.value \in Values /\ local.value \in Int
    BY <1>1 DEF LockedInv, WriteUnderWay
  <2>2. before.bin_head \in BinIndex
    BY BeforeInBin
  <2> QED BY <1>1, <2>1, <2>2 DEF LockedInv, LockedTypeOK, WriteUnderWay, Fields
<1>4. /\ fields'.bin = [fields.bin EXCEPT ![local.head] = local.value]
      /\ fields'.bin_head = fields.bin_head + 1 /\ fields'.output_buffer = fields.output_buffer
      /\ fields'.head = fields.head /\ fields'.tail = fields.tail
  BY <1>1 DEF LockedInv, LockedTypeOK, Fields
<1>5. fields' \in Fields
  <2>1. before.bin_head + 1 \in 0 .. bin_size
    <3>1. before.bin_head \in BinIndex
      BY <1>3
    <3> QED BY <3>1 DEF BinIndex
  <2>2. fields'.bin \in [BinIndex -> Int]
    BY <1>3, <1>4
  <2> QED BY <1>1, <1>3, <1>4, <2>1, <2>2 DEF LockedInv, LockedTypeOK, Fields
<1>6. LockedTypeOK'
  BY <1>1, <1>5 DEF LockedInv, LockedTypeOK, Writing
<1>7. Exclusive' /\ RoomForOne' /\ ReadUnderWay'
  BY <1>1, <1>2 DEF LockedInv, Exclusive, RoomForOne, ReadUnderWay, Writing, Reading
<1>8. MovedUp(local.head)'
  <2>1. local.head \in 0 .. before.bin_head /\ local.head \in Int /\ before.bin_head \in Int
    BY <1>3 DEF MovedUp, BinIndex
  <2>2. ASSUME NEW i \in BinIndex
        PROVE  /\ i < local.head \/ i > before.bin_head => fields'.bin[i] = before.bin[i]
               /\ i > local.head /\ i <= before.bin_head => fields'.bin[i] = before.bin[i - 1]
    <3>1. /\ i < local.head \/ i > before.bin_head => fields.bin[i] = before.bin[i]
          /\ i > local.head /\ i <= before.bin_head => fields.bin[i] = before.bin[i - 1]
      BY <1>3 DEF MovedUp
    <3>2. CASE i # local.head
      <4>1. fields'.bin[i] = fields.bin[i]
        BY <1>3, <1>4, <3>2
      <4> QED BY <3>1, <4>1
    <3>3. CASE i = local.head
      <4>1. ~(local.head < local.head \/ local.head > before.bin_head) /\ ~(local.head > local.head)
        BY <2>1
      <4> QED BY <3>3, <4>1
    <3> QED BY <3>2, <3>3
  <2>3. \A i \in local.head .. before.bin_head - 1 : before.bin[i] > local.value
    BY <1>3 DEF MovedUp
  <2> QED BY <1>1, <2>1, <2>2, <2>3 DEF MovedUp
<1>9. ASSUME local.head > 0 PROVE before.bin[local.head - 1] <= local.value
  <2>0. local.head \in Nat /\ local.head < bin_size
    BY <1>3 DEF BinIndex
  <2>1. local.head - 1 \in BinIndex /\ local.head - 1 < local.head
    BY <1>9, <2>0 DEF BinIndex
  <2>2. fields.bin[local.head - 1] = before.bin[local.head - 1]
    BY <1>3, <2>1 DEF MovedUp
  <2>3. before.bin[local.head - 1] \in Int
    BY <1>3, <2>1
  <2> QED BY <1>1, <1>3, <1>9, <2>2, <2>3
<1>10. local.head \in 0 .. before.bin_head /\ fields'.bin[local.head] = local.value
  BY <1>3, <1>4 DEF MovedUp
<1>11. Placed'
  BY <1>1, <1>3, <1>8, <1>9, <1>10 DEF Placed
<1>12. WriteUnderWay'
  BY <1>1, <1>2, <1>3, <1>4, <1>11 DEF WriteUnderWay, SameRing
<1>13. Still
  BY <1>1, <1>2 DEF Still, Seen
<1> QED BY <1>6, <1>7, <1>12, <1>13 DEF LockedInv

(* The bin does not change any more once the value is placed.              *)
LEMMA PlacedStays ==
    ASSUME Placed, UNCHANGED <<local, before>>, fields'.bin = fields.bin
    PROVE  Placed'
BY DEF Placed, MovedUp

LEMMA AdvanceHeadKeeps ==
    ASSUME LockedInv, AdvanceHead
    PROVE  LockedInv' /\ Still
<1>1. /\ pc.writer = "full" /\ pc' = [pc EXCEPT !["writer"] = "store"]
      /\ fields.bin_head >= bin_size
      /\ fields' = [fields EXCEPT !.bin_head = 0, !.head = Advance(@)]
      /\ UNCHANGED <<mutex, out, before, local>>
  BY DEF AdvanceHead, Goto, Assign
<1>2. /\ mutex = "writer" /\ pc.reader \in {"idle", "lock"}
      /\ pc'.writer = "store" /\ pc'.reader = pc.reader
  BY <1>1 DEF LockedInv, LockedTypeOK, Exclusive, Writing
<1>3. /\ SameRing /\ Placed /\ fields.bin_head = before.bin_head + 1
      /\ before.bin_head + 1 = bin_size
  BY <1>1 DEF LockedInv, LockedTypeOK, Fields, WriteUnderWay, RoomForOne
<1>4. /\ fields'.bin = fields.bin /\ fields'.bin_head = 0
      /\ fields'.output_buffer = fields.output_buffer
      /\ fields'.head = Advance(fields.head) /\ fields'.tail = fields.tail
  BY <1>1 DEF LockedInv, LockedTypeOK, Fields
<1>5. fields' \in Fields
  <2>1. 0 \in 0 .. bin_size /\ Advance(fields.head) \in Slot
    BY AdvanceInSlot DEF LockedInv, LockedTypeOK, Fields
  <2> QED BY <1>1, <2>1 DEF LockedInv, LockedTypeOK, Fields
<1>6. LockedTypeOK'
  BY <1>1, <1>5 DEF LockedInv, LockedTypeOK, Writing
<1>7. Exclusive' /\ RoomForOne' /\ ReadUnderWay'
  BY <1>1, <1>2 DEF LockedInv, Exclusive, RoomForOne, ReadUnderWay, Writing, Reading
<1>8. Placed'
  BY <1>1, <1>3, <1>4, PlacedStays
<1>9. WriteUnderWay'
  BY <1>1, <1>2, <1>3, <1>4, <1>8 DEF WriteUnderWay, SameRing, Flushed, Advance
<1>10. Still
  BY <1>1, <1>2 DEF Still, Seen
<1> QED BY <1>6, <1>7, <1>9, <1>10 DEF LockedInv

LEMMA StoreKeeps ==
    ASSUME LockedInv, Store
    PROVE  LockedInv' /\ Still
<1>1. /\ pc.writer = "store" /\ pc' = [pc EXCEPT !["writer"] = "overtake"]
      /\ fields' = [fields EXCEPT !.output_buffer[fields.head] = fields.bin[bin_size \div 2]]
      /\ UNCHANGED <<mutex, out, before, local>>
  BY DEF Store, Goto, Assign
<1>2. /\ mutex = "writer" /\ pc.reader \in {"idle", "lock"}
      /\ pc'.writer = "overtake" /\ pc'.reader = pc.reader
  BY <1>1 DEF LockedInv, LockedTypeOK, Exclusive, Writing
<1>3. /\ Flushed /\ fields.output_buffer = before.output_buffer /\ fields.tail = before.tail
  BY <1>1 DEF LockedInv, WriteUnderWay
<1>4. /\ fields'.bin = fields.bin /\ fields'.bin_head = fields.bin_head
      /\ fields'.output_buffer =
           [fields.output_buffer EXCEPT ![fields.head] = fields.bin[bin_size \div 2]]
      /\ fields'.head = fields.head /\ fields'.tail = fields.tail
  BY <1>1 DEF LockedInv, LockedTypeOK, Fields
<1>5. bin_size \div 2 \in BinIndex
  BY DEF BinIndex
<1>6. fields' \in Fields
  BY <1>1, <1>5 DEF LockedInv, LockedTypeOK, Fields
<1>7. LockedTypeOK'
  BY <1>1, <1>6 DEF LockedInv, LockedTypeOK, Writing
<1>8. Exclusive' /\ RoomForOne' /\ ReadUnderWay'
  BY <1>1, <1>2 DEF LockedInv, Exclusive, RoomForOne, ReadUnderWay, Writing, Reading
<1>9. Placed'
  BY <1>1, <1>3, <1>4, PlacedStays DEF Flushed
<1>10. Flushed'
  BY <1>1, <1>3, <1>4, <1>9 DEF Flushed, Advance
<1>11. WriteUnderWay'
  BY <1>1, <1>2, <1>3, <1>4, <1>10 DEF WriteUnderWay, Median
<1>12. Still
  BY <1>1, <1>2 DEF Still, Seen
<1> QED BY <1>7, <1>8, <1>11, <1>12 DEF LockedInv

LEMMA OvertakeKeeps ==
    ASSUME LockedInv, Overtake
    PROVE  LockedInv' /\ Still
<1>1. /\ pc.writer = "overtake" /\ pc' = [pc EXCEPT !["writer"] = "unlock"]
      /\ fields' = [fields EXCEPT !.tail = IF fields.head = @ THEN Advance(@) ELSE @]
      /\ UNCHANGED <<mutex, out, before, local>>
  BY DEF Overtake, Goto, Assign
<1>2. /\ mutex = "writer" /\ pc.reader \in {"idle", "lock"}
      /\ pc'.writer = "unlock" /\ pc'.reader = pc.reader
  BY <1>1 DEF LockedInv, LockedTypeOK, Exclusive, Writing
<1>3. /\ Flushed /\ fields.output_buffer = Median /\ fields.tail = before.tail
  BY <1>1 DEF LockedInv, WriteUnderWay
<1>4. /\ fields'.bin = fields.bin /\ fields'.bin_head = fields.bin_head
      /\ fields'.output_buffer = fields.output_buffer /\ fields'.head = fields.head
      /\ fields'.tail = IF fields.head = fields.tail THEN Advance(fields.tail) ELSE fields.tail
  BY <1>1 DEF LockedInv, LockedTypeOK, Fields
<1>5. fields' \in Fields
  BY <1>1, AdvanceInSlot DEF LockedInv, LockedTypeOK, Fields
<1>6. LockedTypeOK'
  BY <1>1, <1>5 DEF LockedInv, LockedTypeOK, Writing
<1>7. Exclusive' /\ RoomForOne' /\ ReadUnderWay'
  BY <1>1, <1>2 DEF LockedInv, Exclusive, RoomForOne, ReadUnderWay, Writing, Reading
<1>8. Placed'
  BY <1>1, <1>3, <1>4, PlacedStays DEF Flushed
<1>9. Flushed' /\ Median' = Median
  BY <1>1, <1>3, <1>4, <1>8 DEF Flushed, Advance, Median
<1>10. WriteUnderWay'
  BY <1>1, <1>2, <1>3, <1>4, <1>9 DEF WriteUnderWay, Advance
<1>11. Still
  BY <1>1, <1>2 DEF Still, Seen
<1> QED BY <1>6, <1>7, <1>10, <1>11 DEF LockedInv

(* The value was inserted where the scan of the atomic operation stops.    *)
LEMMA PlacedIsInserted ==
    ASSUME LockedInv, Placed, Seen = before
    PROVE  \E p \in 0 .. before.bin_head :
              Atomic!StopsAt(p, local.value) /\ fields.bin = Atomic!Inserted(p, local.value)
<1>1. PICK p \in 0 .. before.bin_head :
        MovedUp(p) /\ fields.bin[p] = local.value /\ (p > 0 => before.bin[p - 1] <= local.value)
  BY DEF Placed
<1>2. before.bin_head \in BinIndex /\ fields.bin \in [BinIndex -> Int]
  BY BeforeInBin DEF LockedInv, LockedTypeOK, Fields
<1>3. Atomic!StopsAt(p, local.value)
  BY <1>1 DEF Atomic!StopsAt, MovedUp
<1>4. ASSUME NEW i \in BinIndex
      PROVE  fields.bin[i] = IF i = p THEN local.value
                             ELSE IF i \in p + 1 .. before.bin_head
                             THEN before.bin[i - 1] ELSE before.bin[i]
  <2>1. i \in Int /\ p \in Int /\ before.bin_head \in Int
    BY <1>2 DEF BinIndex
  <2>2. CASE i = p
    BY <1>1, <2>2
  <2>3. CASE i \in p + 1 .. before.bin_head
    BY <1>1, <2>1, <2>3 DEF MovedUp
  <2>4. CASE i < p \/ i > before.bin_head
    BY <1>1, <2>1, <2>4 DEF MovedUp
  <2> QED BY <2>1, <2>2, <2>3, <2>4
<1>5. fields.bin = Atomic!Inserted(p, local.value)
  BY <1>2, <1>4 DEF Atomic!Inserted, Atomic!BinIndex, BinIndex
<1> QED BY <1>3, <1>5

LEMMA PlacedAtomically ==
    ASSUME LockedInv, Placed, Seen = before, Seen'.bin = fields.bin
    PROVE  Atomic!PlaceInBin(local.value, before.bin_head + 1)
<1>1. CASE bin_size > 1
  BY <1>1, PlacedIsInserted DEF Atomic!PlaceInBin
<1>2. CASE bin_size <= 1
  <2>1. bin_size = 1 /\ BinIndex = {0} /\ before.bin_head = 0
    BY <1>2, BeforeInBin DEF BinIndex
  <2>2. fields.bin[0] = local.value
    BY <2>1 DEF Placed
  <2>3. fields.bin \in [{0} -> Int] /\ before.bin \in [{0} -> Int]
    BY <2>1 DEF LockedInv, LockedTypeOK, Fields
  <2>4. fields.bin = [before.bin EXCEPT ![0] = local.value]
    BY <2>2, <2>3
  <2> QED BY <1>2, <2>1, <2>4 DEF Atomic!PlaceInBin
<1> QED BY <1>1, <1>2

LEMMA WriteUnlockKeeps ==
    ASSUME LockedInv, WriteUnlock
    PROVE  LockedInv' /\ Atomic!Next
<1>1. /\ pc' = [pc EXCEPT !["writer"] = "idle"]
      /\ pc.writer = "unlock" \/ (pc.writer = "full" /\ fields.bin_head < bin_size)
      /\ mutex' = "free" /\ UNCHANGED <<fields, local, before, out>>
  BY DEF WriteUnlock, Goto, Unlock
<1>2. /\ mutex = "writer" /\ pc.reader \in {"idle", "lock"}
      /\ pc'.writer = "idle" /\ pc'.reader = pc.reader
  BY <1>1 DEF LockedInv, LockedTypeOK, Exclusive, Writing
<1>3. Seen = before /\ Seen' = fields
  BY <1>1, <1>2 DEF Seen
<1>4. Placed /\ fields.bin_head < bin_size
  BY <1>1 DEF LockedInv, WriteUnderWay, Flushed
<1>5. LockedTypeOK'
  BY <1>1 DEF LockedInv, LockedTypeOK, Writing
<1>6. Exclusive' /\ RoomForOne' /\ ReadUnderWay' /\ WriteUnderWay'
  BY <1>1, <1>2, <1>4 DEF LockedInv, Exclusive, RoomForOne, ReadUnderWay,
                          WriteUnderWay, Writing, Reading
<1>7. Atomic!PlaceInBin(local.value, before.bin_head + 1)
  BY <1>3, <1>4, PlacedAtomically
<1>8. before.bin_head + 1 \in 1 .. bin_size
  BY BeforeInBin DEF BinIndex
<1>9. Atomic!afifo_write(local.value)
  <2>1. CASE pc.writer = "unlock"
    <3>1. Flushed /\ fields.output_buffer = Median
          /\ fields.tail = IF fields.head = before.tail THEN Advance(before.tail) ELSE before.tail
      BY <2>1 DEF LockedInv, WriteUnderWay
    <3>2. Atomic!FlushBin
      BY <1>3, <3>1 DEF Atomic!FlushBin, Flushed, Median, Advance, Atomic!Advance
    <3> QED BY <1>1, <1>7, <1>8, <3>1, <3>2 DEF Atomic!afifo_write, Flushed
  <2>2. CASE pc.writer = "full" /\ fields.bin_head < bin_size
    <3>1. SameRing /\ fields.bin_head = before.bin_head + 1
      BY <2>2 DEF LockedInv, WriteUnderWay
    <3> QED BY <1>1, <1>3, <1>7, <1>8, <2>2, <3>1 DEF Atomic!afifo_write, SameRing, Atomic!ring
  <2> QED BY <1>1, <2>1, <2>2
<1> QED BY <1>4, <1>5, <1>6, <1>9 DEF LockedInv, Placed, Atomic!Next

-----------------------------------------------------------------------------
(* afifo_read.                                                             *)
LEMMA ReadCalledKeeps ==
    ASSUME LockedInv, ReadCalled
    PROVE  LockedInv' /\ Still
<1>1. /\ pc.reader = "idle" /\ pc' = [pc EXCEPT !["reader"] = "lock"]
      /\ fields' = fields /\ UNCHANGED <<mutex, out, before, local>>
  BY DEF ReadCalled, Goto, Assign
<1>2. pc'.reader = "lock" /\ pc'.writer = pc.writer
  BY <1>1 DEF LockedInv, LockedTypeOK
<1>3. LockedTypeOK'
  BY <1>1 DEF LockedInv, LockedTypeOK
<1>4. Exclusive' /\ RoomForOne'
  BY <1>1, <1>2 DEF LockedInv, Exclusive, RoomForOne, Writing, Reading
<1>5. WriteUnderWay' /\ ReadUnderWay'
  BY <1>1, <1>2 DEF LockedInv, ReadUnderWay, WriteUnderWay, SameRing, Flushed, Median, Placed, MovedUp
<1>6. Still
  BY <1>1 DEF Still, Seen
<1> QED BY <1>3, <1>4, <1>5, <1>6 DEF LockedInv

LEMMA ReadLockKeeps ==
    ASSUME LockedInv, ReadLock
    PROVE  LockedInv' /\ Still
<1>1. /\ pc.reader = "lock" /\ pc' = [pc EXCEPT !["reader"] = "test"]
      /\ mutex = "free" /\ mutex' = "reader" /\ before' = fields
      /\ UNCHANGED <<fields, out, local>>
  BY DEF ReadLock, Goto, Lock
<1>2. pc'.reader = "test" /\ pc'.writer = pc.writer /\ pc.writer = "idle"
  BY <1>1 DEF LockedInv, LockedTypeOK, Exclusive, Writing
<1>3. LockedTypeOK'
  BY <1>1 DEF LockedInv, LockedTypeOK, Reading
<1>4. Exclusive' /\ RoomForOne' /\ WriteUnderWay' /\ ReadUnderWay'
  BY <1>1, <1>2 DEF LockedInv, Exclusive, RoomForOne, ReadUnderWay, WriteUnderWay,
                    Writing, Reading
<1>5. Still
  BY <1>1 DEF Still, Seen
<1> QED BY <1>3, <1>4, <1>5 DEF LockedInv

(* The mutex is the reader's from its lock to its unlock.                  *)
LEMMA ReaderInside ==
    ASSUME LockedInv, pc.reader \in Reading
    PROVE  mutex = "reader" /\ Seen = before /\ pc.writer = "idle" /\ fields.bin_head < bin_size
BY DEF LockedInv, LockedTypeOK, Exclusive, RoomForOne, Seen, Reading, Writing

LEMMA ReadNothingKeeps ==
    ASSUME LockedInv, ReadNothing
    PROVE  LockedInv' /\ Atomic!Next
<1>1. /\ pc.reader = "test" /\ pc' = [pc EXCEPT !["reader"] = "idle"]
      /\ fields.head = fields.tail /\ out' = None
      /\ mutex' = "free" /\ UNCHANGED <<fields, local, before>>
  BY DEF ReadNothing, Goto, Unlock
<1>2. /\ mutex = "reader" /\ Seen = before /\ pc.writer = "idle" /\ fields.bin_head < bin_size
      /\ pc'.reader = "idle" /\ pc'.writer = pc.writer
  BY <1>1, ReaderInside DEF LockedInv, LockedTypeOK, Reading
<1>3. LockedTypeOK'
  BY <1>1 DEF LockedInv, LockedTypeOK
<1>4. Exclusive' /\ RoomForOne' /\ WriteUnderWay' /\ ReadUnderWay'
  BY <1>1, <1>2 DEF LockedInv, Exclusive, RoomForOne, ReadUnderWay, WriteUnderWay,
                    Writing, Reading
<1>5. fields = before /\ Seen' = before
  BY <1>1 DEF LockedInv, ReadUnderWay, Seen
<1>6. Atomic!afifo_read
  BY <1>1, <1>2, <1>5 DEF Atomic!afifo_read
<1> QED BY <1>3, <1>4, <1>6 DEF LockedInv, Atomic!Next

LEMMA AdvanceTailKeeps ==
    ASSUME LockedInv, AdvanceTail
    PROVE  LockedInv' /\ Still
<1>1. /\ pc.reader = "test" /\ pc' = [pc EXCEPT !["reader"] = "fetch"]
      /\ fields.head # fields.tail
      /\ fields' = [fields EXCEPT !.tail = Advance(@)]
      /\ UNCHANGED <<mutex, out, before, local>>
  BY DEF AdvanceTail, Goto, Assign
<1>2. /\ mutex = "reader" /\ Seen = before /\ pc.writer = "idle" /\ fields.bin_head < bin_size
      /\ pc'.reader = "fetch" /\ pc'.writer = pc.writer
  BY <1>1, ReaderInside DEF LockedInv, LockedTypeOK, Reading
<1>3. fields = before
  BY <1>1 DEF LockedInv, ReadUnderWay
<1>4. fields' \in Fields /\ fields'.bin_head = fields.bin_head
  BY <1>1, AdvanceInSlot DEF LockedInv, LockedTypeOK, Fields
<1>5. LockedTypeOK'
  BY <1>1, <1>4 DEF LockedInv, LockedTypeOK, Reading
<1>6. Exclusive' /\ RoomForOne' /\ WriteUnderWay'
  BY <1>1, <1>2, <1>4 DEF LockedInv, Exclusive, RoomForOne, WriteUnderWay,
                          Writing, Reading
<1>7. ReadUnderWay'
  BY <1>1, <1>2, <1>3 DEF ReadUnderWay, Advance
<1>8. Still
  BY <1>1, <1>2 DEF Still, Seen
<1> QED BY <1>5, <1>6, <1>7, <1>8 DEF LockedInv

LEMMA FetchKeeps ==
    ASSUME LockedInv, Fetch
    PROVE  LockedInv' /\ Still
<1>1. /\ pc.reader = "fetch" /\ pc' = [pc EXCEPT !["reader"] = "unlock"]
      /\ fields' = fields /\ UNCHANGED <<mutex, out, before>>
      /\ local' = [local EXCEPT !.result = fields.output_buffer[fields.tail]]
  BY DEF Fetch, Goto, Assign
<1>2. /\ mutex = "reader" /\ Seen = before /\ pc.writer = "idle" /\ fields.bin_head < bin_size
      /\ pc'.reader = "unlock" /\ pc'.writer = pc.writer
  BY <1>1, ReaderInside DEF LockedInv, LockedTypeOK, Reading
<1>3. fields.output_buffer[fields.tail] \in Int
  BY DEF LockedInv, LockedTypeOK, Fields
<1>4. LockedTypeOK' /\ local'.result = fields.output_buffer[fields.tail]
  BY <1>1, <1>3 DEF LockedInv, LockedTypeOK, Reading
<1>5. Exclusive' /\ RoomForOne' /\ WriteUnderWay'
  BY <1>1, <1>2 DEF LockedInv, Exclusive, RoomForOne, WriteUnderWay, Writing, Reading
<1>6. ReadUnderWay'
  BY <1>1, <1>2, <1>4 DEF LockedInv, ReadUnderWay, Advance
<1>7. Still
  BY <1>1, <1>2 DEF Still, Seen
<1> QED BY <1>4, <1>5, <1>6, <1>7 DEF LockedInv

LEMMA ReadUnlockKeeps ==
    ASSUME LockedInv, ReadUnlock
    PROVE  LockedInv' /\ Atomic!Next
<1>1. /\ pc.reader = "unlock" /\ pc' = [pc EXCEPT !["reader"] = "idle"]
      /\ out' = local.result
      /\ mutex' = "free" /\ UNCHANGED <<fields, local, before>>
  BY DEF ReadUnlock, Goto, Unlock
<1>2. /\ mutex = "reader" /\ Seen = before /\ pc.writer = "idle" /\ fields.bin_head < bin_size
      /\ pc'.reader = "idle" /\ pc'.writer = pc.writer
  BY <1>1, ReaderInside DEF LockedInv, LockedTypeOK, Reading
<1>3. LockedTypeOK'
  BY <1>1 DEF LockedInv, LockedTypeOK
<1>4. Exclusive' /\ RoomForOne' /\ WriteUnderWay' /\ ReadUnderWay'
  BY <1>1, <1>2 DEF LockedInv, Exclusive, RoomForOne, ReadUnderWay, WriteUnderWay,
                    Writing, Reading
<1>5. /\ before.head # before.tail /\ Seen' = fields
      /\ fields = [before EXCEPT !.tail = Advance(before.tail)]
      /\ local.result = fields.output_buffer[fields.tail]
  BY <1>1 DEF LockedInv, ReadUnderWay, Seen
<1>6. /\ fields.tail = Advance(before.tail) /\ fields.bin = before.bin
      /\ fields.bin_head = before.bin_head /\ fields.head = before.head
      /\ fields.output_buffer = before.output_buffer
  BY <1>5 DEF LockedInv, LockedTypeOK, Fields
<1>7. Atomic!afifo_read
  BY <1>1, <1>2, <1>5, <1>6 DEF Atomic!afifo_read, Advance, Atomic!Advance
<1> QED BY <1>3, <1>4, <1>7 DEF LockedInv, Atomic!Next

-----------------------------------------------------------------------------
(* The end of the session.                                                 *)
LEMMA DestroyKeeps ==
    ASSUME LockedInv, afifo_destroy
    PROVE  LockedInv' /\ Still
<1>1. /\ pc.writer = "idle" /\ pc' = [pc EXCEPT !["writer"] = "gone"]
      /\ mutex = "free" /\ mutex' = "destroyer" /\ before' = fields
      /\ UNCHANGED <<fields, out, local>>
  BY DEF afifo_destroy, Goto, Lock
<1>2. pc.reader \in {"idle", "lock"} /\ pc'.writer = "gone" /\ pc'.reader = pc.reader
  BY <1>1 DEF LockedInv, LockedTypeOK, Exclusive
<1>3. LockedTypeOK'
  BY <1>1 DEF LockedInv, LockedTypeOK
<1>4. Exclusive' /\ RoomForOne' /\ WriteUnderWay' /\ ReadUnderWay'
  BY <1>1, <1>2 DEF LockedInv, Exclusive, RoomForOne, ReadUnderWay, WriteUnderWay,
                    Writing, Reading
<1>5. Still
  BY <1>1 DEF Still, Seen
<1> QED BY <1>3, <1>4, <1>5 DEF LockedInv

LEMMA LockedStutters ==
    ASSUME LockedInv, UNCHANGED vars
    PROVE  LockedInv' /\ Still
<1>1. UNCHANGED <<fields, mutex, pc, local, out, before>>
  BY DEF vars
<1>2. LockedTypeOK' /\ Exclusive' /\ RoomForOne'
  BY <1>1 DEF LockedInv, LockedTypeOK, Exclusive, RoomForOne
<1>3. WriteUnderWay' /\ ReadUnderWay'
  BY <1>1 DEF LockedInv, ReadUnderWay, WriteUnderWay, SameRing, Flushed, Median, Placed, MovedUp
<1>4. Still
  BY <1>1 DEF Still, Seen
<1> QED BY <1>2, <1>3, <1>4 DEF LockedInv

LEMMA StepIsAtomicOrStill == LockedInv /\ [Next]_vars => LockedInv' /\ (Atomic!Next \/ Still)
<1> SUFFICES ASSUME LockedInv, [Next]_vars PROVE LockedInv' /\ (Atomic!Next \/ Still)
  OBVIOUS
<1>1. CASE \E value \in Values : WriteLock(value)
  BY <1>1, WriteLockKeeps
<1>2. CASE afifo_write
  BY <1>2, MoveUpKeeps, PlaceKeeps, AdvanceHeadKeeps, StoreKeeps, OvertakeKeeps, WriteUnlockKeeps
     DEF afifo_write
<1>3. CASE ReadCalled
  BY <1>3, ReadCalledKeeps
<1>4. CASE afifo_read
  BY <1>4, ReadLockKeeps, ReadNothingKeeps, AdvanceTailKeeps, FetchKeeps, ReadUnlockKeeps
     DEF afifo_read
<1>5. CASE afifo_destroy
  BY <1>5, DestroyKeeps
<1>6. CASE UNCHANGED vars
  BY <1>6, LockedStutters
<1> QED BY <1>1, <1>2, <1>3, <1>4, <1>5, <1>6 DEF Next

-----------------------------------------------------------------------------
(* The mutex is with whoever is inside an operation, and an operation that *)
(* is under way has come as far from the fields it found as its statements *)
(* so far bring it (report.c:88-130).                                      *)
THEOREM LockedInvariant == Spec => []LockedInv
<1>1. LockedInv /\ [Next]_vars => LockedInv'
  BY StepIsAtomicOrStill
<1> QED BY <1>1, InitLockedInv, PTL DEF Spec

(* Whenever the afifo is freed, no reader is inside of an operation, and   *)
(* none will be: one that waits or comes later does not get past the mutex *)
(* (report.c:78-81, 121-130).                                              *)
THEOREM NoReaderInFreed == Spec => []FreedUnused
<1>1. LockedInv => FreedUnused
  BY DEF LockedInv, LockedTypeOK, Exclusive, FreedUnused
<1> QED BY <1>1, LockedInvariant, PTL

(* However the statements of the two threads interleave, what they leave   *)
(* behind is what whole calls would have left (report.c:88-116, 121-130).  *)
THEOREM LockedIsAfifo == Spec => ImplementsAfifo
<1>1. Still => UNCHANGED Atomic!vars
  BY DEF Still, Atomic!vars, Atomic!ring
<1>2. LockedInv /\ [Next]_vars => [Atomic!Next]_(Atomic!vars)
  BY <1>1, StepIsAtomicOrStill
<1>3. Init => Atomic!Init
  BY InitLockedInv
<1> QED BY <1>2, <1>3, LockedInvariant, PTL DEF Spec, ImplementsAfifo, Atomic!Spec

-----------------------------------------------------------------------------
(* What AfifoProofs shows of whole calls holds of what the calls leave.    *)
Whole == INSTANCE AfifoProofs WITH
            bin <- Seen.bin, bin_head <- Seen.bin_head,
            output_buffer <- Seen.output_buffer,
            output_buffer_head <- Seen.head, output_buffer_tail <- Seen.tail

LEMMA AtomicIsWhole == ImplementsAfifo => Whole!Spec
<1>1. Atomic!Init => Whole!Init
  BY DEF Atomic!Init, Whole!Init, Atomic!BinIndex, Whole!BinIndex, Atomic!Slot, Whole!Slot
<1>2. ASSUME NEW value, Atomic!afifo_write(value) PROVE Whole!afifo_write(value)
  BY <1>2 DEF Atomic!afifo_write, Whole!afifo_write, Atomic!PlaceInBin, Whole!PlaceInBin,
              Atomic!StopsAt, Whole!StopsAt, Atomic!Inserted, Whole!Inserted,
              Atomic!BinIndex, Whole!BinIndex, Atomic!FlushBin, Whole!FlushBin,
              Atomic!Advance, Whole!Advance, Atomic!ring, Whole!ring
<1>3. Atomic!afifo_read => Whole!afifo_read
  BY DEF Atomic!afifo_read, Whole!afifo_read, Atomic!Advance, Whole!Advance
<1>4. [Atomic!Next]_(Atomic!vars) => [Whole!Next]_(Whole!vars)
  BY <1>2, <1>3 DEF Atomic!Next, Whole!Next, Atomic!vars, Whole!vars, Atomic!ring, Whole!ring
<1> QED BY <1>1, <1>4, PTL DEF ImplementsAfifo, Atomic!Spec, Whole!Spec

(* The ring the two threads share is a bounded queue: in order, losing the *)
(* oldest only, and only when it is full, and nothing is read from it that *)
(* was not measured.                                                       *)
THEOREM LockedIsBoundedQueue == Spec => Whole!ImplementsBoundedQueue
<1>1. Whole!Spec => Whole!ImplementsBoundedQueue
  BY Whole!RingIsBoundedQueue DEF Whole!SizeAssumption, Whole!ValuesAssumption, LockedAssumption
<1> QED BY <1>1, LockedIsAfifo, AtomicIsWhole, PTL

(* So the values the report timer reads while the measuring thread writes  *)
(* are the medians of complete batches, in order (report.c:88-130).        *)
THEOREM LockedIsMedianQueue == Spec => Whole!ImplementsMedianQueue
<1>1. Whole!Spec => Whole!ImplementsMedianQueue
  BY Whole!AfifoIsMedianQueue DEF Whole!SizeAssumption, Whole!ValuesAssumption, LockedAssumption
<1> QED BY <1>1, LockedIsAfifo, AtomicIsWhole, PTL
=============================================================================
