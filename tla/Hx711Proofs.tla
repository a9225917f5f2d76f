---------------------------- MODULE Hx711Proofs ----------------------------
(***************************************************************************)
(* For values of any width and any number of polls: what a task asked for  *)
(* is what its callback gets, unless this very measurement was spoilt.     *)
(***************************************************************************)
EXTENDS Hx711, WellFoundedInduction, TLAPS

USE Hx711Assumption

-----------------------------------------------------------------------------
(* Powers of two.  That the recursive definition defines something at all  *)
(* is shown by the least exponent for which it would not.                  *)
LEMMA LeastNatural ==
    ASSUME NEW T, T \subseteq Nat, T # {}
    PROVE  \E m \in T : \A n \in T : m <= n
<1>1. \A x, y \in Nat : x < y => <<x, y>> \in OpToRel(<, Nat)
  BY DEF OpToRel
<1>2. PICK m \in T : \A y \in T : ~(<<y, m>> \in OpToRel(<, Nat))
  BY NatLessThanWellFounded, WFMin
<1>3. \A y \in T : ~(y < m)
  BY <1>1, <1>2
<1>4. \A y \in T : m <= y
  BY <1>3, SMT
<1> QED BY <1>4

Doubled(f, n) == IF n = 0 THEN 1 ELSE 2 * f[n - 1]

LEMMA PowerRecursion == Power = [n \in 0 .. Width |-> Doubled(Power, n)]
<1> DEFINE Defined(k) == \E f : f = [n \in 0 .. k |-> Doubled(f, n)]
           undefined == {k \in Nat : ~Defined(k)}
<1>1. undefined = {}
  <2> SUFFICES ASSUME undefined # {} PROVE FALSE
    OBVIOUS
  <2>1. PICK m \in undefined : \A n \in undefined : m <= n
    BY LeastNatural
  <2>2. m # 0
    <3> DEFINE f == [n \in 0 .. 0 |-> 1]
    <3>1. \A n \in 0 .. 0 : n = 0
      BY SMT
    <3>2. f = [n \in 0 .. 0 |-> Doubled(f, n)]
      BY <3>1 DEF Doubled
    <3>3. Defined(0)
      BY <3>2
    <3> QED BY <3>3
  <2>3. m - 1 \in Nat /\ ~(m <= m - 1)
    BY <2>2, SMT
  <2>4. PICK f : f = [n \in 0 .. m - 1 |-> Doubled(f, n)]
    BY <2>1, <2>3
  <2> DEFINE g == [n \in 0 .. m |-> IF n = m THEN 2 * f[m - 1] ELSE f[n]]
  <2>5. \A n \in 0 .. m : g[n] = Doubled(g, n)
    <3> TAKE n \in 0 .. m
    <3>1. CASE n = m
      <4>1. m - 1 \in 0 .. m /\ m - 1 # m /\ m \in 0 .. m
        BY <2>3, SMT
      <4>2. g[m] = 2 * f[m - 1] /\ g[m - 1] = f[m - 1]
        BY <4>1
      <4> QED BY <2>2, <3>1, <4>2 DEF Doubled
    <3>2. CASE n # m /\ n # 0
      <4>1. n - 1 \in 0 .. m /\ n - 1 # m /\ n \in 0 .. m - 1
        BY <2>3, <3>2, SMT
      <4>2. g[n] = f[n] /\ g[n - 1] = f[n - 1]
        BY <3>2, <4>1
      <4>3. f[n] = Doubled(f, n)
        BY <2>4, <4>1
      <4> QED BY <3>2, <4>2, <4>3 DEF Doubled
    <3>3. CASE n = 0
      <4>1. 0 \in 0 .. m - 1 /\ 0 # m
        BY <2>2, <2>3, SMT
      <4>2. g[0] = f[0] /\ f[0] = Doubled(f, 0)
        BY <2>4, <3>3, <4>1
      <4> QED BY <3>3, <4>2 DEF Doubled
    <3> QED BY <3>1, <3>2, <3>3
  <2>6. g = [n \in 0 .. m |-> Doubled(g, n)]
    <3> HIDE DEF Doubled
    <3> QED BY <2>5
  <2>7. Defined(m)
    BY <2>6
  <2> QED BY <2>7
<1>2. Defined(Width)
  BY <1>1
<1> QED BY <1>2 DEF Power, Doubled

LEMMA Powers ==
    /\ Power[0] = 1
    /\ \A n \in 0 .. Width : Power[n] \in Nat \ {0}
    /\ \A n \in 0 .. Width - 1 : Power[n + 1] = 2 * Power[n]
<1>1. \A n \in 0 .. Width : Power[n] = Doubled(Power, n)
  BY PowerRecursion
<1>2. Power[0] = 1
  BY <1>1, SMT DEF Doubled
<1>3. \A n \in 0 .. Width - 1 : Power[n + 1] = 2 * Power[n]
  <2> TAKE n \in 0 .. Width - 1
  <2>1. n + 1 \in 0 .. Width /\ n + 1 # 0 /\ (n + 1) - 1 = n
    BY SMT
  <2> QED BY <1>1, <2>1 DEF Doubled
<1>4. \A n \in 0 .. Width : Power[n] \in Nat \ {0}
  <2> DEFINE wrong == {n \in 0 .. Width : Power[n] \notin Nat \ {0}}
  <2> SUFFICES ASSUME wrong # {} PROVE FALSE
    OBVIOUS
  <2>1. wrong \subseteq Nat
    BY SMT
  <2>2. PICK m \in wrong : \A n \in wrong : m <= n
    BY <2>1, LeastNatural
  <2>3. m # 0
    BY <1>2, SMT
  <2>4. m - 1 \in 0 .. Width - 1 /\ m - 1 \in 0 .. Width /\ (m - 1) + 1 = m /\ ~(m <= m - 1)
    BY <2>3, SMT
  <2>5. Power[m - 1] \in Nat \ {0}
    BY <2>2, <2>4
  <2>6. Power[m] = 2 * Power[m - 1]
    BY <1>3, <2>4
  <2>7. Power[m] \in Nat \ {0}
    BY <2>5, <2>6, SMT
  <2> QED BY <2>7
<1> QED BY <1>2, <1>3, <1>4

-----------------------------------------------------------------------------
(* What has been read of a value after its first n bits.                   *)
Prefix(value, n) == ((value + Power[Width]) \div Power[Width - n]) - Power[n]

LEMMA ValueTypes ==
    /\ Values \subseteq Int /\ 0 \in Values
    /\ \A v \in Values : \A n \in 0 .. Width :
          /\ v + Power[Width] \in Int /\ Power[Width - n] \in Nat \ {0}
          /\ Power[n] \in Nat \ {0} /\ Prefix(v, n) \in Int
<1>1. Width - 1 \in 0 .. Width /\ Width \in 0 .. Width
  BY SMT
<1>2. Power[Width - 1] \in Nat \ {0} /\ Power[Width] \in Nat \ {0}
  BY <1>1, Powers
<1>3. Values \subseteq Int /\ 0 \in Values
  BY <1>2, SMT DEF Values
<1>4. ASSUME NEW v \in Values, NEW n \in 0 .. Width
      PROVE  /\ v + Power[Width] \in Int /\ Power[Width - n] \in Nat \ {0}
             /\ Power[n] \in Nat \ {0} /\ Prefix(v, n) \in Int
  <2>1. Width - n \in 0 .. Width
    BY SMT
  <2>2. Power[Width - n] \in Nat \ {0} /\ Power[n] \in Nat \ {0}
    BY <2>1, Powers
  <2>3. v + Power[Width] \in Int
    BY <1>2, <1>3, SMT
  <2>4. (v + Power[Width]) \div Power[Width - n] \in Int
    BY <2>2, <2>3, SMT
  <2>5. Prefix(v, n) \in Int
    BY <2>2, <2>4, SMT DEF Prefix
  <2> QED BY <2>2, <2>3, <2>5
<1> QED BY <1>3, <1>4

LEMMA BitTypes ==
    ASSUME NEW v \in Values, NEW n \in 1 .. Width
    PROVE  Bit(v, n) \in {0, 1}
<1>1. n \in 0 .. Width
  BY SMT
<1>2. v + Power[Width] \in Int /\ Power[Width - n] \in Nat \ {0}
  BY <1>1, ValueTypes
<1>3. (v + Power[Width]) \div Power[Width - n] \in Int
  BY <1>2, SMT
<1> QED BY <1>3, SMT DEF Bit

(* Twice the quotient and one more bit are the quotient by half as much.   *)
LEMMA NextBit ==
    ASSUME NEW v \in Int, NEW p \in Nat \ {0}
    PROVE  v \div p = 2 * (v \div (2 * p)) + ((v \div p) % 2)
<1>1. v \div (2 * p) = (v \div p) \div 2
  BY SMT
<1>2. v \div p \in Int
  BY SMT
<1>3. \A q \in Int : q = 2 * (q \div 2) + (q % 2)
  BY SMT
<1> QED BY <1>1, <1>2, <1>3

(* The first bit is the sign.                                              *)
LEMMA SignRead ==
    ASSUME NEW v \in Values
    PROVE  -Bit(v, 1) = Prefix(v, 1)
<1> DEFINE p == Power[Width - 1]
<1>1. 0 \in 0 .. Width - 1 /\ Width - 1 \in 0 .. Width - 1 /\ (Width - 1) + 1 = Width
      /\ Width - 1 \in 0 .. Width /\ 0 + 1 = 1
  BY SMT
<1>2. /\ p \in Nat \ {0} /\ Power[Width] = 2 * p
      /\ Power[1] = 2
  <2>1. Power[Width] = 2 * p
    BY <1>1, Powers
  <2>2. Power[1] = 2 * Power[0]
    BY <1>1, Powers
  <2>3. Power[1] = 2
    BY <2>2, Powers, SMT
  <2> QED BY <1>1, <2>1, <2>3, Powers
<1>3. -p <= v /\ v <= p - 1 /\ v \in Int
  BY <1>2, SMT DEF Values
<1> HIDE DEF p
<1>4. CASE v < 0
  <2>1. (v + 2 * p) \div p = 1
    BY <1>2, <1>3, <1>4, SMT
  <2>2. Bit(v, 1) = 1
    BY <1>2, <2>1, SMT DEF Bit, p
  <2> QED BY <1>2, <2>1, <2>2, SMT DEF Prefix, p
<1>5. CASE v >= 0
  <2>1. (v + 2 * p) \div p = 2
    BY <1>2, <1>3, <1>5, SMT
  <2>2. Bit(v, 1) = 0
    BY <1>2, <2>1, SMT DEF Bit, p
  <2> QED BY <1>2, <2>1, <2>2, SMT DEF Prefix, p
<1> QED BY <1>3, <1>4, <1>5, SMT

LEMMA BitRead ==
    ASSUME NEW v \in Values, NEW n \in 1 .. Width - 1
    PROVE  2 * Prefix(v, n) + Bit(v, n + 1) = Prefix(v, n + 1)
<1> DEFINE w == v + Power[Width]
           p == Power[Width - (n + 1)]
<1>1. /\ n \in 0 .. Width - 1 /\ n \in 0 .. Width /\ n + 1 \in 0 .. Width
      /\ Width - (n + 1) \in 0 .. Width - 1 /\ (Width - (n + 1)) + 1 = Width - n
  BY SMT
<1>2. /\ Power[n + 1] = 2 * Power[n] /\ Power[n] \in Nat
      /\ Power[Width - n] = 2 * p /\ p \in Nat \ {0}
      /\ w \in Int
  BY <1>1, Powers, ValueTypes
<1> HIDE DEF w, p
<1>3. w \div p = 2 * (w \div (2 * p)) + ((w \div p) % 2)
  BY <1>2, NextBit
<1>4. Prefix(v, n) = (w \div (2 * p)) - Power[n]
  BY <1>2 DEF Prefix, w
<1>5. Prefix(v, n + 1) = (w \div p) - 2 * Power[n]
  BY <1>2 DEF Prefix, w, p
<1>6. Bit(v, n + 1) = (w \div p) % 2
  BY DEF Bit, w, p
<1>7. w \div p \in Int /\ w \div (2 * p) \in Int /\ (w \div p) % 2 \in Int
  BY <1>2, SMT
<1>8. \A a, b, c, d \in Int : a = 2 * b + c => 2 * (b - d) + c = a - 2 * d
  BY SMT
<1> QED BY <1>2, <1>3, <1>4, <1>5, <1>6, <1>7, <1>8

LEMMA AllRead ==
    ASSUME NEW v \in Values
    PROVE  Prefix(v, Width) = v
<1>1. Width - Width = 0 /\ Width \in 0 .. Width
  BY SMT
<1>2. Power[Width - Width] = 1 /\ Power[Width] \in Nat /\ v \in Int
  BY <1>1, Powers, ValueTypes
<1> QED BY <1>2, SMT DEF Prefix

-----------------------------------------------------------------------------
TypeOK ==
    /\ op \in Op /\ pc \in Pc
    /\ {timeout_counter, count, pulses} \subseteq Nat
    /\ {result, delivered} \subseteq Int
    /\ gain \in Op /\ sample \in Values
    /\ {ready, spoilt} \subseteq BOOLEAN

(* Between two measurements the converter is asleep.                       *)
FreshStart == pc = "standby" => gain = "A128" /\ ~ready /\ pulses = 0

(* A thread that reads twice is not after the input the first one gives.   *)
TwoReads == pc \in {"wait_first", "read_first", "setup"} => op # "A128"

(* The n bits that the thread has counted are the n the converter gave.    *)
InStep ==
    /\ pc \in {"wait_first", "wait"} => (ready => pulses = 0)
    /\ pc \in {"read_first", "read"} => ready /\ pulses = count /\ count < Width
    /\ pc = "setup" => pulses = Width + count /\ count < setup_pulses

(* The converter has the gain of the task when it is read for good, and    *)
(* what was read of its value is the beginning of it.                      *)
OnItsWay ==
    /\ pc \in {"wait", "read", "callback"} => gain = op
    /\ pc = "read" /\ count > 0 => result = Prefix(sample, count)
    /\ pc = "callback" => result = sample

HxInv ==
    /\ TypeOK
    /\ FreshStart
    /\ TwoReads
    /\ ~spoilt => InStep /\ OnItsWay

LEMMA InitHx == Init => HxInv
<1> SUFFICES ASSUME Init PROVE HxInv
  OBVIOUS
<1>1. 0 \in Nat /\ 0 \in Int /\ 0 \in Values
  BY ValueTypes
<1> QED BY <1>1 DEF Init, HxInv, TypeOK, Pc, Op, FreshStart, TwoReads, InStep, OnItsWay

LEMMA PulseTypes ==
    ASSUME TypeOK, Pulse
    PROVE  gain' \in Op /\ ready' \in BOOLEAN /\ pulses' \in Nat /\ sample' = sample
<1>1. pulses' \in Nat
  BY SMT DEF Pulse, TypeOK
<1>2. gain' \in Op
  <2>1. CASE pulses \in Width .. Width + 2
    <3>1. pulses + 1 = Width + 1 \/ pulses + 1 = Width + 2 \/ pulses + 1 = Width + 3
      BY <2>1, SMT
    <3>2. Width + 1 # Width + 2 /\ Width + 1 # Width + 3 /\ Width + 2 # Width + 3
      BY SMT
    <3>3. Selected(pulses + 1) \in Op
      BY <3>1, <3>2 DEF Selected, Op
    <3> QED BY <3>3 DEF Pulse, TypeOK
  <2>2. CASE pulses \notin Width .. Width + 2
    BY <2>2 DEF Pulse, TypeOK
  <2> QED BY <2>1, <2>2
<1> QED BY <1>1, <1>2 DEF Pulse, TypeOK

LEMMA ConvertHx ==
    ASSUME HxInv, Convert
    PROVE  HxInv'
<1>1. /\ pc \notin {"standby", "callback"}
      /\ ready' = TRUE /\ pulses' = 0 /\ sample' \in Values
      /\ spoilt' = (spoilt \/ UnderWay)
      /\ UNCHANGED <<op, pc, timeout_counter, count, result, delivered, gain>>
  BY DEF Convert, thread
<1>2. TypeOK'
  <2>1. spoilt' \in BOOLEAN /\ ready' \in BOOLEAN
    BY <1>1, Zenon DEF HxInv, TypeOK
  <2> QED BY <1>1, <2>1 DEF HxInv, TypeOK
<1>3. FreshStart' /\ TwoReads'
  BY <1>1 DEF HxInv, FreshStart, TwoReads
<1>4. ASSUME ~spoilt' PROVE InStep' /\ OnItsWay'
  <2>1. ~spoilt /\ ~UnderWay
    BY <1>1, <1>4, Zenon
  <2>2. InStep /\ OnItsWay
    BY <2>1, Zenon DEF HxInv
  <2>3. /\ pc # "setup"
        /\ pc \in {"read_first", "read"} => ~(count > 0)
    BY <2>1 DEF UnderWay
  <2>4. pc \in {"read_first", "read"} => count = 0
    BY <2>3, SMT DEF HxInv, TypeOK
  <2>5. InStep'
    BY <1>1, <2>2, <2>3, <2>4 DEF InStep, setup_pulses
  <2> QED BY <1>1, <2>2, <2>3, <2>5 DEF OnItsWay
<1> QED BY <1>2, <1>3, <1>4 DEF HxInv

LEMMA BeginHx ==
    ASSUME HxInv, Begin
    PROVE  HxInv'
<1>1. /\ pc = "standby" /\ op' \in Op
      /\ pc' = IF op' = "A128" THEN "wait" ELSE "wait_first"
      /\ timeout_counter' = Polls /\ spoilt' = FALSE
      /\ UNCHANGED <<count, result, delivered, gain, ready, pulses, sample>>
  BY DEF Begin, chip
<1>2. TypeOK'
  BY <1>1 DEF HxInv, TypeOK, Pc
<1>3. gain = "A128" /\ ~ready
  BY <1>1 DEF HxInv, FreshStart
<1> QED BY <1>1, <1>2, <1>3 DEF HxInv, FreshStart, TwoReads, InStep, OnItsWay

LEMMA WaitResultHx ==
    ASSUME HxInv, wait_result
    PROVE  HxInv'
<1>1. /\ pc \in {"wait_first", "wait"}
      /\ \/ /\ DataLine(pulses) = 0 \/ timeout_counter = 0
            /\ pc' = After[pc]
            /\ spoilt' = (spoilt \/ DataLine(pulses) = 1)
            /\ timeout_counter' = timeout_counter
         \/ /\ DataLine(pulses) = 1 /\ timeout_counter > 0
            /\ timeout_counter' = timeout_counter - 1
            /\ pc' = pc /\ spoilt' = spoilt
      /\ count' = 0
      /\ UNCHANGED <<op, result, delivered, gain, ready, pulses, sample>>
  BY DEF wait_result, chip
<1>2. pc' = pc \/ (pc = "wait_first" /\ pc' = "read_first") \/ (pc = "wait" /\ pc' = "read")
  BY <1>1 DEF After
<1>3. TypeOK'
  <2>1. timeout_counter' \in Nat
    BY <1>1, SMT DEF HxInv, TypeOK
  <2>2. spoilt' \in BOOLEAN
    BY <1>1, Zenon DEF HxInv, TypeOK
  <2>3. pc' \in Pc /\ count' \in Nat
    BY <1>1, <1>2 DEF Pc
  <2> QED BY <1>1, <2>1, <2>2, <2>3 DEF HxInv, TypeOK
<1>4. FreshStart' /\ TwoReads'
  BY <1>1, <1>2 DEF HxInv, FreshStart, TwoReads
<1>5. ASSUME ~spoilt' PROVE InStep' /\ OnItsWay'
  <2>0. ~spoilt
    <3>1. spoilt' = spoilt \/ spoilt' = (spoilt \/ DataLine(pulses) = 1)
      BY <1>1, Zenon
    <3> QED BY <1>5, <3>1, Zenon
  <2>1. ~spoilt /\ InStep /\ OnItsWay /\ (ready => pulses = 0)
    <3>1. ~spoilt /\ InStep /\ OnItsWay
      BY <2>0, Zenon DEF HxInv
    <3> QED BY <1>1, <3>1 DEF InStep
  <2>2. CASE pc' = pc
    BY <1>1, <2>1, <2>2 DEF InStep, OnItsWay
  <2>3. CASE pc' # pc
    <3>1. DataLine(pulses) # 1
      BY <1>1, <1>5, <2>3
    <3>2. ready /\ pulses = 0
      BY <2>1, <3>1, SMT DEF DataLine
    <3>3. 0 < Width /\ ~(0 > 0)
      BY SMT
    <3> QED BY <1>1, <1>2, <2>1, <2>3, <3>2, <3>3 DEF InStep, OnItsWay
  <2> QED BY <2>2, <2>3
<1> QED BY <1>3, <1>4, <1>5 DEF HxInv

LEMMA ReadBitHx ==
    ASSUME HxInv, ReadBit
    PROVE  HxInv'
<1>1. /\ pc \in {"read_first", "read"}
      /\ result' = Shifted(DataLine(pulses + 1))
      /\ Pulse
      /\ \/ /\ count + 1 < Width
            /\ count' = count + 1
            /\ pc' = pc
         \/ /\ count + 1 = Width
            /\ count' = 0
            /\ pc' = IF pc = "read" THEN "callback" ELSE "setup"
      /\ UNCHANGED <<op, timeout_counter, delivered, spoilt>>
  BY DEF ReadBit
<1>2. TypeOK
  BY DEF HxInv
<1>3. gain' \in Op /\ ready' \in BOOLEAN /\ pulses' \in Nat /\ sample' = sample
  BY <1>1, <1>2, PulseTypes
<1>4. DataLine(pulses + 1) \in {0, 1}
  BY <1>2, BitTypes DEF DataLine, TypeOK
<1>5. TypeOK'
  <2>1. result' \in Int
    BY <1>1, <1>2, <1>4, SMT DEF Shifted, TypeOK
  <2>2. count' \in Nat
    BY <1>1, <1>2, SMT DEF TypeOK
  <2>3. pc' \in Pc
    BY <1>1 DEF Pc
  <2> QED BY <1>1, <1>2, <1>3, <2>1, <2>2, <2>3 DEF TypeOK
<1>6. FreshStart' /\ TwoReads'
  BY <1>1 DEF HxInv, FreshStart, TwoReads
<1>7. ASSUME ~spoilt' PROVE InStep' /\ OnItsWay'
  <2>1. InStep /\ OnItsWay
    BY <1>1, <1>7 DEF HxInv
  <2>2. ready /\ pulses = count /\ count < Width /\ count \in Nat
    BY <1>1, <1>2, <2>1 DEF InStep, TypeOK
  <2>3. pulses' = count + 1 /\ ready' = ready /\ gain' = gain
    <3>1. pulses < Width /\ pulses \notin Width .. Width + 2
      BY <2>2, SMT
    <3> QED BY <1>1, <2>2, <3>1 DEF Pulse
  <2>4. DataLine(pulses + 1) = Bit(sample, count + 1)
    <3>1. pulses + 1 \in 1 .. Width /\ pulses + 1 # 0
      BY <2>2, SMT
    <3> QED BY <2>2, <3>1 DEF DataLine
  <2>5. pc = "read" => result' = Prefix(sample, count + 1)
    <3> SUFFICES ASSUME pc = "read" PROVE result' = Prefix(sample, count + 1)
      OBVIOUS
    <3>1. CASE count = 0
      <4>1. count + 1 = 1
        BY <3>1, SMT
      <4> QED BY <1>1, <1>2, <2>4, <3>1, <4>1, SignRead DEF Shifted, TypeOK
    <3>2. CASE count # 0
      <4>1. count \in 1 .. Width - 1 /\ count > 0
        BY <2>2, <3>2, SMT
      <4>2. result = Prefix(sample, count)
        BY <2>1, <4>1 DEF OnItsWay
      <4> QED BY <1>1, <1>2, <2>4, <3>2, <4>1, <4>2, BitRead DEF Shifted, TypeOK
    <3> QED BY <3>1, <3>2
  <2>6. CASE count + 1 < Width
    <3>1. count' = count + 1 /\ pc' = pc
      BY <1>1, <2>2, <2>6, SMT
    <3>2. InStep'
      BY <1>1, <2>2, <2>3, <2>6, <3>1 DEF InStep
    <3>3. OnItsWay'
      BY <1>1, <1>3, <2>1, <2>3, <2>5, <3>1 DEF OnItsWay
    <3> QED BY <3>2, <3>3
  <2>7. CASE count + 1 = Width
    <3>1. count' = 0 /\ pc' = IF pc = "read" THEN "callback" ELSE "setup"
      BY <1>1, <2>2, <2>7, SMT
    <3>2. InStep'
      <4>1. pc = "read_first" => op \in {"B32", "A64"}
        BY <1>2 DEF HxInv, TwoReads, TypeOK, Op
      <4>2. pc = "read_first" => 0 < setup_pulses'
        BY <1>1, <4>1, SMT DEF setup_pulses
      <4>3. pulses' = Width + 0
        BY <2>3, <2>7, SMT
      <4> QED BY <1>1, <3>1, <4>2, <4>3 DEF InStep
    <3>3. OnItsWay'
      <4>1. pc = "read" => result' = sample
        BY <1>2, <2>5, <2>7, AllRead DEF TypeOK
      <4> QED BY <1>1, <1>3, <2>1, <2>3, <3>1, <4>1 DEF OnItsWay
    <3> QED BY <3>2, <3>3
  <2> QED BY <1>1, <2>6, <2>7
<1> QED BY <1>5, <1>6, <1>7 DEF HxInv

LEMMA SetupPulseHx ==
    ASSUME HxInv, SetupPulse
    PROVE  HxInv'
<1>1. /\ pc = "setup" /\ Pulse /\ count' = count + 1
      /\ \/ /\ count + 1 < setup_pulses
            /\ pc' = pc /\ timeout_counter' = timeout_counter
         \/ /\ count + 1 = setup_pulses
            /\ pc' = "wait"
            /\ timeout_counter' = Polls
      /\ UNCHANGED <<op, result, delivered, spoilt>>
  BY DEF SetupPulse
<1>2. TypeOK /\ op \in {"B32", "A64"}
  BY <1>1 DEF HxInv, TwoReads, TypeOK, Op
<1>3. gain' \in Op /\ ready' \in BOOLEAN /\ pulses' \in Nat /\ sample' = sample
  BY <1>1, <1>2, PulseTypes
<1>4. TypeOK'
  <2>1. count' \in Nat
    BY <1>1, <1>2, SMT DEF TypeOK
  <2>2. pc' \in Pc /\ timeout_counter' \in Nat
    BY <1>1, <1>2 DEF Pc, TypeOK
  <2> QED BY <1>1, <1>2, <1>3, <2>1, <2>2 DEF TypeOK
<1>5. FreshStart' /\ TwoReads'
  BY <1>1 DEF HxInv, FreshStart, TwoReads
<1>6. ASSUME ~spoilt' PROVE InStep' /\ OnItsWay'
  <2>1. pulses = Width + count /\ count < setup_pulses /\ count \in Nat
    BY <1>1, <1>2, <1>6 DEF HxInv, InStep, TypeOK
  <2>2. setup_pulses = IF op = "A64" THEN 3 ELSE 2
    BY <1>2 DEF setup_pulses
  <2>3. setup_pulses' = setup_pulses
    BY <1>1 DEF setup_pulses
  <2>4. pulses \in Width .. Width + 2 /\ ~(pulses < Width)
    BY <2>1, <2>2, SMT
  <2>5. pulses' = pulses + 1 /\ gain' = Selected(pulses + 1) /\ ready' = FALSE
    BY <1>1, <2>4 DEF Pulse
  <2>6. pulses' = Width + count'
    BY <1>1, <2>1, <2>5, SMT
  <2>7. CASE count + 1 < setup_pulses
    <3>1. pc' = "setup"
      BY <1>1, <2>1, <2>2, <2>7, SMT
    <3> QED BY <1>1, <2>3, <2>6, <2>7, <3>1 DEF InStep, OnItsWay
  <2>8. CASE count + 1 = setup_pulses
    <3>1. pc' = "wait"
      BY <1>1, <2>1, <2>2, <2>8, SMT
    <3>2. pulses + 1 = IF op = "A64" THEN Width + 3 ELSE Width + 2
      BY <2>1, <2>2, <2>8, SMT
    <3>3. Width + 1 # Width + 2 /\ Width + 1 # Width + 3 /\ Width + 2 # Width + 3
      BY SMT
    <3>4. Selected(pulses + 1) = op
      BY <1>2, <3>2, <3>3 DEF Selected
    <3> QED BY <1>1, <2>5, <3>1, <3>4 DEF InStep, OnItsWay
  <2> QED BY <1>1, <2>7, <2>8
<1> QED BY <1>4, <1>5, <1>6 DEF HxInv

LEMMA CallbackHx ==
    ASSUME HxInv, Callback
    PROVE  HxInv'
<1>1. /\ pc' = "standby" /\ delivered' = result
      /\ gain' = "A128" /\ ready' = FALSE /\ pulses' = 0 /\ sample' = sample
      /\ UNCHANGED <<op, timeout_counter, count, result, spoilt>>
  BY DEF Callback, Asleep
<1>2. TypeOK'
  <2>1. pc' \in Pc /\ gain' \in Op /\ pulses' \in Nat
    BY <1>1 DEF Pc, Op
  <2>2. {ready', spoilt'} \subseteq BOOLEAN
    BY <1>1, Zenon DEF HxInv, TypeOK
  <2> QED BY <1>1, <2>1, <2>2 DEF HxInv, TypeOK
<1> QED BY <1>1, <1>2 DEF HxInv, FreshStart, TwoReads, InStep, OnItsWay

LEMMA KeptWaitingHx ==
    ASSUME HxInv, KeptWaiting
    PROVE  HxInv'
<1>1. /\ spoilt' = TRUE
      /\ gain' = "A128" /\ ready' = FALSE /\ pulses' = 0 /\ sample' = sample
      /\ UNCHANGED <<op, pc, timeout_counter, count, result, delivered>>
  BY DEF KeptWaiting, Asleep, thread
<1>2. TypeOK'
  <2>1. gain' \in Op /\ pulses' \in Nat
    BY <1>1 DEF Op
  <2>2. {ready', spoilt'} \subseteq BOOLEAN
    BY <1>1, Zenon DEF HxInv, TypeOK
  <2> QED BY <1>1, <2>1, <2>2 DEF HxInv, TypeOK
<1> QED BY <1>1, <1>2 DEF HxInv, FreshStart, TwoReads

LEMMA NextHx == HxInv /\ [Next]_vars => HxInv'
<1> SUFFICES ASSUME HxInv, [Next]_vars PROVE HxInv'
  OBVIOUS
<1>1. CASE UNCHANGED vars
  BY <1>1 DEF vars, thread, chip, HxInv, TypeOK, FreshStart, TwoReads, InStep, OnItsWay,
     setup_pulses
<1> QED BY <1>1, ConvertHx, BeginHx, WaitResultHx, ReadBitHx, SetupPulseHx, CallbackHx,
        KeptWaitingHx DEF Next

-----------------------------------------------------------------------------
(* The thread and the converter keep in step.                              *)
THEOREM InStepWithChip == Spec => []HxInv
<1> QED BY InitHx, NextHx, PTL DEF Spec

(* Whatever the width of a value, and however long the thread waits: the   *)
(* callback gets the value the converter converted last, with the gain the *)
(* task asked for, if this measurement neither timed out nor was held up   *)
(* between its pulses (measure.c:103-140, 169-178).                        *)
THEOREM ConversionDelivered == Spec => DeliversConversion
<1>1. HxInv /\ [Next]_vars => [Callback /\ ~spoilt => delivered' = sample /\ gain = op]_vars
  BY DEF HxInv, OnItsWay, Callback
<1> QED BY <1>1, InStepWithChip, PTL DEF Spec, DeliversConversion
=============================================================================
