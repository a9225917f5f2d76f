---------------------------- MODULE GraphProofs ----------------------------
(***************************************************************************)
(* For any reports, posts, failures and requests: the table holds what was *)
(* sent, each row at most once for each report, and a chart shows what was *)
(* answered ok, labelled and filtered as promised.                         *)
(***************************************************************************)
EXTENDS Graph, FiniteSetTheorems, SequenceTheorems, WellFoundedInduction, TLAPS

-----------------------------------------------------------------------------
LEMMA LeastNatural ==
    ASSUME NEW T, T \subseteq Nat, T # {}
    PROVE  \E m \in T : \A n \in T : m <= n
<1>1. \A x, y \in Nat : x < y => <<x, y>> \in OpToRel(<, Nat)
  BY DEF OpToRel
<1>2. PICK m \in T : \A y \in T : ~(<<y, m>> \in OpToRel(<, Nat))
  BY NatLessThanWellFounded, WFMin
<1>3. \A y \in T : ~(y < m)
  BY <1>1, <1>2
<1>4. \A y \in T : m <= y
  BY <1>3, SMT
<1> QED BY <1>4

(* What Selected has after n elements, given what it had after n - 1.      *)
Extended(s, wanted, f, n) ==
    IF n = 0 THEN <<>>
    ELSE IF s[n] \in wanted THEN Append(f[n - 1], s[n]) ELSE f[n - 1]

(* The recursive definition in Selected defines something: a function on   *)
(* 0 .. k extends to one on 0 .. k + 1, and nothing can be the least k     *)
(* without one.                                                            *)
LEMMA SelectedExists ==
    ASSUME NEW s, NEW wanted, NEW N \in Nat
    PROVE  \E f : f = [n \in 0 .. N |-> Extended(s, wanted, f, n)]
<1> DEFINE Defined(k) == \E f : f = [n \in 0 .. k |-> Extended(s, wanted, f, n)]
           undefined == {k \in Nat : ~Defined(k)}
<1>1. undefined = {}
  <2> SUFFICES ASSUME undefined # {} PROVE FALSE
    OBVIOUS
  <2>1. PICK m \in undefined : \A n \in undefined : m <= n
    BY LeastNatural
  <2>2. m # 0
    <3> DEFINE f == [n \in 0 .. 0 |-> <<>>]
    <3>1. \A n \in 0 .. 0 : n = 0
      BY SMT
    <3>2. f = [n \in 0 .. 0 |-> Extended(s, wanted, f, n)]
      BY <3>1 DEF Extended
    <3>3. Defined(0)
      BY <3>2
    <3> QED BY <3>3
  <2>3. m - 1 \in Nat /\ ~(m <= m - 1)
    BY <2>2, SMT
  <2>4. PICK f : f = [n \in 0 .. m - 1 |-> Extended(s, wanted, f, n)]
    BY <2>1, <2>3
  <2> DEFINE g == [n \in 0 .. m |-> IF n = m THEN Extended(s, wanted, f, m) ELSE f[n]]
  <2>5. \A n \in 0 .. m : g[n] = Extended(s, wanted, g, n)
    <3> TAKE n \in 0 .. m
    <3>1. CASE n = m
      <4>1. m - 1 \in 0 .. m /\ m - 1 # m /\ m \in 0 .. m
        BY <2>3, SMT
      <4>2. g[m] = Extended(s, wanted, f, m) /\ g[m - 1] = f[m - 1]
        BY <4>1
      <4> QED BY <2>2, <3>1, <4>2 DEF Extended
    <3>2. CASE n # m /\ n # 0
      <4>1. n - 1 \in 0 .. m /\ n - 1 # m /\ n \in 0 .. m - 1
        BY <2>3, <3>2, SMT
      <4>2. g[n] = f[n] /\ g[n - 1] = f[n - 1]
        BY <3>2, <4>1
      <4>3. f[n] = Extended(s, wanted, f, n)
        BY <2>4, <4>1
      <4> QED BY <3>2, <4>2, <4>3 DEF Extended
    <3>3. CASE n = 0
      <4>1. 0 \in 0 .. m - 1 /\ 0 # m
        BY <2>2, <2>3, SMT
      <4>2. g[0] = f[0] /\ f[0] = Extended(s, wanted, f, 0)
        BY <2>4, <3>3, <4>1
      <4> QED BY <3>3, <4>2 DEF Extended
    <3> QED BY <3>1, <3>2, <3>3
  <2>6. g = [n \in 0 .. m |-> Extended(s, wanted, g, n)]
    <3> HIDE DEF Extended
    <3> QED BY <2>5
  <2>7. Defined(m)
    BY <2>6
  <2> QED BY <2>7
<1> QED BY <1>1

(* r is what of the first n elements of s is wanted, g where each stood.   *)
Picks(g, s, wanted, n, r) ==
    /\ g \in [1 .. Len(r) -> 1 .. n]
    /\ \A i, k \in 1 .. Len(r) : i < k => g[i] < g[k]
    /\ \A k \in 1 .. Len(r) : r[k] = s[g[k]] /\ s[g[k]] \in wanted
    /\ \A j \in 1 .. n : s[j] \in wanted => \E k \in 1 .. Len(r) : g[k] = j

LEMMA PicksExtended ==
    ASSUME NEW S, NEW s \in Seq(S), NEW wanted, NEW n \in 1 .. Len(s),
           NEW r \in Seq(S), NEW g, Picks(g, s, wanted, n - 1, r),
           NEW rr, rr = IF s[n] \in wanted THEN Append(r, s[n]) ELSE r
    PROVE  rr \in Seq(S) /\ \E h : Picks(h, s, wanted, n, rr)
<1>1. n \in Nat /\ n > 0 /\ Len(r) \in Nat /\ s[n] \in S
  BY LenProperties, ElementOfSeq, SMT
<1>2. /\ g \in [1 .. Len(r) -> 1 .. n - 1]
      /\ \A i, k \in 1 .. Len(r) : i < k => g[i] < g[k]
      /\ \A k \in 1 .. Len(r) : r[k] = s[g[k]] /\ s[g[k]] \in wanted
      /\ \A j \in 1 .. n - 1 : s[j] \in wanted => \E k \in 1 .. Len(r) : g[k] = j
  BY DEF Picks
<1>3. CASE s[n] \in wanted
  <2> DEFINE L == Len(r)
             h == [k \in 1 .. L + 1 |-> IF k = L + 1 THEN n ELSE g[k]]
  <2>1. rr = Append(r, s[n])
    BY <1>3
  <2>2. /\ rr \in Seq(S) /\ Len(rr) = L + 1 /\ rr[L + 1] = s[n]
        /\ \A k \in 1 .. L : rr[k] = r[k]
    BY <1>1, <2>1, AppendProperties
  <2> HIDE DEF L
  <2>0. L \in Nat /\ \A k \in 1 .. L : g[k] \in 1 .. n - 1
    BY <1>1, <1>2 DEF L
  <2>3. L \in Nat /\ \A k \in 1 .. L : k \in 1 .. L + 1 /\ k # L + 1 /\ g[k] \in 1 .. n - 1
    BY <2>0, SMT
  <2>4. /\ \A k \in 1 .. L : h[k] = g[k]
        /\ h[L + 1] = n
        /\ \A k \in 1 .. L + 1 : k \in 1 .. L \/ k = L + 1
    BY <2>3, SMT
  <2>5. h \in [1 .. L + 1 -> 1 .. n]
    BY <1>1, <2>3, <2>4, SMT
  <2> HIDE DEF h
  <2>6. \A i, k \in 1 .. L + 1 : i < k => h[i] < h[k]
    <3> SUFFICES ASSUME NEW i \in 1 .. L + 1, NEW k \in 1 .. L + 1, i < k
                 PROVE  h[i] < h[k]
      OBVIOUS
    <3>1. i \in 1 .. L
      BY <2>3, SMT
    <3>2. h[i] = g[i] /\ g[i] \in 1 .. n - 1
      BY <2>3, <2>4, <3>1
    <3>3. CASE k = L + 1
      BY <1>1, <2>4, <3>2, <3>3, SMT
    <3>4. CASE k \in 1 .. L
      BY <1>2, <2>4, <3>1, <3>2, <3>4 DEF L
    <3> QED BY <2>4, <3>3, <3>4
  <2>7. \A k \in 1 .. L + 1 : rr[k] = s[h[k]] /\ s[h[k]] \in wanted
    BY <1>2, <1>3, <2>2, <2>4 DEF L
  <2>8. \A j \in 1 .. n : s[j] \in wanted => \E k \in 1 .. L + 1 : h[k] = j
    <3> SUFFICES ASSUME NEW j \in 1 .. n, s[j] \in wanted PROVE \E k \in 1 .. L + 1 : h[k] = j
      OBVIOUS
    <3>1. CASE j = n
      <4>1. L + 1 \in 1 .. L + 1
        BY <2>3, SMT
      <4> QED BY <2>4, <3>1, <4>1
    <3>2. CASE j # n
      <4>1. j \in 1 .. n - 1
        BY <1>1, <3>2, SMT
      <4>2. PICK k \in 1 .. L : g[k] = j
        BY <1>2, <4>1 DEF L
      <4> QED BY <2>3, <2>4, <4>2
    <3> QED BY <3>1, <3>2
  <2>9. Picks(h, s, wanted, n, rr)
    BY <2>2, <2>5, <2>6, <2>7, <2>8 DEF Picks
  <2> QED BY <2>2, <2>9
<1>4. CASE s[n] \notin wanted
  <2>1. rr = r
    BY <1>4
  <2>2. \A k \in 1 .. Len(r) : g[k] \in 1 .. n
    BY <1>1, <1>2, SMT
  <2>3. \A j \in 1 .. n : j = n \/ j \in 1 .. n - 1
    BY <1>1, SMT
  <2>4. Picks(g, s, wanted, n, r)
    BY <1>2, <1>4, <2>2, <2>3 DEF Picks
  <2> QED BY <2>1, <2>4
<1> QED BY <1>3, <1>4

(* Selected keeps what is wanted, all of it, and its order.                *)
LEMMA SelectedPicks ==
    ASSUME NEW S, NEW s \in Seq(S), NEW wanted
    PROVE  /\ Selected(s, wanted) \in Seq(S)
           /\ \E g : Picks(g, s, wanted, Len(s), Selected(s, wanted))
<1> DEFINE N == Len(s)
           f == CHOOSE f : f = [n \in 0 .. N |-> Extended(s, wanted, f, n)]
           Good(n) == f[n] \in Seq(S) /\ \E g : Picks(g, s, wanted, n, f[n])
           wrong == {n \in 0 .. Len(s) : ~Good(n)}
<1>1. N \in Nat
  BY LenProperties
<1>2. f = [n \in 0 .. N |-> Extended(s, wanted, f, n)]
  <2> HIDE DEF N
  <2> QED BY <1>1, SelectedExists
<1>3. Selected(s, wanted) = f[Len(s)]
  BY DEF Selected, Extended
<1> HIDE DEF f
<1>4. \A n \in 0 .. Len(s) : f[n] = Extended(s, wanted, f, n)
  BY <1>2
<1>5. wrong = {}
  <2> SUFFICES ASSUME wrong # {} PROVE FALSE
    OBVIOUS
  <2>1. wrong \subseteq Nat
    BY SMT
  <2>2. PICK n \in wrong : \A j \in wrong : n <= j
    BY <2>1, LeastNatural
  <2>3. n # 0
    <3> SUFFICES ASSUME n = 0 PROVE FALSE
      OBVIOUS
    <3>1. f[0] = <<>>
      BY <1>4 DEF Extended
    <3>2. <<>> \in Seq(S) /\ Len(<<>>) = 0
      BY EmptySeq
    <3>3. 1 .. 0 = {}
      BY SMT
    <3>4. Picks(<<>>, s, wanted, 0, <<>>)
      BY <3>2, <3>3, SMT DEF Picks
    <3> QED BY <3>1, <3>2, <3>4
  <2>4. n \in 1 .. Len(s) /\ n - 1 \in 0 .. Len(s) /\ ~(n <= n - 1)
    BY <1>1, <2>3, SMT
  <2>5. Good(n - 1)
    BY <2>2, <2>4
  <2>6. f[n] = IF s[n] \in wanted THEN Append(f[n - 1], s[n]) ELSE f[n - 1]
    BY <1>4, <2>3, <2>4 DEF Extended
  <2>7. PICK g : Picks(g, s, wanted, n - 1, f[n - 1])
    BY <2>5
  <2>8. Good(n)
    <3> DEFINE r == f[n - 1]
               rr == f[n]
    <3>1. r \in Seq(S) /\ Picks(g, s, wanted, n - 1, r)
      BY <2>5, <2>7
    <3>2. rr = IF s[n] \in wanted THEN Append(r, s[n]) ELSE r
      BY <2>6
    <3> HIDE DEF r, rr, wrong, Good
    <3>3. rr \in Seq(S) /\ \E h : Picks(h, s, wanted, n, rr)
      BY <2>4, <3>1, <3>2, PicksExtended
    <3> QED BY <3>3 DEF Good, rr
  <2> QED BY <2>8
<1>6. Good(Len(s))
  BY <1>1, <1>5, SMT
<1> QED BY <1>3, <1>6

-----------------------------------------------------------------------------
LEMMA AsSequence ==
    ASSUME NEW n \in Nat, NEW S, NEW s \in [1 .. n -> S]
    PROVE  s \in Seq(S) /\ Len(s) = n
<1>1. s \in Seq(S)
  BY SeqDef
<1> QED BY <1>1, LenProperties, SMT

LEMMA ReportIsSequence ==
    ASSUME NEW mes \in Mes
    PROVE  mes \in Seq(Values) /\ Len(mes) \in 0 .. MaxValues /\ DOMAIN mes = 1 .. Len(mes)
<1>1. MaxValues \in Nat
  BY ServerAssumption
<1>2. PICK n \in 0 .. MaxValues : mes \in [1 .. n -> Values]
  BY DEF Mes
<1>3. n \in Nat
  BY <1>1, <1>2, SMT
<1> QED BY <1>2, <1>3, AsSequence

(* The places of a report's values that are not zero and did not fail.     *)
Kept(mes, failing) == {i \in 0 .. Len(mes) - 1 : mes[i + 1] # 0} \ failing

(* The rows new bring each of them once, and with its own place.           *)
BringEach(new, time, mes, subs) ==
    /\ new \in Seq(Row)
    /\ \A k \in 1 .. Len(new) :
         /\ new[k].sub \in subs
         /\ new[k] = [time |-> time, sub |-> new[k].sub, val |-> mes[new[k].sub + 1]]
    /\ \A i, k \in 1 .. Len(new) : new[i].sub = new[k].sub => i = k
    /\ \A sub \in subs : \E k \in 1 .. Len(new) : new[k].sub = sub

LEMMA RowsOfReport ==
    ASSUME NEW time \in Times, NEW mes \in Mes,
           NEW failing \in SUBSET DOMAIN datapoints(mes)
    PROVE  BringEach(RowsOf(datapoints(mes), time, failing), time, mes, Kept(mes, failing))
<1> DEFINE new == RowsOf(datapoints(mes), time, failing)
           subs == Kept(mes, failing)
           points == datapoints(mes)
           s == [n \in 1 .. MaxValues |-> n - 1]
           inserted == Selected(s, subs)
           K == Len(inserted)
           row(sub) == [time |-> time, sub |-> sub, val |-> points[sub]]
<1>1. MaxValues \in Nat /\ Len(mes) \in 0 .. MaxValues /\ Values \subseteq Int
  BY ServerAssumption, ReportIsSequence
<1>2. /\ \A sub \in subs : sub \in Sub /\ sub \in 0 .. Len(mes) - 1
      /\ \A sub \in subs : sub + 1 \in 1 .. Len(mes)
  BY <1>1, SMT DEF Sub, Kept
<1>3. \A sub \in subs : mes[sub + 1] \in Values /\ points[sub] = mes[sub + 1]
  <2>1. \A sub \in subs : mes[sub + 1] \in Values
    BY <1>2, ReportIsSequence, ElementOfSeq
  <2> QED BY <2>1 DEF datapoints, Kept
<1>4. DOMAIN points \ failing = subs
  BY DEF datapoints, Kept
<1>5. new = [n \in 1 .. K |-> row(inserted[n])]
  BY <1>4 DEF RowsOf
<1>6. s \in Seq(Nat) /\ Len(s) = MaxValues /\ \A n \in 1 .. MaxValues : s[n] = n - 1
  <2>1. s \in [1 .. MaxValues -> Nat]
    BY <1>1, SMT
  <2> QED BY <1>1, <2>1, AsSequence
<1> HIDE DEF s, points
<1>7. inserted \in Seq(Nat) /\ \E g : Picks(g, s, subs, MaxValues, inserted)
  BY <1>6, SelectedPicks
<1>8. PICK g : Picks(g, s, subs, MaxValues, inserted)
  BY <1>7
<1>9. K \in Nat
  BY <1>7, LenProperties
<1> HIDE DEF inserted, K, new, subs
<1>10. /\ g \in [1 .. K -> 1 .. MaxValues]
       /\ \A i, k \in 1 .. K : i < k => g[i] < g[k]
       /\ \A k \in 1 .. K : inserted[k] = s[g[k]] /\ s[g[k]] \in subs
       /\ \A j \in 1 .. MaxValues : s[j] \in subs => \E k \in 1 .. K : g[k] = j
  BY <1>8 DEF Picks, K
<1>11. \A k \in 1 .. K : inserted[k] = g[k] - 1 /\ inserted[k] \in subs
  BY <1>6, <1>10
<1>12. new \in [1 .. K -> Row]
  <2>1. \A sub \in subs : row(sub) \in Row
    BY <1>2, <1>3 DEF Row
  <2> QED BY <1>5, <1>11, <2>1
<1>13. new \in Seq(Row) /\ Len(new) = K
  BY <1>9, <1>12, AsSequence
<1>14. \A k \in 1 .. K : new[k] = row(inserted[k])
  BY <1>5
<1>15. ASSUME NEW k \in 1 .. K
       PROVE  /\ new[k].sub = inserted[k] /\ new[k].sub \in subs
              /\ new[k] = [time |-> time, sub |-> new[k].sub, val |-> mes[new[k].sub + 1]]
  <2>1. new[k] = [time |-> time, sub |-> inserted[k], val |-> points[inserted[k]]]
    BY <1>14
  <2>2. new[k].sub = inserted[k]
    BY <2>1
  <2>3. inserted[k] \in subs /\ points[inserted[k]] = mes[inserted[k] + 1]
    BY <1>3, <1>11
  <2> QED BY <2>1, <2>2, <2>3
<1>15a. \A k \in 1 .. K : new[k].sub = inserted[k]
  BY <1>15
<1>16. \A i, k \in 1 .. K : new[i].sub = new[k].sub => i = k
  <2> SUFFICES ASSUME NEW i \in 1 .. K, NEW k \in 1 .. K, i < k PROVE g[i] - 1 # g[k] - 1
    <3>1. \A i, k \in 1 .. K : i # k => i < k \/ k < i
      BY <1>9, SMT
    <3> QED BY <1>11, <1>15a, <3>1
  <2> QED BY <1>1, <1>10, SMT
<1>17. \A sub \in subs : \E k \in 1 .. K : new[k].sub = sub
  <2> SUFFICES ASSUME NEW sub \in subs PROVE \E k \in 1 .. K : inserted[k] = sub
    BY <1>15a
  <2>1. sub + 1 \in 1 .. MaxValues /\ s[sub + 1] = sub
    <3>1. sub \in 0 .. MaxValues - 1
      BY <1>2 DEF Sub
    <3>2. sub + 1 \in 1 .. MaxValues /\ (sub + 1) - 1 = sub
      BY <1>1, <3>1, SMT
    <3> QED BY <1>6, <3>2
  <2>2. PICK k \in 1 .. K : g[k] = sub + 1
    BY <1>10, <2>1
  <2> QED BY <1>10, <2>1, <2>2
<1>18. BringEach(new, time, mes, subs)
  BY <1>13, <1>15, <1>16, <1>17 DEF BringEach
<1> QED BY <1>18 DEF new, subs

-----------------------------------------------------------------------------
Entry == [time : Times, mes : Mes, signed : BOOLEAN, answer : Answer]

(* Value c[2] of request c[1], if the answer ok stands for it.             *)
Stored ==
    {c \in (DOMAIN log) \X Sub :
        /\ log[c[1]].answer = "ok"
        /\ c[2] < Len(log[c[1]].mes)
        /\ log[c[1]].mes[c[2] + 1] # 0
        /\ c \notin failed}

RowAt(c) == [time |-> log[c[1]].time, sub |-> c[2], val |-> log[c[1]].mes[c[2] + 1]]

(* Each row comes from such a value, no two from the same, and each such   *)
(* value has its row.                                                      *)
Matches(origin) ==
    /\ origin \in [DOMAIN measurements -> Stored]
    /\ \A i \in DOMAIN measurements : measurements[i] = RowAt(origin[i])
    /\ \A i, j \in DOMAIN measurements : origin[i] = origin[j] => i = j
    /\ \A c \in Stored : \E i \in DOMAIN measurements : origin[i] = c

(* The table holds what was sent.                                          *)
TableInv ==
    /\ measurements \in Seq(Row)
    /\ log \in Seq(Entry)
    /\ \A n \in DOMAIN log : log[n].answer = "ok" => log[n].signed
    /\ failed \subseteq (DOMAIN log) \X Sub
    /\ \E origin : Matches(origin)

LEMMA InitTable == Init => TableInv
<1> SUFFICES ASSUME Init PROVE TableInv
  OBVIOUS
<1>1. measurements = <<>> /\ log = <<>> /\ failed = {}
  BY DEF Init
<1>2. DOMAIN measurements = {} /\ DOMAIN log = {}
  BY <1>1
<1>3. Stored = {}
  BY <1>2 DEF Stored
<1>4. Matches([i \in DOMAIN measurements |-> 0])
  BY <1>2, <1>3 DEF Matches
<1>5. measurements \in Seq(Row) /\ log \in Seq(Entry)
  BY <1>1, EmptySeq
<1> QED BY <1>1, <1>2, <1>4, <1>5 DEF TableInv

(* How a request adds to the log, and what it leaves of it.                *)
LEMMA LogGrows ==
    ASSUME TableInv, NEW time \in Times, NEW mes \in Mes, NEW signed \in BOOLEAN,
           NEW connected \in BOOLEAN, NEW failing, Post(time, mes, signed, connected, failing),
           NEW L, L = Len(log)
    PROVE  /\ L \in Nat /\ DOMAIN log = 1 .. L /\ DOMAIN log' = 1 .. L + 1
           /\ log' \in Seq(Entry)
           /\ \A n \in 1 .. L : log'[n] = log[n]
           /\ log'[L + 1] = [time |-> time, mes |-> mes, signed |-> signed,
                             answer |-> IF signed /\ connected THEN "ok" ELSE "fail"]
           /\ \A n \in DOMAIN log' : log'[n].answer = "ok" => log'[n].signed
<1> DEFINE entry == [time |-> time, mes |-> mes, signed |-> signed,
                     answer |-> IF signed /\ connected THEN "ok" ELSE "fail"]
<1>1. log' = Append(log, entry) /\ log \in Seq(Entry)
  BY DEF Post, TableInv
<1>2. entry \in Entry
  BY DEF Entry, Answer
<1>3. entry.answer = "ok" => entry.signed
  OBVIOUS
<1> HIDE DEF entry
<1>4. L \in Nat /\ DOMAIN log = 1 .. L
  BY <1>1, LenProperties
<1>5. /\ log' \in Seq(Entry) /\ Len(log') = L + 1
      /\ \A n \in 1 .. L : log'[n] = log[n]
      /\ log'[L + 1] = entry
  BY <1>1, <1>2, AppendProperties
<1>6. DOMAIN log' = 1 .. L + 1
  BY <1>5, LenProperties
<1>7. \A n \in DOMAIN log' : log'[n].answer = "ok" => log'[n].signed
  <2> SUFFICES ASSUME NEW n \in 1 .. L + 1, log'[n].answer = "ok" PROVE log'[n].signed
    BY <1>6
  <2>1. n \in 1 .. L \/ n = L + 1
    BY <1>4, SMT
  <2>2. CASE n \in 1 .. L
    BY <1>4, <1>5, <2>2 DEF TableInv
  <2>3. CASE n = L + 1
    BY <1>3, <1>5, <2>3
  <2> QED BY <2>1, <2>2, <2>3
<1> QED BY <1>4, <1>5, <1>6, <1>7 DEF entry

(* A request that is not answered ok leaves the table alone; one that is   *)
(* puts a row into it for each value that is not zero and did not fail.    *)
LEMMA PostKeepsTable ==
    ASSUME TableInv, NEW time \in Times, NEW mes \in Mes, NEW signed \in BOOLEAN,
           NEW connected \in BOOLEAN, NEW failing \in SUBSET DOMAIN datapoints(mes),
           Post(time, mes, signed, connected, failing)
    PROVE  TableInv'
<1> DEFINE L == Len(log)
<1>1. /\ L \in Nat /\ DOMAIN log = 1 .. L /\ DOMAIN log' = 1 .. L + 1
      /\ log' \in Seq(Entry)
      /\ \A n \in 1 .. L : log'[n] = log[n]
      /\ log'[L + 1] = [time |-> time, mes |-> mes, signed |-> signed,
                        answer |-> IF signed /\ connected THEN "ok" ELSE "fail"]
      /\ \A n \in DOMAIN log' : log'[n].answer = "ok" => log'[n].signed
  BY LogGrows
<1>2. PICK origin : Matches(origin)
  BY DEF TableInv
<1>3. /\ origin \in [DOMAIN measurements -> Stored]
      /\ \A i \in DOMAIN measurements : measurements[i] = RowAt(origin[i])
      /\ \A i, j \in DOMAIN measurements : origin[i] = origin[j] => i = j
      /\ \A c \in Stored : \E i \in DOMAIN measurements : origin[i] = c
  BY <1>2 DEF Matches
<1>4. measurements \in Seq(Row) /\ failed \subseteq (1 .. L) \X Sub
  BY <1>1 DEF TableInv
<1>5. Stored \subseteq (1 .. L) \X Sub
  BY <1>1 DEF Stored
<1>6. ~ L + 1 \in 1 .. L /\ L + 1 \in 1 .. L + 1 /\ 1 .. L \subseteq 1 .. L + 1
  BY <1>1, SMT
<1>7. \A c : c \in (1 .. L) \X Sub => c[1] \in 1 .. L /\ c[2] \in Sub /\ c = <<c[1], c[2]>>
  OBVIOUS
<1>8. \A n \in 1 .. L + 1 : n \in 1 .. L \/ n = L + 1
  BY <1>1, SMT
<1> HIDE DEF L
<1>9. \A c \in Stored : RowAt(c)' = RowAt(c)
  BY <1>1, <1>5, <1>7 DEF RowAt
<1>10. CASE ~(signed /\ connected)
  <2>1. measurements' = measurements /\ failed' = failed
    BY <1>10 DEF Post, save_measurements
  <2>2. log'[L + 1].answer = "fail"
    BY <1>1, <1>10
  <2>3. ASSUME NEW c PROVE c \in Stored' <=> c \in Stored
    <3>1. c \in Stored => c \in Stored'
      BY <1>1, <1>6, <1>7, <2>1 DEF Stored
    <3>2. c \in Stored' => c \in Stored
      <4> SUFFICES ASSUME c \in Stored' PROVE c \in Stored
        OBVIOUS
      <4>1. c \in (1 .. L + 1) \X Sub
        BY <1>1 DEF Stored
      <4>2. c[1] # L + 1
        BY <2>2 DEF Stored
      <4>3. c \in (1 .. L) \X Sub
        BY <1>8, <4>1, <4>2
      <4> QED BY <1>1, <2>1, <4>3 DEF Stored
    <3> QED BY <3>1, <3>2
  <2>4. Stored' = Stored
    BY <2>3
  <2>5. Matches(origin)'
    BY <1>3, <1>9, <2>1, <2>4 DEF Matches
  <2>6. failed' \subseteq (DOMAIN log') \X Sub
    BY <1>1, <1>4, <1>6, <2>1
  <2> QED BY <1>1, <1>4, <2>1, <2>5, <2>6 DEF TableInv
<1>11. CASE signed /\ connected
  <2> DEFINE new == RowsOf(datapoints(mes), time, failing)
             subs == Kept(mes, failing)
             M == Len(measurements)
             K == Len(new)
  <2>1. /\ measurements' = measurements \o new
        /\ failed' = failed \cup {<<L + 1, sub>> : sub \in failing}
    BY <1>11 DEF Post, save_measurements, L
  <2>2. /\ new \in Seq(Row)
        /\ \A k \in 1 .. K :
             /\ new[k].sub \in subs
             /\ new[k] = [time |-> time, sub |-> new[k].sub, val |-> mes[new[k].sub + 1]]
        /\ \A i, k \in 1 .. K : new[i].sub = new[k].sub => i = k
        /\ \A sub \in subs : \E k \in 1 .. K : new[k].sub = sub
    BY RowsOfReport DEF BringEach
  <2>3. failing \subseteq 0 .. Len(mes) - 1 /\ 0 .. Len(mes) - 1 \subseteq Sub
    <3>1. MaxValues \in Nat /\ Len(mes) \in 0 .. MaxValues
      BY ReportIsSequence, ServerAssumption
    <3>2. 0 .. Len(mes) - 1 \subseteq Sub
      BY <3>1, SMT DEF Sub
    <3> QED BY <3>2 DEF datapoints
  <2>4. \A sub \in Sub : <<L + 1, sub>> \in Stored' <=> sub \in subs
    <3> TAKE sub \in Sub
    <3>1. log'[L + 1].answer = "ok" /\ log'[L + 1].mes = mes
      BY <1>1, <1>11
    <3>2. <<L + 1, sub>> \in failed' <=> sub \in failing
      BY <1>4, <1>6, <1>7, <2>1
    <3>3. sub < Len(mes) <=> sub \in 0 .. Len(mes) - 1
      <4>1. MaxValues \in Nat /\ Len(mes) \in 0 .. MaxValues
        BY ReportIsSequence, ServerAssumption
      <4> QED BY <4>1, SMT DEF Sub
    <3>4. <<L + 1, sub>> \in Stored' <=> /\ sub < Len(mes)
                                         /\ mes[sub + 1] # 0
                                         /\ <<L + 1, sub>> \notin failed'
      BY <1>1, <1>6, <3>1 DEF Stored
    <3> QED BY <3>2, <3>3, <3>4 DEF Kept
  <2>5. \A c \in (1 .. L) \X Sub : c \in Stored' <=> c \in Stored
    <3> TAKE c \in (1 .. L) \X Sub
    <3>1. c[1] \in 1 .. L /\ c[1] \in 1 .. L + 1 /\ c[2] \in Sub /\ c = <<c[1], c[2]>>
      BY <1>6, <1>7
    <3>2. c \in failed' <=> c \in failed
      BY <1>6, <2>1, <3>1
    <3>3. log'[c[1]] = log[c[1]]
      BY <1>1, <3>1
    <3> QED BY <1>1, <3>1, <3>2, <3>3 DEF Stored
  <2>6. /\ measurements' \in Seq(Row) /\ M \in Nat /\ K \in Nat
        /\ Len(measurements') = M + K
        /\ \A i \in 1 .. M + K :
             measurements'[i] = IF i <= M THEN measurements[i] ELSE new[i - M]
        /\ DOMAIN measurements' = 1 .. M + K /\ DOMAIN measurements = 1 .. M
    BY <1>4, <2>1, <2>2, ConcatProperties, LenProperties
  <2> HIDE DEF new, M, K, subs
  <2> PICK origin2 : origin2 =
        [i \in 1 .. M + K |-> IF i <= M THEN origin[i] ELSE <<L + 1, new[i - M].sub>>]
    OBVIOUS
  <2>7. \A i \in 1 .. M + K : \/ i \in 1 .. M /\ i <= M
                              \/ ~(i <= M) /\ i - M \in 1 .. K
    BY <2>6, SMT
  <2>8. /\ \A i \in 1 .. M : i \in 1 .. M + K /\ i <= M
        /\ \A k \in 1 .. K : M + k \in 1 .. M + K /\ ~(M + k <= M) /\ (M + k) - M = k
    BY <2>6, SMT
  <2>9. /\ \A i \in 1 .. M : origin2[i] = origin[i] /\ measurements'[i] = measurements[i]
        /\ \A i \in 1 .. M + K : ~(i <= M) => /\ origin2[i] = <<L + 1, new[i - M].sub>>
                                              /\ measurements'[i] = new[i - M]
    BY <2>6, <2>8
  <2>10. \A k \in 1 .. K : new[k].sub \in Sub /\ <<L + 1, new[k].sub>> \in Stored'
    BY <2>2, <2>3, <2>4 DEF subs, Kept
  <2>11. ASSUME NEW i \in 1 .. M + K
         PROVE  origin2[i] \in Stored' /\ measurements'[i] = RowAt(origin2[i])'
    <3>1. CASE i \in 1 .. M
      <4>1. origin[i] \in Stored /\ origin[i] \in (1 .. L) \X Sub
        BY <1>3, <1>5, <2>6, <3>1
      <4>2. measurements[i] = RowAt(origin[i]) /\ RowAt(origin[i])' = RowAt(origin[i])
        BY <1>3, <1>9, <2>6, <3>1, <4>1
      <4>3. origin2[i] = origin[i] /\ measurements'[i] = measurements[i]
        BY <2>9, <3>1
      <4> QED BY <2>5, <4>1, <4>2, <4>3 DEF RowAt
    <3>2. CASE ~(i <= M) /\ i - M \in 1 .. K
      <4> DEFINE k == i - M
      <4>1. origin2[i] = <<L + 1, new[k].sub>> /\ measurements'[i] = new[k] /\ k \in 1 .. K
        BY <2>9, <3>2
      <4> HIDE DEF k
      <4>2. new[k] = [time |-> time, sub |-> new[k].sub, val |-> mes[new[k].sub + 1]]
        BY <2>2, <4>1
      <4>3. log'[L + 1].time = time /\ log'[L + 1].mes = mes
        BY <1>1
      <4>4. origin2[i][1] = L + 1 /\ origin2[i][2] = new[k].sub
        BY <4>1
      <4>5. measurements'[i] = RowAt(origin2[i])'
        BY <4>1, <4>2, <4>3, <4>4 DEF RowAt
      <4> QED BY <2>10, <4>1, <4>5
    <3> QED BY <2>7, <3>1, <3>2
  <2>12. ASSUME NEW i \in 1 .. M + K, NEW j \in 1 .. M + K, origin2[i] = origin2[j]
         PROVE  i = j
    <3>1. \A h \in 1 .. M : origin[h] \in (1 .. L) \X Sub /\ origin[h][1] # L + 1
      BY <1>3, <1>5, <1>6, <1>7, <2>6
    <3>2. CASE i <= M /\ j <= M
      BY <1>3, <2>6, <2>7, <2>9, <2>12, <3>2
    <3>3. CASE ~(i <= M) /\ ~(j <= M)
      <4>1. i - M \in 1 .. K /\ j - M \in 1 .. K
        BY <2>7, <3>3
      <4>2. new[i - M].sub = new[j - M].sub
        BY <2>9, <2>12, <3>3
      <4>3. i - M = j - M
        BY <2>2, <4>1, <4>2
      <4> QED BY <2>6, <4>3, SMT
    <3>4. CASE i <= M /\ ~(j <= M)
      BY <2>7, <2>9, <2>12, <3>1, <3>4
    <3>5. CASE ~(i <= M) /\ j <= M
      BY <2>7, <2>9, <2>12, <3>1, <3>5
    <3> QED BY <3>2, <3>3, <3>4, <3>5
  <2>13. ASSUME NEW c \in Stored'
         PROVE  \E i \in 1 .. M + K : origin2[i] = c
    <3>1. c \in (1 .. L + 1) \X Sub
      BY <1>1 DEF Stored
    <3>2. c[1] \in 1 .. L + 1 /\ c[2] \in Sub /\ c = <<c[1], c[2]>>
      BY <3>1
    <3>3. CASE c[1] \in 1 .. L
      <4>1. c \in Stored
        BY <2>5, <3>2, <3>3
      <4>2. PICK i \in 1 .. M : origin[i] = c
        BY <1>3, <2>6, <4>1
      <4> QED BY <2>8, <2>9, <4>2
    <3>4. CASE c[1] = L + 1
      <4>1. c[2] \in subs
        BY <2>4, <3>2, <3>4
      <4>2. PICK k \in 1 .. K : new[k].sub = c[2]
        BY <2>2, <4>1
      <4>3. origin2[M + k] = c
        BY <2>8, <2>9, <3>2, <3>4, <4>2
      <4> QED BY <2>8, <4>3
    <3> QED BY <1>8, <3>2, <3>3, <3>4
  <2>14. Matches(origin2)'
    <3>1. origin2 \in [1 .. M + K -> Stored']
      BY <2>11
    <3> QED BY <2>6, <2>11, <2>12, <2>13, <3>1 DEF Matches
  <2>15. failed' \subseteq (DOMAIN log') \X Sub
    <3> SUFFICES ASSUME NEW c \in failed' PROVE c \in (1 .. L + 1) \X Sub
      BY <1>1
    <3>1. CASE c \in failed
      BY <1>4, <1>6, <3>1
    <3>2. CASE \E sub \in failing : c = <<L + 1, sub>>
      BY <1>6, <2>3, <3>2
    <3> QED BY <2>1, <3>1, <3>2
  <2> QED BY <1>1, <2>6, <2>14, <2>15 DEF TableInv
<1> QED BY <1>10, <1>11

LEMMA NextKeepsTable == TableInv /\ [Next]_vars => TableInv'
<1> SUFFICES ASSUME TableInv, [Next]_vars PROVE TableInv'
  OBVIOUS
<1>1. CASE Next
  BY <1>1, PostKeepsTable DEF Next
<1>2. CASE UNCHANGED vars
  <2>1. measurements' = measurements /\ log' = log /\ failed' = failed
    BY <1>2 DEF vars
  <2>2. PICK origin : Matches(origin)
    BY DEF TableInv
  <2>3. Stored' = Stored
    BY <2>1 DEF Stored
  <2>4. \A c : RowAt(c)' = RowAt(c)
    BY <2>1 DEF RowAt
  <2>5. Matches(origin)'
    BY <2>1, <2>2, <2>3, <2>4, Zenon DEF Matches
  <2> QED BY <2>1, <2>5, Zenon DEF TableInv
<1> QED BY <1>1, <1>2

(* No more than what it is mapped into one to one.                         *)
LEMMA NoMore ==
    ASSUME NEW S, NEW T, IsFiniteSet(T), NEW h, h \in [S -> T],
           \A a, b \in S : h[a] = h[b] => a = b
    PROVE  Cardinality(S) <= Cardinality(T)
<1>1. h \in Injection(S, T)
  BY DEF Injection, IsInjective
<1> QED BY <1>1, FS_Injection

LEMMA PartIsFinite ==
    ASSUME NEW n \in Nat, NEW S, S \subseteq 1 .. n
    PROVE  IsFiniteSet(S)
<1>1. IsFiniteSet(1 .. n)
  BY FS_Interval, SMT
<1> QED BY <1>1, FS_Subset

LEMMA TableAsSent == TableInv => RowsAsSent
<1> SUFFICES ASSUME TableInv, NEW row \in Row
             PROVE  Cardinality({n \in DOMAIN measurements : measurements[n] = row})
                      <= Cardinality({n \in DOMAIN log : log[n].signed /\ Brings(n, row)})
  BY DEF RowsAsSent
<1> DEFINE there == {n \in DOMAIN measurements : measurements[n] = row}
           senders == {n \in DOMAIN log : log[n].signed /\ Brings(n, row)}
<1>1. PICK origin : Matches(origin)
  BY DEF TableInv
<1>2. /\ origin \in [DOMAIN measurements -> Stored]
      /\ \A i \in DOMAIN measurements : measurements[i] = RowAt(origin[i])
      /\ \A i, j \in DOMAIN measurements : origin[i] = origin[j] => i = j
  BY <1>1 DEF Matches
<1> DEFINE sender == [i \in there |-> origin[i][1]]
<1>3. ASSUME NEW i \in there
      PROVE  /\ sender[i] \in senders
             /\ origin[i] = <<sender[i], row.sub>>
  <2>1. origin[i] \in Stored /\ row = RowAt(origin[i])
    BY <1>2
  <2>2. /\ origin[i] \in (DOMAIN log) \X Sub
        /\ log[origin[i][1]].answer = "ok"
        /\ origin[i][2] < Len(log[origin[i][1]].mes)
    BY <2>1 DEF Stored
  <2>3. /\ row.time = log[origin[i][1]].time
        /\ row.sub = origin[i][2]
        /\ row.val = log[origin[i][1]].mes[origin[i][2] + 1]
    BY <2>1 DEF RowAt
  <2>4. origin[i][1] \in DOMAIN log /\ origin[i] = <<origin[i][1], origin[i][2]>>
    BY <2>2
  <2>5. log[origin[i][1]].signed
    BY <2>2, <2>4 DEF TableInv
  <2>6. Brings(origin[i][1], row)
    BY <2>2, <2>3 DEF Brings
  <2> QED BY <2>3, <2>4, <2>5, <2>6
<1>4. sender \in [there -> senders]
  BY <1>3
<1>5. \A i, j \in there : sender[i] = sender[j] => i = j
  <2>1. there \subseteq DOMAIN measurements
    OBVIOUS
  <2> HIDE DEF sender, there
  <2> QED BY <1>2, <1>3, <2>1
<1>6. IsFiniteSet(senders)
  <2>1. Len(log) \in Nat /\ DOMAIN log = 1 .. Len(log)
    BY LenProperties DEF TableInv
  <2>2. senders \subseteq 1 .. Len(log)
    BY <2>1
  <2> HIDE DEF senders
  <2> QED BY <2>1, <2>2, PartIsFinite
<1> HIDE DEF sender, there, senders
<1>7. Cardinality(there) <= Cardinality(senders)
  BY <1>4, <1>5, <1>6, NoMore
<1> QED BY <1>7 DEF there, senders

-----------------------------------------------------------------------------
(* The page.  Row n of the query becomes this point.                       *)
Point(n) ==
    IF n = 1 \/ n = Len(rows)
    THEN [label |-> None, val |-> calibrate(get, rows[n].val)]
    ELSE [label |-> Label(rows[n], rows[n + 1]),
          val |-> calibrate(get, Filtered(rows[n - 1], rows[n], rows[n + 1]))]

Points(m) == [n \in 1 .. m |-> Point(n)]

(* While the table stays as it is, the rows are what was asked for, and    *)
(* the points are theirs, all of them in the end.                          *)
PageInv ==
    /\ page \in {"none", "404", "loop", "chart"}
    /\ page \in {"loop", "chart"} =>
         /\ get \in Parameters
         /\ rows = Found(get)
         /\ rows # <<>>
    /\ page = "loop" =>
         \E m \in 1 .. Len(rows) : dataset = Points(m) /\ (m = 1 \/ m < Len(rows))
    /\ page = "chart" => dataset = Points(Len(rows))

LEMMA FoundIsSome ==
    ASSUME TableInv, NEW p
    PROVE  /\ Asked(p) \in Seq(Row)
           /\ Found(p) \in Seq(Row)
           /\ Len(Asked(p)) <= Limit => Found(p) = Asked(p)
<1> DEFINE A == Asked(p)
           m == Min({Len(A), Limit})
<1>1. A \in Seq(Row) /\ Len(A) \in Nat
  <2>1. measurements \in Seq(Row)
    BY DEF TableInv
  <2>2. A \in Seq(Row)
    BY <2>1, SelectedPicks DEF Asked
  <2> QED BY <2>2, LenProperties
<1>2. Found(p) = SubSeq(A, 1, m)
  BY DEF Found
<1> HIDE DEF A
<1>3. Limit \in Nat
  BY GraphAssumption
<1>4. m \in Nat /\ m <= Len(A) /\ (Len(A) <= Limit => m = Len(A))
  <2>1. \E x \in {Len(A), Limit} : \A y \in {Len(A), Limit} : x <= y
    BY <1>1, <1>3, SMT
  <2>2. m \in {Len(A), Limit} /\ \A y \in {Len(A), Limit} : m <= y
    BY <2>1 DEF Min
  <2> QED BY <1>1, <1>3, <2>2, SMT
<1> HIDE DEF m
<1>5. \A i \in 1 .. m : A[i] \in Row
  <2>1. \A i \in 1 .. m : i \in 1 .. Len(A)
    BY <1>1, <1>4, SMT
  <2> QED BY <1>1, <2>1, ElementOfSeq
<1>6. /\ SubSeq(A, 1, m) \in Seq(Row)
      /\ Len(SubSeq(A, 1, m)) = IF 1 <= m THEN m - 1 + 1 ELSE 0
      /\ \A i \in 1 .. m - 1 + 1 : SubSeq(A, 1, m)[i] = A[1 + i - 1]
  BY <1>4, <1>5, SubSeqProperties
<1>7. ASSUME Len(A) <= Limit PROVE SubSeq(A, 1, m) = A
  <2>1. m = Len(A)
    BY <1>4, <1>7
  <2>2. Len(SubSeq(A, 1, m)) = Len(A)
    BY <1>4, <1>6, <2>1, SMT
  <2>3. \A i \in 1 .. Len(A) : i \in 1 .. m - 1 + 1 /\ 1 + i - 1 = i
    BY <1>1, <2>1, SMT
  <2>4. \A i \in 1 .. Len(A) : SubSeq(A, 1, m)[i] = A[i]
    BY <1>6, <2>3
  <2> QED BY <1>1, <1>6, <2>2, <2>4, SeqEqual
<1> QED BY <1>1, <1>2, <1>6, <1>7 DEF A

LEMMA PointsGrow ==
    ASSUME NEW m \in Nat
    PROVE  /\ Points(m) \in Seq({Point(n) : n \in Nat}) /\ Len(Points(m)) = m
           /\ DOMAIN Points(m) = 1 .. m
           /\ \A n \in 1 .. m : Points(m)[n] = Point(n)
           /\ Append(Points(m), Point(m + 1)) = Points(m + 1)
<1> DEFINE S == {Point(n) : n \in Nat}
<1>1. ASSUME NEW k \in Nat
      PROVE  /\ Points(k) \in Seq(S) /\ Len(Points(k)) = k
             /\ \A n \in 1 .. k : Points(k)[n] = Point(n)
  <2>1. \A n \in 1 .. k : n \in Nat
    BY SMT
  <2>2. Points(k) \in [1 .. k -> S]
    BY <2>1 DEF Points
  <2> HIDE DEF S
  <2>3. \A n \in 1 .. k : Points(k)[n] = Point(n)
    BY DEF Points
  <2> QED BY <2>2, <2>3, AsSequence
<1>2. m + 1 \in Nat /\ \A n \in 1 .. m + 1 : n \in 1 .. m \/ n = m + 1
  BY SMT
<1>3. Point(m + 1) \in S
  BY <1>2
<1> HIDE DEF S
<1>4. /\ Append(Points(m), Point(m + 1)) \in Seq(S)
      /\ Len(Append(Points(m), Point(m + 1))) = m + 1
      /\ \A n \in 1 .. m : Append(Points(m), Point(m + 1))[n] = Points(m)[n]
      /\ Append(Points(m), Point(m + 1))[m + 1] = Point(m + 1)
  <2>1. Points(m) \in Seq(S) /\ Len(Points(m)) = m
    BY <1>1
  <2> QED BY <1>3, <2>1, AppendProperties
<1>5. /\ Points(m + 1) \in Seq(S) /\ Len(Points(m + 1)) = m + 1
      /\ \A n \in 1 .. m + 1 : Points(m + 1)[n] = Point(n)
  BY <1>1, <1>2
<1>6. \A n \in 1 .. m + 1 : Append(Points(m), Point(m + 1))[n] = Points(m + 1)[n]
  <2> SUFFICES ASSUME NEW n \in 1 .. m + 1
               PROVE  Append(Points(m), Point(m + 1))[n] = Points(m + 1)[n]
    OBVIOUS
  <2>1. CASE n \in 1 .. m
    <3>1. Points(m)[n] = Point(n)
      BY <1>1, <2>1
    <3> QED BY <1>4, <1>5, <2>1, <3>1
  <2>2. CASE n = m + 1
    BY <1>4, <1>5, <2>2
  <2> QED BY <1>2, <2>1, <2>2
<1>7. Append(Points(m), Point(m + 1)) = Points(m + 1)
  BY <1>4, <1>5, <1>6, SeqEqual
<1> QED BY <1>1, <1>7 DEF S, Points

GraphInv == TableInv /\ PageInv

LEMMA InitGraphInv == GraphInit => GraphInv
BY InitTable DEF GraphInit, GraphInv, PageInv

(* What neither the request nor its rows, nor the points, change.          *)
LEMMA PageStays ==
    ASSUME PageInv, UNCHANGED pagevars, UNCHANGED vars \/ page = "none"
    PROVE  PageInv'
<1>1. CASE page = "none"
  BY <1>1 DEF PageInv, pagevars
<1>2. CASE UNCHANGED vars
  <2>1. UNCHANGED <<get, page, rows, dataset, measurements>>
    BY <1>2 DEF vars, pagevars
  <2>2. Found(get)' = Found(get)
    BY <2>1 DEF Found, Asked, begin, end, Newest
  <2>3. \A m : Points(m)' = Points(m)
    BY <2>1 DEF Points, Point, calibrate, Label, Filtered
  <2> QED BY <2>1, <2>2, <2>3 DEF PageInv
<1> QED BY <1>1, <1>2

LEMMA QueryStep ==
    ASSUME GraphInv, NEW p \in Parameters, Query(p)
    PROVE  PageInv'
<1>1. /\ get' = p /\ rows' \in {Found(p), <<>>}
      /\ \/ rows' = <<>> /\ page' = "404"
         \/ /\ rows' # <<>> /\ page' = "loop"
            /\ dataset' = <<[label |-> None, val |-> calibrate(p, rows'[1].val)]>>
      /\ measurements' = measurements
  BY DEF Query, vars
<1>2. CASE rows' = <<>> /\ page' = "404"
  BY <1>2 DEF PageInv
<1>3. CASE /\ rows' # <<>> /\ page' = "loop"
           /\ dataset' = <<[label |-> None, val |-> calibrate(p, rows'[1].val)]>>
  <2>1. rows' = Found(p) /\ Found(get)' = Found(p)
    <3>1. rows' = Found(p)
      BY <1>1, <1>3, Zenon
    <3>2. begin(get)' = begin(p)
      BY <1>1 DEF begin, Newest
    <3>3. end(get)' = end(p)
      BY <1>1, <3>2 DEF end
    <3>4. Asked(get)' = Asked(p)
      BY <1>1, <3>2, <3>3, Zenon DEF Asked
    <3>5. Found(get)' = Found(p)
      BY <3>4, Zenon DEF Found
    <3> QED BY <3>1, <3>5
  <2>2. rows' \in Seq(Row)
    BY <2>1, FoundIsSome DEF GraphInv
  <2>3. 1 \in 1 .. Len(rows')
    <3>1. Len(rows') \in Nat \ {0}
      BY <1>3, <2>2, EmptySeq
    <3> QED BY <3>1, SMT
  <2>4. Points(1)' = <<Point(1)'>>
    BY SMT DEF Points
  <2>5. Point(1)' = [label |-> None, val |-> calibrate(p, rows'[1].val)]
    BY <1>1 DEF Point, calibrate
  <2>6. dataset' = Points(1)'
    BY <1>3, <2>4, <2>5
  <2> QED BY <1>1, <1>3, <2>1, <2>3, <2>6 DEF PageInv
<1> QED BY <1>1, <1>2, <1>3

LEMMA AddPointStep ==
    ASSUME GraphInv, AddPoint
    PROVE  PageInv'
<1>1. /\ page = "loop" /\ UNCHANGED <<get, page, rows, measurements>>
      /\ Len(dataset) + 1 < Len(rows)
      /\ dataset' = Append(dataset,
           [label |-> Label(rows[Len(dataset) + 1], rows[Len(dataset) + 1 + 1]),
            val |-> calibrate(get, Filtered(rows[Len(dataset) + 1 - 1], rows[Len(dataset) + 1],
                                            rows[Len(dataset) + 1 + 1]))])
  BY DEF AddPoint, vars
<1>2. PICK m \in 1 .. Len(rows) : dataset = Points(m)
  BY <1>1 DEF GraphInv, PageInv
<1>3. Len(rows) \in Nat /\ m \in Nat
  <2>1. rows \in Seq(Row)
    BY <1>1, FoundIsSome DEF GraphInv, PageInv
  <2>2. Len(rows) \in Nat
    BY <2>1, LenProperties
  <2> QED BY <2>2, SMT
<1>4. Len(dataset) = m /\ Append(dataset, Point(m + 1)) = Points(m + 1)
  BY <1>2, <1>3, PointsGrow
<1>5. m + 1 # 1 /\ m + 1 # Len(rows) /\ m + 1 \in 1 .. Len(rows) /\ m + 1 < Len(rows)
  BY <1>1, <1>3, <1>4, SMT
<1>6. dataset' = Append(dataset, Point(m + 1))
  BY <1>1, <1>4, <1>5 DEF Point
<1>7. dataset' = Points(m + 1)
  BY <1>4, <1>6
<1>8. Points(m + 1)' = Points(m + 1)
  BY <1>1 DEF Points, Point, calibrate, Label, Filtered
<1>9. Found(get)' = Found(get)
  BY <1>1 DEF Found, Asked, begin, end, Newest
<1> QED BY <1>1, <1>5, <1>7, <1>8, <1>9 DEF GraphInv, PageInv

LEMMA RenderStep ==
    ASSUME GraphInv, Render
    PROVE  PageInv'
<1>1. /\ page = "loop" /\ page' = "chart" /\ UNCHANGED <<get, rows, measurements>>
      /\ Len(dataset) + 1 >= Len(rows)
      /\ dataset' = IF Len(rows) > 1
                    THEN Append(dataset, [label |-> None, val |-> calibrate(get, rows[Len(rows)].val)])
                    ELSE dataset
  BY DEF Render, vars, Last
<1>2. PICK m \in 1 .. Len(rows) : dataset = Points(m) /\ (m = 1 \/ m < Len(rows))
  BY <1>1 DEF GraphInv, PageInv
<1>3. Len(rows) \in Nat /\ m \in Nat
  <2>1. rows \in Seq(Row)
    BY <1>1, FoundIsSome DEF GraphInv, PageInv
  <2>2. Len(rows) \in Nat
    BY <2>1, LenProperties
  <2> QED BY <2>2, SMT
<1>4. Len(dataset) = m /\ Append(dataset, Point(m + 1)) = Points(m + 1)
  BY <1>2, <1>3, PointsGrow
<1>5. dataset' = Points(Len(rows))
  <2>1. CASE Len(rows) > 1
    <3>1. m + 1 = Len(rows)
      BY <1>1, <1>2, <1>3, <1>4, <2>1, SMT
    <3>2. Point(m + 1) = [label |-> None, val |-> calibrate(get, rows[Len(rows)].val)]
      BY <3>1 DEF Point
    <3> QED BY <1>1, <1>4, <2>1, <3>1, <3>2
  <2>2. CASE ~(Len(rows) > 1)
    <3>1. m = Len(rows)
      BY <1>3, <2>2, SMT
    <3> QED BY <1>1, <1>2, <2>2, <3>1
  <2> QED BY <2>1, <2>2
<1>6. Points(Len(rows))' = Points(Len(rows))
  BY <1>1 DEF Points, Point, calibrate, Label, Filtered
<1>7. Found(get)' = Found(get)
  BY <1>1 DEF Found, Asked, begin, end, Newest
<1> QED BY <1>1, <1>5, <1>6, <1>7 DEF GraphInv, PageInv

LEMMA NextGraphInv == GraphInv /\ [GraphNext]_<<vars, pagevars>> => GraphInv'
<1> SUFFICES ASSUME GraphInv, [GraphNext]_<<vars, pagevars>> PROVE GraphInv'
  OBVIOUS
<1>1. CASE page = "none" /\ Next /\ UNCHANGED pagevars
  BY <1>1, NextKeepsTable, PageStays DEF GraphInv
<1>2. ASSUME NEW p \in Parameters, Query(p) PROVE GraphInv'
  <2>1. UNCHANGED vars
    BY <1>2 DEF Query
  <2> QED BY <1>2, <2>1, QueryStep, NextKeepsTable DEF GraphInv
<1>3. CASE AddPoint
  <2>1. UNCHANGED vars
    BY <1>3 DEF AddPoint
  <2> QED BY <1>3, <2>1, AddPointStep, NextKeepsTable DEF GraphInv
<1>4. CASE Render
  <2>1. UNCHANGED vars
    BY <1>4 DEF Render
  <2> QED BY <1>4, <2>1, RenderStep, NextKeepsTable DEF GraphInv
<1>5. CASE UNCHANGED <<vars, pagevars>>
  BY <1>5, NextKeepsTable, PageStays DEF GraphInv
<1> QED BY <1>1, <1>2, <1>3, <1>4, <1>5 DEF GraphNext

(* The table holds what was sent, and the page shows what it holds.        *)
THEOREM GraphInvariance == GraphSpec => []GraphInv
BY InitGraphInv, NextGraphInv, PTL DEF GraphSpec

(* Each row is a value of a signed report, at its very place, and is there *)
(* at most as often as such reports were posted, for any number of posts,  *)
(* repeats and failed inserts (index.php:43, 89-92).                       *)
THEOREM RowsStayAsSent == GraphSpec => []RowsAsSent
<1>1. GraphInv => RowsAsSent
  BY TableAsSent DEF GraphInv
<1> QED BY <1>1, GraphInvariance, PTL

-----------------------------------------------------------------------------
(* What a chart is, by its rows and points.                                *)
LEMMA ChartOfRows ==
    ASSUME GraphInv, Chart
    PROVE  /\ get \in Parameters
           /\ rows = Found(get) /\ rows \in Seq(Row) /\ Len(rows) \in Nat
           /\ DOMAIN rows = 1 .. Len(rows) /\ DOMAIN dataset = 1 .. Len(rows)
           /\ \A n \in 1 .. Len(rows) : dataset[n] = Point(n)
           /\ \A n \in 1 .. Len(rows) : rows[n] \in Row
<1>1. get \in Parameters /\ rows = Found(get) /\ dataset = Points(Len(rows))
  BY DEF GraphInv, PageInv, Chart
<1>2. rows \in Seq(Row)
  BY <1>1, FoundIsSome DEF GraphInv
<1>3. Len(rows) \in Nat /\ DOMAIN rows = 1 .. Len(rows)
  BY <1>2, LenProperties
<1>4. DOMAIN dataset = 1 .. Len(rows) /\ \A n \in 1 .. Len(rows) : dataset[n] = Point(n)
  BY <1>1, <1>3, PointsGrow
<1>5. \A n \in 1 .. Len(rows) : rows[n] \in Row
  BY <1>2, ElementOfSeq
<1> QED BY <1>1, <1>2, <1>3, <1>4, <1>5

LEMMA LabelsAtEnds == GraphInv => LabelsEndReports
<1> SUFFICES ASSUME GraphInv, Chart,
                    \A n \in 2 .. Len(rows) : rows[n].time # rows[n - 1].time <=> rows[n].sub = 0,
                    NEW n \in 2 .. Len(rows) - 1
             PROVE  dataset[n].label = IF rows[n + 1].time # rows[n].time THEN rows[n].time ELSE None
  BY DEF LabelsEndReports
<1>1. Len(rows) \in Nat /\ \A k \in 1 .. Len(rows) : dataset[k] = Point(k)
  BY ChartOfRows
<1>2. n \in 1 .. Len(rows) /\ n # 1 /\ n # Len(rows) /\ n + 1 \in 2 .. Len(rows) /\ n + 1 - 1 = n
  BY <1>1, SMT
<1>3. dataset[n].label = Label(rows[n], rows[n + 1])
  <2>1. dataset[n] = Point(n)
    BY <1>1, <1>2
  <2>2. Point(n).label = Label(rows[n], rows[n + 1])
    BY <1>2, Zenon DEF Point
  <2> QED BY <2>1, <2>2
<1>4. rows[n + 1].time # rows[n].time <=> rows[n + 1].sub = 0
  BY <1>2
<1> QED BY <1>3, <1>4 DEF Label

(* A label stands where a report ends, for rows of any number of reports.  *)
(* That sub is 0 where the time changes, and nowhere else, is the reports' *)
(* part (index.php:223-230).                                               *)
THEOREM LabelsAreTrue == GraphSpec => []LabelsEndReports
BY LabelsAtEnds, GraphInvariance, PTL

-----------------------------------------------------------------------------
LEMMA AnsweredIsShown == GraphInv => OkMeansShown
<1> DEFINE answered(val) ==
             {c \in (DOMAIN log) \X Sub :
                /\ log[c[1]].answer = "ok"
                /\ log[c[1]].time \in end(get) .. begin(get)
                /\ c[2] < Len(log[c[1]].mes)
                /\ log[c[1]].mes[c[2] + 1] = val}
           shown(val) == {n \in DOMAIN dataset : dataset[n].val = calibrate(get, val)}
<1> SUFFICES ASSUME GraphInv, Chart, ~get.f, Len(Asked(get)) <= Limit, NEW val \in Values \ {0}
             PROVE  Cardinality(answered(val) \ failed) <= Cardinality(shown(val))
  BY DEF OkMeansShown
<1>1. /\ rows = Found(get) /\ rows \in Seq(Row) /\ Len(rows) \in Nat
      /\ DOMAIN dataset = 1 .. Len(rows)
      /\ \A n \in 1 .. Len(rows) : dataset[n] = Point(n)
  BY ChartOfRows
<1> DEFINE span == end(get) .. begin(get)
           wanted == [time : span, sub : Sub, val : Values]
           kept == answered(val) \ failed
           pictured == shown(val)
<1>2. measurements \in Seq(Row) /\ DOMAIN measurements = 1 .. Len(measurements)
  BY LenProperties DEF GraphInv, TableInv
<1>3. PICK g : Picks(g, measurements, wanted, Len(measurements), rows)
  <2>1. rows = Selected(measurements, wanted)
    BY <1>1, FoundIsSome DEF GraphInv, Asked
  <2> HIDE DEF wanted
  <2> QED BY <1>2, <2>1, SelectedPicks
<1>4. /\ \A k \in 1 .. Len(rows) : rows[k] = measurements[g[k]]
      /\ \A j \in 1 .. Len(measurements) :
           measurements[j] \in wanted => \E k \in 1 .. Len(rows) : g[k] = j
  BY <1>3 DEF Picks
<1>5. PICK origin : Matches(origin)
  BY DEF GraphInv, TableInv
<1>6. /\ \A i \in DOMAIN measurements : measurements[i] = RowAt(origin[i])
      /\ \A c \in Stored : \E i \in DOMAIN measurements : origin[i] = c
  BY <1>5 DEF Matches
<1>7. ASSUME NEW c \in kept
      PROVE  \E k \in pictured : origin[g[k]] = c
  <2>1. /\ c \in (DOMAIN log) \X Sub /\ c \notin failed
        /\ log[c[1]].answer = "ok" /\ log[c[1]].time \in span
        /\ c[2] < Len(log[c[1]].mes) /\ log[c[1]].mes[c[2] + 1] = val
    OBVIOUS
  <2>2. c \in Stored
    BY <2>1 DEF Stored
  <2>3. PICK i \in DOMAIN measurements : origin[i] = c
    BY <1>6, <2>2
  <2>4. measurements[i] = [time |-> log[c[1]].time, sub |-> c[2], val |-> val]
    BY <1>6, <2>1, <2>3 DEF RowAt
  <2>5. measurements[i] \in wanted
    BY <2>1, <2>4
  <2>6. PICK k \in 1 .. Len(rows) : g[k] = i
    BY <1>2, <1>4, <2>5
  <2>7. rows[k].val = val
    BY <1>4, <2>4, <2>6
  <2>8. dataset[k].val = calibrate(get, val)
    BY <1>1, <2>7 DEF Point, Filtered
  <2>9. k \in pictured
    BY <1>1, <2>8
  <2> QED BY <2>3, <2>6, <2>9
<1>8. IsFiniteSet(pictured)
  <2>1. pictured \subseteq 1 .. Len(rows)
    BY <1>1
  <2> HIDE DEF pictured
  <2> QED BY <1>1, <2>1, PartIsFinite
<1> HIDE DEF kept, pictured
<1> DEFINE point == [c \in kept |-> CHOOSE k \in pictured : origin[g[k]] = c]
<1>9. \A c \in kept : point[c] \in pictured /\ origin[g[point[c]]] = c
  BY <1>7
<1>10. point \in [kept -> pictured]
  BY <1>9
<1> HIDE DEF point
<1>11. \A c, d \in kept : point[c] = point[d] => c = d
  BY <1>9
<1>12. Cardinality(kept) <= Cardinality(pictured)
  BY <1>8, <1>10, <1>11, NoMore
<1> QED BY <1>12 DEF kept, pictured

(* From the device to the picture: what was answered ok is in the chart of *)
(* its time, once for each report that brought it, whatever was posted     *)
(* before and since and wherever inserts failed (index.php:43, 92, 184,    *)
(* 202-247).                                                               *)
THEOREM OkIsShown == GraphSpec => []OkMeansShown
BY AnsweredIsShown, GraphInvariance, PTL

-----------------------------------------------------------------------------
LEMMA QuotientGrows ==
    ASSUME NEW a \in Nat, NEW b \in Nat, a <= b, NEW s \in Nat \ {0}
    PROVE  a \div s \in Nat /\ a \div s <= b \div s
<1> DEFINE q == a \div s
           r == b \div s
<1>1. q \in Nat /\ s * q <= a /\ a < s * q + s
  BY SMT
<1>2. r \in Nat /\ s * r <= b /\ b < s * r + s
  BY SMT
<1>3. ASSUME r + 1 <= q PROVE s * r + s <= s * q
  <2> HIDE DEF q, r
  <2>1. PICK d \in Nat : q = r + 1 + d
    <3>1. q - (r + 1) \in Nat /\ q = r + 1 + (q - (r + 1))
      BY <1>1, <1>2, <1>3, SMT
    <3> QED BY <3>1
  <2>2. s * q = s * r + s + s * d
    BY <1>2, <2>1, SMT
  <2>3. s * d \in Nat
    BY <2>1, SMT
  <2>4. s * r \in Int
    BY <1>2, SMT
  <2> QED BY <2>2, <2>3, <2>4, SMT
<1> HIDE DEF q, r
<1>4. ~(r + 1 <= q)
  <2>1. s * q \in Int /\ s * r \in Int
    BY <1>1, <1>2, SMT
  <2> QED BY <1>1, <1>2, <1>3, <2>1, SMT
<1>5. q \in Nat /\ q <= r
  BY <1>1, <1>2, <1>4, SMT
<1> QED BY <1>5 DEF q, r

(* Cutting off towards zero keeps the order, and so does calibrate.        *)
LEMMA TruncatedGrows ==
    ASSUME NEW u \in Int, NEW v \in Int, u <= v, NEW s \in Nat \ {0}
    PROVE  Truncated(u, s) \in Int /\ Truncated(u, s) <= Truncated(v, s)
<1>1. CASE u >= 0
  <2>1. u \in Nat /\ v \in Nat
    BY <1>1, SMT
  <2>2. u \div s \in Nat /\ v \div s \in Nat /\ u \div s <= v \div s
    BY <2>1, QuotientGrows
  <2> QED BY <2>1, <2>2 DEF Truncated
<1>2. CASE ~(u >= 0) /\ v >= 0
  <2>1. -u \in Nat /\ v \in Nat
    BY <1>2, SMT
  <2>2. (-u) \div s \in Nat /\ v \div s \in Nat
    BY <2>1, QuotientGrows, SMT
  <2>3. -((-u) \div s) \in Int /\ -((-u) \div s) <= v \div s
    BY <2>2, SMT
  <2> QED BY <1>2, <2>3, Zenon DEF Truncated
<1>3. CASE ~(u >= 0) /\ ~(v >= 0)
  <2>1. -u \in Nat /\ -v \in Nat /\ -v <= -u
    BY <1>3, SMT
  <2>2. (-u) \div s \in Nat /\ (-v) \div s \in Nat /\ (-v) \div s <= (-u) \div s
    BY <2>1, QuotientGrows, SMT
  <2>3. -((-u) \div s) \in Int /\ -((-u) \div s) <= -((-v) \div s)
    BY <2>2, SMT
  <2> QED BY <1>3, <2>3, Zenon DEF Truncated
<1> QED BY <1>1, <1>2, <1>3, SMT

LEMMA CalibrateGrows ==
    ASSUME NEW p \in Parameters, NEW x \in Int, NEW y \in Int, x <= y
    PROVE  calibrate(p, x) <= calibrate(p, y)
<1>1. p.z \in Nat /\ p.s \in Nat \ {0}
  BY GraphAssumption
<1>2. p.z * p.s \in Int
  BY <1>1, SMT
<1>3. x - p.z * p.s \in Int /\ y - p.z * p.s \in Int /\ x - p.z * p.s <= y - p.z * p.s
  BY <1>2, SMT
<1> QED BY <1>1, <1>3, TruncatedGrows DEF calibrate

(* What stands in for a peak is not above it and not below both neighbours.*)
LEMMA MeanIsBetween ==
    ASSUME NEW a \in Int, NEW b \in Int, NEW r \in Int, b < r, r > a
    PROVE  /\ Truncated(b + a + 1, 2) \in Int
           /\ Truncated(b + a + 1, 2) <= r
           /\ a <= Truncated(b + a + 1, 2) \/ b <= Truncated(b + a + 1, 2)
BY SMT DEF Truncated

LEMMA PeaksOnly == GraphInv => OnlyPeaksLowered
<1> SUFFICES ASSUME GraphInv, Chart, NEW n \in DOMAIN rows
             PROVE  LET here == calibrate(get, rows[n].val) IN
                    \/ dataset[n].val = here
                    \/ /\ get.f /\ n - 1 \in DOMAIN rows /\ n + 1 \in DOMAIN rows
                       /\ rows[n - 1].val < rows[n].val /\ rows[n].val > rows[n + 1].val
                       /\ dataset[n].val <= here
                       /\ \E m \in {n - 1, n + 1} : calibrate(get, rows[m].val) <= dataset[n].val
  BY DEF OnlyPeaksLowered
<1>1. /\ get \in Parameters /\ Len(rows) \in Nat /\ DOMAIN rows = 1 .. Len(rows)
      /\ \A k \in 1 .. Len(rows) : dataset[k] = Point(k)
      /\ \A k \in 1 .. Len(rows) : rows[k] \in Row
  BY ChartOfRows
<1>2. \A k \in 1 .. Len(rows) : rows[k].val \in Int
  BY <1>1, ServerAssumption DEF Row
<1> DEFINE here == calibrate(get, rows[n].val)
           there == calibrate(get, Filtered(rows[n - 1], rows[n], rows[n + 1]))
<1>2a. dataset[n] = IF n = 1 \/ n = Len(rows)
                    THEN [label |-> None, val |-> here]
                    ELSE [label |-> Label(rows[n], rows[n + 1]), val |-> there]
  BY <1>1 DEF Point
<1>3. CASE n = 1 \/ n = Len(rows)
  <2>1. dataset[n] = [label |-> None, val |-> here]
    BY <1>2a, <1>3
  <2>2. dataset[n].val = here
    BY <2>1
  <2> QED BY <2>2
<1>4. CASE ~(n = 1 \/ n = Len(rows))
  <2>1. n - 1 \in 1 .. Len(rows) /\ n + 1 \in 1 .. Len(rows)
    BY <1>1, <1>4, SMT
  <2> DEFINE b == rows[n - 1].val
             r == rows[n].val
             a == rows[n + 1].val
             mean == Truncated(b + a + 1, 2)
  <2>2. dataset[n].val = calibrate(get, Filtered(rows[n - 1], rows[n], rows[n + 1]))
    <3>1. dataset[n] = [label |-> Label(rows[n], rows[n + 1]), val |-> there]
      BY <1>2a, <1>4
    <3> QED BY <3>1
  <2>3. a \in Int /\ b \in Int /\ r \in Int
    BY <1>1, <1>2, <2>1
  <2>4. CASE get.f /\ b < r /\ r > a
    <3>1. dataset[n].val = calibrate(get, mean)
      BY <2>2, <2>4 DEF Filtered
    <3>2. mean \in Int /\ mean <= r /\ (a <= mean \/ b <= mean)
      <4> HIDE DEF a, b, r
      <4> QED BY <2>3, <2>4, MeanIsBetween
    <3> HIDE DEF mean
    <3>3. calibrate(get, mean) <= calibrate(get, r)
      <4> HIDE DEF r
      <4> QED BY <1>1, <2>3, <3>2, CalibrateGrows
    <3>4. calibrate(get, a) <= calibrate(get, mean) \/ calibrate(get, b) <= calibrate(get, mean)
      <4> HIDE DEF a, b
      <4> QED BY <1>1, <2>3, <3>2, CalibrateGrows
    <3> QED BY <1>1, <2>1, <2>4, <3>1, <3>3, <3>4
  <2>5. CASE ~(get.f /\ b < r /\ r > a)
    <3>1. Filtered(rows[n - 1], rows[n], rows[n + 1]) = r
      BY <2>5, Zenon DEF Filtered
    <3> QED BY <2>2, <3>1
  <2> QED BY <2>4, <2>5
<1> QED BY <1>3, <1>4

(* The filter lowers peaks and nothing else, and makes no dents of them,   *)
(* for any values, zero and scale (index.php:118, 232-234).                *)
THEOREM FilterLowersPeaks == GraphSpec => []OnlyPeaksLowered
BY PeaksOnly, GraphInvariance, PTL
=============================================================================
