--------------------------- MODULE StartupProofs ---------------------------
(***************************************************************************)
(* For files and defaults of any length, and buffers of any size: which    *)
(* value read_conf_string finds, and what becomes of the key's text.       *)
(***************************************************************************)
EXTENDS Startup, SequenceTheorems, WellFoundedInduction, TLAPS

-----------------------------------------------------------------------------
(* Parts of a text.                                                        *)
Suffix(t, p) == SubSeq(t, p, Len(t))

LEMMA PartOf ==
    ASSUME NEW t \in Seq(Char), NEW m \in 1 .. Len(t) + 1, NEW n \in m - 1 .. Len(t)
    PROVE  /\ SubSeq(t, m, n) \in Seq(Char)
           /\ Len(SubSeq(t, m, n)) = n - m + 1
           /\ \A i \in 1 .. n - m + 1 : SubSeq(t, m, n)[i] = t[m + i - 1]
<1>1. Len(t) \in Nat
  BY LenProperties
<1>2. m \in Int /\ n \in Int
  BY <1>1, SMT
<1>3. \A i \in m .. n : t[i] \in Char
  <2> TAKE i \in m .. n
  <2>1. i \in 1 .. Len(t)
    BY <1>1, SMT
  <2> QED BY <2>1, ElementOfSeq
<1>4. (IF m <= n THEN n - m + 1 ELSE 0) = n - m + 1
  BY <1>1, SMT
<1> QED BY <1>2, <1>3, <1>4, SubSeqProperties

LEMMA SuffixOf ==
    ASSUME NEW t \in Seq(Char), NEW p \in 1 .. Len(t) + 1
    PROVE  /\ Suffix(t, p) \in Seq(Char)
           /\ Len(Suffix(t, p)) = Len(t) - p + 1
           /\ \A i \in 1 .. Len(t) - p + 1 : Suffix(t, p)[i] = t[p + i - 1]
<1>1. Len(t) \in p - 1 .. Len(t)
  BY LenProperties, SMT
<1> QED BY <1>1, PartOf DEF Suffix

LEMMA PartOfSuffix ==
    ASSUME NEW t \in Seq(Char), NEW p \in 1 .. Len(t) + 1,
           NEW i \in 1 .. Len(t) - p + 2, NEW j \in i - 1 .. Len(t) - p + 1
    PROVE  SubSeq(Suffix(t, p), i, j) = SubSeq(t, p + i - 1, p + j - 1)
<1> DEFINE s == Suffix(t, p)
           a == SubSeq(s, i, j)
           b == SubSeq(t, p + i - 1, p + j - 1)
<1>1. Len(t) \in Nat
  BY LenProperties
<1>2. s \in Seq(Char) /\ Len(s) = Len(t) - p + 1
  BY SuffixOf
<1>3. i \in 1 .. Len(s) + 1 /\ j \in i - 1 .. Len(s)
  BY <1>1, <1>2, SMT
<1>4. /\ a \in Seq(Char) /\ Len(a) = j - i + 1
      /\ \A k \in 1 .. j - i + 1 : a[k] = s[i + k - 1]
  <2> HIDE DEF s
  <2> QED BY <1>2, <1>3, PartOf
<1>5. /\ p + i - 1 \in 1 .. Len(t) + 1
      /\ p + j - 1 \in (p + i - 1) - 1 .. Len(t)
      /\ (p + j - 1) - (p + i - 1) + 1 = j - i + 1
  BY <1>1, SMT
<1>6. /\ b \in Seq(Char) /\ Len(b) = j - i + 1
      /\ \A k \in 1 .. j - i + 1 : b[k] = t[(p + i - 1) + k - 1]
  BY <1>5, PartOf
<1>7. \A k \in 1 .. j - i + 1 : a[k] = b[k]
  <2> TAKE k \in 1 .. j - i + 1
  <2>1. i + k - 1 \in 1 .. Len(t) - p + 1 /\ p + (i + k - 1) - 1 = (p + i - 1) + k - 1
    BY <1>1, SMT
  <2>2. s[i + k - 1] = t[p + (i + k - 1) - 1]
    BY <2>1, SuffixOf
  <2> QED BY <1>4, <1>6, <2>1, <2>2
<1> HIDE DEF a, b
<1>8. a = b
  BY <1>4, <1>6, <1>7, SeqEqual
<1> QED BY <1>8 DEF a, b

-----------------------------------------------------------------------------
(* The place that FirstIs finds.                                           *)
LEMMA LeastNatural ==
    ASSUME NEW T, T \subseteq Nat, T # {}
    PROVE  \E m \in T : \A n \in T : m <= n
<1>1. \A x, y \in Nat : x < y => <<x, y>> \in OpToRel(<, Nat)
  BY DEF OpToRel
<1>2. PICK m \in T : \A y \in T : ~(<<y, m>> \in OpToRel(<, Nat))
  BY NatLessThanWellFounded, WFMin
<1>3. \A y \in T : ~(y < m)
  BY <1>1, <1>2
<1>4. \A y \in T : m <= y
  BY <1>3, SMT
<1> QED BY <1>4

(* text[i] is the first d.                                                 *)
FirstAt(text, d, i) ==
    /\ i \in 1 .. Len(text) + 1
    /\ \A j \in 1 .. i - 1 : text[j] # d
    /\ i <= Len(text) => text[i] = d

(* text[i] is the first that is not a d.                                   *)
FirstOther(text, d, i) ==
    /\ i \in 1 .. Len(text) + 1
    /\ \A j \in 1 .. i - 1 : text[j] = d
    /\ i <= Len(text) => text[i] # d

LEMMA FirstIsAt ==
    ASSUME NEW text \in Seq(Char), NEW d
    PROVE  FirstAt(text, d, FirstIs(text, d, TRUE))
<1> DEFINE at == {i \in 1 .. Len(text) : (text[i] = d) = TRUE}
           m == Min(at)
<1>1. Len(text) \in Nat /\ at \subseteq Nat
  BY LenProperties, SMT
<1>2. \A i \in 1 .. Len(text) : i \in at <=> text[i] = d
  BY Zenon
<1>3. FirstIs(text, d, TRUE) =
          LET i == IF at # {} THEN m ELSE 0 IN IF i = 0 THEN Len(text) + 1 ELSE i
  BY Zenon DEF FirstIs, SelectInSeq
<1>4. CASE at = {}
  <2>1. FirstIs(text, d, TRUE) = Len(text) + 1
    BY <1>3, <1>4
  <2>2. /\ Len(text) + 1 \in 1 .. Len(text) + 1 /\ ~(Len(text) + 1 <= Len(text))
        /\ (Len(text) + 1) - 1 = Len(text)
    BY <1>1, SMT
  <2>3. \A j \in 1 .. (Len(text) + 1) - 1 : text[j] # d
    BY <1>2, <1>4, <2>2, Zenon
  <2> QED BY <2>1, <2>2, <2>3 DEF FirstAt
<1>5. CASE at # {}
  <2>1. m \in at /\ \A j \in at : m <= j
    <3>1. \E k \in at : \A j \in at : k <= j
      BY <1>1, <1>5, LeastNatural
    <3> QED BY <3>1 DEF Min
  <2> HIDE DEF m
  <2>2. m \in 1 .. Len(text) /\ text[m] = d
    BY <1>2, <2>1
  <2>3. m # 0 /\ m \in 1 .. Len(text) + 1
    BY <1>1, <2>2, SMT
  <2>4. FirstIs(text, d, TRUE) = m
    BY <1>3, <1>5, <2>3
  <2>5. \A j \in 1 .. m - 1 : text[j] # d
    <3> TAKE j \in 1 .. m - 1
    <3>1. j \in 1 .. Len(text) /\ ~(m <= j)
      BY <1>1, <2>2, SMT
    <3> QED BY <1>2, <2>1, <3>1
  <2> QED BY <2>2, <2>3, <2>4, <2>5 DEF FirstAt
<1> QED BY <1>4, <1>5

LEMMA FirstIsOther ==
    ASSUME NEW text \in Seq(Char), NEW d
    PROVE  FirstOther(text, d, FirstIs(text, d, FALSE))
<1> DEFINE at == {i \in 1 .. Len(text) : (text[i] = d) = FALSE}
           m == Min(at)
<1>1. Len(text) \in Nat /\ at \subseteq Nat
  BY LenProperties, SMT
<1>2. \A i \in 1 .. Len(text) : i \in at <=> text[i] # d
  BY Zenon
<1>3. FirstIs(text, d, FALSE) =
          LET i == IF at # {} THEN m ELSE 0 IN IF i = 0 THEN Len(text) + 1 ELSE i
  BY Zenon DEF FirstIs, SelectInSeq
<1>4. CASE at = {}
  <2>1. FirstIs(text, d, FALSE) = Len(text) + 1
    BY <1>3, <1>4
  <2>2. /\ Len(text) + 1 \in 1 .. Len(text) + 1 /\ ~(Len(text) + 1 <= Len(text))
        /\ (Len(text) + 1) - 1 = Len(text)
    BY <1>1, SMT
  <2>3. \A j \in 1 .. (Len(text) + 1) - 1 : text[j] = d
    BY <1>2, <1>4, <2>2, Zenon
  <2> QED BY <2>1, <2>2, <2>3 DEF FirstOther
<1>5. CASE at # {}
  <2>1. m \in at /\ \A j \in at : m <= j
    <3>1. \E k \in at : \A j \in at : k <= j
      BY <1>1, <1>5, LeastNatural
    <3> QED BY <3>1 DEF Min
  <2> HIDE DEF m
  <2>2. m \in 1 .. Len(text) /\ text[m] # d
    BY <1>2, <2>1
  <2>3. m # 0 /\ m \in 1 .. Len(text) + 1
    BY <1>1, <2>2, SMT
  <2>4. FirstIs(text, d, FALSE) = m
    BY <1>3, <1>5, <2>3
  <2>5. \A j \in 1 .. m - 1 : text[j] = d
    <3> TAKE j \in 1 .. m - 1
    <3>1. j \in 1 .. Len(text) /\ ~(m <= j)
      BY <1>1, <2>2, SMT
    <3> QED BY <1>2, <2>1, <3>1
  <2> QED BY <2>2, <2>3, <2>4, <2>5 DEF FirstOther
<1> QED BY <1>4, <1>5

LEMMA OneFirst ==
    ASSUME NEW text \in Seq(Char), NEW d, NEW i, NEW j
    PROVE  /\ FirstAt(text, d, i) /\ FirstAt(text, d, j) => i = j
           /\ FirstOther(text, d, i) /\ FirstOther(text, d, j) => i = j
<1>1. Len(text) \in Nat
  BY LenProperties
<1>2. ASSUME FirstAt(text, d, i), FirstAt(text, d, j) PROVE i = j
  BY <1>1, <1>2, SMT DEF FirstAt
<1>3. ASSUME FirstOther(text, d, i), FirstOther(text, d, j) PROVE i = j
  BY <1>1, <1>3, SMT DEF FirstOther
<1> QED BY <1>2, <1>3

-----------------------------------------------------------------------------
(* What strtok takes off the rest of a text that begins at p: the token    *)
(* from a up to the delimiter at b.                                        *)
After(t, b) == IF b <= Len(t) THEN b + 1 ELSE Len(t) + 1

Taken(t, d, a, b, found) ==
    /\ a \in 1 .. Len(t) /\ t[a] # d
    /\ b \in a + 1 .. Len(t) + 1
    /\ \A i \in a .. b - 1 : t[i] # d
    /\ b <= Len(t) => t[b] = d
    /\ found.token = SubSeq(t, a, b - 1)
    /\ found.rest = Suffix(t, After(t, b))

LEMMA Token ==
    ASSUME NEW t \in Seq(Char), NEW p \in 1 .. Len(t) + 1, NEW d
    PROVE  LET found == strtok(Suffix(t, p), d)
           IN  \E a \in p .. Len(t) + 1 :
                   /\ \A i \in p .. a - 1 : t[i] = d
                   /\ \/ /\ a = Len(t) + 1
                         /\ found.token = Missing /\ found.rest = Suffix(t, Len(t) + 1)
                      \/ \E b : Taken(t, d, a, b, found)
<1> DEFINE s == Suffix(t, p)
           u == FirstIs(s, d, FALSE)
           tail == SubSeq(s, u, Len(s))
           n == FirstIs(tail, d, TRUE)
           a == p + u - 1
           b == a + n - 1
           found == strtok(s, d)
<1>1. Len(t) \in Nat
  BY LenProperties
<1>2. s \in Seq(Char) /\ Len(s) = Len(t) - p + 1
  BY SuffixOf
<1>3. \A i \in 1 .. Len(t) - p + 1 : s[i] = t[p + i - 1]
  BY SuffixOf
<1>4. found = [token |-> IF tail = <<>> THEN Missing ELSE SubSeq(tail, 1, n - 1),
               rest |-> SubSeq(tail, n + 1, Len(tail))]
  BY DEF strtok
<1>5. FirstOther(s, d, u)
  <2> HIDE DEF s
  <2> QED BY <1>2, FirstIsOther
<1>6. /\ u \in 1 .. Len(s) + 1
      /\ \A j \in 1 .. u - 1 : s[j] = d
      /\ u <= Len(s) => s[u] # d
  <2> HIDE DEF s, u
  <2> QED BY <1>5 DEF FirstOther
<1>7. tail = Suffix(t, a)
  <2>1. u \in 1 .. Len(t) - p + 2 /\ Len(s) \in u - 1 .. Len(t) - p + 1
    <3> HIDE DEF s, u
    <3> QED BY <1>1, <1>2, <1>6, SMT
  <2>2. SubSeq(s, u, Len(s)) = SubSeq(t, p + u - 1, p + Len(s) - 1)
    <3> HIDE DEF u
    <3> QED BY <2>1, PartOfSuffix
  <2>3. p + Len(s) - 1 = Len(t)
    BY <1>1, <1>2, SMT
  <2> QED BY <2>2, <2>3 DEF Suffix
<1> HIDE DEF found, s, u, tail
<1>8. a \in p .. Len(t) + 1 /\ a \in 1 .. Len(t) + 1
  BY <1>1, <1>2, <1>6, SMT
<1>9. \A i \in p .. a - 1 : t[i] = d
  <2> TAKE i \in p .. a - 1
  <2>1. i - p + 1 \in 1 .. u - 1 /\ i - p + 1 \in 1 .. Len(t) - p + 1 /\ p + (i - p + 1) - 1 = i
    BY <1>1, <1>2, <1>6, SMT
  <2> QED BY <1>3, <1>6, <2>1
<1>10. /\ tail \in Seq(Char) /\ Len(tail) = Len(t) - a + 1
       /\ \A i \in 1 .. Len(t) - a + 1 : tail[i] = t[a + i - 1]
  <2> HIDE DEF a
  <2> QED BY <1>7, <1>8, SuffixOf
<1>11. FirstAt(tail, d, n)
  BY <1>10, FirstIsAt
<1> HIDE DEF n
<1>12. /\ n \in 1 .. Len(tail) + 1
       /\ \A j \in 1 .. n - 1 : tail[j] # d
       /\ n <= Len(tail) => tail[n] = d
  BY <1>11 DEF FirstAt
<1>13. CASE a = Len(t) + 1
  <2>1. Len(tail) = 0 /\ n \in Int /\ Len(tail) < n + 1 /\ Len(t) < Len(t) + 1
    BY <1>1, <1>10, <1>12, <1>13, SMT
  <2>2. tail = <<>>
    BY <1>10, <2>1, EmptySeq
  <2>3. SubSeq(tail, n + 1, Len(tail)) = <<>> /\ Suffix(t, Len(t) + 1) = <<>>
    <3>1. n + 1 \in Int /\ Len(tail) \in Int /\ Len(t) + 1 \in Int /\ Len(t) \in Int
      BY <1>1, <2>1, SMT
    <3> QED BY <2>1, <3>1, SubSeqEmpty DEF Suffix
  <2>4. found.token = Missing /\ found.rest = Suffix(t, Len(t) + 1)
    BY <1>4, <2>2, <2>3
  <2> HIDE DEF a
  <2> QED BY <1>8, <1>9, <1>13, <2>4 DEF found, s
<1>14. CASE a # Len(t) + 1
  <2>1. a \in 1 .. Len(t) /\ Len(tail) \in Nat \ {0} /\ 1 \in 1 .. Len(t) - a + 1 /\ a + 1 - 1 = a
    BY <1>1, <1>8, <1>10, <1>14, SMT
  <2>2. tail # <<>>
    BY <2>1, EmptySeq
  <2>3. t[a] # d
    <3>1. u <= Len(s) /\ u \in 1 .. Len(t) - p + 1
      BY <1>1, <1>2, <1>6, <1>14, SMT
    <3>2. s[u] # d /\ s[u] = t[p + u - 1]
      BY <1>3, <1>6, <3>1
    <3> QED BY <3>2
  <2>4. tail[1] = t[a]
    <3> HIDE DEF a
    <3> QED BY <1>10, <2>1
  <2>5. n # 1
    BY <1>12, <2>1, <2>3, <2>4, SMT
  <2>6. b \in a + 1 .. Len(t) + 1
    <3> HIDE DEF a
    <3> QED BY <1>1, <1>10, <1>12, <2>1, <2>5, SMT
  <2>7. \A i \in a .. b - 1 : t[i] # d
    <3> HIDE DEF a
    <3> TAKE i \in a .. b - 1
    <3>1. i - a + 1 \in 1 .. n - 1 /\ i - a + 1 \in 1 .. Len(t) - a + 1 /\ a + (i - a + 1) - 1 = i
      BY <1>1, <1>10, <1>12, <2>1, SMT
    <3> QED BY <1>10, <1>12, <3>1
  <2>8. b <= Len(t) => t[b] = d
    <3> HIDE DEF a
    <3> SUFFICES ASSUME b <= Len(t) PROVE t[b] = d
      OBVIOUS
    <3>1. n <= Len(tail) /\ n \in 1 .. Len(t) - a + 1
      BY <1>1, <1>10, <1>12, <2>1, SMT
    <3>2. tail[n] = d /\ tail[n] = t[a + n - 1]
      BY <1>10, <1>12, <3>1
    <3> QED BY <3>2
  <2>9. found.token = SubSeq(t, a, b - 1)
    <3>1. found.token = SubSeq(tail, 1, n - 1)
      BY <1>4, <2>2
    <3> HIDE DEF a
    <3>2. 1 \in 1 .. Len(t) - a + 2 /\ n - 1 \in 1 - 1 .. Len(t) - a + 1
      BY <1>1, <1>10, <1>12, <2>1, SMT
    <3>3. SubSeq(tail, 1, n - 1) = SubSeq(t, a + 1 - 1, a + (n - 1) - 1)
      BY <1>7, <1>8, <3>2, PartOfSuffix
    <3>4. a + 1 - 1 = a /\ a + (n - 1) - 1 = b - 1
      BY <1>12, <2>1, SMT
    <3> QED BY <3>1, <3>3, <3>4
  <2>10. found.rest = Suffix(t, After(t, b))
    <3>1. found.rest = SubSeq(tail, n + 1, Len(tail))
      BY <1>4
    <3> HIDE DEF a
    <3>2. CASE b <= Len(t)
      <4>1. n + 1 \in 1 .. Len(t) - a + 2 /\ Len(tail) \in (n + 1) - 1 .. Len(t) - a + 1
        BY <1>1, <1>10, <1>12, <2>1, <3>2, SMT
      <4>2. SubSeq(tail, n + 1, Len(tail)) = SubSeq(t, a + (n + 1) - 1, a + Len(tail) - 1)
        BY <1>7, <1>8, <4>1, PartOfSuffix
      <4>3. a + (n + 1) - 1 = b + 1 /\ a + Len(tail) - 1 = Len(t)
        BY <1>1, <1>10, <1>12, <2>1, SMT
      <4> QED BY <3>1, <3>2, <4>2, <4>3 DEF Suffix, After
    <3>3. CASE ~(b <= Len(t))
      <4>1. n + 1 \in Int /\ Len(tail) \in Int /\ Len(tail) < n + 1
        BY <1>1, <1>10, <1>12, <2>1, <3>3, SMT
      <4>2. Len(t) + 1 \in Int /\ Len(t) \in Int /\ Len(t) < Len(t) + 1
        BY <1>1, SMT
      <4>3. SubSeq(tail, n + 1, Len(tail)) = <<>> /\ SubSeq(t, Len(t) + 1, Len(t)) = <<>>
        BY <4>1, <4>2, SubSeqEmpty
      <4> QED BY <3>1, <3>3, <4>3 DEF Suffix, After
    <3> QED BY <3>2, <3>3
  <2> HIDE DEF a, b
  <2>11. Taken(t, d, a, b, found)
    BY <2>1, <2>3, <2>6, <2>7, <2>8, <2>9, <2>10 DEF Taken
  <2> QED BY <1>8, <1>9, <2>11 DEF found, s
<1> QED BY <1>13, <1>14

-----------------------------------------------------------------------------
(* A line from s to m - 1 with a key, its "=" at e, and a value.           *)
LineTo(t, s, m) ==
    /\ s \in 1 .. Len(t) /\ m \in s .. Len(t) + 1
    /\ \A i \in s .. m - 1 : t[i] # Newline
    /\ m <= Len(t) => t[m] = Newline

Proper(t, s, e, m) ==
    /\ LineTo(t, s, m)
    /\ e \in s + 1 .. m - 2
    /\ t[e] = Eq
    /\ \A i \in s .. e - 1 : t[i] # Eq

LEMMA LineEnds ==
    ASSUME NEW t \in Seq(Char), NEW s \in 1 .. Len(t)
    PROVE  \E m : LineTo(t, s, m) /\ Line(t, s) = SubSeq(t, s, m - 1)
<1> DEFINE tail == Suffix(t, s)
           n == FirstIs(tail, Newline, TRUE)
           m == s + n - 1
<1>1. Len(t) \in Nat /\ s \in 1 .. Len(t) + 1
  BY LenProperties, SMT
<1>2. tail \in Seq(Char) /\ Len(tail) = Len(t) - s + 1
  BY <1>1, SuffixOf
<1>3. \A i \in 1 .. Len(t) - s + 1 : tail[i] = t[s + i - 1]
  BY <1>1, SuffixOf
<1>4. Line(t, s) = SubSeq(tail, 1, n - 1)
  BY DEF Line, Suffix
<1>5. FirstAt(tail, Newline, n)
  <2> HIDE DEF tail
  <2> QED BY <1>2, FirstIsAt
<1> HIDE DEF n
<1>6. /\ n \in 1 .. Len(tail) + 1
      /\ \A j \in 1 .. n - 1 : tail[j] # Newline
      /\ n <= Len(tail) => tail[n] = Newline
  <2> HIDE DEF tail
  <2> QED BY <1>5 DEF FirstAt
<1>7. Line(t, s) = SubSeq(t, s, m - 1)
  <2>1. 1 \in 1 .. Len(t) - s + 2 /\ n - 1 \in 1 - 1 .. Len(t) - s + 1
    BY <1>1, <1>2, <1>6, SMT
  <2>2. SubSeq(tail, 1, n - 1) = SubSeq(t, s + 1 - 1, s + (n - 1) - 1)
    BY <1>1, <2>1, PartOfSuffix
  <2>3. s + 1 - 1 = s /\ s + (n - 1) - 1 = m - 1
    BY <1>1, <1>6, SMT
  <2> QED BY <1>4, <2>2, <2>3
<1> HIDE DEF tail
<1>8. m \in s .. Len(t) + 1
  BY <1>1, <1>2, <1>6, SMT
<1>9. \A i \in s .. m - 1 : t[i] # Newline
  <2> TAKE i \in s .. m - 1
  <2>1. i - s + 1 \in 1 .. n - 1 /\ i - s + 1 \in 1 .. Len(t) - s + 1 /\ s + (i - s + 1) - 1 = i
    BY <1>1, <1>2, <1>6, SMT
  <2> QED BY <1>3, <1>6, <2>1
<1>10. m <= Len(t) => t[m] = Newline
  <2> SUFFICES ASSUME m <= Len(t) PROVE t[m] = Newline
    OBVIOUS
  <2>1. n <= Len(tail) /\ n \in 1 .. Len(t) - s + 1
    BY <1>1, <1>2, <1>6, SMT
  <2> QED BY <1>3, <1>6, <2>1
<1>11. LineTo(t, s, m)
  <2> HIDE DEF m
  <2> QED BY <1>8, <1>9, <1>10 DEF LineTo
<1> QED BY <1>7, <1>11

LEMMA OneEnd ==
    ASSUME NEW t \in Seq(Char), NEW s, NEW m, NEW n, LineTo(t, s, m), LineTo(t, s, n)
    PROVE  m = n
<1>1. Len(t) \in Nat
  BY LenProperties
<1> QED BY <1>1, SMT DEF LineTo

LEMMA LineParts ==
    ASSUME NEW t \in Seq(Char), NEW s \in 1 .. Len(t)
    PROVE  /\ WellFormed(Line(t, s)) => \E e, m : Proper(t, s, e, m)
           /\ \A e, m : Proper(t, s, e, m) =>
                  /\ WellFormed(Line(t, s))
                  /\ KeyOf(Line(t, s)) = SubSeq(t, s, e - 1)
                  /\ ValueOf(Line(t, s)) = SubSeq(t, e + 1, m - 1)
<1>1. Len(t) \in Nat
  BY LenProperties
<1>2. PICK m : LineTo(t, s, m) /\ Line(t, s) = SubSeq(t, s, m - 1)
  BY LineEnds
<1> DEFINE line == SubSeq(t, s, m - 1)
           k == EqAt(line)
           e == s + k - 1
<1>3. m \in s .. Len(t) + 1 /\ s \in 1 .. Len(t) + 1 /\ m - 1 \in s - 1 .. Len(t)
  BY <1>1, <1>2, SMT DEF LineTo
<1>4. line \in Seq(Char) /\ Len(line) = (m - 1) - s + 1
  BY <1>3, PartOf
<1>5. \A i \in 1 .. (m - 1) - s + 1 : line[i] = t[s + i - 1]
  BY <1>3, PartOf
<1>6. FirstAt(line, Eq, k)
  <2> HIDE DEF line
  <2> QED BY <1>4, FirstIsAt DEF EqAt
<1>7. ASSUME WellFormed(line) PROVE Proper(t, s, e, m)
  <2>1. k \in 2 .. Len(line) - 1
    BY <1>7 DEF WellFormed
  <2> HIDE DEF line, k
  <2>2. /\ \A j \in 1 .. k - 1 : line[j] # Eq
        /\ k <= Len(line) => line[k] = Eq
    BY <1>6 DEF FirstAt
  <2>3. e \in s + 1 .. m - 2 /\ k <= Len(line) /\ k \in 1 .. (m - 1) - s + 1
    BY <1>1, <1>3, <1>4, <2>1, SMT
  <2>4. t[e] = Eq
    BY <1>5, <2>2, <2>3
  <2>5. \A i \in s .. e - 1 : t[i] # Eq
    <3> TAKE i \in s .. e - 1
    <3>1. i - s + 1 \in 1 .. k - 1 /\ i - s + 1 \in 1 .. (m - 1) - s + 1 /\ s + (i - s + 1) - 1 = i
      BY <1>1, <1>3, <1>4, <2>1, SMT
    <3> QED BY <1>5, <2>2, <3>1
  <2> HIDE DEF e
  <2> QED BY <1>2, <2>3, <2>4, <2>5 DEF Proper
<1>8. ASSUME NEW f, NEW n, Proper(t, s, f, n)
      PROVE  /\ WellFormed(line)
             /\ KeyOf(line) = SubSeq(t, s, f - 1)
             /\ ValueOf(line) = SubSeq(t, f + 1, n - 1)
  <2>1. n = m
    BY <1>2, <1>8, OneEnd DEF Proper
  <2>2. /\ f \in s + 1 .. m - 2 /\ t[f] = Eq
        /\ \A i \in s .. f - 1 : t[i] # Eq
    BY <1>8, <2>1 DEF Proper
  <2> DEFINE g == f - s + 1
  <2>3. /\ g \in 2 .. Len(line) - 1 /\ g \in 1 .. (m - 1) - s + 1 /\ s + g - 1 = f
        /\ g \in 1 .. Len(line) + 1
    <3> HIDE DEF line
    <3> QED BY <1>1, <1>3, <1>4, <2>2, SMT
  <2>4. FirstAt(line, Eq, g)
    <3>1. line[g] = Eq
      <4> HIDE DEF line, g
      <4> QED BY <1>5, <2>2, <2>3
    <3>2. \A j \in 1 .. g - 1 : line[j] # Eq
      <4> HIDE DEF line
      <4> TAKE j \in 1 .. g - 1
      <4>1. s + j - 1 \in s .. f - 1 /\ j \in 1 .. (m - 1) - s + 1
        BY <1>1, <1>3, <2>2, SMT
      <4> QED BY <1>5, <2>2, <4>1
    <3> HIDE DEF line, g
    <3> QED BY <2>3, <3>1, <3>2 DEF FirstAt
  <2>5. k = g
    <3> HIDE DEF line, g, k
    <3> QED BY <1>4, <1>6, <2>4, OneFirst
  <2>6. WellFormed(line)
    BY <2>3, <2>5 DEF WellFormed
  <2>7. KeyOf(line) = SubSeq(t, s, f - 1)
    <3>1. KeyOf(line) = SubSeq(line, 1, g - 1)
      BY <2>5 DEF KeyOf
    <3>2. SubSeq(line, 1, g - 1) = SubSeq(t, s + 1 - 1, s + (g - 1) - 1)
      <4>1. /\ 1 \in 1 .. (m - 1) - s + 1 /\ g - 1 \in 1 .. (m - 1) - s + 1
            /\ s \in 1 .. Len(t) /\ m - 1 \in 1 .. Len(t)
        BY <1>1, <1>3, <2>2, SMT
      <4> HIDE DEF g
      <4> QED BY <4>1, SubSeqOfSubSeq
    <3>3. s + 1 - 1 = s /\ s + (g - 1) - 1 = f - 1
      BY <1>1, <2>2, SMT
    <3> QED BY <3>1, <3>2, <3>3
  <2>8. ValueOf(line) = SubSeq(t, f + 1, n - 1)
    <3>1. ValueOf(line) = SubSeq(line, g + 1, Len(line))
      BY <2>5 DEF ValueOf
    <3>2. SubSeq(line, g + 1, Len(line)) = SubSeq(t, s + (g + 1) - 1, s + Len(line) - 1)
      <4> DEFINE h == g + 1
                 l == Len(line)
      <4>1. h \in 1 .. (m - 1) - s + 1 /\ l \in 1 .. (m - 1) - s + 1
        <5> HIDE DEF line
        <5> QED BY <1>1, <1>3, <1>4, <2>2, SMT
      <4>2. s \in 1 .. Len(t) /\ m - 1 \in 1 .. Len(t)
        BY <1>1, <1>3, <2>2, SMT
      <4> HIDE DEF g, h, l
      <4>3. SubSeq(SubSeq(t, s, m - 1), h, l) = SubSeq(t, s + h - 1, s + l - 1)
        BY <4>1, <4>2, SubSeqOfSubSeq
      <4> QED BY <4>3 DEF h, l
    <3>3. s + (g + 1) - 1 = f + 1 /\ s + Len(line) - 1 = n - 1
      <4> HIDE DEF line
      <4> QED BY <1>1, <1>3, <1>4, <2>1, <2>2, SMT
    <3> QED BY <3>1, <3>2, <3>3
  <2> QED BY <2>6, <2>7, <2>8
<1> HIDE DEF line, e
<1> QED BY <1>2, <1>7, <1>8 DEF line

-----------------------------------------------------------------------------
(* strtok where there is something to take, and on a proper line.          *)
TakenFrom(t, d, p, j, a, b) ==
    /\ Taken(t, d, a, b, strtok(Suffix(t, p), d))
    /\ a \in p .. j
    /\ \A i \in p .. a - 1 : t[i] = d
    /\ \A k \in j + 1 .. Len(t) : t[k] = d => b <= k

LEMMA TakesSome ==
    ASSUME NEW t \in Seq(Char), NEW p \in 1 .. Len(t) + 1, NEW d,
           NEW j \in p .. Len(t), t[j] # d
    PROVE  \E a, b : TakenFrom(t, d, p, j, a, b)
<1>1. Len(t) \in Nat
  BY LenProperties
<1> DEFINE found == strtok(Suffix(t, p), d)
<1>2. PICK a \in p .. Len(t) + 1 :
          /\ \A i \in p .. a - 1 : t[i] = d
          /\ \/ /\ a = Len(t) + 1
                /\ found.token = Missing /\ found.rest = Suffix(t, Len(t) + 1)
             \/ \E b : Taken(t, d, a, b, found)
  BY Token
<1> HIDE DEF found
<1>3. a \in p .. j
  <2> SUFFICES ASSUME ~(a <= j) PROVE FALSE
    BY <1>1, SMT
  <2>1. j \in p .. a - 1
    BY <1>1, SMT
  <2> QED BY <1>2, <2>1
<1>4. PICK b : Taken(t, d, a, b, found)
  <2>1. a # Len(t) + 1
    BY <1>1, <1>3, SMT
  <2> QED BY <1>2, <2>1
<1>5. ASSUME NEW k \in j + 1 .. Len(t), t[k] = d PROVE b <= k
  <2> SUFFICES ASSUME ~(b <= k) PROVE FALSE
    OBVIOUS
  <2>1. b \in a + 1 .. Len(t) + 1
    BY <1>4 DEF Taken
  <2>2. k \in a .. b - 1
    BY <1>1, <1>3, <2>1, SMT
  <2> QED BY <1>4, <1>5, <2>2 DEF Taken
<1> QED BY <1>2, <1>3, <1>4, <1>5 DEF found, TakenFrom

LEMMA TokenType ==
    ASSUME NEW t \in Seq(Char), NEW d, NEW a, NEW b, NEW found, Taken(t, d, a, b, found)
    PROVE  /\ found.token \in Seq(Char) /\ found.token # Missing
           /\ After(t, b) \in 1 .. Len(t) + 1 /\ found.rest = Suffix(t, After(t, b))
<1>1. Len(t) \in Nat
  BY LenProperties
<1>2. /\ a \in 1 .. Len(t) + 1 /\ b - 1 \in a - 1 .. Len(t) /\ After(t, b) \in 1 .. Len(t) + 1
      /\ found.token = SubSeq(t, a, b - 1) /\ found.rest = Suffix(t, After(t, b))
  BY <1>1, SMT DEF Taken, After
<1>3. found.token \in Seq(Char)
  BY <1>2, PartOf
<1> QED BY <1>2, <1>3, ConfAssumption

LEMMA TakesProper ==
    ASSUME NEW t \in Seq(Char), NEW s, NEW e, NEW m, Proper(t, s, e, m)
    PROVE  LET first == strtok(Suffix(t, s), Eq)
               second == strtok(Suffix(t, e + 1), Newline)
           IN  /\ first.token = SubSeq(t, s, e - 1) /\ first.token # Missing
               /\ first.rest = Suffix(t, e + 1)
               /\ second.token = SubSeq(t, e + 1, m - 1) /\ second.token # Missing
               /\ second.rest = Suffix(t, After(t, m))
<1> DEFINE first == strtok(Suffix(t, s), Eq)
           second == strtok(Suffix(t, e + 1), Newline)
<1>1. Len(t) \in Nat
  BY LenProperties
<1>2. /\ s \in 1 .. Len(t) /\ m \in s .. Len(t) + 1 /\ e \in s + 1 .. m - 2
      /\ \A i \in s .. m - 1 : t[i] # Newline
      /\ m <= Len(t) => t[m] = Newline
      /\ t[e] = Eq
      /\ \A i \in s .. e - 1 : t[i] # Eq
  BY DEF Proper, LineTo
<1>3. /\ s \in 1 .. Len(t) + 1 /\ s \in s .. Len(t) /\ s \in s .. e - 1
      /\ e \in s + 1 .. Len(t) /\ e + 1 \in 1 .. Len(t) + 1 /\ e + 1 \in e + 1 .. Len(t)
      /\ e + 1 \in s .. m - 1
  BY <1>1, <1>2, SMT
<1>4. t[s] # Eq /\ t[e + 1] # Newline
  BY <1>2, <1>3
<1>5. PICK a, b :
          /\ Taken(t, Eq, a, b, first) /\ a \in s .. s
          /\ \A k \in s + 1 .. Len(t) : t[k] = Eq => b <= k
  <2>1. s \in 1 .. Len(t) + 1 /\ s \in s .. Len(t) /\ t[s] # Eq
    BY <1>3, <1>4
  <2>2. \E a, b :
            /\ Taken(t, Eq, a, b, strtok(Suffix(t, s), Eq)) /\ a \in s .. s
            /\ \A k \in s + 1 .. Len(t) : t[k] = Eq => b <= k
    BY <2>1, TakesSome DEF TakenFrom
  <2> QED BY <2>2
<1>6. PICK c, n :
          /\ Taken(t, Newline, c, n, second) /\ c \in e + 1 .. e + 1
          /\ \A k \in (e + 1) + 1 .. Len(t) : t[k] = Newline => n <= k
  <2> DEFINE j == e + 1
  <2>1. j \in 1 .. Len(t) + 1 /\ j \in j .. Len(t) /\ t[j] # Newline
    BY <1>3, <1>4
  <2> HIDE DEF j
  <2>2. \E c, n :
            /\ Taken(t, Newline, c, n, strtok(Suffix(t, j), Newline)) /\ c \in j .. j
            /\ \A k \in j + 1 .. Len(t) : t[k] = Newline => n <= k
    BY <2>1, TakesSome DEF TakenFrom
  <2> QED BY <2>2 DEF j
<1> HIDE DEF first, second
<1>7. a = s /\ b = e
  <2>1. a = s /\ b <= e
    BY <1>2, <1>3, <1>5, SMT
  <2>2. b \in a + 1 .. Len(t) + 1 /\ (b <= Len(t) => t[b] = Eq)
    BY <1>5 DEF Taken
  <2>3. b <= Len(t)
    BY <1>1, <1>3, <2>1, <2>2, SMT
  <2>4. ~(b \in s .. e - 1)
    BY <1>2, <2>2, <2>3
  <2> QED BY <1>1, <1>3, <2>1, <2>2, <2>4, SMT
<1>8. c = e + 1 /\ n = m
  <2>1. c = e + 1
    BY <1>3, <1>6, SMT
  <2>2. n \in c + 1 .. Len(t) + 1 /\ (n <= Len(t) => t[n] = Newline)
    BY <1>6 DEF Taken
  <2>3. \A i \in c .. n - 1 : t[i] # Newline
    BY <1>6 DEF Taken
  <2>4. ~(n <= Len(t) /\ n \in s .. m - 1)
    BY <1>2, <2>2
  <2>5. ~(m <= Len(t) /\ m \in c .. n - 1)
    BY <1>2, <2>3
  <2> QED BY <1>1, <1>2, <2>1, <2>2, <2>4, <2>5, SMT
<1>9. first.token = SubSeq(t, s, e - 1) /\ first.rest = Suffix(t, e + 1)
  <2>1. e <= Len(t)
    BY <1>3, SMT
  <2> QED BY <1>5, <1>7, <2>1 DEF Taken, After
<1>10. second.token = SubSeq(t, e + 1, m - 1) /\ second.rest = Suffix(t, After(t, m))
  BY <1>6, <1>8 DEF Taken
<1>11. first.token # Missing /\ second.token # Missing
  BY <1>5, <1>6, TokenType
<1> QED BY <1>9, <1>10, <1>11 DEF first, second

-----------------------------------------------------------------------------
(* A text of lines followed by the defaults.                               *)
LEMMA Joined ==
    ASSUME NEW t \in Seq(Char), NEW u \in Seq(Char)
    PROVE  /\ t \o u \in Seq(Char) /\ Len(t \o u) = Len(t) + Len(u)
           /\ Len(t) \in Nat /\ Len(u) \in Nat
           /\ \A i \in 1 .. Len(t) : (t \o u)[i] = t[i]
           /\ \A i \in 1 .. Len(u) : (t \o u)[Len(t) + i] = u[i]
<1>1. t \o u \in Seq(Char) /\ Len(t \o u) = Len(t) + Len(u)
  BY ConcatProperties
<1>2. \A i \in 1 .. Len(t) + Len(u) : (t \o u)[i] = IF i <= Len(t) THEN t[i] ELSE u[i - Len(t)]
  BY ConcatProperties
<1>3. Len(t) \in Nat /\ Len(u) \in Nat
  BY LenProperties
<1>4. ASSUME NEW i \in 1 .. Len(t) PROVE (t \o u)[i] = t[i]
  <2>1. i \in 1 .. Len(t) + Len(u) /\ i <= Len(t)
    BY <1>3, SMT
  <2> QED BY <1>2, <2>1
<1>5. ASSUME NEW i \in 1 .. Len(u) PROVE (t \o u)[Len(t) + i] = u[i]
  <2>1. Len(t) + i \in 1 .. Len(t) + Len(u) /\ ~(Len(t) + i <= Len(t)) /\ (Len(t) + i) - Len(t) = i
    BY <1>3, SMT
  <2> QED BY <1>2, <2>1
<1> QED BY <1>1, <1>3, <1>4, <1>5

(* A proper line of the first text stays one, though it may become longer  *)
(* if nothing ends it.                                                     *)
LEMMA ProperInFront ==
    ASSUME NEW t \in Seq(Char), NEW u \in Seq(Char), NEW s, NEW e, NEW m, Proper(t, s, e, m)
    PROVE  /\ \E n : Proper(t \o u, s, e, n)
           /\ m <= Len(t) => Proper(t \o u, s, e, m)
<1> DEFINE w == t \o u
<1>1. /\ w \in Seq(Char) /\ Len(w) = Len(t) + Len(u) /\ Len(t) \in Nat /\ Len(u) \in Nat
      /\ \A i \in 1 .. Len(t) : w[i] = t[i]
  BY Joined
<1> HIDE DEF w
<1>2. /\ s \in 1 .. Len(t) /\ m \in s .. Len(t) + 1 /\ e \in s + 1 .. m - 2
      /\ \A i \in s .. m - 1 : t[i] # Newline
      /\ m <= Len(t) => t[m] = Newline
      /\ t[e] = Eq
      /\ \A i \in s .. e - 1 : t[i] # Eq
  BY DEF Proper, LineTo
<1>3. s \in 1 .. Len(w) /\ e \in 1 .. Len(t)
  BY <1>1, <1>2, SMT
<1>4. w[e] = Eq /\ \A i \in s .. e - 1 : w[i] # Eq
  <2>1. w[e] = Eq
    BY <1>1, <1>2, <1>3
  <2>2. ASSUME NEW i \in s .. e - 1 PROVE w[i] # Eq
    <3>1. i \in 1 .. Len(t)
      BY <1>1, <1>2, SMT
    <3> QED BY <1>1, <1>2, <3>1
  <2> QED BY <2>1, <2>2
<1>5. \A i \in s .. m - 1 : w[i] # Newline
  <2> TAKE i \in s .. m - 1
  <2>1. i \in 1 .. Len(t)
    BY <1>1, <1>2, SMT
  <2> QED BY <1>1, <1>2, <2>1
<1>6. PICK n : LineTo(w, s, n)
  BY <1>1, <1>3, LineEnds
<1>7. ~(n < m)
  <2> SUFFICES ASSUME n < m PROVE FALSE
    OBVIOUS
  <2>1. n \in s .. m - 1 /\ n <= Len(w)
    BY <1>1, <1>2, <1>6, SMT DEF LineTo
  <2> QED BY <1>5, <1>6, <2>1 DEF LineTo
<1>8. e \in s + 1 .. n - 2
  <2>1. n \in Int
    BY <1>1, <1>2, <1>6, SMT DEF LineTo
  <2> QED BY <1>1, <1>2, <1>7, <2>1, SMT
<1>9. Proper(w, s, e, n)
  BY <1>4, <1>6, <1>8 DEF Proper
<1>10. ASSUME m <= Len(t) PROVE Proper(w, s, e, m)
  <2>1. m \in 1 .. Len(t) /\ m \in s .. Len(w) + 1
    BY <1>1, <1>2, <1>10, SMT
  <2>2. w[m] = Newline
    BY <1>1, <1>2, <1>10, <2>1
  <2> QED BY <1>2, <1>3, <1>4, <1>5, <2>1, <2>2 DEF Proper, LineTo
<1> QED BY <1>9, <1>10 DEF w

LEMMA ProperBehind ==
    ASSUME NEW t \in Seq(Char), NEW u \in Seq(Char), NEW s, NEW e, NEW m, Proper(u, s, e, m)
    PROVE  Proper(t \o u, Len(t) + s, Len(t) + e, Len(t) + m)
<1> DEFINE w == t \o u
           k == Len(t)
<1>1. /\ w \in Seq(Char) /\ Len(w) = k + Len(u) /\ k \in Nat /\ Len(u) \in Nat
      /\ \A i \in 1 .. Len(u) : w[k + i] = u[i]
  BY Joined
<1> HIDE DEF w, k
<1>2. /\ s \in 1 .. Len(u) /\ m \in s .. Len(u) + 1 /\ e \in s + 1 .. m - 2
      /\ \A i \in s .. m - 1 : u[i] # Newline
      /\ m <= Len(u) => u[m] = Newline
      /\ u[e] = Eq
      /\ \A i \in s .. e - 1 : u[i] # Eq
  BY DEF Proper, LineTo
<1>3. /\ k + s \in 1 .. Len(w) /\ k + m \in k + s .. Len(w) + 1 /\ e \in 1 .. Len(u)
      /\ k + e \in (k + s) + 1 .. (k + m) - 2
  BY <1>1, <1>2, SMT
<1>4. ASSUME NEW i \in k + s .. (k + m) - 1 PROVE w[i] # Newline
  <2>1. i - k \in s .. m - 1 /\ i - k \in 1 .. Len(u) /\ k + (i - k) = i
    BY <1>1, <1>2, SMT
  <2> QED BY <1>1, <1>2, <2>1
<1>5. ASSUME NEW i \in k + s .. (k + e) - 1 PROVE w[i] # Eq
  <2>1. i - k \in s .. e - 1 /\ i - k \in 1 .. Len(u) /\ k + (i - k) = i
    BY <1>1, <1>2, SMT
  <2> QED BY <1>1, <1>2, <2>1
<1>6. ASSUME k + m <= Len(w) PROVE w[k + m] = Newline
  <2>1. m <= Len(u) /\ m \in 1 .. Len(u)
    BY <1>1, <1>2, <1>6, SMT
  <2> QED BY <1>1, <1>2, <2>1
<1>7. w[k + e] = Eq
  BY <1>1, <1>2, <1>3
<1> QED BY <1>3, <1>4, <1>5, <1>6, <1>7 DEF Proper, LineTo, w, k

-----------------------------------------------------------------------------
(* Lines make a text.  That the recursive definition in FlattenSeq defines *)
(* something is shown by the least length for which it would not.          *)
Joint(seqs, f, i) == IF i = 1 THEN seqs[i] ELSE f[i - 1] \o seqs[i]

LEMMA JointExists ==
    ASSUME NEW seqs \in Seq(Seq(Char))
    PROVE  \A k \in Nat : \E f : f = [i \in 1 .. k |-> Joint(seqs, f, i)]
<1> DEFINE Defined(k) == \E f : f = [i \in 1 .. k |-> Joint(seqs, f, i)]
           undefined == {k \in Nat : ~Defined(k)}
<1> SUFFICES ASSUME undefined # {} PROVE FALSE
  OBVIOUS
<1>1. PICK m \in undefined : \A n \in undefined : m <= n
  BY LeastNatural
<1>2. m # 0
  <2> DEFINE f == [i \in 1 .. 0 |-> seqs[i]]
  <2>1. \A i \in 1 .. 0 : FALSE
    BY SMT
  <2>2. f = [i \in 1 .. 0 |-> Joint(seqs, f, i)]
    BY <2>1
  <2>3. Defined(0)
    BY <2>2
  <2> QED BY <2>3
<1>3. m - 1 \in Nat /\ ~(m <= m - 1)
  BY <1>2, SMT
<1>4. PICK f : f = [i \in 1 .. m - 1 |-> Joint(seqs, f, i)]
  BY <1>1, <1>3
<1> DEFINE g == [i \in 1 .. m |-> IF i = m THEN Joint(seqs, f, m) ELSE f[i]]
<1>5. \A i \in 1 .. m : g[i] = Joint(seqs, g, i)
  <2> TAKE i \in 1 .. m
  <2>1. CASE i = 1
    <3>1. g[1] = IF 1 = m THEN Joint(seqs, f, m) ELSE f[1]
      BY <2>1
    <3>2. CASE 1 = m
      BY <2>1, <3>1, <3>2 DEF Joint
    <3>3. CASE 1 # m
      <4>1. 1 \in 1 .. m - 1
        BY <1>2, <3>3, SMT
      <4>2. f[1] = Joint(seqs, f, 1)
        BY <1>4, <4>1
      <4> QED BY <2>1, <3>1, <3>3, <4>2 DEF Joint
    <3> QED BY <3>2, <3>3
  <2>2. CASE i # 1
    <3>1. i - 1 \in 1 .. m /\ i - 1 # m
      BY <1>3, <2>2, SMT
    <3>2. g[i - 1] = f[i - 1]
      BY <3>1
    <3>3. g[i] = Joint(seqs, f, i)
      <4>1. CASE i = m
        BY <4>1
      <4>2. CASE i # m
        <5>1. i \in 1 .. m - 1
          BY <1>3, <4>2, SMT
        <5>2. f[i] = Joint(seqs, f, i)
          BY <1>4, <5>1
        <5> QED BY <4>2, <5>2
      <4> QED BY <4>1, <4>2
    <3> HIDE DEF g
    <3> QED BY <2>2, <3>2, <3>3 DEF Joint
  <2> QED BY <2>1, <2>2
<1>6. g = [i \in 1 .. m |-> Joint(seqs, g, i)]
  <2> HIDE DEF Joint
  <2> QED BY <1>5
<1>7. Defined(m)
  BY <1>6
<1> QED BY <1>7

LEMMA FlattenType ==
    ASSUME NEW seqs \in Seq(Seq(Char))
    PROVE  FlattenSeq(seqs) \in Seq(Char)
<1> DEFINE n == Len(seqs)
<1>1. n \in Nat
  BY LenProperties
<1>2. CASE n = 0
  <2>1. seqs = <<>>
    BY <1>2, EmptySeq
  <2>2. FlattenSeq(seqs) = seqs
    BY <1>2 DEF FlattenSeq
  <2> QED BY <2>1, <2>2, EmptySeq
<1>3. CASE n # 0
  <2> DEFINE f == CHOOSE f : f = [i \in 1 .. n |-> Joint(seqs, f, i)]
  <2>1. f = [i \in 1 .. n |-> Joint(seqs, f, i)]
    <3> HIDE DEF n
    <3> QED BY <1>1, JointExists
  <2>2. FlattenSeq(seqs) = f[n]
    BY <1>3 DEF FlattenSeq, Joint
  <2> HIDE DEF f
  <2>3. \A i \in 1 .. n : f[i] = Joint(seqs, f, i)
    BY <2>1
  <2> DEFINE wrong == {i \in 1 .. n : f[i] \notin Seq(Char)}
  <2>4. wrong = {}
    <3> SUFFICES ASSUME wrong # {} PROVE FALSE
      OBVIOUS
    <3>1. wrong \subseteq Nat
      BY SMT
    <3>2. PICK i \in wrong : \A j \in wrong : i <= j
      BY <3>1, LeastNatural
    <3>3. seqs[i] \in Seq(Char)
      BY ElementOfSeq
    <3>4. i # 1
      BY <2>3, <3>3 DEF Joint
    <3>5. i - 1 \in 1 .. n /\ ~(i <= i - 1)
      <4> HIDE DEF n
      <4> QED BY <1>1, <3>4, SMT
    <3>6. f[i - 1] \in Seq(Char)
      BY <3>2, <3>5
    <3>7. f[i] = f[i - 1] \o seqs[i]
      BY <2>3, <3>4 DEF Joint
    <3>8. f[i] \in Seq(Char)
      BY <3>3, <3>6, <3>7, ConcatProperties
    <3> QED BY <3>8
  <2>5. n \in 1 .. n
    <3> HIDE DEF n
    <3> QED BY <1>1, <1>3, SMT
  <2> QED BY <2>2, <2>4, <2>5
<1> QED BY <1>2, <1>3

LEMMA ConfigTxtType ==
    ASSUME NEW lines \in Files, NEW ended \in BOOLEAN
    PROVE  ConfigTxt(lines, ended) \in Seq(Char)
<1> DEFINE seqs == [n \in DOMAIN lines |-> lines[n] \o <<Newline>>]
           text == FlattenSeq(seqs)
<1>1. lines \in Seq(Seq(Char))
  BY ConfAssumption
<1>2. Len(lines) \in Nat /\ DOMAIN lines = 1 .. Len(lines)
  BY <1>1, LenProperties
<1>3. <<Newline>> \in Seq(Char)
  BY DEF Char
<1>4. \A n \in 1 .. Len(lines) : lines[n] \o <<Newline>> \in Seq(Char)
  <2> TAKE n \in 1 .. Len(lines)
  <2>1. lines[n] \in Seq(Char)
    BY <1>1, ElementOfSeq
  <2> QED BY <1>3, <2>1, ConcatProperties
<1>5. seqs \in [1 .. Len(lines) -> Seq(Char)]
  BY <1>2, <1>4
<1>6. seqs \in Seq(Seq(Char))
  <2> HIDE DEF seqs
  <2> QED BY <1>2, <1>5, SeqDef
<1>7. text \in Seq(Char)
  BY <1>6, FlattenType
<1>8. ASSUME text # <<>> PROVE Front(text) \in Seq(Char)
  <2> HIDE DEF text
  <2>1. Len(text) \in Nat \ {0}
    BY <1>7, <1>8, EmptySeq
  <2>2. 1 \in 1 .. Len(text) + 1 /\ Len(text) - 1 \in 1 - 1 .. Len(text)
    BY <2>1, SMT
  <2>3. SubSeq(text, 1, Len(text) - 1) \in Seq(Char)
    BY <1>7, <2>2, PartOf
  <2> QED BY <2>3 DEF Front
<1>9. ConfigTxt(lines, ended) = IF ended \/ text = <<>> THEN text ELSE Front(text)
  BY DEF ConfigTxt
<1> HIDE DEF text
<1> QED BY <1>7, <1>8, <1>9

-----------------------------------------------------------------------------
(* What is searched, and where the search has come to.                     *)
Text == file \o conf_defaults

ConfTypes ==
    /\ file \in Seq(Char) \cup {Missing} /\ variable_name \in Names
    /\ pc \in {"open", "key", "value", "closed"}
    /\ pc \in {"key", "value"} =>
           file # Missing /\ \E p \in 1 .. Len(Text) + 1 : conf_data = Suffix(Text, p)
    /\ pc # "closed" => output_buffer = Missing
    /\ output_buffer \in Seq(Char) \cup {Missing}
    /\ file = Missing => output_buffer = Missing

LEMMA TextType ==
    ASSUME file \in Seq(Char) \cup {Missing}, file # Missing
    PROVE  /\ file \in Seq(Char) /\ Text \in Seq(Char)
           /\ Len(Text) \in Nat /\ 1 \in 1 .. Len(Text) + 1 /\ Text = Suffix(Text, 1)
<1>1. Text \in Seq(Char)
  BY ConfAssumption, ConcatProperties DEF Text
<1>2. Len(Text) \in Nat
  BY <1>1, LenProperties
<1>3. Text = Suffix(Text, 1)
  BY <1>1, SubSeqFull DEF Suffix
<1>4. 1 \in 1 .. Len(Text) + 1
  BY <1>2, SMT
<1> QED BY <1>1, <1>2, <1>3, <1>4

(* A token taken from somewhere in a text leaves the rest of that text.    *)
LEMMA TokenOf ==
    ASSUME NEW t \in Seq(Char), NEW p \in 1 .. Len(t) + 1, NEW d
    PROVE  LET found == strtok(Suffix(t, p), d)
           IN  /\ found.token \in Seq(Char) \cup {Missing}
               /\ \E q \in 1 .. Len(t) + 1 : found.rest = Suffix(t, q)
<1> DEFINE found == strtok(Suffix(t, p), d)
<1>1. Len(t) + 1 \in 1 .. Len(t) + 1
  BY LenProperties, SMT
<1>2. PICK a : \/ found.token = Missing /\ found.rest = Suffix(t, Len(t) + 1)
               \/ \E b : Taken(t, d, a, b, found)
  BY Token
<1> HIDE DEF found
<1>3. CASE found.token = Missing /\ found.rest = Suffix(t, Len(t) + 1)
  BY <1>1, <1>3 DEF found
<1>4. CASE \E b : Taken(t, d, a, b, found)
  BY <1>4, TokenType DEF found
<1> QED BY <1>2, <1>3, <1>4

LEMMA InitConfTypes == Init => ConfTypes
<1> SUFFICES ASSUME Init PROVE ConfTypes
  OBVIOUS
<1>1. file \in Seq(Char) \cup {Missing}
  BY ConfigTxtType DEF Init
<1> QED BY <1>1 DEF Init, ConfTypes

LEMMA NextConfTypes == ConfTypes /\ [Next]_vars => ConfTypes'
<1> SUFFICES ASSUME ConfTypes, [Next]_vars PROVE ConfTypes'
  OBVIOUS
<1>0. variable_name' \in Names
  BY DEF ConfTypes, Next, Open, Key, Value, vars
<1>1. CASE Open
  <2>1. file' = file /\ output_buffer' = output_buffer /\ output_buffer = Missing /\ Text' = Text
    BY <1>1 DEF Open, ConfTypes, Text
  <2>2. CASE file = Missing
    BY <1>0, <1>1, <2>1, <2>2 DEF Open, ConfTypes
  <2>3. CASE file # Missing
    <3>1. conf_data' = Text /\ pc' = "key"
      BY <1>1, <2>3 DEF Open, WithDefaults, Text
    <3>2. \E p \in 1 .. Len(Text) + 1 : conf_data' = Suffix(Text, p)
      BY <2>3, <3>1, TextType DEF ConfTypes
    <3> QED BY <1>0, <2>1, <2>3, <3>1, <3>2 DEF ConfTypes
  <2> QED BY <2>2, <2>3
<1>2. CASE Key
  <2>1. /\ file' = file /\ output_buffer' = output_buffer /\ output_buffer = Missing
        /\ Text' = Text /\ file # Missing
    BY <1>2 DEF Key, ConfTypes, Text
  <2>2. PICK p \in 1 .. Len(Text) + 1 : conf_data = Suffix(Text, p)
    BY <1>2 DEF Key, ConfTypes
  <2>3. Text \in Seq(Char)
    BY <2>1, TextType DEF ConfTypes
  <2>4. conf_data' = strtok(conf_data, Eq).rest /\ pc' \in {"closed", "value"}
    BY <1>2 DEF Key
  <2>5. \E q \in 1 .. Len(Text) + 1 : conf_data' = Suffix(Text, q)
    BY <2>2, <2>3, <2>4, TokenOf
  <2> QED BY <1>0, <2>1, <2>4, <2>5 DEF ConfTypes
<1>3. CASE Value
  <2> DEFINE found == strtok(conf_data, Newline)
  <2>1. file' = file /\ Text' = Text /\ file # Missing /\ output_buffer = Missing
    BY <1>3 DEF Value, ConfTypes, Text
  <2>2. PICK p \in 1 .. Len(Text) + 1 : conf_data = Suffix(Text, p)
    BY <1>3 DEF Value, ConfTypes
  <2>3. Text \in Seq(Char)
    BY <2>1, TextType DEF ConfTypes
  <2>4. /\ conf_data' = found.rest
        /\ \/ output_buffer' = found.token /\ pc' = "closed"
           \/ output_buffer' = output_buffer /\ pc' = "key"
    BY <1>3 DEF Value
  <2>5. /\ found.token \in Seq(Char) \cup {Missing}
        /\ \E q \in 1 .. Len(Text) + 1 : conf_data' = Suffix(Text, q)
    BY <2>2, <2>3, <2>4, TokenOf
  <2> HIDE DEF found
  <2> QED BY <1>0, <2>1, <2>4, <2>5 DEF ConfTypes
<1>4. CASE UNCHANGED vars
  BY <1>0, <1>4 DEF vars, ConfTypes, Text
<1> QED BY <1>1, <1>2, <1>3, <1>4 DEF Next

-----------------------------------------------------------------------------
(* In a text of proper lines the search stops between lines only, and no   *)
(* line it has left behind answers.                                        *)
AtLine(p) == p \in LineStarts(Text) \/ p = Len(Text) + 1
NoneBefore(p) == \A r \in LineStarts(Text) : r < p => ~Answers(Text, r)
AllProper == \A s \in LineStarts(Text) : WellFormed(Line(Text, s))
FirstAnswer ==
    LET found == {s \in LineStarts(Text) : Answers(Text, s)}
    IN  IF found = {} THEN Missing ELSE ValueOf(Line(Text, Min(found)))

Searched ==
    file # Missing /\ AllProper =>
        /\ pc = "key" => \E p \in 1 .. Len(Text) + 1 :
               conf_data = Suffix(Text, p) /\ AtLine(p) /\ NoneBefore(p)
        /\ pc = "value" => \E s \in LineStarts(Text) : \E e, m :
               /\ Proper(Text, s, e, m) /\ NoneBefore(s)
               /\ conf_data = Suffix(Text, e + 1) /\ key = SubSeq(Text, s, e - 1)
        /\ pc = "closed" => output_buffer = FirstAnswer

LEMMA StartsOf ==
    ASSUME NEW t \in Seq(Char)
    PROVE  \A s : s \in LineStarts(t) <=> s \in 1 .. Len(t) /\ (s = 1 \/ t[s - 1] = Newline)
BY LenProperties DEF LineStarts

LEMMA LeastAnswer ==
    ASSUME Text \in Seq(Char), NEW s \in LineStarts(Text), NoneBefore(s), Answers(Text, s)
    PROVE  FirstAnswer = ValueOf(Line(Text, s))
<1> DEFINE found == {r \in LineStarts(Text) : Answers(Text, r)}
<1>1. s \in found
  OBVIOUS
<1>2. \A r \in found : r \in Int
  BY StartsOf, SMT
<1>3. \A r \in found : s <= r
  <2> TAKE r \in found
  <2>1. ~(r < s)
    BY DEF NoneBefore
  <2> QED BY <1>1, <1>2, <2>1, SMT
<1>4. Min(found) = s
  <2>1. \A r \in found : (\A q \in found : r <= q) => r = s
    <3> HIDE DEF found
    <3> QED BY <1>1, <1>2, <1>3, SMT
  <2>2. \E r \in found : \A q \in found : r <= q
    BY <1>1, <1>3
  <2> HIDE DEF found
  <2> QED BY <2>1, <2>2 DEF Min
<1> QED BY <1>1, <1>4 DEF FirstAnswer

LEMMA NextSearched == ConfTypes /\ Searched /\ [Next]_vars => Searched'
<1> SUFFICES ASSUME ConfTypes, Searched, [Next]_vars, file' # Missing, AllProper'
             PROVE  /\ pc' = "key" => \E p \in 1 .. Len(Text') + 1 :
                          conf_data' = Suffix(Text', p) /\ AtLine(p)' /\ NoneBefore(p)'
                    /\ pc' = "value" => \E s \in LineStarts(Text') : \E e, m :
                          /\ Proper(Text', s, e, m) /\ NoneBefore(s)'
                          /\ conf_data' = Suffix(Text', e + 1) /\ key' = SubSeq(Text', s, e - 1)
                    /\ pc' = "closed" => output_buffer' = FirstAnswer'
  BY DEF Searched
<1>1. file' = file /\ variable_name' = variable_name /\ Text' = Text
  BY DEF Next, Open, Key, Value, vars, Text
<1>2. /\ \A p : AtLine(p)' = AtLine(p)
      /\ \A t, s : Answers(t, s)' = Answers(t, s)
  <2>1. \A p : AtLine(p)' = AtLine(p)
    BY <1>1 DEF AtLine
  <2>2. \A t, s : Answers(t, s)' = Answers(t, s)
    BY <1>1 DEF Answers, Fits
  <2> QED BY <2>1, <2>2
<1>3. /\ \A p : NoneBefore(p)' <=> NoneBefore(p)
      /\ FirstAnswer' = FirstAnswer /\ AllProper
  BY <1>1, <1>2 DEF NoneBefore, FirstAnswer, AllProper, Answers
<1>4. /\ file \in Seq(Char) /\ Text \in Seq(Char)
      /\ Len(Text) \in Nat /\ 1 \in 1 .. Len(Text) + 1 /\ Text = Suffix(Text, 1)
  BY <1>1, TextType DEF ConfTypes
<1>5. CASE Open
  <2>1. conf_data' = Suffix(Text, 1) /\ pc' = "key"
    BY <1>1, <1>4, <1>5 DEF Open, WithDefaults, Text
  <2>2. AtLine(1)
    <3>1. 1 \in 1 .. Len(Text) \/ 1 = Len(Text) + 1
      BY <1>4, SMT
    <3> QED BY <1>4, <3>1, StartsOf DEF AtLine
  <2>3. NoneBefore(1)
    <3>1. \A r \in 1 .. Len(Text) : ~(r < 1)
      BY SMT
    <3> QED BY <1>4, <3>1, StartsOf DEF NoneBefore
  <2> QED BY <1>1, <1>2, <1>3, <1>4, <2>1, <2>2, <2>3
<1>6. CASE Key
  <2> DEFINE found == strtok(conf_data, Eq)
  <2>1. PICK p \in 1 .. Len(Text) + 1 : conf_data = Suffix(Text, p) /\ AtLine(p) /\ NoneBefore(p)
    BY <1>1, <1>3, <1>6 DEF Key, Searched
  <2>2. /\ key' = found.token /\ conf_data' = found.rest /\ output_buffer' = output_buffer
        /\ pc' = IF found.token = Missing THEN "closed" ELSE "value"
        /\ output_buffer = Missing
    BY <1>6 DEF Key, ConfTypes
  <2>3. CASE p \in LineStarts(Text)
    <3>1. p \in 1 .. Len(Text)
      BY <1>4, <2>3, StartsOf
    <3>2. WellFormed(Line(Text, p))
      BY <1>3, <2>3 DEF AllProper
    <3>3. PICK e, m : Proper(Text, p, e, m)
      BY <1>4, <3>1, <3>2, LineParts
    <3>4. /\ found.token = SubSeq(Text, p, e - 1) /\ found.token # Missing
          /\ found.rest = Suffix(Text, e + 1)
      BY <1>4, <2>1, <3>3, TakesProper
    <3> HIDE DEF found
    <3>5. pc' = "value" /\ conf_data' = Suffix(Text, e + 1) /\ key' = SubSeq(Text, p, e - 1)
      BY <2>2, <3>4
    <3> QED BY <1>1, <1>3, <2>1, <2>3, <3>3, <3>5
  <2>4. CASE p = Len(Text) + 1
    <3>1. found.token = Missing
      <4>1. PICK a \in p .. Len(Text) + 1 :
                \/ found.token = Missing
                \/ \E b : Taken(Text, Eq, a, b, found)
        BY <1>4, <2>1, Token
      <4>2. ~(a \in 1 .. Len(Text))
        BY <1>4, <2>4, SMT
      <4> HIDE DEF found
      <4> QED BY <4>1, <4>2 DEF Taken
    <3> HIDE DEF found
    <3>2. pc' = "closed" /\ output_buffer' = Missing
      BY <2>2, <3>1
    <3>3. \A r \in LineStarts(Text) : r < p
      <4>1. \A r \in 1 .. Len(Text) : r < p
        BY <1>4, <2>4, SMT
      <4> QED BY <1>4, <4>1, StartsOf
    <3>4. FirstAnswer = Missing
      BY <2>1, <3>3 DEF NoneBefore, FirstAnswer
    <3> QED BY <1>3, <3>2, <3>4
  <2> QED BY <2>1, <2>3, <2>4 DEF AtLine
<1>7. CASE Value
  <2> DEFINE found == strtok(conf_data, Newline)
  <2>1. PICK s \in LineStarts(Text) : \E e, m :
            /\ Proper(Text, s, e, m) /\ NoneBefore(s)
            /\ conf_data = Suffix(Text, e + 1) /\ key = SubSeq(Text, s, e - 1)
    BY <1>1, <1>3, <1>7 DEF Value, Searched
  <2>2. PICK e, m :
            /\ Proper(Text, s, e, m) /\ NoneBefore(s)
            /\ conf_data = Suffix(Text, e + 1) /\ key = SubSeq(Text, s, e - 1)
    BY <2>1
  <2>3. s \in 1 .. Len(Text)
    BY <1>4, StartsOf
  <2>4. /\ found.token = SubSeq(Text, e + 1, m - 1) /\ found.token # Missing
        /\ found.rest = Suffix(Text, After(Text, m))
    BY <1>4, <2>2, TakesProper
  <2>5. /\ WellFormed(Line(Text, s))
        /\ KeyOf(Line(Text, s)) = key
        /\ ValueOf(Line(Text, s)) = found.token
    <3>1. /\ WellFormed(Line(Text, s))
          /\ KeyOf(Line(Text, s)) = SubSeq(Text, s, e - 1)
          /\ ValueOf(Line(Text, s)) = SubSeq(Text, e + 1, m - 1)
      BY <1>4, <2>2, <2>3, LineParts
    <3> QED BY <2>2, <2>4, <3>1, Zenon
  <2>6. Answers(Text, s) <=> key = variable_name /\ Fits(found.token)
    BY <2>5 DEF Answers
  <2>7. /\ conf_data' = found.rest
        /\ IF found.token # Missing /\ key = variable_name /\ Fits(found.token)
           THEN output_buffer' = found.token /\ pc' = "closed"
           ELSE UNCHANGED output_buffer /\ pc' = "key"
    BY <1>7 DEF Value
  <2> HIDE DEF found
  <2>8. CASE Answers(Text, s)
    <3>1. output_buffer' = ValueOf(Line(Text, s)) /\ pc' = "closed"
      BY <2>4, <2>5, <2>6, <2>7, <2>8
    <3>2. FirstAnswer = ValueOf(Line(Text, s))
      BY <1>4, <2>2, <2>8, LeastAnswer
    <3> QED BY <1>3, <3>1, <3>2
  <2>9. CASE ~Answers(Text, s)
    <3> DEFINE q == After(Text, m)
    <3>1. conf_data' = Suffix(Text, q) /\ pc' = "key"
      BY <2>4, <2>6, <2>7, <2>9
    <3>2. /\ m \in s .. Len(Text) + 1
          /\ \A i \in s .. m - 1 : Text[i] # Newline
          /\ m <= Len(Text) => Text[m] = Newline
      BY <2>2 DEF Proper, LineTo
    <3>3. q \in 1 .. Len(Text) + 1
      BY <1>4, <2>3, <3>2, SMT DEF After
    <3>4. AtLine(q)
      <4>1. CASE m <= Len(Text)
        <5>1. q = m + 1 /\ q - 1 = m /\ (q \in 1 .. Len(Text) \/ q = Len(Text) + 1)
          BY <1>4, <2>3, <3>2, <4>1, SMT DEF After
        <5> HIDE DEF q
        <5> QED BY <1>4, <3>2, <4>1, <5>1, StartsOf DEF AtLine
      <4>2. CASE ~(m <= Len(Text))
        BY <4>2 DEF AtLine, After
      <4> QED BY <4>1, <4>2
    <3>5. NoneBefore(q)
      <4> SUFFICES ASSUME NEW r \in LineStarts(Text), r < q PROVE ~Answers(Text, r)
        BY DEF NoneBefore
      <4>1. r \in 1 .. Len(Text) /\ (r = 1 \/ Text[r - 1] = Newline)
        BY <1>4, StartsOf
      <4>2. ~(r - 1 \in s .. m - 1) \/ r = 1
        BY <3>2, <4>1
      <4>3. r < s \/ r = s
        BY <1>4, <2>3, <3>2, <4>1, <4>2, SMT DEF After
      <4> QED BY <2>2, <2>9, <4>3 DEF NoneBefore
    <3> HIDE DEF q
    <3> QED BY <1>1, <1>2, <1>3, <3>1, <3>3, <3>4, <3>5
  <2> QED BY <2>8, <2>9
<1>8. CASE UNCHANGED vars
  BY <1>1, <1>2, <1>3, <1>8 DEF vars, Searched
<1> QED BY <1>5, <1>6, <1>7, <1>8 DEF Next

(* Proper lines, followed by the defaults, are proper lines.               *)
LEMMA JoinedProper ==
    ASSUME file \in Seq(Char), \A s \in LineStarts(file) : WellFormed(Line(file, s))
    PROVE  AllProper
<1> SUFFICES ASSUME NEW s \in LineStarts(Text) PROVE WellFormed(Line(Text, s))
  BY DEF AllProper
<1>1. /\ Text \in Seq(Char) /\ Len(Text) = Len(file) + Len(conf_defaults)
      /\ Len(file) \in Nat /\ Len(conf_defaults) \in Nat
      /\ \A i \in 1 .. Len(file) : Text[i] = file[i]
      /\ \A i \in 1 .. Len(conf_defaults) : Text[Len(file) + i] = conf_defaults[i]
  BY ConfAssumption, Joined DEF Text
<1>2. s \in 1 .. Len(Text) /\ (s = 1 \/ Text[s - 1] = Newline)
  BY <1>1, StartsOf
<1>3. \E e, m : Proper(Text, s, e, m)
  <2>1. CASE s <= Len(file)
    <3>1. s \in 1 .. Len(file) /\ (s = 1 \/ s - 1 \in 1 .. Len(file))
      BY <1>1, <1>2, <2>1, SMT
    <3>2. s \in LineStarts(file)
      BY <1>1, <1>2, <3>1, StartsOf
    <3>3. PICK e, m : Proper(file, s, e, m)
      BY <3>1, <3>2, LineParts
    <3> QED BY <3>3, ConfAssumption, ProperInFront DEF Text
  <2>2. CASE ~(s <= Len(file))
    <3> DEFINE r == s - Len(file)
    <3>1. /\ r \in 1 .. Len(conf_defaults) /\ s = Len(file) + r
          /\ r = 1 \/ (r - 1 \in 1 .. Len(conf_defaults) /\ s # 1 /\ s - 1 = Len(file) + (r - 1))
      BY <1>1, <1>2, <2>2, SMT
    <3> HIDE DEF r
    <3>2. r \in LineStarts(conf_defaults)
      <4>1. r = 1 \/ conf_defaults[r - 1] = Newline
        BY <1>1, <1>2, <3>1
      <4> QED BY <3>1, <4>1, ConfAssumption, StartsOf
    <3>3. PICK e, m : Proper(conf_defaults, r, e, m)
      BY <3>1, <3>2, ConfAssumption, DefaultsAssumption, LineParts
    <3>4. Proper(Text, Len(file) + r, Len(file) + e, Len(file) + m)
      BY <3>3, ConfAssumption, ProperBehind DEF Text
    <3> QED BY <3>1, <3>4
  <2> QED BY <2>1, <2>2
<1> QED BY <1>1, <1>2, <1>3, LineParts

-----------------------------------------------------------------------------
(* Whatever a text is: the search does not run over a line with an answer  *)
(* that is the first, or that follows a proper line from r to s - 2 with   *)
(* its "=" at f.                                                           *)
Follows(t, r, f, s) == Proper(t, r, f, s - 1) /\ s - 1 <= Len(t)

(* From p on, the name is what strtok takes up to the next "=".            *)
NameAt(p, a, b) ==
    /\ a \in p .. Len(Text) /\ b \in a + 1 .. Len(Text)
    /\ \A i \in p .. a - 1 : Text[i] = Eq
    /\ \A i \in a .. b - 1 : Text[i] # Eq
    /\ Text[b] = Eq
    /\ SubSeq(Text, a, b - 1) = variable_name

NamedProperly(s) ==
    \A p \in LineStarts(Text) : \A a, b :
        p < s /\ NameAt(p, a, b) => a = p /\ \E n : Proper(Text, p, b, n)

(* A proper line at q, with the name, and its "=" at f.                    *)
Named(q, f, n) ==
    q \in LineStarts(Text) /\ Proper(Text, q, f, n) /\ SubSeq(Text, q, f - 1) = variable_name

Goal(s, e, m) ==
    /\ Proper(Text, s, e, m) /\ s \in Int
    /\ SubSeq(Text, s, e - 1) = variable_name
    /\ Fits(SubSeq(Text, e + 1, m - 1))
    /\ s = 1 \/ \E r, f : Follows(Text, r, f, s)
    /\ NamedProperly(s)

(* At the line itself, or not beyond the one before it.                    *)
NotBeyond(p, s) == p = s \/ \E r, f : Follows(Text, r, f, s) /\ p <= r

(* After its "=", or not beyond that of the one before it.                 *)
NotBeyondEq(p, s, e) ==
    \/ p = e + 1 /\ key = variable_name
    \/ /\ \E r, f : Follows(Text, r, f, s) /\ p <= f + 1
       /\ key = variable_name => \E q, n : q < s /\ Named(q, p - 1, n)

FoundUpTo(s) ==
    \E q, f, n : /\ Named(q, f, n) /\ q <= s
                 /\ Fits(SubSeq(Text, f + 1, n - 1))
                 /\ output_buffer = SubSeq(Text, f + 1, n - 1)

NotMissed ==
    file # Missing =>
        \A s, e, m : Goal(s, e, m) =>
            /\ pc = "key" => \E p \in LineStarts(Text) :
                   conf_data = Suffix(Text, p) /\ NotBeyond(p, s)
            /\ pc = "value" => \E p \in 1 .. Len(Text) + 1 :
                   conf_data = Suffix(Text, p) /\ NotBeyondEq(p, s, e)
            /\ pc = "closed" => FoundUpTo(s)

LEMMA FollowsAt ==
    ASSUME NEW t \in Seq(Char), NEW r, NEW f, NEW s, s \in Int, Follows(t, r, f, s)
    PROVE  /\ r \in 1 .. Len(t) /\ f \in r + 1 .. s - 3 /\ s - 1 \in 1 .. Len(t)
           /\ t[r] # Eq /\ t[f] = Eq /\ t[f + 1] # Newline /\ t[s - 1] = Newline
           /\ \A i \in r .. s - 2 : t[i] # Newline
<1>1. Len(t) \in Nat
  BY LenProperties
<1>2. /\ r \in 1 .. Len(t) /\ s - 1 \in r .. Len(t) + 1 /\ s - 1 <= Len(t)
      /\ \A i \in r .. (s - 1) - 1 : t[i] # Newline
      /\ t[s - 1] = Newline
      /\ f \in r + 1 .. (s - 1) - 2 /\ t[f] = Eq
      /\ \A i \in r .. f - 1 : t[i] # Eq
  BY DEF Follows, Proper, LineTo
<1>3. /\ f \in r + 1 .. s - 3 /\ s - 1 \in 1 .. Len(t)
      /\ r \in r .. f - 1 /\ f + 1 \in r .. (s - 1) - 1 /\ (s - 1) - 1 = s - 2
  BY <1>1, <1>2, SMT
<1> QED BY <1>2, <1>3

LEMMA NextNotMissed == ConfTypes /\ NotMissed /\ [Next]_vars => NotMissed'
<1> SUFFICES ASSUME ConfTypes, NotMissed, [Next]_vars, file' # Missing,
                    NEW s, NEW e, NEW m, Goal(s, e, m)'
             PROVE  /\ pc' = "key" => \E p \in LineStarts(Text') :
                          conf_data' = Suffix(Text', p) /\ NotBeyond(p, s)'
                    /\ pc' = "value" => \E p \in 1 .. Len(Text') + 1 :
                          conf_data' = Suffix(Text', p) /\ NotBeyondEq(p, s, e)'
                    /\ pc' = "closed" => FoundUpTo(s)'
  BY DEF NotMissed
<1>1. file' = file /\ variable_name' = variable_name /\ Text' = Text
  BY DEF Next, Open, Key, Value, vars, Text
<1>2. Goal(s, e, m)
  <2>1. LineStarts(Text)' = LineStarts(Text) /\ \A q, a, b : NameAt(q, a, b)' <=> NameAt(q, a, b)
    BY <1>1 DEF NameAt
  <2>2. NamedProperly(s)
    BY <1>1, <2>1 DEF Goal, NamedProperly
  <2> QED BY <1>1, <2>2 DEF Goal, Fits
<1>3. \A p : NotBeyond(p, s)' <=> NotBeyond(p, s)
  BY <1>1 DEF NotBeyond
<1>4. /\ file \in Seq(Char) /\ Text \in Seq(Char)
      /\ Len(Text) \in Nat /\ 1 \in 1 .. Len(Text) + 1 /\ Text = Suffix(Text, 1)
  BY <1>1, TextType DEF ConfTypes
<1>5. /\ Proper(Text, s, e, m) /\ s \in Int
      /\ SubSeq(Text, s, e - 1) = variable_name
      /\ Fits(SubSeq(Text, e + 1, m - 1))
      /\ s = 1 \/ \E r, f : Follows(Text, r, f, s)
      /\ NamedProperly(s)
  BY <1>2 DEF Goal
<1>6. s \in 1 .. Len(Text) /\ e + 1 \in 1 .. Len(Text) + 1 /\ 1 \in LineStarts(Text)
  <2>1. s \in 1 .. Len(Text) /\ e + 1 \in 1 .. Len(Text) + 1 /\ 1 \in 1 .. Len(Text)
    BY <1>4, <1>5, SMT DEF Proper, LineTo
  <2> QED BY <1>4, <2>1, StartsOf
<1>11. Named(s, e, m)
  <2>1. s = 1 \/ Text[s - 1] = Newline
    BY <1>4, <1>5, FollowsAt
  <2> QED BY <1>4, <1>5, <1>6, <2>1, StartsOf DEF Named
<1>12. \A q, f, n : Named(q, f, n)' <=> Named(q, f, n)
  BY <1>1 DEF Named
<1>7. CASE Open
  <2>1. conf_data' = Suffix(Text, 1) /\ pc' = "key"
    BY <1>1, <1>4, <1>7 DEF Open, WithDefaults, Text
  <2>2. NotBeyond(1, s)
    <3>1. CASE s = 1
      BY <3>1 DEF NotBeyond
    <3>2. CASE \E r, f : Follows(Text, r, f, s)
      <4>1. PICK r, f : Follows(Text, r, f, s)
        BY <3>2
      <4>2. 1 <= r
        BY <1>4, <1>5, <4>1, FollowsAt, SMT
      <4> QED BY <4>1, <4>2 DEF NotBeyond
    <3> QED BY <1>5, <3>1, <3>2
  <2> QED BY <1>1, <1>3, <1>6, <2>1, <2>2
<1>8. CASE Key
  <2> DEFINE found == strtok(conf_data, Eq)
  <2>0. PICK p \in LineStarts(Text) : conf_data = Suffix(Text, p) /\ NotBeyond(p, s)
    BY <1>1, <1>2, <1>8 DEF Key, NotMissed
  <2>1. p \in 1 .. Len(Text) + 1 /\ conf_data = Suffix(Text, p) /\ NotBeyond(p, s)
    BY <1>4, <2>0, StartsOf, SMT
  <2>2. /\ key' = found.token /\ conf_data' = found.rest
        /\ pc' = IF found.token = Missing THEN "closed" ELSE "value"
    BY <1>8 DEF Key
  <2>3. CASE p = s
    <3>1. /\ found.token = SubSeq(Text, s, e - 1) /\ found.token # Missing
          /\ found.rest = Suffix(Text, e + 1)
      BY <1>4, <1>5, <2>1, <2>3, TakesProper
    <3> HIDE DEF found
    <3>2. /\ pc' = "value" /\ conf_data' = Suffix(Text, e + 1)
          /\ key' = variable_name'
      BY <1>1, <1>5, <2>2, <3>1
    <3>3. NotBeyondEq(e + 1, s, e)'
      BY <3>2 DEF NotBeyondEq
    <3> QED BY <1>1, <1>6, <3>2, <3>3
  <2>4. CASE \E r, f : Follows(Text, r, f, s) /\ p <= r
    <3>1. PICK r, f : Follows(Text, r, f, s) /\ p <= r
      BY <2>4
    <3>2. /\ r \in 1 .. Len(Text) /\ f \in r + 1 .. s - 3 /\ s - 1 \in 1 .. Len(Text)
          /\ Text[r] # Eq /\ Text[f] = Eq
      BY <1>4, <1>5, <3>1, FollowsAt
    <3>3. r \in p .. Len(Text) /\ f \in r + 1 .. Len(Text)
      BY <1>4, <1>5, <3>1, <3>2, SMT
    <3>4. PICK a, b : /\ Taken(Text, Eq, a, b, found)
                      /\ a \in p .. r
                      /\ \A i \in p .. a - 1 : Text[i] = Eq
                      /\ \A k \in r + 1 .. Len(Text) : Text[k] = Eq => b <= k
      <4>1. Text \in Seq(Char) /\ p \in 1 .. Len(Text) + 1 /\ r \in p .. Len(Text) /\ Text[r] # Eq
        BY <1>4, <2>1, <3>2, <3>3
      <4>2. \E a, b : TakenFrom(Text, Eq, p, r, a, b)
        BY <4>1, TakesSome
      <4> QED BY <2>1, <4>2 DEF TakenFrom
    <3> HIDE DEF found
    <3>5. b <= f /\ b \in a + 1 .. Len(Text) + 1 /\ a \in 1 .. Len(Text)
      BY <3>2, <3>3, <3>4 DEF Taken
    <3>6. /\ found.token # Missing
          /\ After(Text, b) \in 1 .. Len(Text) + 1 /\ found.rest = Suffix(Text, After(Text, b))
      BY <1>4, <3>4, TokenType
    <3>7. After(Text, b) <= f + 1
      BY <1>4, <3>3, <3>5, SMT DEF After
    <3>8. pc' = "value" /\ conf_data' = Suffix(Text, After(Text, b))
      BY <2>2, <3>6
    <3>9. ASSUME found.token = variable_name
           PROVE  \E q, n : q < s /\ Named(q, After(Text, b) - 1, n)
      <4>1. /\ p < s /\ a \in p .. Len(Text) /\ b \in a + 1 .. Len(Text)
            /\ After(Text, b) - 1 = b
        <5>1. a \in p .. r
          BY <3>4
        <5> QED BY <1>4, <1>5, <2>1, <3>1, <3>2, <3>5, <5>1, SMT DEF After
      <4>2. NameAt(p, a, b)
        BY <3>4, <3>9, <4>1 DEF NameAt, Taken
      <4>3. a = p /\ \E n : Proper(Text, p, b, n)
        BY <1>5, <2>0, <4>1, <4>2 DEF NamedProperly
      <4>4. SubSeq(Text, p, b - 1) = variable_name
        BY <4>2, <4>3 DEF NameAt
      <4>5. PICK n : Proper(Text, p, b, n)
        BY <4>3
      <4>6. Named(p, b, n)
        BY <2>0, <4>4, <4>5 DEF Named
      <4> QED BY <4>1, <4>6
    <3>10. NotBeyondEq(After(Text, b), s, e)'
      <4>1. key' = variable_name' => \E q, n : q < s /\ Named(q, After(Text, b) - 1, n)'
        BY <1>1, <1>12, <2>2, <3>9
      <4> QED BY <1>1, <3>1, <3>7, <4>1 DEF NotBeyondEq
    <3> QED BY <1>1, <3>6, <3>8, <3>10
  <2> QED BY <2>1, <2>3, <2>4 DEF NotBeyond
<1>9. CASE Value
  <2> DEFINE found == strtok(conf_data, Newline)
  <2>1. PICK p \in 1 .. Len(Text) + 1 : conf_data = Suffix(Text, p) /\ NotBeyondEq(p, s, e)
    BY <1>1, <1>2, <1>9 DEF Value, NotMissed
  <2>2. /\ conf_data' = found.rest
        /\ IF found.token # Missing /\ key = variable_name /\ Fits(found.token)
           THEN output_buffer' = found.token /\ pc' = "closed"
           ELSE UNCHANGED output_buffer /\ pc' = "key"
    BY <1>9 DEF Value
  <2>3. CASE p = e + 1 /\ key = variable_name
    <3>1. found.token = SubSeq(Text, e + 1, m - 1) /\ found.token # Missing
      BY <1>4, <1>5, <2>1, <2>3, TakesProper
    <3> HIDE DEF found
    <3>2. pc' = "closed" /\ output_buffer' = SubSeq(Text, e + 1, m - 1)
      BY <1>5, <2>2, <2>3, <3>1
    <3>3. FoundUpTo(s)'
      <4>1. Fits(SubSeq(Text, e + 1, m - 1))'
        BY <1>1, <1>5 DEF Fits
      <4>2. s <= s
        BY <1>5, SMT
      <4> QED BY <1>1, <1>11, <1>12, <3>2, <4>1, <4>2 DEF FoundUpTo
    <3> QED BY <3>2, <3>3
  <2>4. CASE /\ \E r, f : Follows(Text, r, f, s) /\ p <= f + 1
             /\ key = variable_name => \E q, n : q < s /\ Named(q, p - 1, n)
    <3>1. PICK r, f : Follows(Text, r, f, s) /\ p <= f + 1
      BY <2>4
    <3>2. /\ r \in 1 .. Len(Text) /\ f \in r + 1 .. s - 3 /\ s - 1 \in 1 .. Len(Text)
          /\ Text[f + 1] # Newline /\ Text[s - 1] = Newline
          /\ \A i \in r .. s - 2 : Text[i] # Newline
      <4>1. Text \in Seq(Char) /\ s \in Int /\ Follows(Text, r, f, s)
        BY <1>4, <1>5, <3>1
      <4> QED BY <4>1, FollowsAt
    <3> DEFINE j == f + 1
               k == s - 1
    <3>3. j \in p .. Len(Text) /\ k \in j + 1 .. Len(Text) /\ Text[j] # Newline /\ Text[k] = Newline
      <4>1. j \in p .. Len(Text) /\ k \in j + 1 .. Len(Text)
        BY <1>4, <1>5, <3>1, <3>2, SMT
      <4> QED BY <3>2, <4>1
    <3> HIDE DEF j, k
    <3>4. PICK a, b : /\ Taken(Text, Newline, a, b, found)
                      /\ \A i \in j + 1 .. Len(Text) : Text[i] = Newline => b <= i
      <4>1. /\ Text \in Seq(Char) /\ p \in 1 .. Len(Text) + 1
            /\ j \in p .. Len(Text) /\ Text[j] # Newline
        BY <1>4, <2>1, <3>3
      <4>2. \E a, b : TakenFrom(Text, Newline, p, j, a, b)
        BY <4>1, TakesSome
      <4> QED BY <2>1, <4>2 DEF TakenFrom
    <3> HIDE DEF found
    <3>5. /\ b <= k /\ b \in a + 1 .. Len(Text) + 1 /\ a \in 1 .. Len(Text)
          /\ b <= Len(Text) => Text[b] = Newline
      BY <3>3, <3>4 DEF Taken
    <3>6. /\ found.token # Missing
          /\ After(Text, b) \in 1 .. Len(Text) + 1 /\ found.rest = Suffix(Text, After(Text, b))
      BY <1>4, <3>4, TokenType
    <3>7. CASE key = variable_name /\ Fits(found.token)
      <4>1. pc' = "closed" /\ output_buffer' = found.token
        BY <2>2, <3>6, <3>7
      <4>2. PICK q, n : q < s /\ Named(q, p - 1, n)
        BY <2>4, <3>7
      <4>3. (p - 1) + 1 = p
        BY <2>1, <1>4, SMT
      <4>4. Proper(Text, q, p - 1, n) /\ q \in 1 .. Len(Text)
        BY <1>4, <4>2, StartsOf DEF Named
      <4>5. found.token = SubSeq(Text, (p - 1) + 1, n - 1)
        <5>1. strtok(Suffix(Text, (p - 1) + 1), Newline).token = SubSeq(Text, (p - 1) + 1, n - 1)
          BY <1>4, <4>4, TakesProper
        <5> QED BY <2>1, <4>3, <5>1 DEF found
      <4>6. q <= s
        BY <1>4, <1>6, <4>2, <4>4, SMT
      <4>7. Fits(SubSeq(Text, (p - 1) + 1, n - 1))'
        BY <1>1, <3>7, <4>5 DEF Fits
      <4>8. FoundUpTo(s)'
        BY <1>1, <1>12, <4>1, <4>2, <4>5, <4>6, <4>7 DEF FoundUpTo
      <4> QED BY <4>1, <4>8
    <3>8. CASE ~(key = variable_name /\ Fits(found.token))
      <4>1. pc' = "key" /\ conf_data' = Suffix(Text, After(Text, b))
        BY <2>2, <3>6, <3>8
      <4>2. b <= Len(Text) /\ b <= s - 1 /\ After(Text, b) = b + 1
        BY <1>4, <1>5, <3>2, <3>5, SMT DEF After, k
      <4>3. ~(b \in r .. s - 2)
        BY <3>2, <3>5, <4>2
      <4>4. b + 1 = s \/ b + 1 <= r
        BY <1>4, <1>5, <3>2, <3>5, <4>2, <4>3, SMT
      <4>5. NotBeyond(After(Text, b), s)
        BY <3>1, <4>2, <4>4 DEF NotBeyond
      <4>6. After(Text, b) \in LineStarts(Text)
        <5>1. b + 1 \in 1 .. Len(Text) /\ (b + 1) - 1 = b
          BY <1>4, <1>6, <3>5, <4>2, SMT
        <5> QED BY <1>4, <3>5, <4>2, <5>1, StartsOf
      <4> QED BY <1>1, <1>3, <4>1, <4>5, <4>6
    <3> QED BY <3>7, <3>8
  <2> QED BY <2>1, <2>3, <2>4 DEF NotBeyondEq
<1>10. CASE UNCHANGED vars
  <2>1. \A p : NotBeyondEq(p, s, e)' <=> NotBeyondEq(p, s, e)
    BY <1>1, <1>10, <1>12 DEF vars, NotBeyondEq
  <2>2. FoundUpTo(s)' <=> FoundUpTo(s)
    BY <1>1, <1>10, <1>12 DEF vars, FoundUpTo, Fits
  <2> QED BY <1>1, <1>2, <1>3, <1>10, <2>1, <2>2 DEF vars, NotMissed
<1> QED BY <1>7, <1>8, <1>9, <1>10 DEF Next

(* The line above another one ends right before it.                        *)
LEMMA LineAbove ==
    ASSUME NEW t \in Seq(Char), NEW s \in LineStarts(t), s # 1
    PROVE  \E r \in LineStarts(t) :
               /\ r < s /\ \A q \in LineStarts(t) : q <= r \/ q >= s
               /\ \A m : LineTo(t, r, m) => m = s - 1
<1>1. Len(t) \in Nat
  BY LenProperties
<1>2. s \in 1 .. Len(t) /\ t[s - 1] = Newline
  BY StartsOf
<1> DEFINE distances == {n \in Nat : s - n \in LineStarts(t) /\ n # 0}
<1>3. 1 \in LineStarts(t) /\ s - 1 \in Nat \ {0} /\ s - (s - 1) = 1
  <2>1. 1 \in 1 .. Len(t) /\ s - 1 \in Nat \ {0} /\ s - (s - 1) = 1
    BY <1>1, <1>2, SMT
  <2> QED BY <2>1, StartsOf
<1>4. distances # {} /\ distances \subseteq Nat
  BY <1>3
<1>5. PICK n \in distances : \A k \in distances : n <= k
  BY <1>4, LeastNatural
<1> DEFINE r == s - n
<1>6. n \in Nat \ {0} /\ r \in LineStarts(t)
  BY <1>5
<1>7. \A q \in LineStarts(t) : q <= r \/ q >= s
  <2> TAKE q \in LineStarts(t)
  <2>1. q \in 1 .. Len(t)
    BY StartsOf
  <2>2. q < s => s - q \in Nat \ {0} /\ s - (s - q) = q
    BY <1>1, <1>2, <2>1, SMT
  <2>3. q < s => n <= s - q
    BY <1>5, <2>2
  <2> QED BY <1>1, <1>2, <1>6, <2>1, <2>3, SMT
<1>8. ASSUME NEW m, LineTo(t, r, m) PROVE m = s - 1
  <2>1. /\ r \in 1 .. Len(t) /\ m \in r .. Len(t) + 1
        /\ \A i \in r .. m - 1 : t[i] # Newline
        /\ m <= Len(t) => t[m] = Newline
    BY <1>8 DEF LineTo
  <2>2. ~(s - 1 \in r .. m - 1)
    BY <1>2, <2>1
  <2>3. m <= s - 1
    <3> HIDE DEF r
    <3>1. r <= s - 1
      BY <1>1, <1>2, <1>6, SMT DEF r
    <3> QED BY <1>1, <1>2, <2>1, <2>2, <3>1, SMT
  <2>4. CASE m < s - 1
    <3> HIDE DEF r
    <3>1. m + 1 \in 1 .. Len(t) /\ (m + 1) - 1 = m /\ m <= Len(t) /\ ~(m + 1 <= r) /\ ~(m + 1 >= s)
      BY <1>1, <1>2, <2>1, <2>4, SMT
    <3>2. m + 1 \in LineStarts(t)
      BY <2>1, <3>1, StartsOf
    <3> QED BY <1>7, <3>1, <3>2
  <2> QED BY <1>1, <1>2, <2>1, <2>3, <2>4, SMT
<1>9. r < s
  BY <1>1, <1>2, <1>6, SMT
<1> QED BY <1>6, <1>7, <1>8, <1>9

(* What strtok takes for the name stands in one line, and the name is all  *)
(* that this line has before its "=" if it is a proper one.                *)
LEMMA NameInLine ==
    ASSUME NEW t \in Seq(Char), NEW p \in 1 .. Len(t), NEW m \in p .. Len(t) + 1,
           NEW a \in p .. Len(t), NEW b \in a + 1 .. m - 1,
           \A i \in p .. a - 1 : t[i] = Eq, t[b] = Eq,
           SubSeq(t, a, b - 1) = variable_name
    PROVE  HasName(SubSeq(t, p, m - 1))
<1> DEFINE n == a - p
           equals == [i \in 1 .. n |-> Eq]
           line == SubSeq(t, p, m - 1)
<1>1. Len(t) \in Nat
  BY LenProperties
<1>2. /\ m - 1 \in p - 1 .. Len(t) /\ m - 1 \in 1 .. Len(t) /\ p \in 1 .. Len(t) + 1
      /\ n \in Nat /\ n <= m - 1 - p + 1 /\ b - p + 1 \in 1 .. (m - 1) - p + 1
      /\ p + 1 - 1 = p /\ p + (b - p + 1) - 1 = b /\ 1 \in 1 .. (m - 1) - p + 1
  BY <1>1, SMT
<1>3. Len(line) = (m - 1) - p + 1 /\ n \in 0 .. Len(line) /\ b - p + 1 <= Len(line)
  <2>1. Len(line) = (m - 1) - p + 1
    BY <1>2, PartOf
  <2> HIDE DEF line
  <2> QED BY <1>1, <1>2, <2>1, SMT
<1>4. SubSeq(line, 1, b - p + 1) = SubSeq(t, p, b)
  <2>1. SubSeq(line, 1, b - p + 1) = SubSeq(t, p + 1 - 1, p + (b - p + 1) - 1)
    BY <1>2, SubSeqOfSubSeq
  <2> QED BY <1>2, <2>1
<1>5. equals = SubSeq(t, p, a - 1)
  <2>1. a - 1 \in p - 1 .. Len(t) /\ (a - 1) - p + 1 = n
    BY <1>1, SMT
  <2>2. /\ SubSeq(t, p, a - 1) \in Seq(Char) /\ Len(SubSeq(t, p, a - 1)) = n
        /\ \A i \in 1 .. n : SubSeq(t, p, a - 1)[i] = t[p + i - 1]
    BY <1>2, <2>1, PartOf
  <2>3. \A i \in 1 .. n : t[p + i - 1] = Eq
    <3> TAKE i \in 1 .. n
    <3>1. p + i - 1 \in p .. a - 1
      BY <1>1, SMT
    <3> QED BY <3>1
  <2>4. equals \in Seq({Eq}) /\ Len(equals) = n
    BY <1>2, SMT
  <2>5. equals \in Seq(Char)
    BY <2>4, SMT DEF Char
  <2>6. \A i \in 1 .. n : equals[i] = SubSeq(t, p, a - 1)[i]
    BY <2>2, <2>3
  <2> HIDE DEF equals, n
  <2> QED BY <2>2, <2>4, <2>5, <2>6, SeqEqual
<1>6. equals \o variable_name = SubSeq(t, p, b - 1)
  <2>1. a - 1 \in p - 1 .. Len(t) /\ b - 1 \in a - 1 .. Len(t) /\ (a - 1) + 1 = a
    BY <1>1, SMT
  <2>2. SubSeq(t, p, a - 1) \o SubSeq(t, (a - 1) + 1, b - 1) = SubSeq(t, p, b - 1)
    BY <1>2, <2>1, ConcatAdjacentSubSeq
  <2> QED BY <1>5, <2>1, <2>2
<1>7. equals \o variable_name \o <<Eq>> = SubSeq(t, p, b)
  <2>1. b \in p .. Len(t)
    BY <1>1, SMT
  <2>2. SubSeq(t, p, b) = SubSeq(t, p, b - 1) \o <<t[b]>>
    BY <2>1, SubSeqRecursiveSecond
  <2> QED BY <1>6, <2>2
<1>8. IsPrefix(SubSeq(t, p, b), line)
  <2>1. b \in p - 1 .. Len(t)
    BY <1>1, SMT
  <2> DEFINE begin == SubSeq(t, p, b)
  <2>2. begin \in Seq(Char) /\ Len(begin) = b - p + 1
    BY <1>2, <2>1, PartOf
  <2>3. SubSeq(begin, 1, Len(begin)) = begin
    <3> HIDE DEF begin
    <3> QED BY <2>2, SubSeqFull
  <2>4. SubSeq(line, 1, Len(begin)) = begin
    BY <1>4, <2>2
  <2>5. Len(begin) <= Len(line)
    BY <1>3, <2>2
  <2> HIDE DEF begin, line
  <2>6. IsPrefix(begin, line)
    BY <2>3, <2>4, <2>5 DEF IsPrefix
  <2> QED BY <2>6 DEF begin
<1>9. IsPrefix(equals \o variable_name \o <<Eq>>, line)
  BY <1>7, <1>8
<1> QED BY <1>3, <1>9 DEF HasName

LEMMA OneName ==
    ASSUME NEW t \in Seq(Char), NEW p, NEW f, NEW m, NEW a, NEW b, Proper(t, p, f, m),
           a \in p .. Len(t), b \in a + 1 .. Len(t),
           \A i \in p .. a - 1 : t[i] = Eq, \A i \in a .. b - 1 : t[i] # Eq, t[b] = Eq
    PROVE  a = p /\ b = f
<1>1. /\ Len(t) \in Nat /\ p \in 1 .. Len(t) /\ m \in p .. Len(t) + 1
      /\ f \in p + 1 .. m - 2 /\ t[f] = Eq /\ \A i \in p .. f - 1 : t[i] # Eq
  BY LenProperties DEF Proper, LineTo
<1>2. a = p
  <2>1. p \in p .. f - 1
    BY <1>1, SMT
  <2>2. ~(p \in p .. a - 1)
    BY <1>1, <2>1
  <2> QED BY <1>1, <2>2, SMT
<1>3. ~(b \in p .. f - 1) /\ ~(f \in a .. b - 1)
  BY <1>1
<1> QED BY <1>1, <1>2, <1>3, SMT

(* In a text that is ended, a proper line ends where it ends in all that   *)
(* begins with this text.                                                  *)
SameIn(w, t, s, e, m) ==
    /\ SubSeq(w, s, e - 1) = SubSeq(t, s, e - 1)
    /\ SubSeq(w, e + 1, m - 1) = SubSeq(t, e + 1, m - 1)

LEMMA SameParts ==
    ASSUME NEW t \in Seq(Char), NEW u \in Seq(Char), NEW s, NEW e, NEW m,
           Proper(t, s, e, m), m <= Len(t)
    PROVE  SameIn(t \o u, t, s, e, m)
<1>1. Len(t) \in Nat /\ s \in 1 .. Len(t) /\ m \in s .. Len(t) + 1 /\ e \in s + 1 .. m - 2
  BY LenProperties DEF Proper, LineTo
<1> DEFINE a == e - 1
           b == e + 1
           c == m - 1
<1>2. {s, a, b, c} \subseteq 1 .. Len(t)
  BY <1>1, SMT
<1> HIDE DEF a, b, c
<1>3. SubSeq(t \o u, s, a) = SubSeq(t, s, a) /\ SubSeq(t \o u, b, c) = SubSeq(t, b, c)
  BY <1>2, SubSeqOfConcat1
<1> QED BY <1>3 DEF a, b, c, SameIn

LEMMA ProperInEnded ==
    ASSUME NEW t \in Seq(Char), NEW u \in Seq(Char), Ended(t), NEW s \in 1 .. Len(t),
           NEW e, NEW m, Proper(t \o u, s, e, m)
    PROVE  Proper(t, s, e, m) /\ m \in 1 .. Len(t)
<1> DEFINE w == t \o u
<1>1. /\ w \in Seq(Char) /\ Len(w) = Len(t) + Len(u) /\ Len(t) \in Nat /\ Len(u) \in Nat
      /\ \A i \in 1 .. Len(t) : w[i] = t[i]
  BY Joined
<1> HIDE DEF w
<1>2. t[Len(t)] = Newline
  <2>1. t # <<>>
    BY <1>1, EmptySeq, SMT
  <2> QED BY <2>1 DEF Ended, Last
<1>3. /\ m \in s .. Len(w) + 1 /\ e \in s + 1 .. m - 2
      /\ \A i \in s .. m - 1 : w[i] # Newline
      /\ m <= Len(w) => w[m] = Newline
      /\ w[e] = Eq
      /\ \A i \in s .. e - 1 : w[i] # Eq
  BY DEF Proper, LineTo, w
<1>4. ~(Len(t) \in s .. m - 1)
  <2>1. Len(t) \in 1 .. Len(t)
    BY <1>1, SMT
  <2>2. w[Len(t)] = Newline
    BY <1>1, <1>2, <2>1, Zenon
  <2> QED BY <1>3, <2>2, Zenon
<1>5. m \in 1 .. Len(t) /\ m \in s .. Len(t) + 1 /\ e \in 1 .. Len(t)
  BY <1>1, <1>3, <1>4, SMT
<1>6. \A i \in s .. m - 1 : i \in 1 .. Len(t)
  BY <1>1, <1>5, SMT
<1>7. \A i \in s .. e - 1 : i \in s .. m - 1
  BY <1>1, <1>3, SMT
<1>8. \A i \in s .. m - 1 : t[i] # Newline
  BY <1>1, <1>3, <1>6
<1>9. \A i \in s .. e - 1 : t[i] # Eq
  BY <1>1, <1>3, <1>6, <1>7
<1>10. t[e] = Eq
  BY <1>1, <1>3, <1>5
<1>11. t[m] = Newline
  <2>1. m <= Len(w)
    BY <1>1, <1>5, SMT
  <2> QED BY <1>1, <1>3, <1>5, <2>1
<1> QED BY <1>3, <1>5, <1>8, <1>9, <1>10, <1>11 DEF Proper, LineTo

LEMMA DamageGoal ==
    ASSUME file \in Seq(Char), variable_name \in Names, Ended(file),
           NEW s \in LineStarts(file), Answers(file, s),
           \A r \in LineStarts(file) : r < s /\ ~WellFormed(Line(file, r)) =>
               /\ \E q \in LineStarts(file) : q > r /\ q < s
               /\ ~HasName(Line(file, r))
    PROVE  \E e, m : Goal(s, e, m)
<1>1. Len(file) \in Nat /\ Text = file \o conf_defaults /\ conf_defaults \in Seq(Char)
  BY LenProperties, ConfAssumption DEF Text
<1>2. s \in 1 .. Len(file) /\ (s = 1 \/ file[s - 1] = Newline)
  BY StartsOf
<1>3. file[Len(file)] = Newline
  <2>1. file # <<>>
    BY <1>2, EmptySeq, SMT
  <2> QED BY <2>1 DEF Ended, Last
<1>4. PICK e, m : Proper(file, s, e, m)
  BY <1>2, LineParts DEF Answers
<1>5. /\ m \in s .. Len(file) + 1 /\ e \in s + 1 .. m - 2
      /\ \A i \in s .. m - 1 : file[i] # Newline
  BY <1>4 DEF Proper, LineTo
<1>6. m <= Len(file)
  <2>1. ~(Len(file) \in s .. m - 1)
    BY <1>3, <1>5
  <2> QED BY <1>1, <1>2, <1>5, <2>1, SMT
<1>7. Proper(Text, s, e, m)
  BY <1>1, <1>4, <1>6, ProperInFront
<1>8. /\ SubSeq(Text, s, e - 1) = SubSeq(file, s, e - 1)
      /\ SubSeq(Text, e + 1, m - 1) = SubSeq(file, e + 1, m - 1)
  <2>1. SameIn(Text, file, s, e, m)
    BY <1>1, <1>4, <1>6, SameParts
  <2> QED BY <2>1 DEF SameIn
<1>9. /\ KeyOf(Line(file, s)) = SubSeq(file, s, e - 1)
      /\ ValueOf(Line(file, s)) = SubSeq(file, e + 1, m - 1)
  BY <1>2, <1>4, LineParts
<1>10. SubSeq(Text, s, e - 1) = variable_name /\ Fits(SubSeq(Text, e + 1, m - 1))
  BY <1>8, <1>9 DEF Answers
<1>11. NamedProperly(s)
  <2> SUFFICES ASSUME NEW p \in LineStarts(Text), NEW a, NEW b, p < s, NameAt(p, a, b)
               PROVE  a = p /\ \E n : Proper(Text, p, b, n)
    BY DEF NamedProperly
  <2>1. /\ Text \in Seq(Char) /\ Len(Text) = Len(file) + Len(conf_defaults)
        /\ Len(conf_defaults) \in Nat
        /\ \A i \in 1 .. Len(file) : Text[i] = file[i]
    BY <1>1, Joined
  <2>2. p \in 1 .. Len(Text) /\ (p = 1 \/ Text[p - 1] = Newline)
    BY <2>1, StartsOf
  <2>3. p \in 1 .. Len(file) /\ (p = 1 \/ p - 1 \in 1 .. Len(file))
    BY <1>1, <1>2, <2>1, <2>2, SMT
  <2>4. p \in LineStarts(file)
    BY <2>1, <2>2, <2>3, StartsOf
  <2>5. PICK n : LineTo(file, p, n) /\ Line(file, p) = SubSeq(file, p, n - 1)
    BY <2>3, LineEnds
  <2>6. /\ n \in p .. Len(file) + 1
        /\ \A i \in p .. n - 1 : file[i] # Newline
        /\ n <= Len(file) => file[n] = Newline
    BY <2>5 DEF LineTo
  <2>7. n \in 1 .. Len(file)
    <3>1. ~(Len(file) \in p .. n - 1)
      BY <1>3, <2>6
    <3> QED BY <1>1, <2>3, <2>6, <3>1, SMT
  <2>8. /\ a \in p .. Len(Text) /\ b \in a + 1 .. Len(Text)
        /\ \A i \in p .. a - 1 : Text[i] = Eq
        /\ \A i \in a .. b - 1 : Text[i] # Eq
        /\ Text[b] = Eq
        /\ SubSeq(Text, a, b - 1) = variable_name
    BY DEF NameAt
  <2>9. \A i \in a .. b - 1 : Text[i] # Newline
    <3> TAKE i \in a .. b - 1
    <3>1. /\ a \in 1 .. Len(Text) + 1 /\ b - 1 \in a - 1 .. Len(Text)
          /\ i - a + 1 \in 1 .. (b - 1) - a + 1 /\ a + (i - a + 1) - 1 = i
      BY <2>1, <2>2, <2>8, SMT
    <3>2. Len(variable_name) = (b - 1) - a + 1 /\ variable_name[i - a + 1] = Text[i]
      <4>1. /\ Len(SubSeq(Text, a, b - 1)) = (b - 1) - a + 1
            /\ \A j \in 1 .. (b - 1) - a + 1 :
                   SubSeq(Text, a, b - 1)[j] = Text[a + j - 1]
        BY <2>1, <3>1, PartOf, Zenon
      <4>2. SubSeq(Text, a, b - 1)[i - a + 1] = Text[a + (i - a + 1) - 1]
        BY <3>1, <4>1, Zenon
      <4> QED BY <2>8, <3>1, <4>1, <4>2, Zenon
    <3>3. variable_name \in Seq(Letters)
      BY ConfAssumption
    <3>4. Text[i] \in Letters
      BY <3>1, <3>2, <3>3, ElementOfSeq
    <3> QED BY <3>4, ConfAssumption
  <2>10. Eq # Newline
    BY DEF Eq, Newline
  <2>11. \A i \in p .. b : Text[i] # Newline
    <3> TAKE i \in p .. b
    <3>1. i \in p .. a - 1 \/ i \in a .. b - 1 \/ i = b
      BY <2>1, <2>2, <2>8, SMT
    <3> QED BY <2>8, <2>9, <2>10, <3>1
  <2>12. b \in a + 1 .. n - 1 /\ a \in p .. Len(file)
    <3>1. Text[n] = Newline
      BY <1>1, <2>1, <2>6, <2>7, SMT
    <3>2. ~(n \in p .. b)
      BY <2>11, <3>1
    <3> QED BY <1>1, <2>2, <2>6, <2>7, <2>8, <3>2, SMT
  <2>13. /\ \A i \in p .. a - 1 : file[i] = Eq
         /\ \A i \in a .. b - 1 : file[i] # Eq
         /\ file[b] = Eq
    <3>1. \A i \in p .. b : i \in 1 .. Len(file)
      BY <1>1, <2>3, <2>6, <2>7, <2>12, SMT
    <3>2. /\ \A i \in p .. a - 1 : i \in p .. b
          /\ \A i \in a .. b - 1 : i \in p .. b
          /\ b \in p .. b
      BY <1>1, <2>3, <2>12, <2>7, SMT
    <3> QED BY <2>1, <2>8, <3>1, <3>2
  <2>14. SubSeq(file, a, b - 1) = variable_name
    <3>1. a \in 1 .. Len(file) /\ b - 1 \in 1 .. Len(file)
      BY <1>1, <2>3, <2>7, <2>12, SMT
    <3> QED BY <1>1, <2>8, <3>1, SubSeqOfConcat1
  <2>15. HasName(Line(file, p))
    BY <2>3, <2>5, <2>6, <2>12, <2>13, <2>14, NameInLine
  <2>16. PICK f, k : Proper(file, p, f, k)
    <3>1. WellFormed(Line(file, p))
      BY <2>4, <2>15
    <3> QED BY <2>3, <3>1, LineParts
  <2>17. a = p /\ b = f
    <3>1. b \in a + 1 .. Len(file)
      BY <1>1, <2>3, <2>7, <2>12, SMT
    <3> QED BY <2>12, <2>13, <2>16, <3>1, OneName
  <2> QED BY <1>1, <2>16, <2>17, ProperInFront
<1>12. s \in Int
  BY <1>1, <1>2, SMT
<1>13. CASE s = 1
  BY <1>7, <1>10, <1>11, <1>12, <1>13 DEF Goal
<1>14. CASE s # 1
  <2>1. PICK r \in LineStarts(file) :
            /\ r < s /\ \A q \in LineStarts(file) : q <= r \/ q >= s
            /\ \A n : LineTo(file, r, n) => n = s - 1
    BY <1>14, LineAbove
  <2>2. r \in 1 .. Len(file)
    BY StartsOf
  <2>3. ~\E q \in LineStarts(file) : q > r /\ q < s
    <3>1. \A q \in LineStarts(file) : q \in Int
      BY <1>1, StartsOf, SMT
    <3> QED BY <1>12, <2>1, <2>2, <3>1, SMT
  <2>4. WellFormed(Line(file, r))
    BY <2>1, <2>3
  <2>5. PICK f, n : Proper(file, r, f, n)
    BY <2>2, <2>4, LineParts
  <2>6. n = s - 1
    BY <2>1, <2>5 DEF Proper
  <2>7. Proper(file, r, f, s - 1)
    BY <2>5, <2>6
  <2>8. s - 1 <= Len(file) /\ s - 1 <= Len(Text)
    BY <1>1, <1>2, Joined, SMT
  <2>9. Follows(Text, r, f, s)
    BY <1>1, <2>7, <2>8, ProperInFront DEF Follows
  <2> QED BY <1>7, <1>10, <1>11, <1>12, <2>9 DEF Goal
<1> QED BY <1>13, <1>14

-----------------------------------------------------------------------------
(* convert_hmac_key_str.  As long as it goes on it has the first bytes of  *)
(* what hex2bin makes of the digits.                                       *)
AllDigits == \A n \in DOMAIN output_buffer : HmacKey!IsDigit(output_buffer[n])
Bytes == {HmacKey!Byte(c1, c2) : c1 \in Char, c2 \in Char}

KeyInv ==
    /\ hmac \in Seq(Bytes)
    /\ pc # "closed" \/ output_buffer = Missing => result = HmacKey!Pending /\ hmac = <<>>
    /\ output_buffer # Missing /\ result = HmacKey!Pending /\ AllDigits =>
           /\ 2 * Len(hmac) <= Len(output_buffer)
           /\ \A n \in 1 .. Len(hmac) : hmac[n] = HmacKey!hex2bin(output_buffer)[n]
    /\ SameAsServer

LEMMA Halves ==
    ASSUME NEW n \in Nat, NEW max \in Nat
    PROVE  n % 2 = 0 => (n <= 2 * max <=> ~((n + 1) \div 2 > max)) /\ 2 * (n \div 2) = n
BY SMT

LEMMA ConvertsKeyInv ==
    ASSUME ConfTypes, KeyInv, ConvertsKey
    PROVE  KeyInv'
<1> DEFINE str == output_buffer
<1>1. str # Missing /\ str \in Seq(Char) /\ pc = "closed"
  BY DEF ConvertsKey, ConfTypes
<1>2. UNCHANGED <<file, variable_name, conf_data, key, pc, output_buffer>>
  BY DEF ConvertsKey, Asked, HmacKey!Next, HmacKey!Refuse, HmacKey!Convert, HmacKey!Return
<1>3. Len(str) \in Nat /\ DOMAIN str = 1 .. Len(str) /\ Len(hmac) \in Nat
  BY <1>1, LenProperties DEF KeyInv
<1>4. AllDigits' <=> AllDigits
  BY <1>2 DEF AllDigits
<1>5. MAX_HMAC_KEY_LENGTH \in Nat
  BY StartupAssumption
<1>6. result = HmacKey!Pending
  BY DEF ConvertsKey, HmacKey!Next, HmacKey!Refuse, HmacKey!Convert
<1>7. CASE HmacKey!Refuse
  <2>1. /\ HmacKey!TooBig \/ Len(str) % 2 = 1
        /\ result' = -1 /\ hmac' = hmac
    BY <1>7 DEF HmacKey!Refuse, HmacKey!Return
  <2>2. ~(Len(str) % 2 = 0 /\ Len(str) <= 2 * MAX_HMAC_KEY_LENGTH)
    <3>1. CASE Len(str) % 2 = 1
      BY <3>1
    <3>2. CASE HmacKey!TooBig
      BY <1>3, <1>5, <3>2, Halves DEF HmacKey!TooBig
    <3> QED BY <2>1, <3>1, <3>2
  <2>3. SameAsServer'
    BY <1>2, <2>1, <2>2 DEF SameAsServer, HmacKey!SameAsServer
  <2>4. result' # HmacKey!Pending
    BY <2>1 DEF HmacKey!Pending
  <2> QED BY <1>1, <1>2, <2>1, <2>3, <2>4 DEF KeyInv, HmacKey!Pending
<1>8. CASE HmacKey!Convert
  <2> DEFINE n == Len(hmac) + 1
             c1 == str[2 * Len(hmac) + 1]
             c2 == str[2 * Len(hmac) + 2]
  <2>1. /\ ~HmacKey!TooBig /\ Len(str) % 2 = 0
        /\ \/ /\ 2 * Len(hmac) >= Len(str)
              /\ result' = Len(hmac) /\ hmac' = hmac
           \/ /\ 2 * Len(hmac) < Len(str)
              /\ HmacKey!TakesBoth(c1, c2)
              /\ hmac' = Append(hmac, HmacKey!Byte(c1, c2)) /\ result' = result
           \/ /\ 2 * Len(hmac) < Len(str)
              /\ ~HmacKey!TakesBoth(c1, c2)
              /\ result' = -1 /\ hmac' = hmac
    BY <1>8 DEF HmacKey!Convert, HmacKey!Return
  <2>2. Len(str) <= 2 * MAX_HMAC_KEY_LENGTH /\ 2 * (Len(str) \div 2) = Len(str)
    BY <1>3, <1>5, <2>1, Halves DEF HmacKey!TooBig
  <2>3. CASE 2 * Len(hmac) >= Len(str)
    <3>1. result' = Len(hmac) /\ hmac' = hmac
      BY <1>3, <2>1, <2>3, SMT
    <3>2. ASSUME AllDigits PROVE hmac = HmacKey!hex2bin(str)
      <4>1. /\ 2 * Len(hmac) <= Len(str)
            /\ \A k \in 1 .. Len(hmac) : hmac[k] = HmacKey!hex2bin(str)[k]
        BY <1>1, <1>6, <3>2 DEF KeyInv
      <4>2. Len(hmac) = Len(str) \div 2
        BY <1>3, <2>2, <2>3, <4>1, SMT
      <4>3. hmac = [k \in 1 .. Len(hmac) |-> hmac[k]]
        BY LenProperties DEF KeyInv
      <4> HIDE DEF str
      <4> QED BY <4>1, <4>2, <4>3 DEF HmacKey!hex2bin
    <3>3. SameAsServer'
      BY <1>2, <2>1, <2>2, <3>1, <3>2 DEF SameAsServer, HmacKey!SameAsServer, AllDigits
    <3>4. result' # HmacKey!Pending
      BY <1>3, <3>1, SMT DEF HmacKey!Pending
    <3> QED BY <1>1, <1>2, <3>1, <3>3, <3>4 DEF KeyInv
  <2>4. CASE 2 * Len(hmac) < Len(str)
    <3>1. /\ 2 * Len(hmac) + 1 \in 1 .. Len(str) /\ 2 * Len(hmac) + 2 \in 1 .. Len(str)
          /\ n \in 1 .. Len(str) \div 2 /\ 2 * n <= Len(str)
          /\ 2 * n - 1 = 2 * Len(hmac) + 1 /\ 2 * n = 2 * Len(hmac) + 2
      BY <1>3, <2>2, <2>4, SMT
    <3>2. c1 \in Char /\ c2 \in Char
      BY <1>1, <3>1, ElementOfSeq
    <3>3. HmacKey!Byte(c1, c2) \in Bytes
      BY <3>2 DEF Bytes
    <3>4. AllDigits => HmacKey!IsDigit(c1) /\ HmacKey!IsDigit(c2)
      BY <1>3, <3>1 DEF AllDigits
    <3>5. CASE HmacKey!TakesBoth(c1, c2)
      <4>1. hmac' = Append(hmac, HmacKey!Byte(c1, c2)) /\ result' = result
        BY <1>3, <2>1, <2>4, <3>5, SMT
      <4>2. /\ hmac' \in Seq(Bytes) /\ Len(hmac') = n
            /\ \A k \in 1 .. Len(hmac) : hmac'[k] = hmac[k]
            /\ hmac'[n] = HmacKey!Byte(c1, c2)
        BY <3>3, <4>1, AppendProperties DEF KeyInv
      <4>3. ASSUME AllDigits PROVE \A k \in 1 .. n : hmac'[k] = HmacKey!hex2bin(str)[k]
        <5>1. HmacKey!Byte(c1, c2) = 16 * HmacKey!DigitValue(c1) + HmacKey!DigitValue(c2)
          <6>1. HmacKey!IsDigit(c1)
            BY <3>4, <4>3
          <6> HIDE DEF c1, c2
          <6>2. c1 # "-"
            BY <6>1 DEF HmacKey!IsDigit, HmacKey!Digits
          <6> QED BY <6>1, <6>2 DEF HmacKey!Byte
        <5>2. HmacKey!hex2bin(str)[n] =
                  16 * HmacKey!DigitValue(str[2 * n - 1]) + HmacKey!DigitValue(str[2 * n])
          <6> HIDE DEF n, str
          <6> QED BY <3>1 DEF HmacKey!hex2bin
        <5>3. hmac'[n] = HmacKey!hex2bin(str)[n]
          BY <3>1, <4>2, <5>1, <5>2
        <5>4. \A k \in 1 .. Len(hmac) : hmac[k] = HmacKey!hex2bin(str)[k]
          BY <1>1, <1>6, <4>3 DEF KeyInv
        <5> TAKE k \in 1 .. n
        <5>5. k = n \/ k \in 1 .. Len(hmac)
          BY <1>3, SMT
        <5> HIDE DEF n, str
        <5> QED BY <4>2, <5>3, <5>4, <5>5
      <4>4. SameAsServer'
        BY <1>2, <1>6, <4>1 DEF SameAsServer, HmacKey!SameAsServer, HmacKey!Pending
      <4> HIDE DEF n
      <4> QED BY <1>1, <1>2, <1>4, <3>1, <4>2, <4>3, <4>4 DEF KeyInv
    <3>6. CASE ~HmacKey!TakesBoth(c1, c2)
      <4>1. result' = -1 /\ hmac' = hmac
        BY <1>3, <2>1, <2>4, <3>6, SMT
      <4>2. ~AllDigits
        BY <3>4, <3>6 DEF HmacKey!TakesBoth
      <4>3. SameAsServer'
        BY <1>2, <4>2 DEF SameAsServer, HmacKey!SameAsServer, AllDigits
      <4>4. result' # HmacKey!Pending
        BY <4>1 DEF HmacKey!Pending
      <4> QED BY <1>1, <1>2, <4>1, <4>3, <4>4 DEF KeyInv
    <3> QED BY <3>5, <3>6
  <2> QED BY <1>3, <2>3, <2>4, SMT
<1> QED BY <1>7, <1>8 DEF ConvertsKey, HmacKey!Next

-----------------------------------------------------------------------------
(* Digits from the left, one at a time (Horner), and each at its place: f  *)
(* begins with a and goes on with b[n] times what it was, and c[n].        *)
Step(f, a, b, c, n) == IF n = 0 THEN a ELSE b[n] * f[n - 1] + c[n]

HasSteps(a, b, c, N) == \E f : f = [n \in 0 .. N |-> Step(f, a, b, c, n)]

LEMMA StepsExist == ASSUME NEW a, NEW b, NEW c, NEW N \in Nat PROVE HasSteps(a, b, c, N)
<1> DEFINE Defined(k) == \E f : f = [n \in 0 .. k |-> Step(f, a, b, c, n)]
           undefined == {k \in Nat : ~Defined(k)}
<1> SUFFICES ASSUME undefined # {} PROVE FALSE
  BY DEF HasSteps
<1>1. PICK m \in undefined : \A n \in undefined : m <= n
  BY LeastNatural
<1>2. m # 0
  <2> DEFINE f == [n \in 0 .. 0 |-> a]
  <2>1. \A n \in 0 .. 0 : n = 0
    BY SMT
  <2>2. f = [n \in 0 .. 0 |-> Step(f, a, b, c, n)]
    BY <2>1 DEF Step
  <2>3. Defined(0)
    BY <2>2
  <2> QED BY <2>3
<1>3. m - 1 \in Nat /\ ~(m <= m - 1)
  BY <1>2, SMT
<1>4. PICK f : f = [n \in 0 .. m - 1 |-> Step(f, a, b, c, n)]
  BY <1>1, <1>3
<1> DEFINE g == [n \in 0 .. m |-> IF n = m THEN Step(f, a, b, c, m) ELSE f[n]]
<1>5. \A n \in 0 .. m : g[n] = Step(g, a, b, c, n)
  <2> TAKE n \in 0 .. m
  <2>1. CASE n = m
    <3>1. m - 1 \in 0 .. m /\ m - 1 # m /\ m \in 0 .. m
      BY <1>3, SMT
    <3>2. g[m] = Step(f, a, b, c, m) /\ g[m - 1] = f[m - 1]
      BY <3>1
    <3> HIDE DEF g
    <3> QED BY <1>2, <2>1, <3>2 DEF Step
  <2>2. CASE n # m /\ n # 0
    <3>1. n - 1 \in 0 .. m /\ n - 1 # m /\ n \in 0 .. m - 1
      BY <1>3, <2>2, SMT
    <3>2. g[n] = f[n] /\ g[n - 1] = f[n - 1]
      BY <2>2, <3>1
    <3>3. f[n] = Step(f, a, b, c, n)
      BY <1>4, <3>1
    <3> HIDE DEF g
    <3> QED BY <2>2, <3>2, <3>3 DEF Step
  <2>3. CASE n = 0
    <3>1. 0 \in 0 .. m - 1 /\ 0 # m
      BY <1>2, <1>3, SMT
    <3>2. g[0] = f[0] /\ f[0] = Step(f, a, b, c, 0)
      BY <1>4, <2>3, <3>1
    <3> HIDE DEF g
    <3> QED BY <2>3, <3>2 DEF Step
  <2> QED BY <2>1, <2>2, <2>3
<1>6. g = [n \in 0 .. m |-> Step(g, a, b, c, n)]
  <2> HIDE DEF Step
  <2> QED BY <1>5
<1>7. Defined(m)
  BY <1>6
<1> QED BY <1>7

(* Counting up to N without leaving a set.                                 *)
LEMMA UpTo ==
    ASSUME NEW N \in Nat, NEW G, 0 \in G, \A n \in 1 .. N : n - 1 \in G => n \in G
    PROVE  \A n \in 0 .. N : n \in G
<1> DEFINE wrong == {n \in 0 .. N : n \notin G}
<1> SUFFICES ASSUME wrong # {} PROVE FALSE
  OBVIOUS
<1>1. wrong \subseteq Nat
  BY SMT
<1>2. PICK n \in wrong : \A j \in wrong : n <= j
  BY <1>1, LeastNatural
<1>3. n \in 1 .. N /\ n - 1 \in 0 .. N /\ ~(n <= n - 1)
  <2>1. n # 0
    OBVIOUS
  <2> QED BY <2>1, SMT
<1>4. n - 1 \in G
  BY <1>2, <1>3
<1> QED BY <1>3, <1>4

Integers(b, N) == \A n \in 1 .. N : b[n] \in Int
Runs(f, a, b, c, N) ==
    f \in [0 .. N -> Int] /\ f[0] = a /\ \A n \in 1 .. N : f[n] = b[n] * f[n - 1] + c[n]

LEMMA Linear ==
    ASSUME NEW N \in Nat, NEW a \in Int, NEW b, NEW c, Integers(b, N), Integers(c, N)
    PROVE  \E f : Runs(f, a, b, c, N)
<1>1. PICK f : f = [n \in 0 .. N |-> Step(f, a, b, c, n)]
  <2>1. HasSteps(a, b, c, N)
    BY StepsExist
  <2> QED BY <2>1 DEF HasSteps
<1>2. 0 \in 0 .. N /\ \A n \in 1 .. N : n \in 0 .. N /\ n # 0
  BY SMT
<1>3. f[0] = a /\ \A n \in 1 .. N : f[n] = b[n] * f[n - 1] + c[n]
  <2>1. \A n \in 0 .. N : f[n] = Step(f, a, b, c, n)
    <3> HIDE DEF Step
    <3> QED BY <1>1
  <2> QED BY <1>2, <2>1 DEF Step
<1>4. \A n \in 0 .. N : f[n] \in Int
  <2> DEFINE G == {n \in 0 .. N : f[n] \in Int}
  <2>1. 0 \in G
    BY <1>2, <1>3
  <2>2. ASSUME NEW n \in 1 .. N, n - 1 \in G PROVE n \in G
    <3>1. b[n] * f[n - 1] + c[n] \in Int
      BY <2>2, SMT DEF Integers
    <3> QED BY <1>2, <1>3, <3>1
  <2>3. \A n \in 0 .. N : n \in G
    <3> HIDE DEF G
    <3> QED BY <2>1, <2>2, UpTo
  <2> QED BY <2>3
<1>5. f \in [0 .. N -> Int]
  BY <1>1, <1>4
<1> QED BY <1>3, <1>5 DEF Runs

(* h by Horner's rule, s by the places p: they end with the same number.   *)
LEMMA OneMore ==
    ASSUME NEW x \in Int, NEW y \in Int, NEW e \in Int, NEW t \in Int, NEW u \in Int,
           u = 10 * t, x * u = y
    PROVE  (10 * x + e) * t = y + e * t
BY SMT

ByRule(h, d, N) == h[0] = 0 /\ \A n \in 1 .. N : h[n] = 10 * h[n - 1] + d[n]
Places(p, N) == p[0] = 1 /\ \A n \in 1 .. N : p[n] = 10 * p[n - 1]
ByPlaces(s, p, d, N) == s[0] = 0 /\ \A n \in 1 .. N : s[n] = s[n - 1] + d[n] * p[N - n]

LEMMA Horner ==
    ASSUME NEW N \in Nat, NEW h, NEW p, NEW s, NEW d,
           Integers(d, N), ByRule(h, d, N), Places(p, N), ByPlaces(s, p, d, N)
    PROVE  h[N] = s[N] /\ h[N] \in Int
<1> DEFINE P == {n \in 0 .. N : p[n] \in Int}
           G == {n \in 0 .. N : h[n] \in Int /\ s[n] \in Int /\ h[n] * p[N - n] = s[n]}
<1>1. \A n \in 0 .. N : p[n] \in Int
  <2>1. 0 \in P
    <3>1. 0 \in 0 .. N
      BY SMT
    <3> QED BY <3>1 DEF Places
  <2>2. ASSUME NEW n \in 1 .. N, n - 1 \in P PROVE n \in P
    <3>1. 10 * p[n - 1] \in Int /\ n \in 0 .. N
      BY <2>2, SMT
    <3> QED BY <3>1 DEF Places
  <2>3. \A n \in 0 .. N : n \in P
    <3> HIDE DEF P
    <3> QED BY <2>1, <2>2, UpTo
  <2> QED BY <2>3
<1>2. 0 \in G
  <2>1. 0 \in 0 .. N /\ N - 0 \in 0 .. N
    BY SMT
  <2>2. 0 * p[N - 0] = 0
    BY <1>1, <2>1, SMT
  <2> QED BY <2>1, <2>2 DEF ByRule, ByPlaces
<1>3. ASSUME NEW n \in 1 .. N, n - 1 \in G PROVE n \in G
  <2>1. /\ n \in 0 .. N /\ N - n \in 0 .. N /\ N - (n - 1) \in 1 .. N
        /\ (N - (n - 1)) - 1 = N - n
    BY SMT
  <2>2. p[N - n] \in Int /\ p[N - (n - 1)] \in Int /\ d[n] \in Int
    <3>1. N - (n - 1) \in 0 .. N
      BY SMT
    <3> QED BY <1>1, <2>1, <3>1 DEF Integers
  <2>3. p[N - (n - 1)] = 10 * p[N - n]
    BY <2>1 DEF Places
  <2>4. h[n - 1] \in Int /\ s[n - 1] \in Int /\ h[n - 1] * p[N - (n - 1)] = s[n - 1]
    BY <1>3
  <2>5. (10 * h[n - 1] + d[n]) * p[N - n] = s[n - 1] + d[n] * p[N - n]
    BY <2>2, <2>3, <2>4, OneMore
  <2>6. h[n] = 10 * h[n - 1] + d[n] /\ s[n] = s[n - 1] + d[n] * p[N - n]
    BY DEF ByRule, ByPlaces
  <2>7. h[n] \in Int /\ s[n] \in Int
    BY <2>2, <2>4, <2>6, SMT
  <2> QED BY <2>1, <2>5, <2>6, <2>7
<1>4. N \in G
  <2>1. \A n \in 0 .. N : n \in G
    <3> HIDE DEF G
    <3> QED BY <1>2, <1>3, UpTo
  <2>2. N \in 0 .. N
    BY SMT
  <2> QED BY <2>1, <2>2
<1>5. N - N = 0
  BY SMT
<1>6. h[N] * 1 = s[N] /\ h[N] \in Int
  BY <1>4, <1>5 DEF Places
<1> QED BY <1>6, SMT

LEMMA DigitsAreWorth ==
    /\ \A c \in Integer!DigitsOf(16) : Integer!DigitValue(c) \in Int
    /\ Integer!DigitsOf(8) \subseteq Integer!DigitsOf(16)
    /\ Integer!DigitsOf(10) \subseteq Integer!DigitsOf(16)
<1>1. DOMAIN Integer!Digits = 1 .. 16
  BY DEF Integer!Digits
<1>2. 1 .. 8 \subseteq 1 .. 16 /\ 1 .. 10 \subseteq 1 .. 16
  BY SMT
<1>3. ASSUME NEW c \in Integer!DigitsOf(16) PROVE Integer!DigitValue(c) \in Int
  <2> DEFINE n == CHOOSE n \in DOMAIN Integer!Digits : Integer!Digits[n] = c
  <2>1. \E k \in DOMAIN Integer!Digits : Integer!Digits[k] = c
    BY <1>1, Zenon DEF Integer!DigitsOf
  <2>2. n \in DOMAIN Integer!Digits
    BY <2>1
  <2> HIDE DEF n
  <2>3. n - 1 \in Int
    BY <1>1, <2>2, SMT
  <2> QED BY <2>3 DEF Integer!DigitValue, n
<1>4. ASSUME NEW m, 1 .. m \subseteq 1 .. 16
      PROVE  Integer!DigitsOf(m) \subseteq Integer!DigitsOf(16)
  BY <1>4, Zenon DEF Integer!DigitsOf
<1> QED BY <1>2, <1>3, <1>4

(* What strtol makes of decimal digits is what they are worth.             *)
LEMMA NumberIsDecimal ==
    ASSUME NEW t \in Seq(Char), \A n \in 1 .. Len(t) : t[n] \in Integer!DigitsOf(10)
    PROVE  Integer!Number(10, t) = Integer!DecimalValue(t) /\ Integer!Number(10, t) \in Int
<1> DEFINE N == Len(t)
           d == [n \in 1 .. N |-> Integer!DigitValue(t[n])]
           H(f) == [n \in 0 .. N |-> IF n = 0 THEN 0 ELSE 10 * f[n - 1] + Integer!DigitValue(t[n])]
           P(f) == [n \in 0 .. N |-> IF n = 0 THEN 1 ELSE 10 * f[n - 1]]
           S(p, f) == [n \in 0 .. N |->
                         IF n = 0 THEN 0 ELSE f[n - 1] + Integer!DigitValue(t[n]) * p[N - n]]
           h == CHOOSE f : f = H(f)
           p == CHOOSE f : f = P(f)
           s == CHOOSE f : f = S(p, f)
<1>1. N \in Nat
  BY LenProperties
<1>2. Integer!Number(10, t) = h[N]
  BY Zenon DEF Integer!Number
<1>3. Integer!DecimalValue(t) = s[N]
  BY Zenon DEF Integer!DecimalValue
<1> HIDE DEF N, h, p, s
<1>4. \A n \in 1 .. N : d[n] = Integer!DigitValue(t[n]) /\ d[n] \in Int
  BY DigitsAreWorth DEF N
<1>5. 0 \in 0 .. N /\ \A n \in 1 .. N : n \in 0 .. N /\ n - 1 \in 0 .. N /\ N - n \in 0 .. N /\ n # 0
  BY <1>1, SMT
<1>6. \A n \in 0 .. N : n # 0 => n \in 1 .. N
  BY <1>1, SMT
<1> DEFINE ten == [n \in 1 .. N |-> 10]
           one == [n \in 1 .. N |-> 1]
           zero == [n \in 1 .. N |-> 0]
<1>7. \A n \in 1 .. N : ten[n] = 10 /\ one[n] = 1 /\ zero[n] = 0
  OBVIOUS
<1> HIDE DEF d, ten, one, zero
<1>8. h[0] = 0 /\ \A n \in 1 .. N : h[n] = 10 * h[n - 1] + d[n]
  <2>1. \E f : f = H(f)
    <3>1. PICK f : f \in [0 .. N -> Int] /\ f[0] = 0 /\ \A n \in 1 .. N : f[n] = ten[n] * f[n - 1] + d[n]
      <4>1. Integers(ten, N) /\ Integers(d, N)
        BY <1>4, <1>7 DEF Integers
      <4>2. \E f : Runs(f, 0, ten, d, N)
        BY <1>1, <4>1, Linear
      <4> QED BY <4>2 DEF Runs
    <3>2. \A n \in 0 .. N : f[n] = IF n = 0 THEN 0 ELSE 10 * f[n - 1] + Integer!DigitValue(t[n])
      BY <1>4, <1>6, <1>7, <3>1, Zenon
    <3>3. f = H(f)
      BY <3>1, <3>2
    <3> QED BY <3>3
  <2>2. h = H(h)
    BY <2>1 DEF h
  <2> QED BY <1>4, <1>5, <2>2
<1>9. p[0] = 1 /\ (\A n \in 1 .. N : p[n] = 10 * p[n - 1]) /\ \A n \in 0 .. N : p[n] \in Int
  <2>1. \E f : f = P(f)
    <3>1. PICK f : f \in [0 .. N -> Int] /\ f[0] = 1 /\ \A n \in 1 .. N : f[n] = ten[n] * f[n - 1] + zero[n]
      <4>1. Integers(ten, N) /\ Integers(zero, N)
        BY <1>7 DEF Integers
      <4>2. \E f : Runs(f, 1, ten, zero, N)
        BY <1>1, <4>1, Linear
      <4> QED BY <4>2 DEF Runs
    <3>2. \A n \in 1 .. N : f[n] = 10 * f[n - 1]
      <4> TAKE n \in 1 .. N
      <4>1. f[n - 1] \in Int
        BY <1>5, <3>1
      <4>2. f[n] = 10 * f[n - 1] + 0
        BY <1>7, <3>1
      <4> QED BY <4>1, <4>2, SMT
    <3>3. \A n \in 0 .. N : f[n] = IF n = 0 THEN 1 ELSE 10 * f[n - 1]
      BY <1>6, <3>1, <3>2, Zenon
    <3>4. f = P(f)
      BY <3>1, <3>3
    <3> QED BY <3>4
  <2>2. p = P(p)
    BY <2>1 DEF p
  <2>3. p[0] = 1 /\ \A n \in 1 .. N : p[n] = 10 * p[n - 1]
    BY <1>5, <2>2
  <2> DEFINE G == {n \in 0 .. N : p[n] \in Int}
  <2>4. 0 \in G
    BY <1>5, <2>3
  <2>5. ASSUME NEW n \in 1 .. N, n - 1 \in G PROVE n \in G
    <3>1. 10 * p[n - 1] \in Int
      BY <2>5, SMT
    <3> QED BY <1>5, <2>3, <3>1
  <2>6. \A n \in 0 .. N : n \in G
    <3> HIDE DEF G
    <3> QED BY <1>1, <2>4, <2>5, UpTo
  <2> QED BY <2>3, <2>6
<1>10. s[0] = 0 /\ \A n \in 1 .. N : s[n] = s[n - 1] + d[n] * p[N - n]
  <2> DEFINE e == [n \in 1 .. N |-> d[n] * p[N - n]]
  <2>1. \E f : f = S(p, f)
    <3>1. \A n \in 1 .. N : e[n] = d[n] * p[N - n] /\ e[n] \in Int
      <4> TAKE n \in 1 .. N
      <4>1. d[n] * p[N - n] \in Int
        BY <1>4, <1>5, <1>9, SMT
      <4> QED BY <4>1
    <3> HIDE DEF e
    <3>2. PICK f : f \in [0 .. N -> Int] /\ f[0] = 0 /\ \A n \in 1 .. N : f[n] = one[n] * f[n - 1] + e[n]
      <4>1. Integers(one, N) /\ Integers(e, N)
        BY <1>7, <3>1 DEF Integers
      <4>2. \E f : Runs(f, 0, one, e, N)
        BY <1>1, <4>1, Linear
      <4> QED BY <4>2 DEF Runs
    <3>3. \A n \in 1 .. N : f[n] = f[n - 1] + d[n] * p[N - n]
      <4> TAKE n \in 1 .. N
      <4>1. f[n - 1] \in Int /\ e[n] \in Int
        BY <1>5, <3>1, <3>2
      <4>2. f[n] = 1 * f[n - 1] + e[n]
        BY <1>7, <3>2
      <4>3. 1 * f[n - 1] + e[n] = f[n - 1] + e[n]
        BY <4>1, SMT
      <4> QED BY <3>1, <4>2, <4>3, Zenon
    <3>4. \A n \in 0 .. N :
              f[n] = IF n = 0 THEN 0 ELSE f[n - 1] + Integer!DigitValue(t[n]) * p[N - n]
      BY <1>4, <1>6, <3>2, <3>3, Zenon
    <3>5. f = S(p, f)
      BY <3>2, <3>4
    <3> QED BY <3>5
  <2>2. s = S(p, s)
    BY <2>1 DEF s
  <2> QED BY <1>4, <1>5, <2>2
<1>11. h[N] = s[N] /\ h[N] \in Int
  <2>1. Integers(d, N) /\ ByRule(h, d, N) /\ Places(p, N) /\ ByPlaces(s, p, d, N)
    BY <1>4, <1>8, <1>9, <1>10 DEF Integers, ByRule, Places, ByPlaces
  <2> QED BY <1>1, <2>1, Horner
<1> QED BY <1>2, <1>3, <1>11

-----------------------------------------------------------------------------
(* strtol.  How far a text goes on with characters of a set; and what is   *)
(* left of a text when some of its beginning has been taken.               *)
Spanned(text, set, n) ==
    /\ n \in 0 .. Len(text)
    /\ \A i \in 1 .. n : text[i] \in set
    /\ n < Len(text) => text[n + 1] \notin set

LEMMA SpanIs ==
    ASSUME NEW text \in Seq(Char), NEW set
    PROVE  Spanned(text, set, Integer!Span(text, set))
<1> DEFINE others == {i \in 1 .. Len(text) : text[i] \notin set}
           m == Integer!Min(others)
           span == Integer!Span(text, set)
<1>1. Len(text) \in Nat /\ others \subseteq Nat
  BY LenProperties, SMT
<1>2. span = LET n == IF others # {} THEN m ELSE 0 IN IF n = 0 THEN Len(text) ELSE n - 1
  BY Zenon DEF Integer!Span, Integer!SelectInSeq
<1>3. CASE others = {}
  <2>1. span = Len(text)
    BY <1>2, <1>3
  <2>2. Len(text) \in 0 .. Len(text) /\ ~(Len(text) < Len(text))
    BY <1>1, SMT
  <2>3. Spanned(text, set, Len(text))
    BY <1>3, <2>2 DEF Spanned
  <2> QED BY <2>1, <2>3, Zenon
<1>4. CASE others # {}
  <2>1. m \in others /\ \A j \in others : m <= j
    <3>1. \E k \in others : \A j \in others : k <= j
      BY <1>1, <1>4, LeastNatural
    <3> QED BY <3>1 DEF Integer!Min
  <2> HIDE DEF m
  <2>2. m \in 1 .. Len(text) /\ text[m] \notin set
    BY <2>1
  <2>3. m # 0 /\ m - 1 \in 0 .. Len(text) /\ m - 1 + 1 = m
    BY <1>1, <2>2, SMT
  <2>4. span = m - 1
    BY <1>2, <1>4, <2>3
  <2>5. \A i \in 1 .. m - 1 : text[i] \in set
    <3> TAKE i \in 1 .. m - 1
    <3>1. i \in 1 .. Len(text) /\ ~(m <= i)
      BY <1>1, <2>2, SMT
    <3> QED BY <2>1, <3>1
  <2>6. Spanned(text, set, m - 1)
    BY <2>2, <2>3, <2>5 DEF Spanned
  <2> QED BY <2>4, <2>6, Zenon
<1> QED BY <1>3, <1>4

EndOf(u, t) ==
    /\ u \in Seq(Char)
    /\ Len(u) <= Len(t)
    /\ \A i \in 1 .. Len(u) : u[i] = t[Len(t) - Len(u) + i]

LEMMA EndOfEnd ==
    ASSUME NEW t \in Seq(Char), NEW u, NEW v, EndOf(u, t), EndOf(v, u)
    PROVE  EndOf(v, t)
<1>1. Len(t) \in Nat /\ Len(u) \in Nat /\ Len(v) \in Nat
  BY LenProperties DEF EndOf
<1>2. Len(v) <= Len(u) /\ Len(u) <= Len(t)
  BY DEF EndOf
<1>3. \A i \in 1 .. Len(v) : v[i] = t[Len(t) - Len(v) + i]
  <2> TAKE i \in 1 .. Len(v)
  <2>1. /\ Len(u) - Len(v) + i \in 1 .. Len(u)
        /\ Len(t) - Len(u) + (Len(u) - Len(v) + i) = Len(t) - Len(v) + i
    BY <1>1, <1>2, SMT
  <2> QED BY <2>1 DEF EndOf
<1>4. Len(v) <= Len(t)
  BY <1>1, <1>2, SMT
<1> QED BY <1>3, <1>4 DEF EndOf

LEMMA FromIsEnd ==
    ASSUME NEW t \in Seq(Char), NEW n \in 0 .. Len(t)
    PROVE  EndOf(Integer!From(t, n), t) /\ Len(Integer!From(t, n)) = Len(t) - n
<1> DEFINE u == Integer!From(t, n)
<1>1. Len(t) \in Nat
  BY LenProperties
<1>2. n + 1 \in 1 .. Len(t) + 1
  BY <1>1, SMT
<1>3. u = Suffix(t, n + 1)
  BY DEF Integer!From, Suffix
<1> HIDE DEF u
<1>4. /\ u \in Seq(Char) /\ Len(u) = Len(t) - (n + 1) + 1
      /\ \A i \in 1 .. Len(t) - (n + 1) + 1 : u[i] = t[(n + 1) + i - 1]
  BY <1>2, <1>3, SuffixOf
<1>5. Len(u) = Len(t) - n /\ Len(t) - n <= Len(t)
  BY <1>1, <1>4, SMT
<1>6. \A i \in 1 .. Len(u) : u[i] = t[Len(t) - Len(u) + i]
  <2> TAKE i \in 1 .. Len(u)
  <2>1. i \in 1 .. Len(t) - (n + 1) + 1 /\ (n + 1) + i - 1 = Len(t) - Len(u) + i
    BY <1>1, <1>4, SMT
  <2> QED BY <1>4, <2>1
<1> QED BY <1>4, <1>5, <1>6 DEF EndOf, u

LEMMA AllOfIt == ASSUME NEW t \in Seq(Char) PROVE Integer!From(t, 0) = t
<1>1. Suffix(t, 1) = t
  BY SubSeqFull DEF Suffix
<1>2. 0 + 1 = 1
  BY SMT
<1> QED BY <1>1, <1>2 DEF Integer!From, Suffix

LEMMA TailIsEnd ==
    ASSUME NEW t \in Seq(Char), t # <<>>
    PROVE  EndOf(Tail(t), t)
<1>1. Len(t) \in Nat /\ Len(t) # 0
  BY LenProperties, EmptySeq
<1>2. Tail(t) \in Seq(Char) /\ Len(Tail(t)) = Len(t) - 1 /\ \A i \in 1 .. Len(t) - 1 : Tail(t)[i] = t[i + 1]
  BY HeadTailProperties
<1>3. Len(t) - 1 <= Len(t) /\ \A i \in 1 .. Len(t) - 1 : Len(t) - (Len(t) - 1) + i = i + 1
  BY <1>1, SMT
<1> QED BY <1>2, <1>3 DEF EndOf

(* The parts of strtol, by its own names.                                  *)
Strtol(text, tail, signed, rest, hex, base, number, n, value) ==
    /\ tail = Integer!From(text, Integer!Span(text, {" ", "\r"}))
    /\ signed = (tail # <<>> /\ tail[1] \in {"+", "-"})
    /\ rest = IF signed THEN Tail(tail) ELSE tail
    /\ hex = (Len(rest) > 2 /\ rest[1] = "0" /\ rest[2] = "x" /\ rest[3] \in Integer!DigitsOf(16))
    /\ base = IF hex THEN 16 ELSE IF Len(rest) > 0 /\ rest[1] = "0" THEN 8 ELSE 10
    /\ number = IF hex THEN Integer!From(rest, 2) ELSE rest
    /\ n = Integer!Span(number, Integer!DigitsOf(base))
    /\ value = Integer!Number(base, SubSeq(number, 1, n))
    /\ Integer!strtol(text).value = Integer!Clip(IF signed /\ tail[1] = "-" THEN -value ELSE value)
    /\ Integer!strtol(text).end = IF n = 0 THEN 0 ELSE Len(text) - Len(number) + n

LEMMA StrtolParts ==
    ASSUME NEW text
    PROVE  \E tail, signed, rest, hex, base, number, n, value :
               Strtol(text, tail, signed, rest, hex, base, number, n, value)
<1> DEFINE tail == Integer!From(text, Integer!Span(text, {" ", "\r"}))
           signed == tail # <<>> /\ tail[1] \in {"+", "-"}
           rest == IF signed THEN Tail(tail) ELSE tail
           hex == Len(rest) > 2 /\ rest[1] = "0" /\ rest[2] = "x" /\ rest[3] \in Integer!DigitsOf(16)
           base == IF hex THEN 16 ELSE IF Len(rest) > 0 /\ rest[1] = "0" THEN 8 ELSE 10
           number == IF hex THEN Integer!From(rest, 2) ELSE rest
           n == Integer!Span(number, Integer!DigitsOf(base))
           value == Integer!Number(base, SubSeq(number, 1, n))
           clipped == Integer!Clip(IF signed /\ tail[1] = "-" THEN -value ELSE value)
           end == IF n = 0 THEN 0 ELSE Len(text) - Len(number) + n
<1>1. Integer!strtol(text).value = clipped /\ Integer!strtol(text).end = end
  <2>1. Integer!strtol(text) = [value |-> clipped, end |-> end]
    BY Zenon DEF Integer!strtol
  <2> HIDE DEF clipped, end
  <2> QED BY <2>1
<1>2. Strtol(text, tail, signed, rest, hex, base, number, n, value)
  BY <1>1, Zenon DEF Strtol
<1> HIDE DEF tail, signed, rest, hex, base, number, n, value
<1> QED BY <1>2

(* A number that goes to the end of a text ends with a digit.              *)
LEMMA EndsWithDigit ==
    ASSUME NEW text \in Seq(Char), Integer!IsInteger(text)
    PROVE  Last(text) \in Integer!DigitsOf(16)
<1>1. PICK tail, signed, rest, hex, base, number, n, value :
          Strtol(text, tail, signed, rest, hex, base, number, n, value)
  BY StrtolParts
<1>2. EndOf(tail, text)
  <2>1. Integer!Span(text, {" ", "\r"}) \in 0 .. Len(text)
    BY SpanIs DEF Spanned
  <2> QED BY <1>1, <2>1, FromIsEnd DEF Strtol
<1>3. EndOf(rest, tail)
  <2>1. tail \in Seq(Char)
    BY <1>2 DEF EndOf
  <2>2. CASE signed
    BY <1>1, <2>1, <2>2, TailIsEnd DEF Strtol
  <2>3. CASE ~signed
    <3>1. rest = tail
      BY <1>1, <2>3 DEF Strtol
    <3>2. Len(tail) \in Nat
      BY <2>1, LenProperties
    <3>3. Len(tail) <= Len(tail) /\ \A i \in 1 .. Len(tail) : Len(tail) - Len(tail) + i = i
      BY <3>2, SMT
    <3> QED BY <2>1, <3>1, <3>3 DEF EndOf
  <2> QED BY <2>2, <2>3
<1>4. EndOf(number, rest)
  <2>1. rest \in Seq(Char)
    BY <1>3 DEF EndOf
  <2>2. Len(rest) \in Nat
    BY <2>1, LenProperties
  <2>3. CASE hex
    <3>1. Len(rest) > 2 /\ number = Integer!From(rest, 2)
      BY <1>1, <2>3 DEF Strtol
    <3>2. 2 \in 0 .. Len(rest)
      BY <2>2, <3>1, SMT
    <3> QED BY <2>1, <3>1, <3>2, FromIsEnd
  <2>4. CASE ~hex
    <3>1. number = rest
      BY <1>1, <2>4 DEF Strtol
    <3>2. Len(rest) <= Len(rest) /\ \A i \in 1 .. Len(rest) : Len(rest) - Len(rest) + i = i
      BY <2>2, SMT
    <3> QED BY <2>1, <3>1, <3>2 DEF EndOf
  <2> QED BY <2>3, <2>4
<1>5. EndOf(number, text)
  <2>1. EndOf(rest, text)
    BY <1>2, <1>3, EndOfEnd
  <2> QED BY <1>4, <2>1, EndOfEnd
<1>6. Spanned(number, Integer!DigitsOf(base), n)
  <2>1. number \in Seq(Char)
    BY <1>5 DEF EndOf
  <2>2. n = Integer!Span(number, Integer!DigitsOf(base))
    BY <1>1 DEF Strtol
  <2> QED BY <2>1, <2>2, SpanIs
<1>7. Len(text) \in Nat /\ Len(number) \in Nat
  BY <1>5, LenProperties DEF EndOf
<1>8. n # 0 /\ Len(text) - Len(number) + n = Len(text)
  <2>1. Integer!strtol(text).end = IF n = 0 THEN 0 ELSE Len(text) - Len(number) + n
    BY <1>1, Zenon DEF Strtol
  <2> QED BY <2>1 DEF Integer!IsInteger
<1>9. n \in 0 .. Len(number)
  BY <1>6 DEF Spanned
<1>10. n \in 1 .. n /\ n \in 1 .. Len(number) /\ Len(text) - Len(number) + n = Len(text)
  BY <1>7, <1>8, <1>9, SMT
<1>11. number[n] = text[Len(text)]
  <2>1. number[n] = text[Len(text) - Len(number) + n]
    BY <1>5, <1>10 DEF EndOf
  <2> QED BY <1>10, <2>1
<1>12. number[n] \in Integer!DigitsOf(base)
  BY <1>6, <1>10 DEF Spanned
<1>13. base \in {8, 10, 16}
  BY <1>1 DEF Strtol
<1>14. Integer!DigitsOf(base) \subseteq Integer!DigitsOf(16)
  BY <1>13, DigitsAreWorth
<1> QED BY <1>11, <1>12, <1>14 DEF Last

Plain(text) == text[1] \notin {"0", "+", "-", " ", "\r"}

(* Of a text with no blank, sign or zero in front, strtol takes decimal    *)
(* digits, as many as there are.                                           *)
LEMMA PlainIsDecimal ==
    ASSUME NEW text \in Seq(Char), Plain(text)
    PROVE  /\ Integer!IsInteger(text) = Integer!Decimal(text)
           /\ Integer!IsInteger(text) =>
                  Integer!strtol(text).value = Integer!Clip(Integer!DecimalValue(text))
<1>1. PICK tail, signed, rest, hex, base, number, n, value :
          Strtol(text, tail, signed, rest, hex, base, number, n, value)
  BY StrtolParts
<1>2. Len(text) \in Nat
  BY LenProperties
<1>3. tail = text
  <2> DEFINE m == Integer!Span(text, {" ", "\r"})
  <2>1. Spanned(text, {" ", "\r"}, m)
    BY SpanIs
  <2> HIDE DEF m
  <2>2. m = 0
    <3> SUFFICES ASSUME m # 0 PROVE FALSE
      OBVIOUS
    <3>1. m \in 0 .. Len(text)
      BY <2>1 DEF Spanned
    <3>2. 1 \in 1 .. m
      BY <1>2, <3>1, SMT
    <3>3. text[1] \in {" ", "\r"}
      BY <2>1, <3>2 DEF Spanned
    <3> QED BY <3>3 DEF Plain
  <2>3. tail = Integer!From(text, m)
    BY <1>1 DEF Strtol, m
  <2> QED BY <2>2, <2>3, AllOfIt
<1>4. ~signed
  BY <1>1, <1>3 DEF Strtol, Plain
<1>5. rest = text
  BY <1>1, <1>3, <1>4 DEF Strtol
<1>6. ~hex /\ base = 10
  BY <1>1, <1>5 DEF Strtol, Plain
<1>7. number = text
  BY <1>1, <1>5, <1>6 DEF Strtol
<1>8. Spanned(text, Integer!DigitsOf(10), n)
  <2>1. n = Integer!Span(text, Integer!DigitsOf(10))
    BY <1>1, <1>6, <1>7 DEF Strtol
  <2> QED BY <2>1, SpanIs
<1>9. n \in 0 .. Len(text)
  BY <1>8 DEF Spanned
<1>10. Integer!IsInteger(text) <=> n # 0 /\ n = Len(text)
  <2>1. Integer!strtol(text).end = IF n = 0 THEN 0 ELSE Len(text) - Len(number) + n
    BY <1>1, Zenon DEF Strtol
  <2>2. Len(text) - Len(text) + n = n
    BY <1>2, <1>9, SMT
  <2>3. Integer!strtol(text).end = n
    BY <1>7, <2>1, <2>2
  <2> QED BY <2>3 DEF Integer!IsInteger
<1>11. Integer!Decimal(text) <=> n # 0 /\ n = Len(text)
  <2>1. DOMAIN text = 1 .. Len(text) /\ (text # <<>> <=> Len(text) # 0)
    BY LenProperties, EmptySeq
  <2>2. Integer!Range(text) \subseteq Integer!DigitsOf(10) <=> \A i \in 1 .. Len(text) : text[i] \in Integer!DigitsOf(10)
    BY <2>1 DEF Integer!Range
  <2>3. ASSUME n # 0, n = Len(text) PROVE Integer!Decimal(text)
    BY <1>8, <2>1, <2>2, <2>3 DEF Spanned, Integer!Decimal
  <2>4. ASSUME Integer!Decimal(text) PROVE n # 0 /\ n = Len(text)
    <3>1. Len(text) # 0 /\ \A i \in 1 .. Len(text) : text[i] \in Integer!DigitsOf(10)
      BY <2>1, <2>2, <2>4 DEF Integer!Decimal
    <3>2. n = Len(text)
      <4> SUFFICES ASSUME n # Len(text) PROVE FALSE
        OBVIOUS
      <4>1. n < Len(text) /\ n + 1 \in 1 .. Len(text)
        BY <1>2, <1>9, SMT
      <4> QED BY <1>8, <3>1, <4>1 DEF Spanned
    <3> QED BY <3>1, <3>2
  <2> QED BY <2>3, <2>4
<1>12. ASSUME Integer!IsInteger(text)
       PROVE  Integer!strtol(text).value = Integer!Clip(Integer!DecimalValue(text))
  <2>1. n = Len(text)
    BY <1>10, <1>12
  <2>2. SubSeq(number, 1, n) = text
    BY <1>7, <2>1, SubSeqFull
  <2>3. value = Integer!Number(10, text)
    BY <1>1, <1>6, <2>2 DEF Strtol
  <2>4. \A i \in 1 .. Len(text) : text[i] \in Integer!DigitsOf(10)
    BY <1>8, <2>1 DEF Spanned
  <2>5. value = Integer!DecimalValue(text)
    BY <2>3, <2>4, NumberIsDecimal
  <2>6. Integer!strtol(text).value = Integer!Clip(IF signed /\ tail[1] = "-" THEN -value ELSE value)
    BY <1>1, Zenon DEF Strtol
  <2> QED BY <1>4, <2>5, <2>6
<1>13. Integer!IsInteger(text) \in BOOLEAN /\ Integer!Decimal(text) \in BOOLEAN
  BY DEF Integer!IsInteger, Integer!Decimal
<1> QED BY <1>10, <1>11, <1>12, <1>13

(* read_conf_int has converted what was found.                             *)
IntInv ==
    value_valid # Missing =>
        /\ pc = "closed"
        /\ output_buffer # Missing =>
               /\ output = Integer!strtol(output_buffer).value
               /\ value_valid = Integer!IsInteger(output_buffer)

LEMMA NextIntInv == IntInv /\ [StartNext]_allvars => IntInv'
<1> SUFFICES ASSUME IntInv, [StartNext]_allvars PROVE IntInv'
  OBVIOUS
<1>1. CASE Reads
  <2>1. pc # "closed" /\ value_valid' = value_valid
    BY <1>1 DEF Reads, Next, Open, Key, Value
  <2> QED BY <2>1 DEF IntInv
<1>2. CASE ReadsInt
  <2>1. pc' = "closed" /\ output_buffer' = output_buffer
    BY <1>2 DEF ReadsInt, Asked, Integer!Next, Integer!NotFound, Integer!Convert
  <2>2. CASE Integer!NotFound
    BY <2>1, <2>2 DEF IntInv, Integer!NotFound
  <2>3. CASE Integer!Convert
    BY <2>1, <2>3 DEF IntInv, Integer!Convert
  <2> QED BY <1>2, <2>2, <2>3 DEF ReadsInt, Integer!Next
<1>3. CASE ConvertsKey \/ UNCHANGED allvars
  <2>1. UNCHANGED <<pc, output_buffer, output, value_valid>>
    BY <1>3 DEF ConvertsKey, Asked, HmacKey!Next, HmacKey!Refuse, HmacKey!Convert,
       HmacKey!Return, allvars, vars
  <2> QED BY <2>1 DEF IntInv
<1> QED BY <1>1, <1>2, <1>3 DEF StartNext

-----------------------------------------------------------------------------
StartInv == ConfTypes /\ Searched /\ NotMissed /\ KeyInv /\ IntInv

LEMMA InitStartInv == StartInit => StartInv
<1> SUFFICES ASSUME StartInit PROVE StartInv
  OBVIOUS
<1>1. ConfTypes
  BY InitConfTypes DEF StartInit
<1>2. Searched /\ NotMissed
  BY DEF StartInit, Init, Searched, NotMissed
<1>3. KeyInv
  <2>1. <<>> \in Seq(Bytes)
    BY EmptySeq
  <2> QED BY <2>1 DEF StartInit, Init, HmacKey!Init, KeyInv, SameAsServer, HmacKey!SameAsServer
<1>4. IntInv
  BY DEF StartInit, Integer!Init, IntInv
<1> QED BY <1>1, <1>2, <1>3, <1>4 DEF StartInv

LEMMA NextStartInv == StartInv /\ [StartNext]_allvars => StartInv'
<1> SUFFICES ASSUME StartInv, [StartNext]_allvars PROVE StartInv'
  OBVIOUS
<1>1. [Next]_vars
  BY DEF StartNext, Reads, ReadsInt, ConvertsKey, Asked, vars, allvars, Integer!Next,
     Integer!NotFound, Integer!Convert, HmacKey!Next, HmacKey!Refuse, HmacKey!Convert,
     HmacKey!Return
<1>2. ConfTypes' /\ Searched' /\ NotMissed' /\ IntInv'
  BY <1>1, NextConfTypes, NextSearched, NextNotMissed, NextIntInv DEF StartInv
<1>3. CASE ConvertsKey
  BY <1>2, <1>3, ConvertsKeyInv DEF StartInv
<1>4. CASE Reads
  <2>1. hmac' = hmac /\ result' = result /\ pc # "closed"
    BY <1>4 DEF Reads, Next, Open, Key, Value
  <2>2. result = HmacKey!Pending /\ hmac = <<>> /\ hmac \in Seq(Bytes)
    BY <2>1 DEF StartInv, KeyInv
  <2>3. SameAsServer'
    BY <2>1, <2>2 DEF SameAsServer, HmacKey!SameAsServer, HmacKey!Pending
  <2>4. /\ output_buffer' # Missing => 2 * Len(hmac') <= Len(output_buffer')
        /\ \A n \in 1 .. Len(hmac') : FALSE
    <3>1. Len(hmac') = 0
      BY <2>1, <2>2, EmptySeq
    <3>2. output_buffer' # Missing => Len(output_buffer') \in Nat
      BY <1>2, LenProperties DEF ConfTypes
    <3> QED BY <3>1, <3>2, SMT
  <2> QED BY <1>2, <2>1, <2>2, <2>3, <2>4 DEF StartInv, KeyInv, HmacKey!Pending
<1>5. CASE ReadsInt \/ UNCHANGED allvars
  <2>1. UNCHANGED <<pc, output_buffer, hmac, result>>
    BY <1>5 DEF ReadsInt, Asked, allvars, vars, Integer!Next, Integer!NotFound, Integer!Convert
  <2>2. KeyInv'
    BY <2>1 DEF StartInv, KeyInv, SameAsServer, HmacKey!SameAsServer, AllDigits
  <2> QED BY <1>2, <2>2 DEF StartInv
<1> QED BY <1>3, <1>4, <1>5 DEF StartNext

LEMMA StartInvariance == StartSpec => []StartInv
<1> QED BY InitStartInv, NextStartInv, PTL DEF StartSpec

(* Whatever the lengths of names, values and buffer: the search ends at    *)
(* the first line of the file with the key that fits, or at the first such *)
(* default (conf.c:55-66).                                                 *)
THEOREM FileBeforeDefaults == StartSpec => []FileThenDefaults
<1>1. StartInv => FileThenDefaults
  <2> SUFFICES ASSUME StartInv, pc = "closed", file # Missing,
                      \A s \in LineStarts(file) : WellFormed(Line(file, s))
               PROVE  output_buffer = FirstAnswer
    BY DEF FileThenDefaults, FirstAnswer, Text
  <2>1. file \in Seq(Char)
    BY DEF StartInv, ConfTypes
  <2> QED BY <2>1, JoinedProper DEF StartInv, Searched
<1> QED BY <1>1, StartInvariance, PTL

(* Whatever the damage: the search ends at a proper line with the name, and *)
(* at or above the first such line that has a proper line above it and a   *)
(* value that fits, if no damaged line above has the name (conf.c:56-66).  *)
THEOREM DamageStaysLocal == StartSpec => []DamageIsLocal
<1>1. StartInv => DamageIsLocal
  <2> SUFFICES ASSUME StartInv, pc = "closed", file # Missing, Ended(file),
                      NEW s \in LineStarts(file), Answers(file, s),
                      \A r \in LineStarts(file) : r < s /\ ~WellFormed(Line(file, r)) =>
                          /\ \E q \in LineStarts(file) : q > r /\ q < s
                          /\ ~HasName(Line(file, r))
               PROVE  \E r \in LineStarts(file) :
                          r <= s /\ Answers(file, r) /\ output_buffer = ValueOf(Line(file, r))
    BY DEF DamageIsLocal
  <2>1. file \in Seq(Char) /\ variable_name \in Names
    BY DEF StartInv, ConfTypes
  <2>2. PICK e, m : Goal(s, e, m)
    BY <2>1, DamageGoal
  <2>3. FoundUpTo(s)
    BY <2>2 DEF StartInv, NotMissed
  <2>4. PICK q, f, n : /\ Named(q, f, n) /\ q <= s
                       /\ Fits(SubSeq(Text, f + 1, n - 1))
                       /\ output_buffer = SubSeq(Text, f + 1, n - 1)
    BY <2>3 DEF FoundUpTo
  <2>5. /\ s \in 1 .. Len(file) /\ Len(file) \in Nat
        /\ Text = file \o conf_defaults /\ conf_defaults \in Seq(Char) /\ Text \in Seq(Char)
        /\ Len(Text) = Len(file) + Len(conf_defaults) /\ Len(conf_defaults) \in Nat
        /\ \A i \in 1 .. Len(file) : Text[i] = file[i]
    BY <2>1, ConfAssumption, StartsOf, Joined, LenProperties DEF Text
  <2>6. q \in 1 .. Len(Text) /\ (q = 1 \/ Text[q - 1] = Newline)
    BY <2>4, <2>5, StartsOf DEF Named
  <2>7. q \in 1 .. Len(file) /\ (q = 1 \/ q - 1 \in 1 .. Len(file))
    BY <2>4, <2>5, <2>6, SMT
  <2>8. q \in LineStarts(file)
    BY <2>1, <2>5, <2>6, <2>7, StartsOf
  <2>9. Proper(file, q, f, n) /\ n \in 1 .. Len(file)
    BY <2>1, <2>4, <2>5, <2>7, ProperInEnded DEF Named
  <2>10. /\ SubSeq(Text, q, f - 1) = SubSeq(file, q, f - 1)
         /\ SubSeq(Text, f + 1, n - 1) = SubSeq(file, f + 1, n - 1)
    <3>1. n <= Len(file)
      BY <2>5, <2>9, SMT
    <3>2. SameIn(Text, file, q, f, n)
      BY <2>1, <2>5, <2>9, <3>1, SameParts
    <3> QED BY <3>2 DEF SameIn
  <2>11. /\ WellFormed(Line(file, q))
         /\ KeyOf(Line(file, q)) = variable_name
         /\ ValueOf(Line(file, q)) = output_buffer
    <3>1. SubSeq(Text, q, f - 1) = variable_name
      BY <2>4, Zenon DEF Named
    <3>2. /\ WellFormed(Line(file, q))
          /\ KeyOf(Line(file, q)) = SubSeq(file, q, f - 1)
          /\ ValueOf(Line(file, q)) = SubSeq(file, f + 1, n - 1)
      <4>1. \A a, b : Proper(file, q, a, b) =>
                /\ WellFormed(Line(file, q))
                /\ KeyOf(Line(file, q)) = SubSeq(file, q, a - 1)
                /\ ValueOf(Line(file, q)) = SubSeq(file, a + 1, b - 1)
        BY <2>1, <2>7, LineParts
      <4> QED BY <2>9, <4>1, Zenon
    <3> QED BY <2>4, <2>10, <3>1, <3>2, Zenon
  <2>12. Answers(file, q)
    BY <2>4, <2>11 DEF Answers
  <2> QED BY <2>4, <2>8, <2>11, <2>12
<1> QED BY <1>1, StartInvariance, PTL

(* Whatever the length of a key: the device signs with the bytes the       *)
(* server has, or does not start (main.c:54-81, web/index.php:31-37).      *)
THEOREM SameKeyAsServer == StartSpec => []SameAsServer
<1>1. StartInv => SameAsServer
  BY DEF StartInv, KeyInv
<1> QED BY <1>1, StartInvariance, PTL

(* However long a value is: a plain decimal number becomes what it says,   *)
(* up to the limit of a long, and a text that is no number to its end is   *)
(* refused (conf.c:82-88).                                                 *)
THEOREM PlainNumbersAreRead == StartSpec => []IntAsWritten
<1>1. StartInv => IntAsWritten
  <2> SUFFICES ASSUME StartInv, value_valid # Missing, output_buffer # Missing
               PROVE  /\ Plain(output_buffer) => value_valid = Integer!Decimal(output_buffer)
                      /\ Plain(output_buffer) /\ value_valid =>
                             output = Integer!Clip(Integer!DecimalValue(output_buffer))
                      /\ value_valid => Last(output_buffer) \in Integer!DigitsOf(16)
    BY Zenon DEF IntAsWritten, Integer!IntAsWritten, Integer!Last, Last, Plain
  <2>1. output_buffer \in Seq(Char)
    BY DEF StartInv, ConfTypes
  <2>2. /\ output = Integer!strtol(output_buffer).value
        /\ value_valid = Integer!IsInteger(output_buffer)
    BY DEF StartInv, IntInv
  <2> QED BY <2>1, <2>2, PlainIsDecimal, EndsWithDigit
<1> QED BY <1>1, StartInvariance, PTL
=============================================================================
