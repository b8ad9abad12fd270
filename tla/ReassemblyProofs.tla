-------------------------- MODULE ReassemblyProofs --------------------------
(***************************************************************************)
(* What ParsingWorker promises of the lists and of the messages it hands   *)
(* out, for any messages, any order of arrival and any sizes.  The lists   *)
(* stay sorted whichever mallocs fail; that every message comes out whole  *)
(* is proved for a worker whose mallocs succeed.                           *)
(***************************************************************************)
EXTENDS ParsingWorkerProofs, SequenceTheorems, FunctionTheorems, WellFoundedInduction

(* A non-empty set of naturals has a least element: what stands in for      *)
(* induction over the positions of a list.                                  *)
LEMMA LeastNatural ==
  ASSUME NEW T, T \subseteq Nat, T # {}
  PROVE  \E x \in T : \A y \in T : x <= y
<1> DEFINE R == OpToRel(<, Nat)
<1>1. \A x, y \in Nat : y < x => <<y, x>> \in R
  BY DEF OpToRel
<1>2. IsWellFoundedOn(R, Nat)
  BY NatLessThanWellFounded
<1> HIDE DEF R
<1>3. PICK x \in T : \A y \in T : ~(<<y, x>> \in R)
  BY <1>2, WFMin
<1>4. ASSUME NEW y \in T PROVE x <= y
  <2>1. x \in Nat /\ y \in Nat /\ ~(y < x)
    BY <1>1, <1>3
  <2> QED
    BY <2>1
<1> QED
  BY <1>4

-----------------------------------------------------------------------------
Sorted(s) == \A p, q \in 1..Len(s) : p < q => s[p] < s[q]

(* The search loop of insert_into_msl stops at a place that exists in every *)
(* list, sorted or not (segmentation_buffer.c:139-142).                     *)
LEMMA PlaceProperties ==
  ASSUME NEW n \in Nat, NEW s \in Seq(0..n-1), NEW i \in Nat
  PROVE  /\ Place(s, i) \in 0..Len(s)
         /\ \A j \in 1..Place(s, i) : s[j] < i
         /\ Place(s, i) < Len(s) => s[Place(s, i) + 1] >= i
<1> DEFINE T == {j \in 1..Len(s)+1 : j = Len(s) + 1 \/ s[j] >= i}
<1>1. Len(s) \in Nat /\ \A j \in 1..Len(s) : s[j] \in 0..n-1
  BY ElementOfSeq, LenProperties
<1>2. PICK x \in T : \A y \in T : x <= y
  <2>1. T \subseteq Nat /\ Len(s) + 1 \in T
    BY <1>1
  <2> QED
    BY <2>1, LeastNatural
<1>3. x - 1 \in 0..Len(s) /\ (x - 1) + 1 = x
  BY <1>1, <1>2
<1>4. ASSUME NEW j \in 1..x-1 PROVE s[j] < i
  <2>1. j \in 1..Len(s) /\ j \notin T
    BY <1>1, <1>2, <1>3
  <2> QED
    BY <1>1, <2>1
<1>5. x - 1 < Len(s) => s[(x - 1) + 1] >= i
  BY <1>1, <1>2, <1>3
<1>6. StopsAt(s, i, x - 1)
  BY <1>4, <1>5 DEF StopsAt
<1>7. Place(s, i) \in 0..Len(s) /\ StopsAt(s, i, Place(s, i))
  BY <1>3, <1>6 DEF Place
<1> QED
  BY <1>7 DEF StopsAt

Spliced(s, i, p) == SubSeq(s, 1, p) \o <<i>> \o SubSeq(s, p + 1, Len(s))

HasNewCell(t, s, i, p) ==
  /\ Len(t) = Len(s) + 1
  /\ \A j \in 1..p : t[j] = s[j]
  /\ t[p + 1] = i
  /\ \A j \in p+1..Len(s) : t[j + 1] = s[j]

(* What a list becomes when a cell is linked in after its first p: the      *)
(* cells before the place stay where they are, the others move by one.      *)
LEMMA Splice ==
  ASSUME NEW S, NEW s \in Seq(S), NEW i \in S, NEW p \in 0..Len(s)
  PROVE  Spliced(s, i, p) \in Seq(S) /\ HasNewCell(Spliced(s, i, p), s, i, p)
<1> DEFINE b == SubSeq(s, 1, p)
           f == SubSeq(s, p + 1, Len(s))
<1>1. Len(s) \in Nat /\ \A j \in 1..Len(s) : s[j] \in S
  BY ElementOfSeq, LenProperties
<1>2. /\ b \in Seq(S) /\ Len(b) = IF 1 <= p THEN p - 1 + 1 ELSE 0
      /\ \A j \in 1..p-1+1 : b[j] = s[1 + j - 1]
  <2>1. p \in Int /\ 1 \in Int /\ \A j \in 1..p : s[j] \in S
    BY <1>1
  <2> QED
    BY <2>1, SubSeqProperties
<1>3. /\ f \in Seq(S)
      /\ Len(f) = IF p + 1 <= Len(s) THEN Len(s) - (p + 1) + 1 ELSE 0
      /\ \A j \in 1..Len(s)-(p+1)+1 : f[j] = s[p + 1 + j - 1]
  <2>1. p + 1 \in Int /\ Len(s) \in Int /\ \A j \in p+1..Len(s) : s[j] \in S
    BY <1>1
  <2> QED
    BY <2>1, SubSeqProperties
<1> HIDE DEF b, f
<1>4. Len(b) = p /\ \A j \in 1..p : b[j] = s[j]
  BY <1>1, <1>2
<1>5. Len(f) = Len(s) - p
  BY <1>1, <1>3
<1>6. ASSUME NEW j \in p+1..Len(s) PROVE f[j - p] = s[j]
  <2>1. j - p \in 1..Len(s)-(p+1)+1 /\ p + 1 + (j - p) - 1 = j
    BY <1>1
  <2> QED
    BY <1>3, <2>1
<1>7. <<i>> \in Seq(S) /\ Len(<<i>>) = 1 /\ <<i>>[1] = i
  OBVIOUS
<1> DEFINE c == b \o <<i>>
<1>8. /\ c \in Seq(S) /\ Len(c) = p + 1
      /\ \A j \in 1..p+1 : c[j] = IF j <= p THEN b[j] ELSE <<i>>[j - p]
  BY <1>2, <1>4, <1>7, ConcatProperties
<1>9. c[p + 1] = i /\ \A j \in 1..p : c[j] = s[j]
  <2>1. p + 1 \in 1..p+1 /\ ~(p + 1 <= p) /\ (p + 1) - p = 1
    BY <1>1
  <2> QED
    BY <1>4, <1>7, <1>8, <2>1
<1> HIDE DEF c
<1>10. PICK t : t = c \o f
  OBVIOUS
<1>11. /\ t \in Seq(S) /\ Len(t) = Len(c) + Len(f)
       /\ \A j \in 1..Len(c)+Len(f) : t[j] = IF j <= Len(c) THEN c[j] ELSE f[j - Len(c)]
  <2>1. c \in Seq(S) /\ f \in Seq(S)
    BY <1>3, <1>8
  <2> QED
    BY <1>10, <2>1, ConcatProperties, Zenon
<1>12. Len(t) = Len(s) + 1
  BY <1>1, <1>5, <1>8, <1>11
<1>15. ASSUME NEW j \in 1..p+1 PROVE t[j] = c[j]
  <2>1. j \in 1..Len(c)+Len(f) /\ j <= Len(c)
    BY <1>1, <1>5, <1>8
  <2> QED
    BY <1>11, <2>1, Zenon
<1>13. ASSUME NEW j \in p+1..Len(s) PROVE t[j + 1] = s[j]
  <2>1. j + 1 \in 1..Len(c)+Len(f) /\ ~(j + 1 <= Len(c)) /\ (j + 1) - Len(c) = j - p
    BY <1>1, <1>5, <1>8
  <2> QED
    BY <1>6, <1>11, <2>1
<1>14. t[p + 1] = i /\ \A j \in 1..p : t[j] = s[j]
  <2>1. p + 1 \in 1..p+1 /\ \A j \in 1..p : j \in 1..p+1
    BY <1>1
  <2> QED
    BY <1>9, <1>15, <2>1, Zenon
<1>16. t = Spliced(s, i, p)
  BY <1>10 DEF b, c, f, Spliced
<1>17. t \in Seq(S) /\ HasNewCell(t, s, i, p)
  BY <1>11, <1>12, <1>13, <1>14, Zenon DEF HasNewCell
<1> QED
  BY <1>16, <1>17

(* In a sorted list the cells from the place on are above i, once the one   *)
(* the search stopped at is known to differ.                                *)
LEMMA RestIsAbove ==
  ASSUME NEW n \in Nat, NEW m, m.segs \in Seq(0..n-1), Sorted(m.segs), NEW i \in Nat,
         ~IsDuplicate(m, i), NEW j \in Place(m.segs, i)+1..Len(m.segs)
  PROVE  m.segs[j] > i
<1>1. /\ Len(m.segs) \in Nat
      /\ \A q \in 1..Len(m.segs) : m.segs[q] \in 0..n-1
  BY ElementOfSeq, LenProperties
<1>2. PICK p \in 0..Len(m.segs) : /\ p = Place(m.segs, i)
                                  /\ p < Len(m.segs) => m.segs[p + 1] >= i
  BY PlaceProperties
<1>3. p < Len(m.segs) => m.segs[p + 1] # i
  BY <1>2 DEF IsDuplicate
<1>4. p + 1 \in 1..Len(m.segs) /\ j \in p+1..Len(m.segs) /\ j \in 1..Len(m.segs)
  BY <1>1, <1>2
<1>5. m.segs[p + 1] > i
  BY <1>1, <1>2, <1>3, <1>4
<1>6. j = p + 1 \/ m.segs[p + 1] < m.segs[j]
  BY <1>1, <1>2, <1>4 DEF Sorted
<1> QED
  BY <1>1, <1>4, <1>5, <1>6

(* The list with the cell of i linked in at its place.                      *)
Linked(s, i) == Before(s, i) \o <<i>> \o From(s, i)

(* Linking a segment in keeps a sorted list sorted, and adds that segment   *)
(* only.                                                                    *)
LEMMA LinkedSorted ==
  ASSUME NEW n \in Nat, NEW m, m.segs \in Seq(0..n-1), Sorted(m.segs), NEW i \in 0..n-1,
         ~IsDuplicate(m, i)
  PROVE  /\ Linked(m.segs, i) \in Seq(0..n-1)
         /\ Len(Linked(m.segs, i)) = Len(m.segs) + 1
         /\ Sorted(Linked(m.segs, i))
<1>1. PICK s \in Seq(0..n-1) : s = m.segs
  OBVIOUS
<1>2. Len(s) \in Nat /\ \A q \in 1..Len(s) : s[q] \in 0..n-1
  BY ElementOfSeq, LenProperties
<1>3. i \in Nat
  OBVIOUS
<1>4. PICK p \in 0..Len(s) : p = Place(s, i) /\ \A q \in 1..p : s[q] < i
  BY <1>3, PlaceProperties
<1>5. \A q \in p+1..Len(s) : s[q] > i
  BY <1>1, <1>3, <1>4, RestIsAbove
<1>6. PICK t : t = Spliced(s, i, p)
  OBVIOUS
<1>7. t = Linked(s, i)
  BY <1>4, <1>6 DEF Linked, Before, From, Spliced
<1>8. /\ t \in Seq(0..n-1) /\ Len(t) = Len(s) + 1
      /\ \A j \in 1..p : t[j] = s[j]
      /\ t[p + 1] = i
      /\ \A j \in p+1..Len(s) : t[j + 1] = s[j]
  <2>1. t \in Seq(0..n-1) /\ HasNewCell(t, s, i, p)
    BY <1>6, Splice
  <2> QED
    BY <2>1 DEF HasNewCell
<1>9. \A q, r \in 1..Len(s) : q < r => s[q] < s[r]
  BY <1>1 DEF Sorted
<1>10. ASSUME NEW q \in 1..Len(t), NEW r \in 1..Len(t), q < r PROVE t[q] < t[r]
  <2>1. ASSUME NEW j \in p+2..Len(t) PROVE j - 1 \in p+1..Len(s) /\ t[j] = s[j - 1]
    <3>1. j - 1 \in p+1..Len(s) /\ (j - 1) + 1 = j
      BY <1>2, <1>8
    <3> QED
      BY <1>8, <3>1
  <2>2. CASE r <= p
    <3>1. q \in 1..p /\ r \in 1..p /\ q \in 1..Len(s) /\ r \in 1..Len(s)
      BY <1>2, <1>10, <2>2
    <3> QED
      BY <1>8, <1>9, <1>10, <3>1
  <2>3. CASE r = p + 1
    <3>1. q \in 1..p
      BY <1>2, <1>10, <2>3
    <3> QED
      BY <1>4, <1>8, <2>3, <3>1
  <2>4. CASE r > p + 1
    <3>1. r \in p+2..Len(t) /\ r - 1 \in 1..Len(s)
      BY <1>2, <1>8, <2>4
    <3>2. CASE q <= p
      <4>1. q \in 1..p /\ q \in 1..Len(s) /\ q < r - 1
        BY <1>2, <2>4, <3>2
      <4> QED
        BY <1>8, <1>9, <2>1, <3>1, <4>1
    <3>3. CASE q = p + 1
      BY <1>5, <1>8, <2>1, <3>1, <3>3
    <3>4. CASE q > p + 1
      <4>1. q \in p+2..Len(t) /\ q - 1 \in 1..Len(s) /\ q - 1 < r - 1
        BY <1>2, <1>8, <1>10, <3>4
      <4> QED
        BY <1>9, <2>1, <3>1, <4>1
    <3> QED
      BY <3>2, <3>3, <3>4
  <2> QED
    BY <2>2, <2>3, <2>4
<1> QED
  BY <1>1, <1>7, <1>8, <1>10 DEF Sorted

(* So does losing the rest of it.                                           *)
LEMMA BeforeSorted ==
  ASSUME NEW n \in Nat, NEW s \in Seq(0..n-1), Sorted(s), NEW i \in 0..n-1
  PROVE  Before(s, i) \in Seq(0..n-1) /\ Sorted(Before(s, i))
<1>1. Len(s) \in Nat /\ \A q \in 1..Len(s) : s[q] \in 0..n-1
  BY ElementOfSeq, LenProperties
<1>2. PICK p \in 0..Len(s) : p = Place(s, i)
  BY PlaceProperties
<1>3. p \in Int /\ 1 \in Int /\ \A j \in 1..p : s[j] \in 0..n-1
  BY <1>1
<1>4. PICK b : b = Before(s, i)
  OBVIOUS
<1>5. /\ b \in Seq(0..n-1) /\ Len(b) = IF 1 <= p THEN p - 1 + 1 ELSE 0
      /\ \A j \in 1..p-1+1 : b[j] = s[1 + j - 1]
  BY <1>2, <1>3, <1>4, SubSeqProperties DEF Before
<1>6. Len(b) = p /\ \A j \in 1..p : b[j] = s[j]
  BY <1>1, <1>5
<1>7. \A q, r \in 1..p : q < r => b[q] < b[r]
  BY <1>1, <1>6 DEF Sorted
<1> QED
  BY <1>4, <1>5, <1>6, <1>7 DEF Sorted

-----------------------------------------------------------------------------
(* A list without gaps.  The cell at position j of a sorted list of numbers *)
(* below n is at least j - 1, and leaves room for the cells after it.       *)
LEMMA SortedBounds ==
  ASSUME NEW n \in Nat, NEW s \in Seq(0..n-1), Sorted(s)
  PROVE  \A j \in 1..Len(s) : s[j] >= j - 1 /\ s[j] <= n - 1 - (Len(s) - j)
<1>1. Len(s) \in Nat /\ \A q \in 1..Len(s) : s[q] \in 0..n-1
  BY ElementOfSeq, LenProperties
<1>2. \A q, r \in 1..Len(s) : q < r => s[q] < s[r]
  BY DEF Sorted
<1>3. ASSUME NEW j \in 1..Len(s), ~(s[j] >= j - 1) PROVE FALSE
  <2> DEFINE T == {q \in 1..Len(s) : ~(s[q] >= q - 1)}
  <2>1. T \subseteq Nat /\ j \in T
    BY <1>1, <1>3
  <2>2. PICK x \in T : \A y \in T : x <= y
    BY <2>1, LeastNatural
  <2>3. x \in 1..Len(s) /\ ~(s[x] >= x - 1)
    BY <2>2
  <2>4. x > 1 /\ x - 1 \in 1..Len(s) /\ x - 1 < x
    BY <1>1, <2>3
  <2>5. x - 1 \notin T
    BY <2>2, <2>4
  <2>6. s[x - 1] >= (x - 1) - 1
    BY <2>4, <2>5
  <2>7. s[x - 1] < s[x]
    BY <1>2, <2>3, <2>4
  <2> QED
    BY <1>1, <2>3, <2>4, <2>6, <2>7
<1>4. ASSUME NEW j \in 1..Len(s), ~(s[j] <= n - 1 - (Len(s) - j)) PROVE FALSE
  <2> DEFINE T == {d \in 0..Len(s)-1 : ~(s[Len(s) - d] <= n - 1 - d)}
  <2>1. T \subseteq Nat /\ Len(s) - j \in T
    <3>1. Len(s) - j \in 0..Len(s)-1 /\ Len(s) - (Len(s) - j) = j
      BY <1>1
    <3> QED
      BY <1>1, <1>4, <3>1
  <2>2. PICK x \in T : \A y \in T : x <= y
    BY <2>1, LeastNatural
  <2>3. x \in 0..Len(s)-1 /\ ~(s[Len(s) - x] <= n - 1 - x)
    BY <2>2
  <2>4. Len(s) - x \in 1..Len(s)
    BY <1>1, <2>3
  <2>5. x > 0 /\ x - 1 \in 0..Len(s)-1 /\ Len(s) - (x - 1) \in 1..Len(s)
        /\ Len(s) - x < Len(s) - (x - 1) /\ x - 1 < x
    BY <1>1, <2>3, <2>4
  <2>6. x - 1 \notin T
    <3> HIDE DEF T
    <3>1. x \in Int /\ ~(x <= x - 1)
      BY <2>3
    <3> QED
      BY <2>2, <3>1
  <2>7. s[Len(s) - (x - 1)] <= n - 1 - (x - 1)
    BY <2>5, <2>6
  <2>8. s[Len(s) - x] < s[Len(s) - (x - 1)]
    BY <1>2, <2>4, <2>5
  <2>9. s[Len(s) - x] \in Int /\ s[Len(s) - (x - 1)] \in Int /\ x \in Int
    <3> HIDE DEF T
    <3>1. x \in Int /\ \A q \in 1..Len(s) : s[q] \in Int
      BY <1>1, <2>3
    <3> QED
      BY <2>4, <2>5, <3>1, Zenon
  <2>10. \A a, b \in Int : ~(a <= n - 1 - x) /\ b <= n - 1 - (x - 1) => ~(a < b)
    BY <2>9
  <2> QED
    BY <2>3, <2>7, <2>8, <2>9, <2>10, Zenon
<1> QED
  BY <1>3, <1>4

(* So a list never has more cells than the message has segments, and a list *)
(* of that many is the whole message, in order.                             *)
LEMMA FullListIsMessage ==
  ASSUME NEW n \in Nat, NEW s \in Seq(0..n-1), Sorted(s)
  PROVE  Len(s) <= n /\ (Len(s) = n => s = [j \in 1..n |-> j - 1])
<1>1. /\ Len(s) \in Nat /\ s \in [1..Len(s) -> 0..n-1]
      /\ \A q \in 1..Len(s) : s[q] \in 0..n-1
  BY ElementOfSeq, LenProperties
<1>2. \A j \in 1..Len(s) : s[j] >= j - 1 /\ s[j] <= n - 1 - (Len(s) - j)
  BY SortedBounds
<1>3. Len(s) <= n
  <2>1. CASE Len(s) = 0
    BY <2>1
  <2>2. CASE Len(s) \in 1..Len(s)
    BY <1>1, <1>2, <2>2
  <2> QED
    BY <1>1, <2>1, <2>2
<1>4. ASSUME Len(s) = n PROVE s = [j \in 1..n |-> j - 1]
  <2>1. ASSUME NEW j \in 1..n PROVE s[j] = j - 1
    BY <1>1, <1>2, <1>4
  <2> QED
    BY <1>1, <1>4, <2>1
<1> QED
  BY <1>3, <1>4

-----------------------------------------------------------------------------
Holds(s, x) == \E j \in 1..Len(s) : s[j] = x

(* A segment that is not a duplicate is not in the list: comparing the cell *)
(* the search stopped at is enough because the list is sorted.              *)
LEMMA NotHeld ==
  ASSUME NEW n \in Nat, NEW m, m.segs \in Seq(0..n-1), Sorted(m.segs), NEW i \in Nat,
         ~IsDuplicate(m, i)
  PROVE  ~Holds(m.segs, i)
<1>1. /\ Len(m.segs) \in Nat
      /\ \A q \in 1..Len(m.segs) : m.segs[q] \in 0..n-1
  BY ElementOfSeq, LenProperties
<1>2. PICK p \in 0..Len(m.segs) : p = Place(m.segs, i) /\ \A j \in 1..p : m.segs[j] < i
  BY PlaceProperties
<1>3. \A j \in p+1..Len(m.segs) : m.segs[j] > i
  BY <1>2, RestIsAbove
<1>4. \A j \in 1..Len(m.segs) : j \in 1..p \/ j \in p+1..Len(m.segs)
  BY <1>1
<1>5. ASSUME NEW j \in 1..Len(m.segs) PROVE m.segs[j] # i
  <2>1. m.segs[j] < i \/ m.segs[j] > i
    BY <1>2, <1>3, <1>4
  <2> QED
    BY <1>1, <2>1
<1> QED
  BY <1>5 DEF Holds

(* Linking i in adds i and loses nothing.                                   *)
LEMMA LinkedHolds ==
  ASSUME NEW n \in Nat, NEW s \in Seq(0..n-1), NEW i \in 0..n-1, NEW x
  PROVE  Holds(Linked(s, i), x) <=> x = i \/ Holds(s, x)
<1>1. Len(s) \in Nat /\ i \in Nat
  BY LenProperties
<1>2. PICK p \in 0..Len(s) : p = Place(s, i)
  BY <1>1, PlaceProperties
<1>3. PICK t : t = Spliced(s, i, p)
  OBVIOUS
<1>4. t = Linked(s, i)
  BY <1>2, <1>3 DEF Linked, Before, From, Spliced
<1>5. HasNewCell(t, s, i, p)
  BY <1>3, Splice
<1>6. /\ Len(t) = Len(s) + 1
      /\ \A j \in 1..p : t[j] = s[j]
      /\ t[p + 1] = i
      /\ \A j \in p+1..Len(s) : t[j + 1] = s[j]
  BY <1>5 DEF HasNewCell
<1>7. ASSUME NEW j \in 1..Len(t) PROVE t[j] = i \/ Holds(s, t[j])
  <2>1. CASE j \in 1..p
    <3>1. j \in 1..Len(s) /\ s[j] = t[j]
      BY <1>1, <1>6, <2>1
    <3> QED
      BY <3>1 DEF Holds
  <2>2. CASE j = p + 1
    BY <1>6, <2>2
  <2>3. CASE j > p + 1
    <3>1. j - 1 \in p+1..Len(s) /\ j - 1 \in 1..Len(s) /\ (j - 1) + 1 = j
      BY <1>1, <1>6, <2>3
    <3> QED
      BY <1>6, <3>1 DEF Holds
  <2> QED
    BY <1>1, <1>6, <2>1, <2>2, <2>3
<1>8. ASSUME NEW j \in 1..Len(s) PROVE Holds(t, s[j])
  <2>1. CASE j \in 1..p
    BY <1>1, <1>6, <2>1 DEF Holds
  <2>2. CASE j \in p+1..Len(s)
    <3>1. j + 1 \in 1..Len(t)
      BY <1>1, <1>6
    <3> QED
      BY <1>6, <2>2, <3>1 DEF Holds
  <2> QED
    BY <1>1, <2>1, <2>2
<1>9. Holds(t, i)
  <2>1. p + 1 \in 1..Len(t)
    BY <1>1, <1>6
  <2> QED
    BY <1>6, <2>1 DEF Holds
<1>10. Holds(t, x) => x = i \/ Holds(s, x)
  <2> SUFFICES ASSUME NEW j \in 1..Len(t), t[j] = x PROVE x = i \/ Holds(s, x)
    BY DEF Holds
  <2> QED
    BY <1>7
<1>11. Holds(s, x) => Holds(t, x)
  <2> SUFFICES ASSUME NEW j \in 1..Len(s), s[j] = x PROVE Holds(t, x)
    BY DEF Holds
  <2> QED
    BY <1>8
<1> QED
  BY <1>4, <1>9, <1>10, <1>11

-----------------------------------------------------------------------------
(***************************************************************************)
(* The invariant of one stored list, whichever mallocs failed.  timestamp  *)
(* counts from a moment after the list was created.                        *)
(***************************************************************************)
Lists(k) ==
  [segs : Seq(0..NbSegments[k]-1), total_size : {0, NbSegments[k]},
   current_size : Nat, total_payload_byte_size : Nat,
   options_head : BOOLEAN, options : Seq(Nat),
   to_clean_up : {0, 1}, timestamp : Unset..EXPIRE_MSG+1, since : 0..EXPIRE_MSG+1]

ListOK(k, m) == m \in Lists(k) /\ Sorted(m.segs) /\ m.timestamp <= m.since

(***************************************************************************)
(* What a list that met no failed malloc says besides: its counters count  *)
(* its cells, the total is known once the last segment is there, and the   *)
(* options are those of the segments it holds, each once.                  *)
(***************************************************************************)
CountersExact(k, m) ==
  /\ m.current_size = Len(m.segs)
  /\ m.total_payload_byte_size = ContentSize[k] * m.current_size

TotalKnown(k, m) == Holds(m.segs, NbSegments[k] - 1) => m.total_size = NbSegments[k]

Distinct(s) == \A p, q \in 1..Len(s) : s[p] = s[q] => p = q

OptionsExact(k, m) ==
  /\ Distinct(m.options)
  /\ \A x \in Nat : Holds(m.options, x) <=> x \in Tagged[k] /\ Holds(m.segs, x)

Whole(k, m) == CountersExact(k, m) /\ TotalKnown(k, m) /\ OptionsExact(k, m)

(* The parts of the invariant about the table b.                            *)
Listed(b) == \A k \in DOMAIN b : k \in Keys /\ ListOK(k, b[k])

StoredWhole(b) == \A k \in DOMAIN b : Whole(k, b[k]) /\ Len(b[k].segs) < NbSegments[k]

-----------------------------------------------------------------------------
(* A created list is empty and satisfies both.                              *)
LEMMA CreatedList ==
  ASSUME NEW k \in Keys
  PROVE  /\ ListOK(k, create_message_segment_list)
         /\ Whole(k, create_message_segment_list)
         /\ Len(create_message_segment_list.segs) = 0
<1> DEFINE m == create_message_segment_list
<1>1. m.segs = <<>> /\ m.options = <<>> /\ m.current_size = 0
      /\ m.total_payload_byte_size = 0 /\ m.timestamp = -1 /\ m.since = 0
  BY DEF create_message_segment_list, Unset
<1>2. <<>> \in Seq(0..NbSegments[k]-1) /\ <<>> \in Seq(Nat) /\ Len(<<>>) = 0
  BY EmptySeq
<1>3. Unset \in Unset..EXPIRE_MSG+1 /\ 0 \in 0..EXPIRE_MSG+1
  BY BufferAssumption DEF Unset
<1>4. m \in Lists(k)
  BY <1>2, <1>3 DEF create_message_segment_list, Lists
<1>5. ContentSize[k] * 0 = 0
  BY KeysAssumption
<1> HIDE DEF m
<1>6. ListOK(k, m)
  BY <1>1, <1>2, <1>4 DEF ListOK, Sorted
<1>7. Whole(k, m)
  BY <1>1, <1>2, <1>5 DEF Whole, CountersExact, TotalKnown, OptionsExact, Distinct, Holds
<1> QED
  BY <1>1, <1>2, <1>6, <1>7 DEF m

(* Learning the total changes nothing else.                                 *)
LEMMA LearnTotalKeeps ==
  ASSUME NEW k \in Keys, NEW i \in 0..NbSegments[k]-1, NEW m, m \in Lists(k), NEW t,
         t = LearnTotal(m, k, i)
  PROVE  /\ t \in Lists(k)
         /\ t = [m EXCEPT !.total_size = IF IsLast(k, i) THEN NbSegments[k] ELSE @]
<1>1. NbSegments[k] \in Nat \ {0}
  BY KeysAssumption
<1>2. CASE IsLast(k, i)
  <2>1. i + 1 = NbSegments[k]
    BY <1>1, <1>2 DEF IsLast
  <2> QED
    BY <1>2, <2>1 DEF LearnTotal, Lists
<1>3. CASE ~IsLast(k, i)
  BY <1>3 DEF LearnTotal, Lists
<1> QED
  BY <1>2, <1>3

(* Linking a segment in keeps the list sorted and typed, and changes        *)
(* neither its options nor its age.                                         *)
LEMMA LinkSegmentKeeps ==
  ASSUME NEW k \in Keys, NEW i \in 0..NbSegments[k]-1, NEW m, ListOK(k, m),
         ~IsDuplicate(m, i), NEW t, t = LinkSegment(m, k, i)
  PROVE  /\ ListOK(k, t)
         /\ t.segs = Linked(m.segs, i)
         /\ t.total_size = IF IsLast(k, i) THEN NbSegments[k] ELSE m.total_size
         /\ t.current_size = m.current_size + 1
         /\ t.total_payload_byte_size = m.total_payload_byte_size + ContentSize[k]
         /\ t.options = m.options /\ t.to_clean_up = m.to_clean_up
         /\ t.timestamp = m.timestamp /\ t.since = m.since
<1>1. NbSegments[k] \in Nat \ {0} /\ ContentSize[k] \in Nat
  BY KeysAssumption
<1>2. m \in Lists(k) /\ m.segs \in Seq(0..NbSegments[k]-1) /\ Sorted(m.segs)
      /\ m.current_size \in Nat /\ m.total_payload_byte_size \in Nat /\ m.timestamp <= m.since
  BY DEF ListOK, Lists
<1>3. PICK l : l = LearnTotal(m, k, i)
  OBVIOUS
<1>4. /\ l \in Lists(k)
      /\ l = [m EXCEPT !.total_size = IF IsLast(k, i) THEN NbSegments[k] ELSE @]
  BY <1>2, <1>3, LearnTotalKeeps
<1>5. t = [l EXCEPT !.segs = Linked(l.segs, i), !.current_size = l.current_size + 1,
                    !.total_payload_byte_size = l.total_payload_byte_size + ContentSize[k]]
  BY <1>3 DEF LinkSegment, Linked
<1>6. /\ l.segs = m.segs /\ l.current_size = m.current_size
      /\ l.total_payload_byte_size = m.total_payload_byte_size
      /\ l.options = m.options /\ l.to_clean_up = m.to_clean_up
      /\ l.timestamp = m.timestamp /\ l.since = m.since
      /\ l.total_size = IF IsLast(k, i) THEN NbSegments[k] ELSE m.total_size
  BY <1>2, <1>4 DEF Lists
<1>7. Linked(m.segs, i) \in Seq(0..NbSegments[k]-1) /\ Sorted(Linked(m.segs, i))
  BY <1>1, <1>2, LinkedSorted
<1>8. m.current_size + 1 \in Nat /\ m.total_payload_byte_size + ContentSize[k] \in Nat
  BY <1>1, <1>2
<1>9. t \in Lists(k)
  BY <1>4, <1>5, <1>6, <1>7, <1>8 DEF Lists
<1>10. /\ t.segs = Linked(m.segs, i)
       /\ t.total_size = l.total_size
       /\ t.current_size = m.current_size + 1
       /\ t.total_payload_byte_size = m.total_payload_byte_size + ContentSize[k]
       /\ t.options = m.options /\ t.to_clean_up = m.to_clean_up
       /\ t.timestamp = m.timestamp /\ t.since = m.since
  BY <1>4, <1>5, <1>6 DEF Lists
<1> QED
  BY <1>2, <1>6, <1>7, <1>9, <1>10 DEF ListOK

(* A failed malloc may cost the list its tail, never its order.             *)
LEMMA LoseRestKeeps ==
  ASSUME NEW k \in Keys, NEW i \in 0..NbSegments[k]-1, NEW m, ListOK(k, m)
  PROVE  ListOK(k, LoseRest(m, k, i))
<1>1. NbSegments[k] \in Nat \ {0}
  BY KeysAssumption
<1>2. m \in Lists(k) /\ m.segs \in Seq(0..NbSegments[k]-1) /\ Sorted(m.segs)
      /\ m.timestamp <= m.since
  BY DEF ListOK, Lists
<1>3. PICK l : l = LearnTotal(m, k, i)
  OBVIOUS
<1>4. /\ l \in Lists(k)
      /\ l = [m EXCEPT !.total_size = IF IsLast(k, i) THEN NbSegments[k] ELSE @]
  BY <1>2, <1>3, LearnTotalKeeps
<1>5. l.segs = m.segs /\ l.timestamp = m.timestamp /\ l.since = m.since
  BY <1>2, <1>4 DEF Lists
<1>6. PICK t : t = [l EXCEPT !.segs = Before(l.segs, i)]
  OBVIOUS
<1>7. t = LoseRest(m, k, i)
  BY <1>3, <1>6 DEF LoseRest
<1>8. Before(m.segs, i) \in Seq(0..NbSegments[k]-1) /\ Sorted(Before(m.segs, i))
  BY <1>1, <1>2, BeforeSorted
<1>9. t \in Lists(k) /\ t.segs = Before(m.segs, i) /\ t.timestamp = m.timestamp
      /\ t.since = m.since
  BY <1>4, <1>5, <1>6, <1>8 DEF Lists
<1> QED
  BY <1>2, <1>7, <1>8, <1>9 DEF ListOK

(* A duplicate only makes the total known.                                  *)
LEMMA DuplicateKeeps ==
  ASSUME NEW k \in Keys, NEW i \in 0..NbSegments[k]-1, NEW m, ListOK(k, m), NEW t,
         t = LearnTotal(m, k, i)
  PROVE  /\ ListOK(k, t) /\ t.segs = m.segs
         /\ t.to_clean_up = m.to_clean_up /\ t.timestamp = m.timestamp /\ t.since = m.since
         /\ t.current_size = m.current_size
         /\ t.total_size \in {0, NbSegments[k]}
         /\ Whole(k, m) => Whole(k, t)
<1>1. m \in Lists(k) /\ Sorted(m.segs) /\ m.timestamp <= m.since
  BY DEF ListOK
<1>2. /\ t \in Lists(k)
      /\ t = [m EXCEPT !.total_size = IF IsLast(k, i) THEN NbSegments[k] ELSE @]
  BY <1>1, LearnTotalKeeps
<1>3. /\ t.segs = m.segs /\ t.current_size = m.current_size
      /\ t.total_payload_byte_size = m.total_payload_byte_size /\ t.options = m.options
      /\ t.to_clean_up = m.to_clean_up /\ t.timestamp = m.timestamp /\ t.since = m.since
      /\ t.total_size = IF IsLast(k, i) THEN NbSegments[k] ELSE m.total_size
  BY <1>1, <1>2 DEF Lists
<1>4. t.total_size \in {0, NbSegments[k]}
  BY <1>2 DEF Lists
<1>5. Whole(k, m) => Whole(k, t)
  BY <1>3 DEF Whole, CountersExact, TotalKnown, OptionsExact
<1> QED
  BY <1>1, <1>2, <1>3, <1>4, <1>5 DEF ListOK

(* insert_into_msl on a segment that is not a duplicate.                    *)
LEMMA InsertKeeps ==
  ASSUME NEW k \in Keys, NEW i \in 0..NbSegments[k]-1, NEW m, ListOK(k, m),
         ~IsDuplicate(m, i), NEW t, t = insert_into_msl(m, k, i)
  PROVE  /\ ListOK(k, t)
         /\ t.segs = Linked(m.segs, i)
         /\ t.total_size = IF IsLast(k, i) THEN NbSegments[k] ELSE m.total_size
         /\ t.current_size = m.current_size + 1
         /\ t.total_payload_byte_size = m.total_payload_byte_size + ContentSize[k]
         /\ t.options = IF i \in Tagged[k] THEN Append(m.options, i) ELSE m.options
         /\ t.to_clean_up = m.to_clean_up
         /\ t.timestamp = m.timestamp /\ t.since = m.since
<1>1. PICK l : l = LinkSegment(m, k, i)
  OBVIOUS
<1>2. /\ ListOK(k, l)
      /\ l.segs = Linked(m.segs, i)
      /\ l.total_size = IF IsLast(k, i) THEN NbSegments[k] ELSE m.total_size
      /\ l.current_size = m.current_size + 1
      /\ l.total_payload_byte_size = m.total_payload_byte_size + ContentSize[k]
      /\ l.options = m.options /\ l.to_clean_up = m.to_clean_up
      /\ l.timestamp = m.timestamp /\ l.since = m.since
  BY <1>1, LinkSegmentKeeps
<1>3. t = [l EXCEPT !.options_head = TRUE,
                    !.options = IF i \in Tagged[k] THEN Append(l.options, i) ELSE l.options]
  BY <1>1 DEF insert_into_msl, append_options
<1>4. l \in Lists(k) /\ l.options \in Seq(Nat) /\ i \in Nat
  BY <1>2 DEF ListOK, Lists
<1>5. Append(l.options, i) \in Seq(Nat)
  BY <1>4, AppendProperties
<1>6. t \in Lists(k)
  BY <1>3, <1>4, <1>5 DEF Lists
<1>7. /\ t.segs = l.segs /\ t.current_size = l.current_size /\ t.total_size = l.total_size
      /\ t.total_payload_byte_size = l.total_payload_byte_size
      /\ t.options = IF i \in Tagged[k] THEN Append(l.options, i) ELSE l.options
      /\ t.to_clean_up = l.to_clean_up /\ t.timestamp = l.timestamp /\ t.since = l.since
  BY <1>3, <1>4 DEF Lists
<1> QED
  BY <1>2, <1>6, <1>7 DEF ListOK

(* The options stay those of the segments, each once.                       *)
LEMMA AppendDistinct ==
  ASSUME NEW s \in Seq(Nat), NEW i \in Nat, Distinct(s), ~Holds(s, i)
  PROVE  /\ Distinct(Append(s, i))
         /\ \A x \in Nat : Holds(Append(s, i), x) <=> x = i \/ Holds(s, x)
<1>1. Len(s) \in Nat
  BY LenProperties
<1>2. PICK t : t = Append(s, i)
  OBVIOUS
<1>3. /\ Len(t) = Len(s) + 1 /\ t[Len(s) + 1] = i
      /\ \A j \in 1..Len(s) : t[j] = s[j]
  <2>1. /\ Len(t) = Len(s) + 1
        /\ \A j \in 1..Len(s) + 1 : t[j] = IF j <= Len(s) THEN s[j] ELSE i
    BY <1>2, AppendProperties
  <2> QED
    BY <1>1, <2>1
<1>4. \A j \in 1..Len(t) : j \in 1..Len(s) \/ j = Len(s) + 1
  BY <1>1, <1>3
<1>5. \A j \in 1..Len(s) : j \in 1..Len(t) /\ j # Len(s) + 1
  BY <1>1, <1>3
<1>6. Len(s) + 1 \in 1..Len(t)
  BY <1>1, <1>3
<1>7. \A x \in Nat : Holds(t, x) <=> x = i \/ Holds(s, x)
  BY <1>3, <1>4, <1>5, <1>6, Zenon DEF Holds
<1>8. Distinct(t)
  BY <1>3, <1>4, <1>5, <1>6, Zenon DEF Holds, Distinct
<1> QED
  BY <1>2, <1>7, <1>8

(* One segment more is one segment's bytes more.                            *)
LEMMA OneMore == \A a, b \in Nat : a * (b + 1) = a * b + a
OBVIOUS

(* Inserting a segment keeps the list whole.                                *)
LEMMA InsertWhole ==
  ASSUME NEW k \in Keys, NEW i \in 0..NbSegments[k]-1, NEW m, ListOK(k, m), Whole(k, m),
         ~IsDuplicate(m, i), NEW t, t = insert_into_msl(m, k, i)
  PROVE  Whole(k, t) /\ Len(t.segs) = Len(m.segs) + 1
<1>1. NbSegments[k] \in Nat \ {0} /\ ContentSize[k] \in Nat /\ i \in Nat
      /\ Tagged[k] \subseteq Nat
  BY KeysAssumption
<1>2. /\ t.segs = Linked(m.segs, i)
      /\ t.total_size = IF IsLast(k, i) THEN NbSegments[k] ELSE m.total_size
      /\ t.current_size = m.current_size + 1
      /\ t.total_payload_byte_size = m.total_payload_byte_size + ContentSize[k]
      /\ t.options = IF i \in Tagged[k] THEN Append(m.options, i) ELSE m.options
  BY InsertKeeps
<1>3. m.segs \in Seq(0..NbSegments[k]-1) /\ Sorted(m.segs) /\ m.options \in Seq(Nat)
      /\ m.current_size \in Nat
  BY DEF ListOK, Lists
<1>4. Len(t.segs) = Len(m.segs) + 1
  BY <1>1, <1>2, <1>3, LinkedSorted
<1>5. CountersExact(k, t)
  <2>1. ContentSize[k] * (m.current_size + 1) = ContentSize[k] * m.current_size + ContentSize[k]
    BY <1>1, <1>3, OneMore, Zenon
  <2>2. m.current_size = Len(m.segs)
        /\ m.total_payload_byte_size = ContentSize[k] * m.current_size
    BY DEF Whole, CountersExact
  <2>3. t.total_payload_byte_size = ContentSize[k] * t.current_size
    BY <1>2, <2>1, <2>2, Zenon
  <2>4. t.current_size = Len(t.segs)
    BY <1>2, <1>4, <2>2, Zenon
  <2> QED
    BY <2>3, <2>4 DEF CountersExact
<1>6. ASSUME NEW x PROVE Holds(t.segs, x) <=> x = i \/ Holds(m.segs, x)
  <2>1. PICK n \in Nat : n = NbSegments[k]
    BY <1>1
  <2>2. PICK s \in Seq(0..n-1) : s = m.segs
    BY <1>3, <2>1
  <2>3. i \in 0..n-1
    BY <2>1
  <2>4. Holds(Linked(s, i), x) <=> x = i \/ Holds(s, x)
    BY <2>3, LinkedHolds, Zenon
  <2> QED
    BY <1>2, <2>2, <2>4
<1>7. TotalKnown(k, t)
  <2>1. Holds(m.segs, NbSegments[k] - 1) => m.total_size = NbSegments[k]
    BY DEF Whole, TotalKnown
  <2>2. Holds(t.segs, NbSegments[k] - 1) => t.total_size = NbSegments[k]
    BY <1>2, <1>6, <2>1, Zenon DEF IsLast
  <2> QED
    BY <2>2 DEF TotalKnown
<1>8. OptionsExact(k, t)
  <2>1. Distinct(m.options)
        /\ \A x \in Nat : Holds(m.options, x) <=> x \in Tagged[k] /\ Holds(m.segs, x)
    BY DEF Whole, OptionsExact
  <2>2. CASE i \in Tagged[k]
    <3>1. ~Holds(m.options, i)
      BY <1>1, <1>3, <2>1, NotHeld
    <3>2. /\ Distinct(t.options)
          /\ \A x \in Nat : Holds(t.options, x) <=> x = i \/ Holds(m.options, x)
      BY <1>1, <1>2, <1>3, <2>1, <2>2, <3>1, AppendDistinct
    <3> QED
      BY <1>6, <2>1, <2>2, <3>2 DEF OptionsExact
  <2>3. CASE i \notin Tagged[k]
    BY <1>2, <1>6, <2>1, <2>3 DEF OptionsExact
  <2> QED
    BY <2>2, <2>3
<1> QED
  BY <1>4, <1>5, <1>7, <1>8 DEF Whole

-----------------------------------------------------------------------------
(***************************************************************************)
(* The inductive invariants.  FaultInv holds whichever mallocs fail;       *)
(* WholeInv, of a worker whose mallocs succeed, adds that every list is    *)
(* whole and incomplete.                                                   *)
(***************************************************************************)
Assembled ==
  [key : Keys, payload : Seq(Nat), options : Seq(Nat),
   header_length : Nat, message_length : Nat]

WorkerTypes ==
  /\ headless \subseteq Keys
  /\ cleanup \in {0, 1} /\ cleanup_start_index \in 0..IndexModulus-1
  /\ output \in Seq(Assembled) /\ Len(output) <= Capacity
  /\ report \in {"none", "received", "dropped"}
  /\ failures \in 0..FailingMallocs
  /\ max_malloc_errs \in 0..3 /\ (parser = "running" => max_malloc_errs > 0)
  /\ parser \in {"running", "stopped", "crashed"}

FaultInv == Listed(buf) /\ WorkerTypes

WholeInv == failures = 0 /\ StoredWhole(buf)

-----------------------------------------------------------------------------
(* A list of segment numbers is a list of naturals.                         *)
LEMMA SegmentsAreNaturals ==
  ASSUME NEW n \in Nat, NEW s \in Seq(0..n-1)
  PROVE  s \in Seq(Nat)
BY LenProperties

(* create_assembled_msg gives a message of the right type.                  *)
LEMMA AssembledType ==
  ASSUME NEW k \in Keys, NEW m, ListOK(k, m)
  PROVE  create_assembled_msg(m, k) \in Assembled
<1>1. NbSegments[k] \in Nat /\ OptionBytes \in Nat
  BY KeysAssumption
<1>2. m.segs \in Seq(0..NbSegments[k]-1) /\ m.options \in Seq(Nat)
      /\ m.total_payload_byte_size \in Nat
  BY DEF ListOK, Lists
<1>3. m.segs \in Seq(Nat)
  BY <1>1, <1>2, SegmentsAreNaturals
<1>4. Len(m.options) \in Nat
  BY <1>2, LenProperties
<1>5. OptionBytes * Len(m.options) \in Nat
  BY <1>1, <1>4
<1>6. \A o, b \in Nat :
        /\ (HEADER_BYTES + o) % UINT8_VALUES \in Nat
        /\ (HEADER_BYTES + o + (b % UINT16_VALUES)) % UINT16_VALUES \in Nat
  BY DEF HEADER_BYTES, UINT8_VALUES, UINT16_VALUES
<1>7. PICK h \in Nat : h = (HEADER_BYTES + OptionBytes * Len(m.options)) % UINT8_VALUES
  BY <1>5, <1>6
<1>8. PICK l \in Nat :
        l = (HEADER_BYTES + OptionBytes * Len(m.options)
              + (m.total_payload_byte_size % UINT16_VALUES)) % UINT16_VALUES
  BY <1>2, <1>5, <1>6
<1>9. create_assembled_msg(m, k) =
        [key |-> k, payload |-> m.segs, options |-> m.options,
         header_length |-> h, message_length |-> l]
  BY <1>7, <1>8 DEF create_assembled_msg
<1> QED
  BY <1>2, <1>3, <1>9 DEF Assembled

(* A clean-up pass or a second that passes leaves a list well formed.       *)
LEMMA VisitKeeps ==
  ASSUME NEW k \in Keys, NEW m, ListOK(k, m)
  PROVE  ListOK(k, Visit(m)) /\ Visit(m).segs = m.segs /\ (Whole(k, m) => Whole(k, Visit(m)))
<1>1. m \in Lists(k) /\ Sorted(m.segs) /\ m.timestamp <= m.since
      /\ m.since \in 0..EXPIRE_MSG+1 /\ m.timestamp \in Unset..EXPIRE_MSG+1
      /\ m.to_clean_up \in {0, 1}
  BY DEF ListOK, Lists
<1>2. PICK t : t = Visit(m)
  OBVIOUS
<1>3. t = IF m.to_clean_up = 0 THEN [m EXCEPT !.to_clean_up = 1]
          ELSE [m EXCEPT !.timestamp = IF m.timestamp = Unset THEN 0 ELSE m.timestamp]
  BY <1>2 DEF Visit
<1>4. /\ t.segs = m.segs /\ t.current_size = m.current_size /\ t.total_size = m.total_size
      /\ t.total_payload_byte_size = m.total_payload_byte_size /\ t.options = m.options
      /\ t.since = m.since
      /\ t.timestamp \in {m.timestamp, 0}
  BY <1>1, <1>3 DEF Lists
<1>5. 0 \in Unset..EXPIRE_MSG+1
  BY BufferAssumption DEF Unset
<1>6. t \in Lists(k)
  BY <1>1, <1>3, <1>5 DEF Lists
<1>7. t.timestamp <= t.since
  BY <1>1, <1>4
<1>8. Whole(k, m) => Whole(k, t)
  BY <1>4 DEF Whole, CountersExact, TotalKnown, OptionsExact
<1> QED
  BY <1>1, <1>2, <1>4, <1>6, <1>7, <1>8 DEF ListOK

Aged(m) == [m EXCEPT !.timestamp = IF @ = Unset THEN @ ELSE Elapse(@), !.since = Elapse(@)]

(* Time never makes the stamp of a list older than the list.                *)
LEMMA AgedKeeps ==
  ASSUME NEW k \in Keys, NEW m, ListOK(k, m)
  PROVE  ListOK(k, Aged(m)) /\ Aged(m).segs = m.segs /\ (Whole(k, m) => Whole(k, Aged(m)))
<1>1. m \in Lists(k) /\ Sorted(m.segs) /\ m.timestamp <= m.since
      /\ m.since \in 0..EXPIRE_MSG+1 /\ m.timestamp \in Unset..EXPIRE_MSG+1
  BY DEF ListOK, Lists
<1>2. PICK s \in 0..EXPIRE_MSG+1 : s = Elapse(m.since) /\ m.since <= s
  BY <1>1, BufferAssumption DEF Elapse
<1>3. PICK u \in Unset..EXPIRE_MSG+1 :
        u = (IF m.timestamp = Unset THEN m.timestamp ELSE Elapse(m.timestamp)) /\ u <= s
  BY <1>1, <1>2, BufferAssumption DEF Elapse, Unset
<1>4. PICK t : t = [m EXCEPT !.timestamp = u, !.since = s]
  OBVIOUS
<1>5. t = Aged(m)
  BY <1>2, <1>3, <1>4 DEF Aged
<1>6. /\ t.segs = m.segs /\ t.current_size = m.current_size /\ t.total_size = m.total_size
      /\ t.total_payload_byte_size = m.total_payload_byte_size /\ t.options = m.options
      /\ t.since = s /\ t.timestamp = u
  BY <1>1, <1>4 DEF Lists
<1>7. t \in Lists(k)
  BY <1>1, <1>4 DEF Lists
<1>8. Whole(k, m) => Whole(k, t)
  BY <1>6 DEF Whole, CountersExact, TotalKnown, OptionsExact
<1> QED
  BY <1>1, <1>3, <1>5, <1>6, <1>7, <1>8 DEF ListOK

-----------------------------------------------------------------------------
(* The list a segment goes to, found or new.                                *)
LEMMA ListListed ==
  ASSUME Listed(buf), NEW k \in Keys
  PROVE  ListOK(k, List(k)) /\ (StoredWhole(buf) => Whole(k, List(k)))
                            /\ (StoredWhole(buf) => Len(List(k).segs) < NbSegments[k])
<1>1. NbSegments[k] \in Nat \ {0}
  BY KeysAssumption
<1>2. CASE Stored(k)
  BY <1>2 DEF Listed, StoredWhole, List, Stored
<1>3. CASE ~Stored(k)
  <2>1. List(k) = create_message_segment_list
    BY <1>3 DEF List
  <2> QED
    BY <1>1, <2>1, CreatedList
<1> QED
  BY <1>2, <1>3

(* Storing a well-formed list keeps the table so.                           *)
LEMMA WithListed ==
  ASSUME Listed(buf), NEW k \in Keys, NEW m, ListOK(k, m)
  PROVE  /\ Listed(With(k, m))
         /\ StoredWhole(buf) /\ Whole(k, m) /\ Len(m.segs) < NbSegments[k]
              => StoredWhole(With(k, m))
<1>1. /\ DOMAIN With(k, m) = DOMAIN buf \cup {k}
      /\ \A j \in DOMAIN With(k, m) : With(k, m)[j] = IF j = k THEN m ELSE buf[j]
  BY DEF With
<1> QED
  BY <1>1 DEF Listed, StoredWhole

(* Clearing a list leaves the others as they were.                          *)
LEMMA WithoutListed ==
  ASSUME Listed(buf), NEW k
  PROVE  Listed(Without(k)) /\ (StoredWhole(buf) => StoredWhole(Without(k)))
BY DEF Listed, StoredWhole, Without

(* So does a clean-up pass.                                                 *)
LEMMA SweptListed ==
  ASSUME NEW b, Listed(b), NEW s
  PROVE  Listed(Swept(b, s)) /\ (StoredWhole(b) => StoredWhole(Swept(b, s)))
<1>1. ASSUME NEW k \in DOMAIN Swept(b, s)
      PROVE  /\ k \in DOMAIN b
             /\ Swept(b, s)[k] = IF InPass(hashKey[k], s) THEN Visit(b[k]) ELSE b[k]
  BY DEF Swept
<1>2. ASSUME NEW k \in DOMAIN b
      PROVE  /\ k \in Keys /\ ListOK(k, b[k]) /\ ListOK(k, Visit(b[k]))
             /\ Visit(b[k]).segs = b[k].segs /\ (Whole(k, b[k]) => Whole(k, Visit(b[k])))
  BY VisitKeeps DEF Listed
<1>3. Listed(Swept(b, s))
  BY <1>1, <1>2 DEF Listed
<1>4. StoredWhole(b) => StoredWhole(Swept(b, s))
  BY <1>1, <1>2 DEF StoredWhole
<1> QED
  BY <1>3, <1>4

(* The end of an iteration, with or without a pass.                         *)
LEMMA EndIterationListed ==
  ASSUME cleanup \in {0, 1}, cleanup_start_index \in 0..IndexModulus-1, parser = "running",
         NEW b, NEW n, Listed(b), EndIteration(b, n)
  PROVE  /\ Listed(buf)' /\ (StoredWhole(b) => StoredWhole(buf)')
         /\ cleanup' \in {0, 1} /\ cleanup_start_index' \in 0..IndexModulus-1
         /\ parser' \in {"running", "crashed"}
<1>1. CASE buf' = b /\ UNCHANGED <<sweep, parser>>
  BY <1>1 DEF sweep, Listed, StoredWhole
<1>2. CASE cleanup_seg_buff(b, n)
  <2>1. buf' = Swept(b, cleanup_start_index) /\ cleanup' = 0
        /\ cleanup_start_index' = NextStart(cleanup_start_index)
        /\ parser' \in {"running", "crashed"}
    BY <1>2 DEF cleanup_seg_buff
  <2>2. Listed(buf')
    BY <2>1, SweptListed
  <2>3. StoredWhole(b) => StoredWhole(buf')
    BY <2>1, SweptListed
  <2> QED
    BY <2>1, <2>2, <2>3, NextStartIsByte DEF Listed, StoredWhole
<1> QED
  BY <1>1, <1>2 DEF EndIteration

(* Writing a message to the output queue.                                   *)
LEMMA WriteOutputTypes ==
  ASSUME output \in Seq(Assembled), Len(output) <= Capacity, NEW x \in Assembled,
         WriteOutput(x)
  PROVE  /\ output' \in Seq(Assembled) /\ Len(output') <= Capacity
         /\ report' \in {"received", "dropped"}
<1>1. Append(output, x) \in Seq(Assembled) /\ Len(Append(output, x)) = Len(output) + 1
  BY AppendProperties
<1>2. Len(output) \in Nat /\ Capacity \in Nat
  BY WorkerAssumption, LenProperties
<1> QED
  BY <1>1, <1>2 DEF WriteOutput

(* An iteration that ends with a malloc error.                              *)
LEMMA MallocErrorListed ==
  ASSUME FaultInv, parser = "running", headless' \subseteq Keys,
         NEW b, NEW n, Listed(b), MallocError(b, n)
  PROVE  FaultInv'
<1>1. /\ failures > 0 /\ failures' = failures - 1
      /\ max_malloc_errs' = max_malloc_errs - 1
      /\ output' = output /\ report' = "none"
  BY DEF MallocError, NoOutput
<1>2. /\ failures \in 0..FailingMallocs /\ max_malloc_errs \in 1..3
      /\ cleanup \in {0, 1} /\ cleanup_start_index \in 0..IndexModulus-1
      /\ output \in Seq(Assembled) /\ Len(output) <= Capacity
  BY DEF FaultInv, WorkerTypes
<1>3. failures' \in 0..FailingMallocs /\ max_malloc_errs' \in 0..3
  BY <1>1, <1>2, WorkerAssumption
<1>4. CASE max_malloc_errs <= 1
  <2>1. buf' = b /\ parser' = "stopped" /\ UNCHANGED sweep
    BY <1>4 DEF MallocError
  <2> QED
    BY <1>1, <1>2, <1>3, <2>1 DEF FaultInv, WorkerTypes, Listed, sweep
<1>5. CASE ~(max_malloc_errs <= 1)
  <2>1. EndIteration(b, n)
    BY <1>5 DEF MallocError
  <2>2. /\ Listed(buf)'
        /\ cleanup' \in {0, 1} /\ cleanup_start_index' \in 0..IndexModulus-1
        /\ parser' \in {"running", "crashed"}
    BY <1>2, <2>1, EndIterationListed
  <2>3. max_malloc_errs' > 0
    BY <1>1, <1>2, <1>5
  <2> QED
    BY <1>1, <1>2, <1>3, <2>2, <2>3 DEF FaultInv, WorkerTypes
<1> QED
  BY <1>4, <1>5

(* Any other iteration on a segment.                                        *)
LEMMA IterationListed ==
  ASSUME FaultInv, parser = "running", headless' = headless,
         failures' \in 0..FailingMallocs, max_malloc_errs' = max_malloc_errs,
         output' \in Seq(Assembled), Len(output') <= Capacity,
         report' \in {"none", "received", "dropped"},
         NEW b, NEW n, Listed(b), EndIteration(b, n)
  PROVE  FaultInv'
<1>1. /\ max_malloc_errs \in 0..3 /\ max_malloc_errs > 0 /\ headless \subseteq Keys
      /\ cleanup \in {0, 1} /\ cleanup_start_index \in 0..IndexModulus-1
  BY DEF FaultInv, WorkerTypes
<1>2. /\ Listed(buf)'
      /\ cleanup' \in {0, 1} /\ cleanup_start_index' \in 0..IndexModulus-1
      /\ parser' \in {"running", "crashed"}
  BY <1>1, EndIterationListed
<1> QED
  BY <1>1, <1>2 DEF FaultInv, WorkerTypes

(* The worker starts with an empty buffer and an empty output queue.        *)
LEMMA InitFault == Init => FaultInv
<1> SUFFICES ASSUME Init PROVE FaultInv
  OBVIOUS
<1>1. output \in Seq(Assembled) /\ Len(output) = 0
  BY EmptySeq DEF Init
<1> QED
  BY <1>1, BufferAssumption, WorkerAssumption DEF Init, FaultInv, WorkerTypes, Listed

(* FaultInv is inductive: one case per action of the worker, its clean-up   *)
(* thread, the clock and the consumer.                                      *)
LEMMA NextFault == FaultInv /\ [Next]_vars => FaultInv'
<1> SUFFICES ASSUME FaultInv, [Next]_vars PROVE FaultInv'
  OBVIOUS
<1>0. /\ Listed(buf) /\ headless \subseteq Keys
      /\ cleanup \in {0, 1} /\ cleanup_start_index \in 0..IndexModulus-1
      /\ output \in Seq(Assembled) /\ Len(output) <= Capacity
      /\ failures \in 0..FailingMallocs
      /\ max_malloc_errs \in 0..3 /\ (parser = "running" => max_malloc_errs > 0)
      /\ parser \in {"running", "stopped", "crashed"}
  BY DEF FaultInv, WorkerTypes
<1>1. ASSUME NEW k \in Keys, NEW i \in 0..NbSegments[k]-1, StoreSegment(k, i) PROVE FaultInv'
  <2>1. ListOK(k, List(k)) /\ ~IsDuplicate(List(k), i)
    BY <1>0, <1>1, ListListed DEF StoreSegment
  <2>2. Listed(With(k, insert_into_msl(List(k), k, i)))
    BY <1>0, <2>1, InsertKeeps, WithListed
  <2> QED
    BY <1>0, <1>1, <2>2, IterationListed DEF StoreSegment, Receives, NoOutput, memory
<1>2. ASSUME NEW k \in Keys, NEW i \in 0..NbSegments[k]-1, IgnoreDuplicate(k, i)
      PROVE  FaultInv'
  <2>1. ListOK(k, List(k))
    BY <1>0, ListListed
  <2>2. Listed(With(k, LearnTotal(List(k), k, i)))
    BY <1>0, <2>1, DuplicateKeeps, WithListed
  <2> QED
    BY <1>0, <1>2, <2>2
       DEF IgnoreDuplicate, NoOutput, sweep, memory, FaultInv, WorkerTypes, Listed
<1>3. ASSUME NEW k \in Keys, NEW i \in 0..NbSegments[k]-1, CompleteMessage(k, i)
      PROVE  FaultInv'
  <2>1. ListOK(k, List(k)) /\ ~IsDuplicate(List(k), i)
    BY <1>0, <1>3, ListListed DEF CompleteMessage
  <2>2. create_assembled_msg(insert_into_msl(List(k), k, i), k) \in Assembled
    BY <2>1, InsertKeeps, AssembledType
  <2>3. WriteOutput(create_assembled_msg(insert_into_msl(List(k), k, i), k))
    BY <1>3 DEF CompleteMessage
  <2>4. /\ output' \in Seq(Assembled) /\ Len(output') <= Capacity
        /\ report' \in {"received", "dropped"}
    BY <1>0, <2>2, <2>3, WriteOutputTypes
  <2>5. Listed(Without(k))
    BY <1>0, WithoutListed
  <2> QED
    BY <1>0, <1>3, <2>4, <2>5, IterationListed DEF CompleteMessage, Receives, memory
<1>4. ASSUME NEW k \in Keys, NEW i, NoCell(k, i) \/ NoList(k, i) PROVE FaultInv'
  BY <1>0, <1>4, MallocErrorListed DEF NoCell, NoList, Receives
<1>5. ASSUME NEW k \in Keys, NEW i \in 0..NbSegments[k]-1, NoSegmentCell(k, i)
      PROVE  FaultInv'
  <2>1. Listed(With(k, LoseRest(List(k), k, i)))
    BY <1>0, ListListed, LoseRestKeeps, WithListed
  <2> QED
    BY <1>0, <1>5, <2>1, MallocErrorListed DEF NoSegmentCell, Receives
<1>6. ASSUME NEW k \in Keys, NEW i \in 0..NbSegments[k]-1, NoOptions(k, i) PROVE FaultInv'
  <2>1. ListOK(k, List(k)) /\ ~IsDuplicate(List(k), i)
    BY <1>0, <1>6, ListListed DEF NoOptions
  <2>2. Listed(With(k, LinkSegment(List(k), k, i)))
    BY <1>0, <2>1, LinkSegmentKeeps, WithListed
  <2>3. failures' \in 0..FailingMallocs
    BY <1>0, <1>6, WorkerAssumption DEF NoOptions
  <2> QED
    BY <1>0, <1>6, <2>2, <2>3, IterationListed DEF NoOptions, Receives, NoOutput
<1>7. ASSUME NEW k \in Keys, NEW i, NoAssembly(k, i) \/ NoAssemblyAgain(k, i)
      PROVE  FaultInv'
  <2>1. Listed(Without(k))
    BY <1>0, WithoutListed
  <2>2. failures' \in 0..FailingMallocs
    BY <1>0, <1>7, WorkerAssumption DEF NoAssembly, NoAssemblyAgain
  <2> QED
    BY <1>0, <1>7, <2>1, <2>2, IterationListed
       DEF NoAssembly, NoAssemblyAgain, Receives, NoOutput
<1>8. ASSUME NEW k \in Keys, NEW i \in 0..NbSegments[k]-1, CompleteAgain(k, i)
      PROVE  FaultInv'
  <2>1. PICK m : m = LearnTotal(List(k), k, i)
    OBVIOUS
  <2>2. ListOK(k, m)
    BY <1>0, <2>1, ListListed, DuplicateKeeps
  <2>3. CASE m.options_head
    <3>1. create_assembled_msg(m, k) \in Assembled
      BY <2>2, AssembledType
    <3>2. WriteOutput(create_assembled_msg(m, k))
      BY <1>8, <2>1, <2>3 DEF CompleteAgain
    <3>3. /\ output' \in Seq(Assembled) /\ Len(output') <= Capacity
          /\ report' \in {"received", "dropped"}
      BY <1>0, <3>1, <3>2, WriteOutputTypes
    <3>4. Listed(Without(k)) /\ EndIteration(Without(k), count - 1)
      BY <1>0, <1>8, <2>1, <2>3, WithoutListed DEF CompleteAgain
    <3> QED
      BY <1>0, <1>8, <3>3, <3>4, IterationListed DEF CompleteAgain, Receives, memory
  <2>4. CASE ~m.options_head
    BY <1>0, <1>8, <2>1, <2>4
       DEF CompleteAgain, NoOutput, sweep, memory, FaultInv, WorkerTypes, Listed
  <2> QED
    BY <2>3, <2>4
<1>9. ASSUME NEW k \in Keys, parse_unsegmented(k) PROVE FaultInv'
  <2>1. PICK m : m = insert_into_msl(create_message_segment_list, k, 0)
    OBVIOUS
  <2>2. 0 \in 0..NbSegments[k]-1 /\ ~IsDuplicate(create_message_segment_list, 0)
    <3>1. create_message_segment_list.segs = <<>>
      BY DEF create_message_segment_list
    <3>2. Place(<<>>, 0) \in 0..0
      BY EmptySeq, PlaceProperties
    <3> QED
      BY <1>9, <3>1, <3>2, KeysAssumption DEF IsDuplicate, parse_unsegmented
  <2>3. ListOK(k, m)
    BY <2>1, <2>2, CreatedList, InsertKeeps
  <2>4. create_assembled_msg(m, k) \in Assembled
    BY <2>3, AssembledType
  <2>5. WriteOutput(create_assembled_msg(m, k))
    BY <1>9, <2>1 DEF parse_unsegmented
  <2>6. /\ output' \in Seq(Assembled) /\ Len(output') <= Capacity
        /\ report' \in {"received", "dropped"}
    BY <1>0, <2>4, <2>5, WriteOutputTypes
  <2> QED
    BY <1>0, <1>9, <2>6
       DEF parse_unsegmented, buffer, sweep, memory, FaultInv, WorkerTypes, Listed
<1>10. ASSUME NEW k \in Keys, WalkHeadless(k) PROVE FaultInv'
  BY <1>0, <1>10
     DEF WalkHeadless, NoOutput, buffer, sweep, memory, FaultInv, WorkerTypes, Listed
<1>11. CASE NoParse
  <2>1. failures' \in 0..FailingMallocs
    BY <1>0, <1>11, WorkerAssumption DEF NoParse
  <2> QED
    BY <1>0, <1>11, <2>1
       DEF NoParse, NoOutput, buffer, sweep, FaultInv, WorkerTypes, Listed
<1>12. CASE t_clean_up
  BY <1>0, <1>12 DEF t_clean_up, buffer, memory, FaultInv, WorkerTypes, Listed
<1>13. CASE Tick
  <2>1. DOMAIN buf' = DOMAIN buf /\ \A k \in DOMAIN buf : buf'[k] = Aged(buf[k])
    BY <1>13 DEF Tick, Aged
  <2>2. Listed(buf)'
    BY <1>0, <2>1, AgedKeeps DEF Listed
  <2> QED
    BY <1>0, <1>13, <2>2 DEF Tick, sweep, memory, FaultInv, WorkerTypes
<1>14. CASE Consume
  <2>1. output' \in Seq(Assembled) /\ Len(output') <= Capacity
    <3>1. Tail(output) \in Seq(Assembled) /\ Len(Tail(output)) = Len(output) - 1
      BY <1>0, <1>14, HeadTailProperties DEF Consume
    <3>2. Len(output) \in Nat /\ Capacity \in Nat
      BY <1>0, WorkerAssumption, LenProperties
    <3> QED
      BY <1>0, <1>14, <3>1, <3>2 DEF Consume
  <2> QED
    BY <1>0, <1>14, <2>1
       DEF Consume, buffer, sweep, memory, FaultInv, WorkerTypes, Listed
<1>15. CASE UNCHANGED vars
  BY <1>0, <1>15 DEF vars, FaultInv, WorkerTypes, Listed
<1> QED
  BY <1>1, <1>2, <1>3, <1>4, <1>5, <1>6, <1>7, <1>8, <1>9, <1>10, <1>11, <1>12, <1>13,
     <1>14, <1>15 DEF Next

(* Typing and order of every list, for any number of failing mallocs.       *)
THEOREM FaultInvHolds == Spec => []FaultInv
BY InitFault, NextFault, PTL DEF Spec

(* Every variable of the worker and every stored list keeps its type,       *)
(* whichever mallocs fail.                                                  *)
THEOREM WorkerTypeCorrect == Spec => []TypeOK
<1>1. FaultInv /\ CountInv => TypeOK
  <2> SUFFICES ASSUME FaultInv, CountInv PROVE TypeOK
    OBVIOUS
  <2>1. count \in Nat /\ DOMAIN buf \subseteq Keys
    BY KeysAssumption, FS_Subset, FS_CardinalityType DEF CountInv, Counted
  <2>2. ASSUME NEW k \in DOMAIN buf
        PROVE  /\ buf[k].total_size \in {0, NbSegments[k]}
               /\ buf[k].current_size \in Nat /\ buf[k].total_payload_byte_size \in Nat
               /\ \A j \in 1..Len(buf[k].segs) : buf[k].segs[j] \in 0..NbSegments[k]-1
               /\ buf[k].to_clean_up \in {0, 1}
               /\ buf[k].timestamp \in Unset..EXPIRE_MSG+1
               /\ buf[k].since \in 0..EXPIRE_MSG+1
    <3>1. buf[k] \in Lists(k)
      BY DEF FaultInv, Listed, ListOK
    <3>2. buf[k].segs \in Seq(0..NbSegments[k]-1)
      BY <3>1 DEF Lists
    <3> QED
      BY <3>1, <3>2, ElementOfSeq DEF Lists
  <2> QED
    BY <2>1, <2>2 DEF FaultInv, WorkerTypes, TypeOK
<1> QED
  BY <1>1, FaultInvHolds, CountInvHolds, PTL

(* insert_into_msl keeps each list strictly sorted, in any order of arrival *)
(* and after any failed malloc: comparing one cell is enough to tell a      *)
(* duplicate (src/segmentation_buffer.c:139-190).                           *)
THEOREM ListsAlwaysSorted == Spec => []ListsSorted
<1>1. FaultInv => ListsSorted
  BY DEF FaultInv, Listed, ListOK, Sorted, ListsSorted
<1> QED
  BY <1>1, FaultInvHolds, PTL

-----------------------------------------------------------------------------
(***************************************************************************)
(* A worker whose mallocs succeed.  LengthsFit is the limit of the header  *)
(* of an assembled message: 8 bits for its own length, options included,   *)
(* and 16 for the payload.                                                 *)
(***************************************************************************)
LengthsFit ==
  \A k \in Keys : /\ HEADER_BYTES + OptionBytes * Cardinality(Tagged[k]) < UINT8_VALUES
                  /\ ContentSize[k] * NbSegments[k] < UINT16_VALUES

IsWholeMessage(x) ==
  /\ x.payload = Message(x.key)
  /\ Len(x.options) = Cardinality(Tagged[x.key])
  /\ {x.options[o] : o \in 1..Len(x.options)} = Tagged[x.key]
  /\ payload_length(x) = ContentSize[x.key] * NbSegments[x.key]

(* A list that does not count as complete lacks a segment: the last segment *)
(* has told the total as soon as it arrived.                                *)
LEMMA IncompleteIsShort ==
  ASSUME NEW k \in Keys, NEW m, ListOK(k, m), Whole(k, m), ~IsComplete(m)
  PROVE  Len(m.segs) < NbSegments[k]
<1>1. PICK n \in Nat \ {0} : n = NbSegments[k]
  BY KeysAssumption
<1>2. m.segs \in Seq(0..n-1) /\ Sorted(m.segs)
  BY <1>1 DEF ListOK, Lists
<1>3. Len(m.segs) <= n /\ (Len(m.segs) = n => m.segs = [j \in 1..n |-> j - 1])
  BY <1>1, <1>2, FullListIsMessage
<1>4. Len(m.segs) \in Nat
  BY <1>2, LenProperties
<1>5. ASSUME Len(m.segs) = n PROVE FALSE
  <2>1. m.segs[n] = n - 1 /\ n \in 1..Len(m.segs)
    BY <1>3, <1>5
  <2>2. m.total_size = n
    BY <1>1, <2>1 DEF Whole, TotalKnown, Holds
  <2>3. m.current_size = n
    BY <1>5 DEF Whole, CountersExact
  <2> QED
    BY <1>1, <2>2, <2>3 DEF IsComplete
<1> QED
  BY <1>1, <1>3, <1>4, <1>5

(* A list that counts as complete is the message, and only the segment that *)
(* made it so was missing.                                                  *)
LEMMA CompleteIsMessage ==
  ASSUME NEW k \in Keys, NEW m, ListOK(k, m), Whole(k, m), IsComplete(m)
  PROVE  m.segs = Message(k) /\ m.current_size = NbSegments[k] /\ Len(m.segs) = NbSegments[k]
<1>1. PICK n \in Nat \ {0} : n = NbSegments[k]
  BY KeysAssumption
<1>2. m.segs \in Seq(0..n-1) /\ Sorted(m.segs) /\ m.total_size \in {0, n}
  BY <1>1 DEF ListOK, Lists
<1>3. Len(m.segs) = n /\ m.current_size = n
  BY <1>2 DEF IsComplete, Whole, CountersExact
<1>4. m.segs = [j \in 1..n |-> j - 1]
  BY <1>1, <1>2, <1>3, FullListIsMessage
<1> QED
  BY <1>1, <1>3, <1>4 DEF Message

(* The length the user reads is that of the payload when both fields fit.   *)
LEMMA LengthArithmetic ==
  ASSUME NEW o \in Nat, NEW b \in Nat, HEADER_BYTES + o < UINT8_VALUES, b < UINT16_VALUES
  PROVE  (((HEADER_BYTES + o + (b % UINT16_VALUES)) % UINT16_VALUES)
            - ((HEADER_BYTES + o) % UINT8_VALUES)) % UINT16_VALUES = b
<1>1. b % 65536 = b /\ (12 + o) % 256 = 12 + o
  BY SMT DEF HEADER_BYTES, UINT8_VALUES, UINT16_VALUES
<1>2. (((12 + o + b) % 65536) - (12 + o)) % 65536 = b
  BY SMT DEF HEADER_BYTES, UINT8_VALUES, UINT16_VALUES
<1> QED
  BY <1>1, <1>2, SMT DEF HEADER_BYTES, UINT8_VALUES, UINT16_VALUES

(* create_assembled_msg of a complete list gives the message with all its   *)
(* segments, its options once each and the right length.                    *)
LEMMA AssembledWhole ==
  ASSUME LengthsFit, NEW k \in Keys, NEW m, ListOK(k, m), Whole(k, m), IsComplete(m)
  PROVE  IsWholeMessage(create_assembled_msg(m, k))
<1>1. m.segs = Message(k) /\ m.current_size = NbSegments[k] /\ Len(m.segs) = NbSegments[k]
  BY CompleteIsMessage
<1>2. m.options \in Seq(Nat) /\ Distinct(m.options)
      /\ \A x \in Nat : Holds(m.options, x) <=> x \in Tagged[k] /\ Holds(m.segs, x)
  BY DEF ListOK, Lists, Whole, OptionsExact
<1>3. Len(m.options) \in Nat /\ m.options \in [1..Len(m.options) -> Nat]
  BY <1>2, LenProperties
<1>4. NbSegments[k] \in Nat \ {0} /\ Tagged[k] \subseteq 0..NbSegments[k]-1
      /\ ContentSize[k] \in Nat /\ OptionBytes \in Nat
  BY KeysAssumption
<1>5. ASSUME NEW x \in Tagged[k] PROVE Holds(m.options, x)
  <2>1. x + 1 \in 1..Len(m.segs) /\ m.segs[x + 1] = x /\ x \in Nat
    BY <1>1, <1>4 DEF Message
  <2>2. Holds(m.segs, x)
    BY <2>1 DEF Holds
  <2> QED
    BY <1>2, <2>1, <2>2
<1>6. ASSUME NEW o \in 1..Len(m.options) PROVE m.options[o] \in Tagged[k]
  BY <1>2, <1>3 DEF Holds
<1>7. {m.options[o] : o \in 1..Len(m.options)} = Tagged[k]
  BY <1>5, <1>6 DEF Holds
<1>8. Len(m.options) = Cardinality(Tagged[k])
  <2>1. m.options \in [1..Len(m.options) -> Tagged[k]]
    BY <1>3, <1>6
  <2>2. \A p, q \in 1..Len(m.options) : m.options[p] = m.options[q] => p = q
    BY <1>2 DEF Distinct
  <2>3. \A x \in Tagged[k] : \E o \in 1..Len(m.options) : m.options[o] = x
    BY <1>5 DEF Holds
  <2>4. m.options \in Bijection(1..Len(m.options), Tagged[k])
    BY <2>1, <2>2, <2>3, Fun_IsBij
  <2>5. ExistsBijection(1..Len(m.options), Tagged[k])
    BY <2>4 DEF ExistsBijection
  <2> QED
    BY <1>3, <2>5, FS_CountingElements
<1>9. PICK b \in Nat : b = m.total_payload_byte_size /\ b = ContentSize[k] * NbSegments[k]
  <2>1. m.total_payload_byte_size \in Nat
    BY DEF ListOK, Lists
  <2>2. m.total_payload_byte_size = ContentSize[k] * NbSegments[k]
    BY <1>1 DEF Whole, CountersExact
  <2> QED
    BY <2>1, <2>2
<1>10. PICK o \in Nat : o = OptionBytes * Len(m.options)
  <2>1. OptionBytes * Len(m.options) \in Nat
    BY <1>3, <1>4
  <2> QED
    BY <2>1
<1>11. HEADER_BYTES + o < UINT8_VALUES /\ b < UINT16_VALUES
  BY <1>8, <1>9, <1>10, Zenon DEF LengthsFit
<1>12. PICK x : x = create_assembled_msg(m, k)
  OBVIOUS
<1>13. /\ x.key = k /\ x.payload = m.segs /\ x.options = m.options
       /\ x.header_length = (HEADER_BYTES + o) % UINT8_VALUES
       /\ x.message_length = (HEADER_BYTES + o + (b % UINT16_VALUES)) % UINT16_VALUES
  BY <1>9, <1>10, <1>12 DEF create_assembled_msg
<1>14. payload_length(x) = b
  BY <1>11, <1>13, LengthArithmetic, Zenon DEF payload_length
<1> QED
  BY <1>1, <1>7, <1>8, <1>9, <1>12, <1>13, <1>14, Zenon DEF IsWholeMessage

(* What the queue holds stays whole when it does not change.                *)
LEMMA DeliveredUnchanged == DeliveredWhole /\ output' = output => DeliveredWhole'
<1> SUFFICES ASSUME DeliveredWhole, output' = output PROVE DeliveredWhole'
  OBVIOUS
<1>1. \A j \in 1..Len(output) : IsWholeMessage(output[j])
  BY DEF DeliveredWhole, IsWholeMessage
<1>2. \A j \in 1..Len(output') : IsWholeMessage(output'[j])
  BY <1>1
<1> QED
  BY <1>2 DEF DeliveredWhole, IsWholeMessage

(* Writing a whole message keeps every message in the queue whole.          *)
LEMMA WriteOutputWhole ==
  ASSUME output \in Seq(Assembled), DeliveredWhole, NEW x \in Assembled, IsWholeMessage(x),
         WriteOutput(x)
  PROVE  DeliveredWhole'
<1>1. /\ Append(output, x) \in Seq(Assembled) /\ Len(Append(output, x)) = Len(output) + 1
      /\ \A j \in 1..Len(output)+1 :
           Append(output, x)[j] = IF j <= Len(output) THEN output[j] ELSE x
  BY AppendProperties
<1>2. Len(output) \in Nat
  BY LenProperties
<1>3. \A j \in 1..Len(output) : IsWholeMessage(output[j])
  BY DEF DeliveredWhole, IsWholeMessage
<1>4. CASE output' = Append(output, x)
  <2>1. ASSUME NEW j \in 1..Len(output') PROVE IsWholeMessage(output'[j])
    <3>1. output'[j] = x \/ (j \in 1..Len(output) /\ output'[j] = output[j])
      BY <1>1, <1>2, <1>4
    <3> QED
      BY <1>3, <3>1
  <2> QED
    BY <2>1 DEF DeliveredWhole, IsWholeMessage
<1>5. CASE output' = output
  BY <1>3, <1>5, DeliveredUnchanged
<1> QED
  BY <1>4, <1>5 DEF WriteOutput

(* A worker that starts without failing mallocs.                            *)
LEMMA InitWhole ==
  ASSUME FailingMallocs = 0
  PROVE  Init => WholeInv
<1> SUFFICES ASSUME Init PROVE WholeInv
  OBVIOUS
<1>1. DOMAIN buf = {}
  BY DEF Init
<1> QED
  BY <1>1 DEF Init, WholeInv, StoredWhole

(* No list is stored complete, so a duplicate never finds one.              *)
LEMMA NeverCompleteAgain ==
  ASSUME FaultInv, StoredWhole(buf), NEW k \in Keys, NEW i \in 0..NbSegments[k]-1
  PROVE  ~CompleteAgain(k, i)
<1>1. PICK m : m = LearnTotal(List(k), k, i)
  OBVIOUS
<1>2. NbSegments[k] \in Nat \ {0}
  BY KeysAssumption
<1>3. ListOK(k, List(k)) /\ Whole(k, List(k)) /\ Len(List(k).segs) < NbSegments[k]
  BY ListListed DEF FaultInv
<1>4. m.current_size = List(k).current_size /\ m.total_size \in {0, NbSegments[k]}
  BY <1>1, <1>3, DuplicateKeeps
<1>5. List(k).current_size = Len(List(k).segs) /\ List(k).current_size \in Nat
  BY <1>3 DEF Whole, CountersExact, ListOK, Lists
<1>6. ~IsComplete(m)
  BY <1>2, <1>3, <1>4, <1>5 DEF IsComplete
<1> QED
  BY <1>1, <1>6 DEF CompleteAgain

(* The end of an iteration keeps every list of the table whole.             *)
LEMMA EndIterationWhole ==
  ASSUME FaultInv, parser = "running", NEW b, NEW n, Listed(b), StoredWhole(b),
         EndIteration(b, n)
  PROVE  StoredWhole(buf)'
BY EndIterationListed DEF FaultInv, WorkerTypes

(* WholeInv is inductive for a worker whose mallocs succeed.                *)
LEMMA NextWhole == FaultInv /\ WholeInv /\ [Next]_vars => WholeInv'
<1> SUFFICES ASSUME FaultInv, WholeInv, [Next]_vars PROVE WholeInv'
  OBVIOUS
<1>0. failures = 0 /\ StoredWhole(buf) /\ Listed(buf)
  BY DEF WholeInv, FaultInv
<1>1. ASSUME NEW k \in Keys, NEW i \in 0..NbSegments[k]-1, StoreSegment(k, i) PROVE WholeInv'
  <2>1. ListOK(k, List(k)) /\ Whole(k, List(k)) /\ ~IsDuplicate(List(k), i)
    BY <1>0, <1>1, ListListed DEF StoreSegment
  <2>2. PICK m : m = insert_into_msl(List(k), k, i)
    OBVIOUS
  <2>3. ListOK(k, m) /\ Whole(k, m)
    BY <2>1, <2>2, InsertKeeps, InsertWhole
  <2>4. parser = "running" /\ ~IsComplete(m) /\ EndIteration(With(k, m), CountWith(k))
        /\ failures' = failures
    BY <1>1, <2>2 DEF StoreSegment, Receives, memory
  <2>5. Len(m.segs) < NbSegments[k]
    BY <2>3, <2>4, IncompleteIsShort
  <2>6. Listed(With(k, m)) /\ StoredWhole(With(k, m))
    BY <1>0, <2>3, <2>5, WithListed
  <2> QED
    BY <1>0, <2>4, <2>6, EndIterationWhole DEF WholeInv
<1>2. ASSUME NEW k \in Keys, NEW i \in 0..NbSegments[k]-1, IgnoreDuplicate(k, i)
      PROVE  WholeInv'
  <2>1. ListOK(k, List(k)) /\ Whole(k, List(k)) /\ Len(List(k).segs) < NbSegments[k]
    BY <1>0, ListListed
  <2>2. PICK m : m = LearnTotal(List(k), k, i)
    OBVIOUS
  <2>3. ListOK(k, m) /\ Whole(k, m) /\ m.segs = List(k).segs
    BY <2>1, <2>2, DuplicateKeeps
  <2>4. StoredWhole(With(k, m))
    BY <1>0, <2>1, <2>3, WithListed
  <2>5. buf' = With(k, m) /\ failures' = failures
    BY <1>2, <2>2 DEF IgnoreDuplicate, memory
  <2> QED
    BY <1>0, <2>4, <2>5 DEF WholeInv, StoredWhole
<1>3. ASSUME NEW k \in Keys, NEW i, CompleteMessage(k, i) PROVE WholeInv'
  <2>1. Listed(Without(k)) /\ StoredWhole(Without(k))
    BY <1>0, WithoutListed
  <2> QED
    BY <1>0, <1>3, <2>1, EndIterationWhole DEF CompleteMessage, Receives, memory, WholeInv
<1>4. ASSUME NEW k \in Keys, NEW i \in 0..NbSegments[k]-1,
             \/ NoCell(k, i) \/ NoList(k, i) \/ NoSegmentCell(k, i) \/ NoOptions(k, i)
             \/ NoAssembly(k, i) \/ CompleteAgain(k, i) \/ NoAssemblyAgain(k, i)
      PROVE  FALSE
  BY <1>0, <1>4, NeverCompleteAgain
     DEF NoCell, NoList, NoSegmentCell, NoOptions, NoAssembly, NoAssemblyAgain, MallocError
<1>5. ASSUME NEW k \in Keys, parse_unsegmented(k) \/ WalkHeadless(k) PROVE WholeInv'
  BY <1>0, <1>5 DEF parse_unsegmented, WalkHeadless, buffer, memory, WholeInv, StoredWhole
<1>6. CASE NoParse
  BY <1>0, <1>6 DEF NoParse
<1>7. CASE t_clean_up \/ Consume \/ UNCHANGED vars
  BY <1>0, <1>7 DEF t_clean_up, Consume, buffer, memory, vars, WholeInv, StoredWhole
<1>8. CASE Tick
  <2>1. DOMAIN buf' = DOMAIN buf /\ \A k \in DOMAIN buf : buf'[k] = Aged(buf[k])
    BY <1>8 DEF Tick, Aged
  <2>2. StoredWhole(buf)'
    BY <1>0, <2>1, AgedKeeps DEF Listed, StoredWhole
  <2> QED
    BY <1>0, <1>8, <2>2 DEF Tick, memory, WholeInv
<1> QED
  BY <1>1, <1>2, <1>3, <1>4, <1>5, <1>6, <1>7, <1>8 DEF Next

(* What is handed out is whole: only a completing segment or a message of   *)
(* one segment writes, and the consumer only takes.                         *)
LEMMA NextDelivered ==
  ASSUME LengthsFit
  PROVE  FaultInv /\ WholeInv /\ DeliveredWhole /\ [Next]_vars => DeliveredWhole'
<1> SUFFICES ASSUME FaultInv, WholeInv, DeliveredWhole, [Next]_vars PROVE DeliveredWhole'
  OBVIOUS
<1>0. failures = 0 /\ StoredWhole(buf) /\ Listed(buf) /\ output \in Seq(Assembled)
  BY DEF WholeInv, FaultInv, WorkerTypes
<1>1. ASSUME NEW k \in Keys, NEW i \in 0..NbSegments[k]-1, CompleteMessage(k, i)
      PROVE  DeliveredWhole'
  <2>1. ListOK(k, List(k)) /\ Whole(k, List(k)) /\ ~IsDuplicate(List(k), i)
    BY <1>0, <1>1, ListListed DEF CompleteMessage
  <2>2. PICK m : m = insert_into_msl(List(k), k, i)
    OBVIOUS
  <2>3. ListOK(k, m) /\ Whole(k, m)
    BY <2>1, <2>2, InsertKeeps, InsertWhole
  <2>4. IsComplete(m) /\ WriteOutput(create_assembled_msg(m, k))
    BY <1>1, <2>2 DEF CompleteMessage
  <2>5. create_assembled_msg(m, k) \in Assembled /\ IsWholeMessage(create_assembled_msg(m, k))
    BY <2>3, <2>4, AssembledType, AssembledWhole
  <2> QED
    BY <1>0, <2>4, <2>5, WriteOutputWhole
<1>2. ASSUME NEW k \in Keys, NEW i, StoreSegment(k, i) \/ IgnoreDuplicate(k, i)
      PROVE  DeliveredWhole'
  BY <1>2, DeliveredUnchanged DEF StoreSegment, IgnoreDuplicate, NoOutput
<1>3. ASSUME NEW k \in Keys, NEW i \in 0..NbSegments[k]-1,
             \/ NoCell(k, i) \/ NoList(k, i) \/ NoSegmentCell(k, i) \/ NoOptions(k, i)
             \/ NoAssembly(k, i) \/ CompleteAgain(k, i) \/ NoAssemblyAgain(k, i)
      PROVE  FALSE
  BY <1>0, <1>3, NeverCompleteAgain
     DEF NoCell, NoList, NoSegmentCell, NoOptions, NoAssembly, NoAssemblyAgain, MallocError
<1>4. ASSUME NEW k \in Keys, parse_unsegmented(k) PROVE DeliveredWhole'
  <2>1. NbSegments[k] = 1 /\ 0 \in 0..NbSegments[k]-1
    BY <1>4 DEF parse_unsegmented
  <2>2. PICK m : m = insert_into_msl(create_message_segment_list, k, 0)
    OBVIOUS
  <2>3. ~IsDuplicate(create_message_segment_list, 0)
    <3>1. create_message_segment_list.segs = <<>>
      BY DEF create_message_segment_list
    <3>2. Place(<<>>, 0) \in 0..0
      BY EmptySeq, PlaceProperties
    <3> QED
      BY <3>1, <3>2 DEF IsDuplicate
  <2>4. /\ ListOK(k, create_message_segment_list) /\ Whole(k, create_message_segment_list)
        /\ create_message_segment_list.current_size = 0
    BY CreatedList DEF create_message_segment_list
  <2>5. ListOK(k, m) /\ Whole(k, m) /\ m.current_size = 1 /\ m.total_size = 1
    <3>1. Whole(k, m)
      BY <2>1, <2>2, <2>3, <2>4, InsertWhole
    <3>2. /\ ListOK(k, m)
          /\ m.current_size = create_message_segment_list.current_size + 1
          /\ m.total_size = IF IsLast(k, 0) THEN NbSegments[k]
                            ELSE create_message_segment_list.total_size
      BY <2>1, <2>2, <2>3, <2>4, InsertKeeps
    <3>3. IsLast(k, 0)
      BY <2>1 DEF IsLast
    <3> QED
      BY <2>1, <2>4, <3>1, <3>2, <3>3
  <2>6. IsComplete(m)
    BY <2>5 DEF IsComplete
  <2>7. create_assembled_msg(m, k) \in Assembled /\ IsWholeMessage(create_assembled_msg(m, k))
    BY <2>5, <2>6, AssembledType, AssembledWhole
  <2>8. WriteOutput(create_assembled_msg(m, k))
    BY <1>4, <2>2 DEF parse_unsegmented
  <2> QED
    BY <1>0, <2>7, <2>8, WriteOutputWhole
<1>5. ASSUME NEW k \in Keys, WalkHeadless(k) PROVE DeliveredWhole'
  BY <1>5, DeliveredUnchanged DEF WalkHeadless, NoOutput
<1>6. CASE NoParse \/ t_clean_up \/ Tick \/ UNCHANGED vars
  BY <1>6, DeliveredUnchanged DEF NoParse, NoOutput, t_clean_up, Tick, vars
<1>7. CASE Consume
  <2>1. output # <<>> /\ output' = Tail(output)
    BY <1>7 DEF Consume
  <2>2. Len(output) \in Nat /\ Len(output') = Len(output) - 1
        /\ \A j \in 1..Len(output') : output'[j] = output[j + 1]
    BY <1>0, <2>1, HeadTailProperties, LenProperties
  <2>3. \A j \in 1..Len(output) : IsWholeMessage(output[j])
    BY DEF DeliveredWhole, IsWholeMessage
  <2>4. \A j \in 1..Len(output') : IsWholeMessage(output'[j])
    BY <2>2, <2>3
  <2> QED
    BY <2>4 DEF DeliveredWhole, IsWholeMessage
<1> QED
  BY <1>1, <1>2, <1>3, <1>4, <1>5, <1>6, <1>7 DEF Next

(* Both invariants hold of a worker whose mallocs succeed.                  *)
THEOREM WholeInvHolds ==
  ASSUME FailingMallocs = 0
  PROVE  Spec => [](FaultInv /\ WholeInv)
<1>1. Init => FaultInv /\ WholeInv
  BY InitFault, InitWhole
<1>2. FaultInv /\ WholeInv /\ [Next]_vars => (FaultInv /\ WholeInv)'
  BY NextFault, NextWhole
<1> QED
  BY <1>1, <1>2, PTL DEF Spec

(* Whatever the network loses, repeats and reorders, every message handed   *)
(* to the user has all its segments once each and in order, its options     *)
(* once each and the right length of payload, as long as that length fits   *)
(* the header (src/segmentation_buffer.c:120-197, parsing_worker.c:115-182).*)
THEOREM DeliveredAlwaysWhole ==
  ASSUME FailingMallocs = 0, LengthsFit
  PROVE  Spec => []DeliveredWhole
<1>1. Init => DeliveredWhole
  BY DEF Init, DeliveredWhole
<1>2. FaultInv /\ WholeInv /\ DeliveredWhole /\ [Next]_vars => DeliveredWhole'
  BY NextDelivered
<1> QED
  BY <1>1, <1>2, WholeInvHolds, PTL DEF Spec

(* A message all of whose segments arrived is never left in the buffer.     *)
THEOREM CompleteAlwaysLeaves ==
  ASSUME FailingMallocs = 0
  PROVE  Spec => []CompleteLeaves
<1>1. FaultInv /\ WholeInv => CompleteLeaves
  BY DEF WholeInv, StoredWhole, CompleteLeaves
<1> QED
  BY <1>1, WholeInvHolds, PTL

-----------------------------------------------------------------------------
(***************************************************************************)
(* What a step may do to the table: the action properties.                 *)
(***************************************************************************)

(* A list that EndIteration takes out of the table b had expired in it.     *)
LEMMA EndIterationClears ==
  ASSUME NEW b, NEW n, EndIteration(b, n), NEW k \in DOMAIN b, k \notin DOMAIN buf'
  PROVE  k \in Expired(b, cleanup_start_index)
BY DEF EndIteration, cleanup_seg_buff, Swept

(* The lists that are not the one being written to are untouched by the     *)
(* iteration until it ends.                                                 *)
LEMMA ExpiredInWith ==
  ASSUME NEW k \in Keys, NEW m, m.to_clean_up = List(k).to_clean_up,
         m.timestamp = List(k).timestamp, NEW j \in DOMAIN buf,
         j \in Expired(With(k, m), cleanup_start_index)
  PROVE  j \in Expired(buf, cleanup_start_index)
<1>1. With(k, m)[j] = IF j = k THEN m ELSE buf[j]
  BY DEF With
<1>2. j = k => List(k) = buf[k]
  BY DEF List, Stored
<1> QED
  BY <1>1, <1>2 DEF Expired, IsExpired

(* An expired list was created more than EXPIRE_MSG seconds ago.            *)
LEMMA ExpiredIsOld ==
  ASSUME Listed(buf), NEW j \in Expired(buf, cleanup_start_index)
  PROVE  j \in DOMAIN buf /\ buf[j].since > EXPIRE_MSG
<1>1. j \in DOMAIN buf /\ buf[j].timestamp > EXPIRE_MSG
  BY DEF Expired, IsExpired
<1>2. /\ buf[j].timestamp \in Unset..EXPIRE_MSG+1 /\ buf[j].since \in 0..EXPIRE_MSG+1
      /\ buf[j].timestamp <= buf[j].since
  BY <1>1 DEF Listed, ListOK, Lists
<1> QED
  BY <1>1, <1>2, BufferAssumption DEF Unset

Gone == DOMAIN buf \ DOMAIN buf'

(* A list leaves because it expired, or because the step completed it and   *)
(* wrote or dropped its message.                                            *)
LEMMA GoneReason ==
  ASSUME FaultInv, WholeInv, [Next]_vars, NEW j \in Gone
  PROVE  j \in Expired(buf, cleanup_start_index) \/ Completes(j)
<1>0. failures = 0 /\ StoredWhole(buf) /\ Listed(buf) /\ j \in DOMAIN buf /\ j \notin DOMAIN buf'
  BY DEF WholeInv, FaultInv, Gone
<1>1. ASSUME NEW k \in Keys, NEW i \in 0..NbSegments[k]-1, StoreSegment(k, i)
      PROVE  j \in Expired(buf, cleanup_start_index)
  <2>1. ListOK(k, List(k)) /\ ~IsDuplicate(List(k), i)
    BY <1>0, <1>1, ListListed DEF StoreSegment
  <2>2. PICK m : m = insert_into_msl(List(k), k, i)
    OBVIOUS
  <2>3. m.to_clean_up = List(k).to_clean_up /\ m.timestamp = List(k).timestamp
    BY <2>1, <2>2, InsertKeeps
  <2>4. EndIteration(With(k, m), CountWith(k)) /\ j \in DOMAIN With(k, m)
    BY <1>0, <1>1, <2>2 DEF StoreSegment, With
  <2>5. j \in Expired(With(k, m), cleanup_start_index)
    BY <1>0, <2>4, EndIterationClears
  <2> QED
    BY <1>0, <2>3, <2>5, ExpiredInWith
<1>2. ASSUME NEW k \in Keys, NEW i, IgnoreDuplicate(k, i) PROVE FALSE
  BY <1>0, <1>2 DEF IgnoreDuplicate, With
<1>3. ASSUME NEW k \in Keys, NEW i \in 0..NbSegments[k]-1, CompleteMessage(k, i)
      PROVE  j \in Expired(buf, cleanup_start_index) \/ Completes(j)
  <2>1. ListOK(k, List(k)) /\ Whole(k, List(k)) /\ ~IsDuplicate(List(k), i)
    BY <1>0, <1>3, ListListed DEF CompleteMessage
  <2>2. PICK m : m = insert_into_msl(List(k), k, i)
    OBVIOUS
  <2>3. IsComplete(m) /\ EndIteration(Without(k), CountWith(k) - 1) /\ report' # "none"
    BY <1>3, <2>2 DEF CompleteMessage, WriteOutput
  <2>4. CASE j = k
    <3>1. Len(m.segs) = NbSegments[k] /\ Len(m.segs) = Len(List(k).segs) + 1
      BY <2>1, <2>2, <2>3, InsertKeeps, InsertWhole, CompleteIsMessage
    <3>2. List(k) = buf[j] /\ Len(buf[j].segs) \in Nat
      BY <1>0, <2>4, LenProperties DEF List, Stored, Listed, ListOK, Lists
    <3> QED
      BY <2>3, <2>4, <3>1, <3>2 DEF Completes
  <2>5. CASE j # k
    <3>1. j \in DOMAIN Without(k) /\ Without(k)[j] = buf[j]
      BY <1>0, <2>5 DEF Without
    <3>2. j \in Expired(Without(k), cleanup_start_index)
      BY <1>0, <2>3, <3>1, EndIterationClears
    <3> QED
      BY <1>0, <3>1, <3>2 DEF Expired, IsExpired
  <2> QED
    BY <2>4, <2>5
<1>4. ASSUME NEW k \in Keys, NEW i \in 0..NbSegments[k]-1,
             \/ NoCell(k, i) \/ NoList(k, i) \/ NoSegmentCell(k, i) \/ NoOptions(k, i)
             \/ NoAssembly(k, i) \/ CompleteAgain(k, i) \/ NoAssemblyAgain(k, i)
      PROVE  FALSE
  BY <1>0, <1>4, NeverCompleteAgain
     DEF NoCell, NoList, NoSegmentCell, NoOptions, NoAssembly, NoAssemblyAgain, MallocError
<1>5. ASSUME NEW k \in Keys, parse_unsegmented(k) \/ WalkHeadless(k) PROVE FALSE
  BY <1>0, <1>5 DEF parse_unsegmented, WalkHeadless, buffer
<1>6. CASE NoParse \/ t_clean_up \/ Tick \/ Consume \/ UNCHANGED vars
  BY <1>0, <1>6 DEF NoParse, t_clean_up, Tick, Consume, buffer, vars
<1> QED
  BY <1>1, <1>2, <1>3, <1>4, <1>5, <1>6 DEF Next

(* A list leaves the buffer only when its last missing segment arrives or   *)
(* when it was created more than EXPIRE_MSG seconds ago: a clean-up that    *)
(* races an arrival never takes a young list (cleanup_seg_buff).            *)
THEOREM AlwaysLeavesCompleteOrOld ==
  ASSUME FailingMallocs = 0
  PROVE  Spec => LeavesCompleteOrOld
<1>1. FaultInv /\ WholeInv /\ [Next]_vars
        => [\A k \in DOMAIN buf \ DOMAIN buf' : Completes(k) \/ buf[k].since > EXPIRE_MSG]_vars
  BY GoneReason, ExpiredIsOld DEF Gone, FaultInv
<1> QED
  BY <1>1, WholeInvHolds, PTL DEF Spec, LeavesCompleteOrOld

(* A step of the worker reports a message only if it wrote or refused it.   *)
LEMMA ReportReason ==
  ASSUME Next
  PROVE  report' = "none" \/ \E x : WriteOutput(x)
<1>1. ASSUME NEW k \in Keys, NEW i,
             \/ StoreSegment(k, i) \/ IgnoreDuplicate(k, i) \/ CompleteMessage(k, i)
             \/ NoCell(k, i) \/ NoList(k, i) \/ NoSegmentCell(k, i) \/ NoOptions(k, i)
             \/ NoAssembly(k, i) \/ CompleteAgain(k, i) \/ NoAssemblyAgain(k, i)
      PROVE  report' = "none" \/ \E x : WriteOutput(x)
  BY <1>1 DEF StoreSegment, IgnoreDuplicate, CompleteMessage, NoCell, NoList, NoSegmentCell,
              NoOptions, NoAssembly, CompleteAgain, NoAssemblyAgain, MallocError, NoOutput
<1>2. ASSUME NEW k \in Keys, parse_unsegmented(k) \/ WalkHeadless(k)
      PROVE  report' = "none" \/ \E x : WriteOutput(x)
  BY <1>2 DEF parse_unsegmented, WalkHeadless, NoOutput
<1>3. CASE NoParse \/ t_clean_up \/ Tick \/ Consume
  BY <1>3 DEF NoParse, t_clean_up, Tick, Consume, NoOutput
<1> QED
  BY <1>1, <1>2, <1>3 DEF Next

(* A message that completes is written or reported as dropped, and dropped  *)
(* only when the output queue is full: the monitoring counters never miss   *)
(* one (parsing_worker.c:160-182).                                          *)
THEOREM AlwaysDropsOnlyWhenFull ==
  ASSUME FailingMallocs = 0
  PROVE  Spec => DropsOnlyWhenFull
<1> DEFINE A == /\ report' = "dropped" => Len(output) = Capacity /\ output' = output
                /\ report' = "received" => Len(output') = Len(output) + 1
                /\ (DOMAIN buf \ DOMAIN buf') \ Expired(buf, cleanup_start_index) # {}
                     => report' # "none"
<1>1. FaultInv /\ WholeInv /\ [Next]_vars => [A]_vars
  <2> SUFFICES ASSUME FaultInv, WholeInv, Next PROVE A
    OBVIOUS
  <2>1. output \in Seq(Assembled) /\ Len(output) <= Capacity
    BY DEF FaultInv, WorkerTypes
  <2>2. Len(output) \in Nat /\ Capacity \in Nat
    BY <2>1, WorkerAssumption, LenProperties
  <2>3. ASSUME NEW x, WriteOutput(x)
        PROVE  /\ report' = "dropped" => Len(output) = Capacity /\ output' = output
               /\ report' = "received" => Len(output') = Len(output) + 1
    BY <2>1, <2>2, <2>3 DEF WriteOutput
  <2>4. /\ report' = "dropped" => Len(output) = Capacity /\ output' = output
        /\ report' = "received" => Len(output') = Len(output) + 1
    BY <2>3, ReportReason
  <2>5. ASSUME NEW j \in (DOMAIN buf \ DOMAIN buf') \ Expired(buf, cleanup_start_index)
        PROVE  report' # "none"
    <3>1. j \in Gone /\ j \notin Expired(buf, cleanup_start_index)
      BY <2>5 DEF Gone
    <3> QED
      BY <3>1, GoneReason DEF Completes
  <2> QED
    BY <2>4, <2>5
<1> QED
  BY <1>1, WholeInvHolds, PTL DEF Spec, DropsOnlyWhenFull
=============================================================================
