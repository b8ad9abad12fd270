---------------------------- MODULE SenderProofs ----------------------------
(***************************************************************************)
(* The round trip of unyte_send and of the collector's parser, for every   *)
(* message, every list of options, every MTU and any number of segments.   *)
(* The loops of the code are recursive functions in Codec; what they       *)
(* compute is proved by looking at the first place where it would fail.    *)
(***************************************************************************)
EXTENDS Sender, SequenceTheorems, WellFoundedInduction, TLAPS

-----------------------------------------------------------------------------
(* Induction up to n, over a set instead of a predicate.                    *)
LEMMA UpTo ==
  ASSUME NEW n \in Nat, NEW T, 0 \in T,
         \A k \in 1..n : k - 1 \in T => k \in T
  PROVE  \A k \in 0..n : k \in T
<1> SUFFICES ASSUME NEW m \in 0..n, m \notin T PROVE FALSE
  OBVIOUS
<1> DEFINE R == OpToRel(<, Nat)
           F == {k \in 0..n : k \notin T}
<1>1. \A x, y \in Nat : y < x => <<y, x>> \in R
  BY DEF OpToRel
<1>2. IsWellFoundedOn(R, Nat)
  BY NatLessThanWellFounded
<1> HIDE DEF R
<1>3. F \subseteq Nat /\ F # {}
  OBVIOUS
<1>4. PICK x \in F : \A y \in F : ~(<<y, x>> \in R)
  BY <1>2, <1>3, WFMin
<1>5. x \in 1..n /\ x - 1 \notin T
  BY <1>4
<1>6. x - 1 \in F /\ <<x - 1, x>> \in R
  BY <1>1, <1>5
<1> QED
  BY <1>4, <1>6

(* A loop of n turns that starts with b; turn k computes G[k, x] from the   *)
(* result x of the turn before.                                             *)
HasLoop(n, S, b, G) ==
  \E f \in [0..n -> S] : f[0] = b /\ \A k \in 1..n : f[k] = G[<<k, f[k-1]>>]

(* The recursive function that stands for a loop exists.                    *)
LEMMA LoopExists ==
  ASSUME NEW n \in Nat, NEW S, NEW b \in S, NEW G \in [(1..n) \X S -> S]
  PROVE  HasLoop(n, S, b, G)
<1> DEFINE T == {m \in 0..n : HasLoop(m, S, b, G)}
<1>1. 0 \in T
  <2> DEFINE g == [k \in 0..0 |-> b]
  <2>1. g \in [0..0 -> S] /\ g[0] = b /\ \A k \in 1..0 : g[k] = G[<<k, g[k-1]>>]
    OBVIOUS
  <2> HIDE DEF g
  <2>2. HasLoop(0, S, b, G)
    BY <2>1 DEF HasLoop
  <2> QED
    BY <2>2
<1>2. ASSUME NEW m \in 1..n, m - 1 \in T PROVE m \in T
  <2>1. PICK f \in [0..m-1 -> S] : f[0] = b /\ \A k \in 1..m-1 : f[k] = G[<<k, f[k-1]>>]
    BY <1>2 DEF HasLoop
  <2> DEFINE g == [k \in 0..m |-> IF k = m THEN G[<<m, f[m-1]>>] ELSE f[k]]
  <2>2. g \in [0..m -> S]
    <3>1. f[m-1] \in S /\ <<m, f[m-1]>> \in (1..n) \X S
      OBVIOUS
    <3>2. G[<<m, f[m-1]>>] \in S
      BY <3>1
    <3>3. \A k \in 0..m : k # m => k \in 0..m-1
      OBVIOUS
    <3> QED
      BY <3>2, <3>3
  <2>3. g[0] = b
    BY <2>1
  <2>4. ASSUME NEW k \in 1..m PROVE g[k] = G[<<k, g[k-1]>>]
    <3>1. k - 1 \in 0..m-1 /\ k - 1 # m
      OBVIOUS
    <3>2. g[k-1] = f[k-1]
      BY <3>1
    <3>3. g[k] = IF k = m THEN G[<<m, f[m-1]>>] ELSE f[k]
      OBVIOUS
    <3> HIDE DEF g
    <3>4. CASE k = m
      BY <3>2, <3>3, <3>4
    <3>5. CASE k # m
      BY <2>1, <3>2, <3>3, <3>5
    <3> QED
      BY <3>4, <3>5
  <2> HIDE DEF g
  <2>5. HasLoop(m, S, b, G)
    BY <2>2, <2>3, <2>4, Zenon DEF HasLoop
  <2> QED
    BY <2>5
<1> HIDE DEF T
<1>3. n \in T
  BY <1>1, <1>2, UpTo
<1> QED
  BY <1>3 DEF T

-----------------------------------------------------------------------------
(* options_total_bytes adds the lengths up, one option a turn (lines        *)
(* 315-325).                                                                *)
LEMMA BytesBeforeIsLoop ==
  ASSUME NEW S, NEW options \in Seq(S), \A j \in 1..Len(options) : options[j].length \in Nat
  PROVE  /\ BytesBefore(options) \in [0..Len(options) -> Nat]
         /\ BytesBefore(options)[0] = 0
         /\ \A j \in 1..Len(options) :
              BytesBefore(options)[j] = BytesBefore(options)[j-1] + options[j].length
<1> DEFINE N == Len(options)
           G == [x \in (1..N) \X Nat |-> x[2] + options[x[1]].length]
           Turn(f) == [n \in 0..N |-> IF n = 0 THEN 0 ELSE f[n-1] + options[n].length]
<1>0. N \in Nat
  BY LenProperties
<1>1. G \in [(1..N) \X Nat -> Nat]
  <2> SUFFICES ASSUME NEW x \in (1..N) \X Nat PROVE x[2] + options[x[1]].length \in Nat
    OBVIOUS
  <2> QED
    OBVIOUS
<1>2. \A k \in 1..N : \A x \in Nat : G[<<k, x>>] = x + options[k].length
  OBVIOUS
<1> HIDE DEF G, N
<1>3. 0 \in Nat
  OBVIOUS
<1>4. HasLoop(N, Nat, 0, G)
  BY <1>0, <1>1, <1>3, LoopExists
<1>5. PICK f \in [0..N -> Nat] : f[0] = 0 /\ \A k \in 1..N : f[k] = G[<<k, f[k-1]>>]
  BY <1>4 DEF HasLoop
<1>6. ASSUME NEW k \in 1..N PROVE f[k] = f[k-1] + options[k].length
  <2>1. f[k-1] \in Nat
    BY <1>0
  <2> QED
    BY <1>2, <1>5, <2>1
<1>7. f = Turn(f)
  BY <1>0, <1>5, <1>6
<1>8. BytesBefore(options) = (CHOOSE g : g = Turn(g))
  BY DEF BytesBefore, N
<1> HIDE DEF Turn
<1>9. BytesBefore(options) = Turn(BytesBefore(options))
  BY <1>7, <1>8, Zenon
<1>10. \A n \in 0..N : BytesBefore(options)[n] =
           IF n = 0 THEN 0 ELSE BytesBefore(options)[n-1] + options[n].length
  BY <1>9 DEF Turn
<1> DEFINE T == {n \in 0..N : BytesBefore(options)[n] \in Nat}
<1>11. \A n \in 0..N : n \in T
  <2>1. 0 \in T
    BY <1>0, <1>10
  <2>2. ASSUME NEW n \in 1..N, n - 1 \in T PROVE n \in T
    BY <1>0, <1>10, <2>2 DEF N
  <2> HIDE DEF T
  <2> QED
    BY <1>0, <2>1, <2>2, UpTo
<1>12. BytesBefore(options) \in [0..N -> Nat]
  BY <1>9, <1>10, <1>11 DEF Turn
<1> QED
  BY <1>0, <1>10, <1>12 DEF N

HasLengths(options) == \A j \in 1..Len(options) : options[j].length \in Nat

(* The header of n options that are laid out behind d others.               *)
LEMMA BytesShifted ==
  ASSUME NEW S, NEW s \in Seq(S), HasLengths(s),
         NEW R, NEW t \in Seq(R), HasLengths(t),
         NEW d \in Nat, Len(t) = Len(s) + d,
         \A j \in 1..Len(s) : t[j+d].length = s[j].length
  PROVE  \A j \in 0..Len(s) : BytesBefore(t)[j+d] = BytesBefore(t)[d] + BytesBefore(s)[j]
<1> DEFINE T == {j \in 0..Len(s) : BytesBefore(t)[j+d] = BytesBefore(t)[d] + BytesBefore(s)[j]}
<1>1. Len(s) \in Nat /\ Len(t) \in Nat
  BY LenProperties
<1>2. /\ BytesBefore(s) \in [0..Len(s) -> Nat] /\ BytesBefore(s)[0] = 0
      /\ \A j \in 1..Len(s) : BytesBefore(s)[j] = BytesBefore(s)[j-1] + s[j].length
  BY BytesBeforeIsLoop DEF HasLengths
<1>3. /\ BytesBefore(t) \in [0..Len(t) -> Nat]
      /\ \A j \in 1..Len(t) : BytesBefore(t)[j] = BytesBefore(t)[j-1] + t[j].length
  BY BytesBeforeIsLoop DEF HasLengths
<1>4. 0 \in T
  <2>1. BytesBefore(t)[d] \in Nat
    BY <1>1, <1>3
  <2> QED
    BY <1>1, <1>2, <2>1
<1>5. ASSUME NEW j \in 1..Len(s), j - 1 \in T PROVE j \in T
  <2>1. j + d \in 1..Len(t) /\ (j + d) - 1 = (j - 1) + d
    BY <1>1
  <2>2. BytesBefore(t)[j+d] = BytesBefore(t)[(j-1)+d] + s[j].length
    BY <1>3, <2>1
  <2>3. BytesBefore(s)[j] = BytesBefore(s)[j-1] + s[j].length
    BY <1>2
  <2>4. BytesBefore(t)[d] \in Nat /\ BytesBefore(s)[j-1] \in Nat /\ s[j].length \in Nat
    <3>1. d \in 0..Len(t) /\ j - 1 \in 0..Len(s)
      BY <1>1
    <3> QED
      BY <1>2, <1>3, <3>1 DEF HasLengths
  <2>5. BytesBefore(t)[(j-1)+d] = BytesBefore(t)[d] + BytesBefore(s)[j-1]
    BY <1>5
  <2> QED
    BY <2>2, <2>3, <2>4, <2>5
<1> HIDE DEF T
<1>6. \A j \in 0..Len(s) : j \in T
  BY <1>1, <1>4, <1>5, UpTo
<1> QED
  BY <1>6 DEF T

(* An option starts before the end of the header that holds it.             *)
LEMMA BytesIncrease ==
  ASSUME NEW S, NEW s \in Seq(S), \A j \in 1..Len(s) : s[j].length \in Nat \ {0}
  PROVE  \A j \in 0..Len(s)-1 : BytesBefore(s)[j] < options_total_bytes(s)
<1> DEFINE B == BytesBefore(s)
           T == {k \in 0..Len(s) : \A j \in 0..k-1 : B[j] < B[k]}
<1>1. Len(s) \in Nat
  BY LenProperties
<1>2. B \in [0..Len(s) -> Nat] /\ \A j \in 1..Len(s) : B[j] = B[j-1] + s[j].length
  BY BytesBeforeIsLoop
<1> HIDE DEF B
<1>3. 0 \in T
  BY <1>1
<1>4. ASSUME NEW k \in 1..Len(s), k - 1 \in T PROVE k \in T
  <2>1. B[k-1] < B[k] /\ B[k-1] \in Nat /\ B[k] \in Nat
    BY <1>1, <1>2
  <2>2. ASSUME NEW j \in 0..k-1 PROVE B[j] < B[k]
    <3>1. CASE j = k - 1
      BY <2>1, <3>1
    <3>2. CASE j # k - 1
      <4>1. j \in 0..(k-1)-1 /\ B[j] \in Nat
        BY <1>1, <1>2, <3>2
      <4> QED
        BY <1>4, <2>1, <4>1
    <3> QED
      BY <3>1, <3>2
  <2> QED
    BY <2>2
<1> HIDE DEF T
<1>5. \A k \in 0..Len(s) : k \in T
  BY <1>1, <1>3, <1>4, UpTo
<1>6. Len(s) \in T
  BY <1>1, <1>5
<1> QED
  BY <1>6 DEF T, B, options_total_bytes

(* The total is a number, 0 without options.                                *)
LEMMA TotalBytes ==
  /\ \A S : \A s \in Seq(S) : HasLengths(s) => options_total_bytes(s) \in Nat
  /\ options_total_bytes(<<>>) = 0
<1>1. ASSUME NEW S, NEW s \in Seq(S), HasLengths(s) PROVE options_total_bytes(s) \in Nat
  <2>1. Len(s) \in Nat /\ BytesBefore(s) \in [0..Len(s) -> Nat]
    BY <1>1, LenProperties, BytesBeforeIsLoop DEF HasLengths
  <2> QED
    BY <2>1 DEF options_total_bytes
<1>2. options_total_bytes(<<>>) = 0
  <2>1. <<>> \in Seq({}) /\ Len(<<>>) = 0
    BY EmptySeq
  <2>2. \A j \in 1..Len(<<>>) : <<>>[j].length \in Nat
    BY <2>1
  <2>3. BytesBefore(<<>>)[0] = 0
    BY <2>1, <2>2, BytesBeforeIsLoop
  <2> QED
    BY <2>1, <2>3 DEF options_total_bytes
<1> QED
  BY <1>1, <1>2

-----------------------------------------------------------------------------
(* What the parser may have kept of some of the options.                    *)
KeptOptions(options) ==
  LET D == 1..Len(options)
  IN [f_type : {NotSegmented, UNYTE_TYPE_SEGMENTATION},
      f_num : {NotSegmented} \cup {NumberOf(options[j]) : j \in D},
      f_last : {NotSegmented} \cup {LastOf(options[j]) : j \in D},
      custom : Seq({[type |-> options[j].type, length |-> options[j].length] : j \in D})]

(* The parsing loop keeps one option a turn (lines 96-132).                 *)
LEMMA ParsedOptionsIsLoop ==
  ASSUME NEW S, NEW options \in Seq(S)
  PROVE  /\ ParsedOptions(options) \in [0..Len(options) -> KeptOptions(options)]
         /\ ParsedOptions(options)[0] = NoOptions
         /\ \A n \in 1..Len(options) :
              ParsedOptions(options)[n] = KeepOption(ParsedOptions(options)[n-1], options[n])
<1> DEFINE N == Len(options)
           K == KeptOptions(options)
           G == [x \in (1..N) \X K |-> KeepOption(x[2], options[x[1]])]
           Turn(f) == [n \in 0..N |-> IF n = 0 THEN NoOptions
                                      ELSE KeepOption(f[n-1], options[n])]
<1>0. N \in Nat
  BY LenProperties
<1>1. NoOptions \in K
  BY EmptySeq DEF NoOptions, KeptOptions
<1>2. ASSUME NEW j \in 1..N, NEW k \in K PROVE KeepOption(k, options[j]) \in K
  <2>1. CASE options[j].type = UNYTE_TYPE_SEGMENTATION
    BY <2>1 DEF KeepOption, KeptOptions
  <2>2. CASE options[j].type # UNYTE_TYPE_SEGMENTATION
    BY <2>2, AppendProperties DEF KeepOption, KeptOptions
  <2> QED
    BY <2>1, <2>2
<1> HIDE DEF N, K
<1>3. G \in [(1..N) \X K -> K]
  BY <1>2
<1>4. \A j \in 1..N : \A k \in K : G[<<j, k>>] = KeepOption(k, options[j])
  OBVIOUS
<1> HIDE DEF G
<1>5. HasLoop(N, K, NoOptions, G)
  BY <1>0, <1>1, <1>3, LoopExists
<1>6. PICK f \in [0..N -> K] : f[0] = NoOptions /\ \A j \in 1..N : f[j] = G[<<j, f[j-1]>>]
  BY <1>5 DEF HasLoop
<1>7. ASSUME NEW j \in 1..N PROVE f[j] = KeepOption(f[j-1], options[j])
  <2>1. f[j-1] \in K
    BY <1>0
  <2> QED
    BY <1>4, <1>6, <2>1
<1>8. f = Turn(f)
  BY <1>0, <1>6, <1>7
<1>9. ParsedOptions(options) = (CHOOSE g : g = Turn(g))
  BY DEF ParsedOptions, N
<1> HIDE DEF Turn
<1>10. ParsedOptions(options) = Turn(ParsedOptions(options))
  BY <1>8, <1>9, Zenon
<1>11. \A n \in 0..N : ParsedOptions(options)[n] =
           IF n = 0 THEN NoOptions ELSE KeepOption(ParsedOptions(options)[n-1], options[n])
  BY <1>10 DEF Turn
<1> DEFINE T == {n \in 0..N : ParsedOptions(options)[n] \in K}
<1>12. \A n \in 0..N : n \in T
  <2>1. 0 \in T
    BY <1>0, <1>1, <1>11
  <2>2. ASSUME NEW n \in 1..N, n - 1 \in T PROVE n \in T
    BY <1>0, <1>2, <1>11, <2>2
  <2> HIDE DEF T
  <2> QED
    BY <1>0, <2>1, <2>2, UpTo
<1>13. ParsedOptions(options) \in [0..N -> K]
  BY <1>10, <1>11, <1>12 DEF Turn
<1> QED
  BY <1>0, <1>11, <1>13 DEF N, K

(* Custom options that start behind d others come out in their order, with  *)
(* what was kept of the segmentation before them.                           *)
LEMMA CustomOptionsKept ==
  ASSUME NEW S, NEW options \in Seq(S), NEW d \in 0..Len(options),
         ParsedOptions(options)[d].custom = <<>>,
         \A j \in d+1..Len(options) : options[j].type # UNYTE_TYPE_SEGMENTATION
  PROVE  ParsedOptions(options)[Len(options)] =
           [ParsedOptions(options)[d] EXCEPT
              !.custom = [j \in 1..Len(options)-d |->
                            [type |-> options[j+d].type, length |-> options[j+d].length]]]
<1> DEFINE P == ParsedOptions(options)
           N == Len(options)
           e(j) == [type |-> options[j+d].type, length |-> options[j+d].length]
           R == {e(j) : j \in 1..N-d}
           First(m) == [j \in 1..m |-> e(j)]
           T == {m \in 0..N-d : P[m+d] = [P[d] EXCEPT !.custom = First(m)]}
<1>0. N \in Nat /\ d \in 0..N /\ N - d \in Nat
  BY LenProperties
<1>1. /\ P \in [0..N -> KeptOptions(options)]
      /\ \A n \in 1..N : P[n] = KeepOption(P[n-1], options[n])
  BY ParsedOptionsIsLoop
<1>2. P[d].custom = <<>>
  OBVIOUS
<1> HIDE DEF P
<1>3. P[d] \in KeptOptions(options)
  BY <1>0, <1>1
<1>4. 0 \in T
  <2>1. First(0) = <<>>
    BY EmptySeq
  <2> HIDE DEF First
  <2>2. P[d] = [P[d] EXCEPT !.custom = First(0)]
    BY <1>2, <1>3, <2>1 DEF KeptOptions
  <2> QED
    BY <1>0, <2>2
<1>5. ASSUME NEW m \in 0..N-d PROVE First(m) \in Seq(R) /\ Len(First(m)) = m
  <2>1. First(m) \in [1..m -> R]
    BY <1>0
  <2> HIDE DEF First, R
  <2> QED
    BY <1>0, <2>1, SeqDef, LenProperties
<1>6. ASSUME NEW m \in 1..N-d PROVE Append(First(m-1), e(m)) = First(m)
  <2>1. m - 1 \in 0..N-d /\ e(m) \in R
    BY <1>0
  <2>2. First(m-1) \in Seq(R) /\ Len(First(m-1)) = m - 1
    BY <1>5, <2>1
  <2>3. /\ Append(First(m-1), e(m)) \in Seq(R) /\ Len(Append(First(m-1), e(m))) = m
        /\ \A j \in 1..m-1 : Append(First(m-1), e(m))[j] = First(m-1)[j]
        /\ Append(First(m-1), e(m))[m] = e(m)
    <3> HIDE DEF First, R, e
    <3> QED
      BY <1>0, <2>1, <2>2, AppendProperties
  <2>4. First(m) \in Seq(R) /\ Len(First(m)) = m
    <3>1. m \in 0..N-d
      BY <1>0
    <3> HIDE DEF First, R
    <3> QED
      BY <1>5, <3>1
  <2>5. ASSUME NEW j \in 1..m PROVE Append(First(m-1), e(m))[j] = First(m)[j]
    <3>1. First(m)[j] = e(j) /\ (j # m => j \in 1..m-1 /\ First(m-1)[j] = e(j))
      BY <1>0
    <3> HIDE DEF First, e
    <3> QED
      BY <2>3, <3>1
  <2> HIDE DEF First, R, e
  <2> QED
    BY <1>0, <2>3, <2>4, <2>5, SeqEqual
<1>7. ASSUME NEW m \in 1..N-d, m - 1 \in T PROVE m \in T
  <2>1. m + d \in 1..N /\ (m + d) - 1 = (m - 1) + d /\ m + d \in d+1..N
    BY <1>0
  <2>2. P[m+d] = KeepOption(P[(m-1)+d], options[m+d])
    BY <1>1, <2>1
  <2>3. P[(m-1)+d] = [P[d] EXCEPT !.custom = First(m-1)]
    BY <1>7
  <2>4. options[m+d].type # UNYTE_TYPE_SEGMENTATION
    BY <2>1
  <2> DEFINE Q == [P[d] EXCEPT !.custom = First(m-1)]
  <2>5. P[m+d] = [Q EXCEPT !.custom = Append(@, e(m))]
    BY <2>2, <2>3, <2>4 DEF KeepOption
  <2> HIDE DEF First
  <2>6. [Q EXCEPT !.custom = Append(@, e(m))] = [P[d] EXCEPT !.custom = First(m)]
    BY <1>3, <1>6 DEF KeptOptions
  <2> QED
    BY <2>5, <2>6
<1> HIDE DEF T
<1>8. \A m \in 0..N-d : m \in T
  BY <1>0, <1>4, <1>7, UpTo
<1>9. N - d \in T /\ (N - d) + d = N
  BY <1>0, <1>8
<1>10. P[N] = [P[d] EXCEPT !.custom = First(N-d)]
  BY <1>9 DEF T
<1> QED
  BY <1>10 DEF P

-----------------------------------------------------------------------------
(* The options of a header, as the sender keeps them.                       *)
Options == Seq([type : 0..2^8-1, length : 0..2^8-1])

(* The list of options written by serialize_message, behind the             *)
(* segmentation option or not.                                              *)
Custom(h) == [j \in 1..Len(h.options) |-> CustomOption(h.options[j])]

Behind(h) == IF IsSegmented(h) THEN 1 ELSE 0

Written(h) == {CustomOption(h.options[j]) : j \in 1..Len(h.options)} \cup {SegmentationOption(h)}

(* One element in front of a sequence.                                      *)
LEMMA InFront ==
  ASSUME NEW S, NEW s \in Seq(S), NEW o \in S
  PROVE  /\ <<o>> \o s \in Seq(S) /\ Len(<<o>> \o s) = Len(s) + 1
         /\ (<<o>> \o s)[1] = o /\ \A j \in 1..Len(s) : (<<o>> \o s)[j+1] = s[j]
<1>1. <<o>> \in Seq(S) /\ Len(<<o>>) = 1 /\ <<o>>[1] = o /\ Len(s) \in Nat
  BY LenProperties
<1>2. ASSUME NEW t \in Seq(S), Len(t) = 1
      PROVE  /\ t \o s \in Seq(S) /\ Len(t \o s) = Len(s) + 1
             /\ (t \o s)[1] = t[1] /\ \A j \in 1..Len(s) : (t \o s)[j+1] = s[j]
  <2>1. /\ t \o s \in Seq(S) /\ Len(t \o s) = 1 + Len(s)
        /\ \A i \in 1..1 + Len(s) : (t \o s)[i] = IF i <= 1 THEN t[i] ELSE s[i-1]
    <3>1. /\ t \o s \in Seq(S) /\ Len(t \o s) = Len(t) + Len(s)
          /\ \A i \in 1..Len(t) + Len(s) :
               (t \o s)[i] = IF i <= Len(t) THEN t[i] ELSE s[i - Len(t)]
      BY <1>2, ConcatProperties
    <3> QED
      BY <1>2, <3>1, Zenon
  <2>2. (t \o s)[1] = t[1]
    <3>1. 1 \in 1..1 + Len(s) /\ 1 <= 1
      BY <1>1
    <3> QED
      BY <2>1, <3>1
  <2>3. ASSUME NEW j \in 1..Len(s) PROVE (t \o s)[j+1] = s[j]
    <3>1. j + 1 \in 1..1 + Len(s) /\ ~(j + 1 <= 1) /\ (j + 1) - 1 = j
      BY <1>1
    <3> QED
      BY <2>1, <3>1
  <2> QED
    BY <1>1, <2>1, <2>2, <2>3
<1> QED
  BY <1>1, <1>2

(* The fields of an option.                                                 *)
LEMMA OptionFields ==
  ASSUME NEW s \in Options
  PROVE  /\ Len(s) \in Nat
         /\ \A j \in 1..Len(s) :
              /\ s[j].type \in 0..2^8-1 /\ s[j].length \in 0..2^8-1 /\ s[j].length \in Nat
              /\ s[j] = [type |-> s[j].type, length |-> s[j].length]
<1>1. Len(s) \in Nat /\ s \in [1..Len(s) -> [type : 0..2^8-1, length : 0..2^8-1]]
  BY LenProperties DEF Options
<1>2. ASSUME NEW j \in 1..Len(s)
      PROVE  /\ s[j].type \in 0..2^8-1 /\ s[j].length \in 0..2^8-1 /\ s[j].length \in Nat
             /\ s[j] = [type |-> s[j].type, length |-> s[j].length]
  <2>1. s[j] \in [type : 0..2^8-1, length : 0..2^8-1]
    BY <1>1
  <2>2. s[j].type \in 0..2^8-1 /\ s[j].length \in 0..2^8-1
    BY <2>1
  <2>3. s[j] = [type |-> s[j].type, length |-> s[j].length]
    BY <2>1
  <2>4. 2^8 - 1 \in Int
    OBVIOUS
  <2> QED
    BY <2>2, <2>3, <2>4
<1> QED
  BY <1>1, <1>2

(* The options are written in their order, behind the segmentation option.  *)
LEMMA OptionsWritten ==
  ASSUME NEW h, h.options \in Options
  PROVE  LET w == serialize_message(h).options IN
         /\ w \in Seq(Written(h)) /\ Len(w) = Len(h.options) + Behind(h)
         /\ IsSegmented(h) => w[1] = SegmentationOption(h)
         /\ \A j \in 1..Len(h.options) : w[j + Behind(h)] = CustomOption(h.options[j])
<1> DEFINE N == Len(h.options)
           W == Written(h)
<1>0. N \in Nat
  BY LenProperties DEF Options
<1>1. Custom(h) \in [1..N -> W] /\ \A j \in 1..N : Custom(h)[j] = CustomOption(h.options[j])
  BY DEF Custom, Written
<1>2. SegmentationOption(h) \in W
  BY DEF Written
<1> HIDE DEF N, W
<1>3. Custom(h) \in Seq(W) /\ Len(Custom(h)) = N
  BY <1>0, <1>1, SeqDef, LenProperties
<1>4. serialize_message(h).options =
        IF IsSegmented(h) THEN <<SegmentationOption(h)>> \o Custom(h) ELSE Custom(h)
  BY DEF serialize_message, Custom
<1>5. CASE ~IsSegmented(h)
  BY <1>0, <1>1, <1>3, <1>4, <1>5 DEF Behind, N, W
<1>6. CASE IsSegmented(h)
  <2> DEFINE o == SegmentationOption(h)
             c == Custom(h)
  <2>1. /\ <<o>> \o c \in Seq(W) /\ Len(<<o>> \o c) = N + 1
        /\ (<<o>> \o c)[1] = o /\ \A j \in 1..N : (<<o>> \o c)[j+1] = c[j]
    <3> HIDE DEF o, c
    <3> QED
      BY <1>2, <1>3, InFront DEF o, c
  <2> HIDE DEF c
  <2> QED
    BY <1>1, <1>4, <1>6, <2>1 DEF Behind, N, W, c
<1> QED
  BY <1>5, <1>6

(* The bytes of what is written: those of the options, and 4 more for the   *)
(* segmentation option.                                                     *)
LEMMA BytesWritten ==
  ASSUME NEW h, h.options \in Options
  PROVE  LET w == serialize_message(h).options IN
         /\ HasLengths(w) /\ options_total_bytes(h.options) \in Nat
         /\ options_total_bytes(w) = options_total_bytes(h.options)
                                     + Behind(h) * UNYTE_SEGMENTATION_OPTION_LEN
<1> DEFINE w == serialize_message(h).options
           s == h.options
           d == Behind(h)
           W == Written(h)
<1>1. /\ w \in Seq(W) /\ Len(w) = Len(s) + d
      /\ IsSegmented(h) => w[1] = SegmentationOption(h)
      /\ \A j \in 1..Len(s) : w[j + d] = CustomOption(s[j])
  BY OptionsWritten
<1>2. d \in {0, 1} /\ (IsSegmented(h) <=> d = 1)
  BY DEF Behind
<1>3. Len(s) \in Nat /\ \A j \in 1..Len(s) : s[j].length \in Nat
  <2>1. s \in Options
    OBVIOUS
  <2> HIDE DEF s
  <2> QED
    BY <2>1, OptionFields
<1>4. \A j \in 1..Len(s) : w[j + d].length = s[j].length
  <2>1. \A j \in 1..Len(s) : CustomOption(s[j]).length = s[j].length
    BY DEF CustomOption
  <2> HIDE DEF w, s, d
  <2> QED
    BY <1>1, <2>1
<1>5. d = 1 => w[1].length = UNYTE_SEGMENTATION_OPTION_LEN
  <2>1. SegmentationOption(h).length = UNYTE_SEGMENTATION_OPTION_LEN
    BY DEF SegmentationOption
  <2> HIDE DEF w, s, d
  <2> QED
    BY <1>1, <1>2, <2>1
<1>6. s \in Seq([type : 0..2^8-1, length : 0..2^8-1])
  BY DEF Options
<1> HIDE DEF w, s, d, W
<1>7. ASSUME NEW j \in 1..Len(w) PROVE w[j].length \in Nat
  <2>1. CASE j > d
    <3>1. j - d \in 1..Len(s) /\ (j - d) + d = j
      BY <1>1, <1>2, <1>3, <2>1
    <3> QED
      BY <1>3, <1>4, <3>1
  <2>2. CASE ~(j > d)
    <3>1. d = 1 /\ j = 1
      BY <1>1, <1>2, <1>3, <2>2
    <3> QED
      BY <1>5, <3>1 DEF UNYTE_SEGMENTATION_OPTION_LEN
  <2> QED
    BY <2>1, <2>2
<1>8. HasLengths(w) /\ HasLengths(s)
  BY <1>3, <1>7 DEF HasLengths
<1>9. BytesBefore(w)[Len(s) + d] = BytesBefore(w)[d] + BytesBefore(s)[Len(s)]
  <2>1. d \in Nat /\ Len(s) \in 0..Len(s)
    BY <1>2, <1>3
  <2>2. \A j \in 0..Len(s) : BytesBefore(w)[j+d] = BytesBefore(w)[d] + BytesBefore(s)[j]
    BY <1>1, <1>4, <1>6, <1>8, <2>1, BytesShifted
  <2> QED
    BY <2>1, <2>2
<1>10. BytesBefore(w)[d] = d * UNYTE_SEGMENTATION_OPTION_LEN
  <2>1. /\ BytesBefore(w)[0] = 0
        /\ \A j \in 1..Len(w) : BytesBefore(w)[j] = BytesBefore(w)[j-1] + w[j].length
    BY <1>1, <1>8, BytesBeforeIsLoop DEF HasLengths
  <2>2. CASE d = 0
    BY <2>1, <2>2 DEF UNYTE_SEGMENTATION_OPTION_LEN
  <2>3. CASE d = 1
    <3>1. 1 \in 1..Len(w)
      BY <1>1, <1>3, <2>3
    <3>2. BytesBefore(w)[1] = BytesBefore(w)[1-1] + w[1].length
      BY <2>1, <3>1
    <3> QED
      BY <1>5, <2>1, <2>3, <3>2 DEF UNYTE_SEGMENTATION_OPTION_LEN
  <2> QED
    BY <1>2, <2>2, <2>3
<1>11. options_total_bytes(s) \in Nat
  BY <1>6, <1>8, TotalBytes
<1>12. options_total_bytes(w) = options_total_bytes(s) + d * UNYTE_SEGMENTATION_OPTION_LEN
  BY <1>1, <1>2, <1>9, <1>10, <1>11 DEF options_total_bytes, UNYTE_SEGMENTATION_OPTION_LEN
<1> QED
  BY <1>8, <1>11, <1>12 DEF w, s, d

-----------------------------------------------------------------------------
(* What header_length is when it counts the options.                        *)
CountsOptions(h) ==
  h.header_length = HEADER_BYTES + options_total_bytes(h.options)
                    + Behind(h) * UNYTE_SEGMENTATION_OPTION_LEN

(* Options of the user, which no wrapped length hides from the parser.      *)
PlainOptions(options) ==
  \A j \in 1..Len(options) :
     options[j].type # UNYTE_TYPE_SEGMENTATION /\ options[j].length > 0

(* The parser visits every option that is written.                          *)
LEMMA AllVisited ==
  ASSUME NEW h, h.options \in Options, CountsOptions(h), PlainOptions(h.options)
  PROVE  OptionsVisited(serialize_message(h)) = Len(serialize_message(h).options)
<1> DEFINE p == serialize_message(h)
           w == p.options
           B == BytesBefore(w)
           d == Behind(h)
<1>1. /\ w \in Seq(Written(h)) /\ Len(w) = Len(h.options) + d
      /\ IsSegmented(h) => w[1] = SegmentationOption(h)
      /\ \A j \in 1..Len(h.options) : w[j + d] = CustomOption(h.options[j])
  BY OptionsWritten
<1>2. /\ HasLengths(w) /\ options_total_bytes(h.options) \in Nat
      /\ options_total_bytes(w) = options_total_bytes(h.options)
                                  + d * UNYTE_SEGMENTATION_OPTION_LEN
  BY BytesWritten
<1>3. p.header_length = h.header_length
  BY DEF serialize_message
<1>4. d \in {0, 1} /\ (IsSegmented(h) <=> d = 1)
  BY DEF Behind
<1>5. Len(h.options) \in Nat /\ \A j \in 1..Len(h.options) : h.options[j].length \in Nat \ {0}
  <2>1. Len(h.options) \in Nat /\ \A j \in 1..Len(h.options) : h.options[j].length \in Nat
    BY OptionFields
  <2> QED
    BY <2>1 DEF PlainOptions
<1>6. p.header_length = HEADER_BYTES + options_total_bytes(w)
  <2> HIDE DEF p
  <2> QED
    BY <1>2, <1>3, <1>4 DEF CountsOptions, HEADER_BYTES, UNYTE_SEGMENTATION_OPTION_LEN
<1>7. SegmentationOption(h).length = 4
      /\ \A j \in 1..Len(h.options) : CustomOption(h.options[j]).length = h.options[j].length
  BY DEF SegmentationOption, CustomOption, UNYTE_SEGMENTATION_OPTION_LEN
<1> HIDE DEF p, d
<1>8. ASSUME NEW j \in 1..Len(w) PROVE w[j].length \in Nat \ {0}
  <2>1. CASE j > d
    <3>1. j - d \in 1..Len(h.options) /\ (j - d) + d = j
      BY <1>1, <1>4, <1>5, <2>1
    <3>2. w[j] = CustomOption(h.options[j-d])
      BY <1>1, <3>1
    <3> QED
      BY <1>5, <1>7, <3>1, <3>2
  <2>2. CASE ~(j > d)
    <3>1. d = 1 /\ j = 1
      BY <1>1, <1>4, <1>5, <2>2
    <3> QED
      BY <1>1, <1>4, <1>7, <3>1
  <2> QED
    BY <2>1, <2>2
<1>9. \A j \in 0..Len(w)-1 : B[j] < options_total_bytes(w)
  BY <1>1, <1>8, BytesIncrease
<1>10. Len(w) \in Nat /\ B \in [0..Len(w) -> Nat]
  BY <1>1, <1>2, LenProperties, BytesBeforeIsLoop DEF HasLengths
<1>11. options_total_bytes(w) \in Nat
  BY <1>2, <1>4 DEF UNYTE_SEGMENTATION_OPTION_LEN
<1> HIDE DEF w, B
<1>12. ASSUME NEW n \in 0..Len(w) PROVE StopsAfter(p, n) <=> n = Len(w)
  <2>1. CASE n = Len(w)
    <3>1. \A j \in 0..Len(w)-1 : HEADER_BYTES + B[j] < p.header_length
      <4> TAKE j \in 0..Len(w)-1
      <4>1. j \in 0..Len(w) /\ B[j] \in Nat /\ B[j] < options_total_bytes(w)
        BY <1>9, <1>10
      <4> QED
        BY <1>6, <1>11, <4>1 DEF HEADER_BYTES
    <3> QED
      BY <1>10, <2>1, <3>1 DEF StopsAfter, B, w
  <2>2. CASE n # Len(w)
    <3>1. n \in 0..Len(w)-1 /\ n < Len(w) /\ B[n] \in Nat /\ B[n] < options_total_bytes(w)
      BY <1>9, <1>10, <2>2
    <3>2. ~(HEADER_BYTES + B[n] >= p.header_length)
      BY <1>6, <1>11, <3>1 DEF HEADER_BYTES
    <3> QED
      BY <2>2, <3>1, <3>2 DEF StopsAfter, B, w
  <2> QED
    BY <2>1, <2>2
<1>13. Len(w) \in 0..Len(w)
  BY <1>10
<1>14. OptionsVisited(p) \in 0..Len(w) /\ StopsAfter(p, OptionsVisited(p))
  BY <1>12, <1>13, Zenon DEF OptionsVisited, w
<1> QED
  BY <1>12, <1>14 DEF p, w

(* The options that are read are those that were written: the custom ones   *)
(* once each and in order, and the segmentation option if there is one.     *)
LEMMA OptionsRoundTrip ==
  ASSUME NEW h, h.options \in Options, CountsOptions(h), PlainOptions(h.options),
         IsSegmented(h) => h.f_type = UNYTE_TYPE_SEGMENTATION
  PROVE  LET x == parse_with_metadata(serialize_message(h)) IN
         /\ x.options = h.options
         /\ IsSegmented(h) => /\ x.f_num = NumberOf(SegmentationOption(h))
                              /\ x.f_last = LastOf(SegmentationOption(h))
<1> DEFINE p == serialize_message(h)
           w == p.options
           s == h.options
           d == Behind(h)
           P == ParsedOptions(w)
<1>1. /\ w \in Seq(Written(h)) /\ Len(w) = Len(s) + d
      /\ IsSegmented(h) => w[1] = SegmentationOption(h)
      /\ \A j \in 1..Len(s) : w[j + d] = CustomOption(s[j])
  BY OptionsWritten
<1>2. d \in {0, 1} /\ (IsSegmented(h) <=> d = 1)
  BY DEF Behind
<1>3. Len(s) \in Nat /\ \A j \in 1..Len(s) : s[j] = [type |-> s[j].type, length |-> s[j].length]
  BY OptionFields
<1>4. /\ parse_with_metadata(p).options = P[Len(w)].custom
      /\ parse_with_metadata(p).f_num = P[Len(w)].f_num
      /\ parse_with_metadata(p).f_last = P[Len(w)].f_last
  BY AllVisited DEF parse_with_metadata
<1>5. SegmentationOption(h).type = h.f_type
  BY DEF SegmentationOption
<1>6. \A j \in 1..Len(s) : /\ CustomOption(s[j]).type = s[j].type
                           /\ CustomOption(s[j]).length = s[j].length
                           /\ s[j].type # UNYTE_TYPE_SEGMENTATION
  BY DEF CustomOption, PlainOptions
<1> HIDE DEF p, d
<1>7. /\ P \in [0..Len(w) -> KeptOptions(w)] /\ P[0] = NoOptions
      /\ \A n \in 1..Len(w) : P[n] = KeepOption(P[n-1], w[n])
  BY <1>1, ParsedOptionsIsLoop
<1> HIDE DEF w, s, P
<1>8. /\ P[d].custom = <<>> /\ P[d] \in KeptOptions(w)
      /\ IsSegmented(h) => /\ P[d].f_num = NumberOf(SegmentationOption(h))
                           /\ P[d].f_last = LastOf(SegmentationOption(h))
  <2>1. d \in 0..Len(w)
    BY <1>1, <1>2, <1>3
  <2>2. CASE d = 0
    BY <1>2, <1>7, <2>1, <2>2 DEF NoOptions
  <2>3. CASE d = 1
    <3>1. 1 \in 1..Len(w) /\ w[1] = SegmentationOption(h)
      BY <1>1, <1>2, <1>3, <2>3
    <3>2. P[1] = KeepOption(P[1-1], SegmentationOption(h))
      BY <1>7, <3>1
    <3>3. P[1] = KeepOption(NoOptions, SegmentationOption(h))
      BY <1>7, <3>2
    <3>4. SegmentationOption(h).type = UNYTE_TYPE_SEGMENTATION
      BY <1>2, <1>5, <2>3
    <3> QED
      BY <1>7, <2>1, <2>3, <3>3, <3>4 DEF KeepOption, NoOptions
  <2> QED
    BY <1>2, <2>2, <2>3
<1>9. \A j \in d+1..Len(w) : w[j].type # UNYTE_TYPE_SEGMENTATION
  <2> TAKE j \in d+1..Len(w)
  <2>1. j - d \in 1..Len(s) /\ (j - d) + d = j
    BY <1>1, <1>2, <1>3
  <2>2. w[j] = CustomOption(s[j-d])
    BY <1>1, <2>1
  <2> QED
    BY <1>6, <2>1, <2>2
<1> DEFINE c == [j \in 1..Len(w)-d |-> [type |-> w[j+d].type, length |-> w[j+d].length]]
<1>10. P[Len(w)] = [P[d] EXCEPT !.custom = c]
  <2>1. d \in 0..Len(w)
    BY <1>1, <1>2, <1>3
  <2> QED
    BY <1>1, <1>8, <1>9, <2>1, CustomOptionsKept DEF P
<1>11. c = s
  <2>1. Len(w) - d = Len(s)
    BY <1>1, <1>2, <1>3
  <2>2. \A j \in 1..Len(s) : [type |-> w[j+d].type, length |-> w[j+d].length] = s[j]
    BY <1>1, <1>3, <1>6
  <2>3. s = [j \in 1..Len(s) |-> s[j]]
    BY LenProperties DEF s, Options
  <2> QED
    BY <2>1, <2>2, <2>3
<1> HIDE DEF c
<1>12. P[Len(w)].custom = c /\ P[Len(w)].f_num = P[d].f_num /\ P[Len(w)].f_last = P[d].f_last
  BY <1>8, <1>10 DEF KeptOptions
<1> QED
  BY <1>4, <1>8, <1>11, <1>12 DEF p, s

-----------------------------------------------------------------------------
(* build_message.                                                           *)
Usable(mtu_) == mtu_ - HEADER_BYTES - UNYTE_SEGMENTATION_OPTION_LEN

OptionBytes(m) == options_total_bytes(build_message_options(m))

NumberOfSegments(m, mtu_) == packets_to_send(OptionBytes(m) + m.buffer_len, mtu_)

(* The options of a message, as its header has them (lines 327-351).        *)
LEMMA OptionsBuilt ==
  ASSUME NEW m \in Messages
  PROVE  /\ build_message_options(m) \in Options
         /\ Len(build_message_options(m)) = Len(m.options)
         /\ \A j \in 1..Len(m.options) :
              /\ build_message_options(m)[j].type = m.options[j].type
              /\ build_message_options(m)[j].length = (m.options[j].data_length + 2) % 2^8
         /\ OptionBytes(m) \in Nat
<1> DEFINE O == m.options
           N == Len(O)
           e(j) == [type |-> O[j].type, length |-> (O[j].data_length + 2) % 2^8]
           b == [j \in 1..N |-> e(j)]
           R == [type : 0..2^8-1, length : 0..2^8-1]
<1>1. O \in Seq([type : 0..2^8-1, data_length : 0..2^8-1])
  BY MessagesAssumption
<1>2. b = build_message_options(m)
  BY DEF build_message_options
<1> HIDE DEF O
<1>3. N \in Nat /\ O \in [1..N -> [type : 0..2^8-1, data_length : 0..2^8-1]]
  BY <1>1, LenProperties
<1>4. ASSUME NEW j \in 1..N PROVE e(j) \in R
  <2>1. O[j] \in [type : 0..2^8-1, data_length : 0..2^8-1]
    BY <1>3
  <2>2. O[j].type \in 0..2^8-1 /\ O[j].data_length \in 0..2^8-1
    BY <2>1
  <2>3. (O[j].data_length + 2) % 2^8 \in 0..2^8-1
    BY <2>2, SMT
  <2> QED
    BY <2>2, <2>3
<1>5. b \in [1..N -> R]
  BY <1>4
<1>6. \A j \in 1..N : b[j] = e(j)
  OBVIOUS
<1> HIDE DEF b, R, N
<1>7. b \in Seq(R) /\ Len(b) = N
  BY <1>3, <1>5, SeqDef, LenProperties
<1>8. b \in Options
  BY <1>7 DEF Options, R
<1>9. OptionBytes(m) \in Nat
  <2>1. \A j \in 1..Len(b) : b[j].length \in Nat
    BY <1>8, OptionFields
  <2>2. HasLengths(b) /\ b \in Seq(R)
    BY <1>7, <2>1 DEF HasLengths
  <2> QED
    BY <1>2, <2>2, TotalBytes DEF OptionBytes
<1>10. \A j \in 1..N : b[j].type = O[j].type /\ b[j].length = (O[j].data_length + 2) % 2^8
  <2>1. ASSUME NEW t, NEW l PROVE LET x == [type |-> t, length |-> l] IN x.type = t /\ x.length = l
    OBVIOUS
  <2>2. ASSUME NEW j \in 1..N
        PROVE  e(j).type = O[j].type /\ e(j).length = (O[j].data_length + 2) % 2^8
    BY <2>1
  <2> HIDE DEF e
  <2> QED
    BY <1>6, <2>2
<1> HIDE DEF e
<1> QED
  BY <1>2, <1>7, <1>8, <1>9, <1>10 DEF N, O

(* How many segments: one for what fits in the MTU, else just enough to     *)
(* carry the options and the buffer.                                        *)
LEMMA EnoughSegments ==
  ASSUME NEW len \in Nat, NEW mtu_ \in Nat, mtu_ > 16
  PROVE  LET n == packets_to_send(len, mtu_)
             u == Usable(mtu_)
         IN /\ u \in Nat \ {0} /\ u + 16 = mtu_
            /\ HEADER_BYTES + len <= mtu_ => n = 1
            /\ HEADER_BYTES + len > mtu_ => /\ n \in Nat /\ n >= 2
                                            /\ n * u >= len /\ (n - 1) * u < len
<1> DEFINE u == Usable(mtu_)
           n == packets_to_send(len, mtu_)
<1>1. u \in Nat /\ u > 0 /\ u + 16 = mtu_
  BY DEF Usable, HEADER_BYTES, UNYTE_SEGMENTATION_OPTION_LEN
<1>2. CASE HEADER_BYTES + len <= mtu_
  BY <1>1, <1>2 DEF packets_to_send, HEADER_BYTES
<1>3. CASE HEADER_BYTES + len > mtu_
  <2>1. n = (len \div u) + (IF len % u # 0 THEN 1 ELSE 0)
    BY <1>3 DEF packets_to_send, Usable, HEADER_BYTES
  <2> HIDE DEF u, n
  <2>2. n \in Nat /\ n * u >= len /\ (n - 1) * u < len
    BY <1>1, <2>1, SMT
  <2>3. len > u
    BY <1>1, <1>3 DEF HEADER_BYTES
  <2>4. n # 0 /\ n # 1
    BY <1>1, <2>2, <2>3, SMT
  <2> QED
    BY <1>1, <1>3, <2>2, <2>4 DEF HEADER_BYTES, u, n
<1> QED
  BY <1>2, <1>3 DEF HEADER_BYTES

(* c is where each segment starts in the buffer.                            *)
IsCopyIt(c, m, ob, u, n) ==
  /\ c \in [0..n -> Int] /\ c[0] = 0
  /\ \A i \in 1..n : c[i] = c[i-1] + bytes_to_send(m, ob, u, i-1, c[i-1])

(* copy_it, one segment a turn (lines 413-462).                             *)
LEMMA CopyItIsLoop ==
  ASSUME NEW m, m.buffer_len \in Nat, NEW ob \in Nat, NEW u \in Nat, NEW n \in Nat
  PROVE  IsCopyIt(CopyIt(m, ob, u, n), m, ob, u, n)
<1> DEFINE G == [x \in (1..n) \X Int |-> x[2] + bytes_to_send(m, ob, u, x[1]-1, x[2])]
           Turn(f) == [i \in 0..n |-> IF i = 0 THEN 0
                                      ELSE f[i-1] + bytes_to_send(m, ob, u, i-1, f[i-1])]
           c == CopyIt(m, ob, u, n)
<1>1. \A i \in 1..n : \A x \in Int : x + bytes_to_send(m, ob, u, i-1, x) \in Int
  BY DEF bytes_to_send, Smaller
<1>2. G \in [(1..n) \X Int -> Int]
  BY <1>1
<1>3. \A i \in 1..n : \A x \in Int : G[<<i, x>>] = x + bytes_to_send(m, ob, u, i-1, x)
  OBVIOUS
<1> HIDE DEF G
<1>4. 0 \in Int
  OBVIOUS
<1>5. HasLoop(n, Int, 0, G)
  BY <1>2, <1>4, LoopExists
<1>6. PICK f \in [0..n -> Int] : f[0] = 0 /\ \A i \in 1..n : f[i] = G[<<i, f[i-1]>>]
  BY <1>5 DEF HasLoop
<1>7. ASSUME NEW i \in 1..n PROVE f[i] = f[i-1] + bytes_to_send(m, ob, u, i-1, f[i-1])
  <2>1. f[i-1] \in Int
    OBVIOUS
  <2> QED
    BY <1>3, <1>6, <2>1
<1>8. f = Turn(f)
  BY <1>6, <1>7
<1>9. c = (CHOOSE g : g = Turn(g))
  BY DEF CopyIt
<1> HIDE DEF Turn, c
<1>10. c = Turn(c)
  BY <1>8, <1>9, Zenon
<1>11. \A i \in 0..n : c[i] = IF i = 0 THEN 0 ELSE c[i-1] + bytes_to_send(m, ob, u, i-1, c[i-1])
  BY <1>10 DEF Turn
<1> DEFINE T == {i \in 0..n : c[i] \in Int}
<1>12. \A i \in 0..n : i \in T
  <2>1. 0 \in T
    BY <1>11
  <2>2. ASSUME NEW i \in 1..n, i - 1 \in T PROVE i \in T
    <3>1. c[i-1] \in Int /\ i \in 0..n /\ i # 0
      BY <2>2
    <3>2. c[i-1] + bytes_to_send(m, ob, u, i-1, c[i-1]) \in Int
      BY <1>1, <3>1
    <3>3. c[i] = c[i-1] + bytes_to_send(m, ob, u, i-1, c[i-1])
      BY <1>11, <3>1
    <3> QED
      BY <3>1, <3>2, <3>3
  <2> HIDE DEF T
  <2> QED
    BY <2>1, <2>2, UpTo
<1>13. c \in [0..n -> Int]
  BY <1>10, <1>11, <1>12 DEF Turn
<1> QED
  BY <1>11, <1>13 DEF c, IsCopyIt

(* Where a segment starts when the options fit in the first one: what the   *)
(* segments before it could carry, or the end of the buffer.                *)
LEMMA CopyItCovers ==
  ASSUME NEW m, m.buffer_len \in Nat, NEW ob \in Nat, NEW u \in Nat \ {0}, NEW n \in Nat,
         n >= 2, n * u >= ob + m.buffer_len, ob <= m.buffer_len, ob <= u
  PROVE  LET c == CopyIt(m, ob, u, n) IN
         /\ \A i \in 0..n : c[i] \in 0..m.buffer_len
         /\ \A i \in 1..n : LET bytes == bytes_to_send(m, ob, u, i-1, c[i-1])
                            IN bytes \in 0..u /\ (i = 1 => bytes + ob <= u)
         /\ c[n] = m.buffer_len
<1> DEFINE c == CopyIt(m, ob, u, n)
           bl == m.buffer_len
           T == {i \in 0..n : /\ c[i] \in 0..bl
                              /\ i = 0 => c[i] = 0
                              /\ i > 0 => \/ c[i] = bl
                                          \/ c[i] = i * u - ob
                                          \/ i = 1 /\ bl < u /\ c[i] = bl - ob}
<1>0. u \in Nat
  OBVIOUS
<1>1. /\ c \in [0..n -> Int] /\ c[0] = 0
      /\ \A i \in 1..n : c[i] = c[i-1] + bytes_to_send(m, ob, u, i-1, c[i-1])
  <2>1. IsCopyIt(CopyIt(m, ob, u, n), m, ob, u, n)
    BY <1>0, CopyItIsLoop
  <2> QED
    BY <2>1 DEF IsCopyIt
<1> HIDE DEF c, bl
<1>2. bl \in Nat /\ ob <= bl /\ n * u >= ob + bl
  BY DEF bl
<1>3. ASSUME NEW i \in 1..n
      PROVE  bytes_to_send(m, ob, u, i-1, c[i-1]) =
               (IF bl - c[i-1] < u THEN bl - c[i-1] ELSE u) - (IF i = 1 THEN ob ELSE 0)
  <2>1. i - 1 = 0 <=> i = 1
    OBVIOUS
  <2> QED
    BY <2>1 DEF bytes_to_send, Smaller, bl
<1>4. 0 \in T
  BY <1>1, <1>2
<1>5. ASSUME NEW i \in 1..n, i - 1 \in T PROVE i \in T
  <2>1. c[i] = c[i-1] + ((IF bl - c[i-1] < u THEN bl - c[i-1] ELSE u) - (IF i = 1 THEN ob ELSE 0))
    BY <1>1, <1>3
  <2>2. CASE i = 1
    BY <1>1, <1>2, <2>1, <2>2
  <2>3. CASE i # 1
    <3>1. c[i-1] \in 0..bl /\ i - 1 > 0
      BY <1>5, <2>3
    <3>2. CASE c[i-1] = bl
      BY <1>2, <2>1, <2>3, <3>2
    <3>3. CASE c[i-1] = (i-1) * u - ob
      <4>1. (i-1) * u + u = i * u
        OBVIOUS
      <4>2. i * u \in Int /\ (i-1) * u \in Int
        OBVIOUS
      <4>3. c[i] = bl \/ c[i] = c[i-1] + u
        BY <1>2, <2>1, <2>3, <3>1
      <4>4. c[i] \in 0..bl
        BY <1>2, <2>1, <2>3, <3>1
      <4> QED
        BY <2>3, <3>1, <3>3, <4>1, <4>2, <4>3, <4>4
    <3>4. CASE i - 1 = 1 /\ bl < u /\ c[i-1] = bl - ob
      BY <1>2, <2>1, <2>3, <3>1, <3>4
    <3> QED
      BY <1>5, <3>1, <3>2, <3>3, <3>4
  <2> QED
    BY <2>2, <2>3
<1>6. \A i \in 0..n : i \in T
  <2> HIDE DEF T
  <2> QED
    BY <1>4, <1>5, UpTo
<1>7. \A i \in 0..n : c[i] \in 0..bl
  BY <1>6
<1>8. c[n] = bl
  <2>1. n \in T /\ n > 0 /\ n # 1 /\ c[n] \in 0..bl
    BY <1>6, <1>7
  <2>2. c[n] = bl \/ c[n] = n * u - ob
    BY <2>1
  <2>3. n * u \in Int
    OBVIOUS
  <2> QED
    BY <1>2, <2>1, <2>2, <2>3
<1>9. ASSUME NEW i \in 1..n
      PROVE  /\ bytes_to_send(m, ob, u, i-1, c[i-1]) \in 0..u
             /\ i = 1 => bytes_to_send(m, ob, u, i-1, c[i-1]) + ob <= u
  <2>1. c[i-1] \in 0..bl /\ (i = 1 => c[i-1] = 0)
    BY <1>1, <1>7
  <2> QED
    BY <1>2, <1>3, <2>1
<1> QED
  BY <1>7, <1>8, <1>9 DEF c, bl

-----------------------------------------------------------------------------
(* The segments of a message: how many there are, where segment j starts in *)
(* the buffer, how many bytes it carries, and its options.                  *)
Start(m, mtu_, j) ==
  LET n == NumberOfSegments(m, mtu_)
  IN IF n = 1 THEN 0 ELSE CopyIt(m, OptionBytes(m), Usable(mtu_), n)[j-1]

Bytes(m, mtu_, j) ==
  IF NumberOfSegments(m, mtu_) = 1 THEN m.buffer_len
  ELSE bytes_to_send(m, OptionBytes(m), Usable(mtu_), j - 1, Start(m, mtu_, j))

OptionsOf(m, j) == IF j = 1 THEN build_message_options(m) ELSE <<>>

Segmentation(j, n) ==
  IF n = 1 THEN [type |-> NotSegmented, num |-> NotSegmented, last |-> NotSegmented]
  ELSE [type |-> UNYTE_TYPE_SEGMENTATION, num |-> j - 1, last |-> IF j = n THEN 1 ELSE 0]

SegmentationBytes(n) == IF n = 1 THEN 0 ELSE UNYTE_SEGMENTATION_OPTION_LEN

SegmentOf(m, mtu_, j) ==
  LET n == NumberOfSegments(m, mtu_)
  IN Segment(m, Segmentation(j, n), OptionsOf(m, j), SegmentationBytes(n),
             Start(m, mtu_, j), Bytes(m, mtu_, j))

(* build_message makes one segment, or n of them (lines 327-466).           *)
LEMMA MessageBuilt ==
  ASSUME NEW m \in Messages, NEW mtu_ \in Nat, mtu_ > 16
  PROVE  LET q == build_message(m, mtu_)
             n == NumberOfSegments(m, mtu_)
         IN /\ n \in Nat \ {0}
            /\ n = 1 <=> HEADER_BYTES + OptionBytes(m) + m.buffer_len <= mtu_
            /\ Len(q) = n /\ q # <<>>
            /\ \A j \in 1..n : q[j] = SegmentOf(m, mtu_, j)
<1> DEFINE q == build_message(m, mtu_)
           n == NumberOfSegments(m, mtu_)
           ob == OptionBytes(m)
           b == build_message_options(m)
<1>1. ob \in Nat /\ m.buffer_len \in Nat
  BY OptionsBuilt, MessagesAssumption
<1>2. ob + m.buffer_len \in Nat
  BY <1>1
<1>3. /\ HEADER_BYTES + (ob + m.buffer_len) <= mtu_ => n = 1
      /\ HEADER_BYTES + (ob + m.buffer_len) > mtu_ => n \in Nat /\ n >= 2
  BY <1>2, EnoughSegments DEF NumberOfSegments
<1> HIDE DEF ob, n
<1>4. n \in Nat \ {0} /\ (n = 1 <=> HEADER_BYTES + ob + m.buffer_len <= mtu_)
  BY <1>1, <1>3 DEF HEADER_BYTES
<1>5. q = IF n = 1 THEN UnsegmentedMessage(m, b) ELSE SegmentedMessage(m, b, mtu_, n)
  BY DEF build_message, n, NumberOfSegments, OptionBytes
<1>6. CASE n = 1
  <2>1. q = <<Segment(m, Segmentation(1, 1), b, 0, 0, m.buffer_len)>>
    BY <1>5, <1>6 DEF UnsegmentedMessage, Segmentation
  <2>2. SegmentOf(m, mtu_, 1) = Segment(m, Segmentation(1, 1), b, 0, 0, m.buffer_len)
    BY <1>6 DEF SegmentOf, n, OptionsOf, SegmentationBytes, Start, Bytes
  <2> HIDE DEF q
  <2>3. Len(q) = 1 /\ q # <<>> /\ q[1] = SegmentOf(m, mtu_, 1)
    BY <2>1, <2>2
  <2> QED
    BY <1>4, <1>6, <2>3 DEF n, q, ob
<1>7. CASE n # 1
  <2> DEFINE s(j) == Segment(m, Segmentation(j, n), OptionsOf(m, j), SegmentationBytes(n),
                             CopyIt(m, ob, Usable(mtu_), n)[j-1],
                             bytes_to_send(m, ob, Usable(mtu_), j - 1,
                                           CopyIt(m, ob, Usable(mtu_), n)[j-1]))
  <2>1. q = [j \in 1..n |-> s(j)]
    BY <1>5, <1>7 DEF SegmentedMessage, Segmentation, OptionsOf, SegmentationBytes,
                      Usable, ob, OptionBytes
  <2>2. \A j \in 1..n : s(j) = SegmentOf(m, mtu_, j)
    BY <1>7 DEF SegmentOf, n, Start, Bytes, ob
  <2> HIDE DEF s, q
  <2>3. \A j \in 1..n : q[j] = SegmentOf(m, mtu_, j)
    BY <2>1, <2>2
  <2>4. Len(q) = n /\ q # <<>>
    <3>1. q \in Seq({s(j) : j \in 1..n}) /\ DOMAIN q = 1..n
      BY <1>4, <2>1, SeqDef
    <3>2. Len(q) = n
      BY <1>4, <3>1, LenProperties
    <3> QED
      BY <1>4, <3>2, EmptySeq
  <2> QED
    BY <1>4, <2>3, <2>4 DEF n, q, ob
<1> QED
  BY <1>6, <1>7

(* The fields of a segment.                                                 *)
LEMMA SegmentFields ==
  ASSUME NEW m, NEW mtu_, NEW j
  PROVE  LET h == SegmentOf(m, mtu_, j)
             n == NumberOfSegments(m, mtu_)
         IN /\ h.version = m.version /\ h.space = m.space /\ h.media_type = m.media_type
            /\ h.observation_domain_id = m.observation_domain_id
            /\ h.message_id = m.message_id
            /\ h.options = OptionsOf(m, j)
            /\ h.header_length = (HEADER_BYTES + SegmentationBytes(n)
                                  + options_total_bytes(OptionsOf(m, j))) % 2^8
            /\ h.message_length = Bytes(m, mtu_, j) % 2^16
            /\ h.f_type = Segmentation(j, n).type
            /\ h.f_num = Segmentation(j, n).num
            /\ h.f_last = Segmentation(j, n).last
            /\ h.payload.from = Start(m, mtu_, j)
            /\ h.payload.len = Bytes(m, mtu_, j)
BY DEF SegmentOf, Segment

(* A number written in two bytes, or in four, is read back.                 *)
LEMMA BigEndian2RoundTrip ==
  ASSUME NEW y \in 0..2^16-1
  PROVE  FromBigEndian2(BigEndian2(y)) = y
<1>1. FromBigEndian2(BigEndian2(y)) = ((y \div 2^8) % 2^8) * 2^8 + (y % 2^8)
  BY DEF FromBigEndian2, BigEndian2
<1>2. ((y \div 2^8) % 2^8) * 2^8 + (y % 2^8) = y
  BY SMT
<1> QED
  BY <1>1, <1>2, Zenon

LEMMA BigEndian4RoundTrip ==
  ASSUME NEW id, IsUint32(id)
  PROVE  FromBigEndian4(BigEndian4(id)) = id
<1>1. id \in Nat /\ id \div 2^16 < 2^16
  BY DEF IsUint32
<1>2. FromBigEndian4(BigEndian4(id)) =
        ((id \div 2^24) % 2^8) * 2^24 + ((id \div 2^16) % 2^8) * 2^16
        + ((id \div 2^8) % 2^8) * 2^8 + (id % 2^8)
  BY DEF FromBigEndian4, BigEndian4
<1>3. ((id \div 2^24) % 2^8) * 2^24 + ((id \div 2^16) % 2^8) * 2^16
      + ((id \div 2^8) % 2^8) * 2^8 + (id % 2^8) = id
  BY <1>1, SMT
<1> QED
  BY <1>2, <1>3, Zenon

(* The fields of the header that both ends lay out in the same way.         *)
LEMMA HeaderRoundTrip ==
  ASSUME NEW h, h.version \in 0..2^3-1, h.space \in {0, 1}, h.media_type \in 0..2^4-1,
         IsUint32(h.observation_domain_id), IsUint32(h.message_id)
  PROVE  LET x == parse_with_metadata(serialize_message(h)) IN
         /\ x.version = h.version
         /\ x.media_type = h.media_type
         /\ x.observation_domain_id = h.observation_domain_id
         /\ x.message_id = h.message_id
<1> DEFINE p == serialize_message(h)
           x == parse_with_metadata(p)
<1>1. /\ p.first = FirstByte(h)
      /\ p.observation_domain_id = BigEndian4(h.observation_domain_id)
      /\ p.message_id = BigEndian4(h.message_id)
  BY DEF serialize_message
<1> HIDE DEF p
<1>2. /\ x.version = p.first \div 2^5 /\ x.media_type = p.first % 2^4
      /\ x.observation_domain_id = FromBigEndian4(p.observation_domain_id)
      /\ x.message_id = FromBigEndian4(p.message_id)
  BY DEF parse_with_metadata
<1> HIDE DEF x
<1>3. /\ FirstByte(h) \div 2^5 = h.version /\ FirstByte(h) % 2^4 = h.media_type
      /\ FirstByte(h) \in Int
  <2> DEFINE v == h.version
             s == h.space
             t == h.media_type
  <2>1. v \in 0..2^3-1 /\ s \in {0, 1} /\ t \in 0..2^4-1
    OBVIOUS
  <2>2. FirstByte(h) = (v * 2^5 + s * 2^4 + t) % 2^8
    BY DEF FirstByte
  <2> HIDE DEF v, s, t
  <2>3. (v * 2^5 + s * 2^4 + t) % 2^8 = v * 2^5 + s * 2^4 + t
    BY <2>1, SMT
  <2>4. (v * 2^5 + s * 2^4 + t) \div 2^5 = v /\ (v * 2^5 + s * 2^4 + t) % 2^4 = t
    BY <2>1, SMT
  <2> QED
    BY <2>1, <2>2, <2>3, <2>4, SMT DEF v, t
<1>4. /\ x.observation_domain_id = h.observation_domain_id /\ x.message_id = h.message_id
  BY <1>1, <1>2, BigEndian4RoundTrip
<1>5. x.version = h.version /\ x.media_type = h.media_type
  BY <1>1, <1>2, <1>3
<1> QED
  BY <1>4, <1>5 DEF x, p

(* The payload, and the length, when header_length counts the header.       *)
LEMMA PayloadRoundTrip ==
  ASSUME NEW h, h.options \in Options, CountsOptions(h),
         h.payload.from \in Nat, h.payload.len \in Nat, h.message_length = h.payload.len,
         h.header_length + h.message_length < 2^16
  PROVE  LET p == serialize_message(h)
             x == parse_with_metadata(p)
         IN /\ x.header_length = h.header_length
            /\ x.payload.from = h.payload.from /\ x.payload.len = h.payload.len
            /\ p.sent = h.header_length + h.message_length
            /\ FromBigEndian2(p.length) = p.sent
<1> DEFINE p == serialize_message(h)
           x == parse_with_metadata(p)
           at == HEADER_BYTES + options_total_bytes(p.options)
<1>1. /\ p.header_length = h.header_length /\ p.sent = h.header_length + h.message_length
      /\ p.payload = h.payload /\ p.payload_at = at
      /\ p.length = BigEndian2(at + h.message_length)
  BY DEF serialize_message
<1>2. /\ options_total_bytes(h.options) \in Nat /\ Behind(h) \in {0, 1}
      /\ options_total_bytes(p.options) =
           options_total_bytes(h.options) + Behind(h) * UNYTE_SEGMENTATION_OPTION_LEN
  BY BytesWritten DEF Behind
<1>3. at = h.header_length /\ at \in Nat
  BY <1>2 DEF CountsOptions, HEADER_BYTES, UNYTE_SEGMENTATION_OPTION_LEN
<1> HIDE DEF p, at
<1>4. /\ x.header_length = p.header_length
      /\ x.payload.from = p.payload.from + (p.header_length - p.payload_at)
      /\ x.payload.len = FromBigEndian2(p.length) - p.header_length
  BY DEF parse_with_metadata
<1> HIDE DEF x
<1>5. at + h.message_length \in 0..2^16-1
  BY <1>3, SMT
<1>6. FromBigEndian2(p.length) = at + h.message_length
  BY <1>1, <1>5, BigEndian2RoundTrip
<1> QED
  BY <1>1, <1>3, <1>4, <1>6 DEF p, x

(* The segmentation option, for the numbers that 7 bits can count.          *)
LEMMA NumberRoundTrip ==
  ASSUME NEW h, h.f_num \in 0..2^7-1, h.f_last \in {0, 1}
  PROVE  /\ NumberOf(SegmentationOption(h)) = h.f_num
         /\ LastOf(SegmentationOption(h)) = h.f_last
<1> DEFINE i == h.f_num
           l == h.f_last
<1>1. /\ NumberOf(SegmentationOption(h)) =
           (((i \div 2^8) % 2^8) * 2^8 + ((i * 2 + l) % 2^8)) \div 2
      /\ LastOf(SegmentationOption(h)) = ((i * 2 + l) % 2^8) % 2
  BY DEF NumberOf, LastOf, SegmentationOption, FromBigEndian2
<1>2. i \in 0..2^7-1 /\ l \in {0, 1}
  OBVIOUS
<1> HIDE DEF i, l
<1>3. (i \div 2^8) % 2^8 = 0 /\ (i * 2 + l) % 2^8 = i * 2 + l
  BY <1>2, SMT
<1>4. (i * 2 + l) \div 2 = i /\ (i * 2 + l) % 2 = l
  BY <1>2, SMT
<1>5. (((i \div 2^8) % 2^8) * 2^8 + ((i * 2 + l) % 2^8)) \div 2 = i
  BY <1>2, <1>3, <1>4, SMT
<1> QED
  BY <1>1, <1>3, <1>4, <1>5 DEF i, l

-----------------------------------------------------------------------------
(* The options fit in the first segment and in the buffer, in which case    *)
(* the segments are consecutive pieces of the buffer, within the MTU.       *)
RoomForOptions(m, mtu_) ==
  NumberOfSegments(m, mtu_) = 1 \/ OptionBytes(m) <= Smaller(m.buffer_len, Usable(mtu_))

LEMMA Pieces ==
  ASSUME NEW m \in Messages, NEW mtu_ \in Nat, mtu_ > 16, RoomForOptions(m, mtu_)
  PROVE  LET n == NumberOfSegments(m, mtu_) IN
         /\ \A j \in 1..n : Start(m, mtu_, j) \in Nat /\ Bytes(m, mtu_, j) \in Nat
         /\ Start(m, mtu_, 1) = 0
         /\ \A j \in 2..n : Start(m, mtu_, j) = Start(m, mtu_, j-1) + Bytes(m, mtu_, j-1)
         /\ Start(m, mtu_, n) + Bytes(m, mtu_, n) = m.buffer_len
         /\ \A j \in 1..n : HEADER_BYTES + SegmentationBytes(n)
                            + (IF j = 1 THEN OptionBytes(m) ELSE 0) + Bytes(m, mtu_, j) <= mtu_
<1> DEFINE n == NumberOfSegments(m, mtu_)
           ob == OptionBytes(m)
           bl == m.buffer_len
           u == Usable(mtu_)
           c == CopyIt(m, ob, u, n)
           S(j) == Start(m, mtu_, j)
           B(j) == Bytes(m, mtu_, j)
<1>1. ob \in Nat /\ bl \in Nat /\ m.buffer_len \in Nat
  BY OptionsBuilt, MessagesAssumption
<1>2. /\ n \in Nat \ {0} /\ (n = 1 <=> HEADER_BYTES + ob + bl <= mtu_)
  BY MessageBuilt
<1>3. u \in Nat \ {0} /\ u + 16 = mtu_
  BY DEF Usable, HEADER_BYTES, UNYTE_SEGMENTATION_OPTION_LEN
<1>4. CASE n = 1
  <2>1. \A j : S(j) = 0 /\ B(j) = bl
    BY <1>4 DEF Start, Bytes
  <2>2. SegmentationBytes(n) = 0
    BY <1>4 DEF SegmentationBytes
  <2> HIDE DEF S, B
  <2>3. HEADER_BYTES + ob + bl <= mtu_
    BY <1>2, <1>4
  <2> HIDE DEF n, ob, bl
  <2>4. \A j \in 1..n : S(j) \in Nat /\ B(j) \in Nat
    BY <1>1, <2>1
  <2>5. S(n) + B(n) = bl /\ S(1) = 0 /\ \A j \in 2..n : S(j) = S(j-1) + B(j-1)
    BY <1>1, <1>4, <2>1
  <2>6. \A j \in 1..n :
          HEADER_BYTES + SegmentationBytes(n) + (IF j = 1 THEN ob ELSE 0) + B(j) <= mtu_
    BY <1>1, <1>4, <2>1, <2>2, <2>3 DEF HEADER_BYTES
  <2> QED
    BY <2>4, <2>5, <2>6 DEF n, ob, bl, S, B
<1>5. CASE n # 1
  <2>1. ob <= bl /\ ob <= u
    <3>1. ob <= Smaller(bl, u)
      BY <1>5 DEF RoomForOptions
    <3> HIDE DEF ob, u, bl
    <3> QED
      BY <1>1, <1>3, <3>1 DEF Smaller
  <2>2. n \in Nat /\ n >= 2 /\ n * u >= ob + bl
    <3>1. ob + bl \in Nat
      BY <1>1
    <3>2. HEADER_BYTES + (ob + bl) > mtu_
      <4> HIDE DEF n, ob, bl
      <4> QED
        BY <1>1, <1>2, <1>5 DEF HEADER_BYTES
    <3>3. HEADER_BYTES + (ob + bl) > mtu_ =>
            packets_to_send(ob + bl, mtu_) \in Nat /\ packets_to_send(ob + bl, mtu_) >= 2
            /\ packets_to_send(ob + bl, mtu_) * u >= ob + bl
      BY <3>1, EnoughSegments
    <3> QED
      BY <3>2, <3>3 DEF NumberOfSegments
  <2>3. \A j : S(j) = c[j-1] /\ B(j) = bytes_to_send(m, ob, u, j-1, c[j-1])
    BY <1>5 DEF Start, Bytes
  <2>4. c[0] = 0 /\ \A j \in 1..n : c[j] = c[j-1] + bytes_to_send(m, ob, u, j-1, c[j-1])
    <3>1. u \in Nat
      BY <1>3
    <3>2. IsCopyIt(c, m, ob, u, n)
      <4> HIDE DEF n, ob, u, S, B
      <4> QED
        BY <1>1, <2>2, <3>1, CopyItIsLoop DEF c
    <3> QED
      BY <3>2 DEF IsCopyIt
  <2>5. /\ \A j \in 0..n : c[j] \in 0..bl
        /\ \A j \in 1..n : bytes_to_send(m, ob, u, j-1, c[j-1]) \in 0..u
        /\ \A j \in 1..n : j = 1 => bytes_to_send(m, ob, u, j-1, c[j-1]) + ob <= u
        /\ c[n] = bl
    <3> HIDE DEF n, ob, u, S, B
    <3> QED
      BY <1>1, <1>3, <2>1, <2>2, CopyItCovers
  <2>6. SegmentationBytes(n) = 4
    BY <1>5 DEF SegmentationBytes, UNYTE_SEGMENTATION_OPTION_LEN
  <2> HIDE DEF S, B, n, ob, bl, u, c
  <2>7. \A j \in 1..n : S(j) \in Nat /\ B(j) \in Nat
    BY <1>1, <1>3, <2>2, <2>3, <2>5
  <2>8. \A j \in 1..n : c[j] = S(j) + B(j)
    BY <2>3, <2>4
  <2>9. S(1) = 0 /\ (\A j \in 2..n : S(j) = S(j-1) + B(j-1)) /\ S(n) + B(n) = bl
    BY <2>2, <2>3, <2>4, <2>5, <2>8
  <2>10. \A j \in 1..n :
           HEADER_BYTES + SegmentationBytes(n) + (IF j = 1 THEN ob ELSE 0) + B(j) <= mtu_
    BY <1>1, <1>3, <2>2, <2>3, <2>5, <2>6 DEF HEADER_BYTES
  <2> QED
    BY <2>7, <2>9, <2>10 DEF n, ob, bl, S, B
<1> QED
  BY <1>4, <1>5

(* Without that room the first segment is the one with less than nothing to *)
(* carry, so that a segment has a negative size exactly without the room.   *)
LEMMA NegativeSegment ==
  ASSUME NEW m \in Messages, NEW mtu_ \in Nat, mtu_ > 16
  PROVE  RoomForOptions(m, mtu_)
           <=> \A j \in 1..NumberOfSegments(m, mtu_) : ~(Bytes(m, mtu_, j) < 0)
<1> DEFINE n == NumberOfSegments(m, mtu_)
           ob == OptionBytes(m)
           bl == m.buffer_len
           u == Usable(mtu_)
<1>1. CASE RoomForOptions(m, mtu_)
  <2>1. \A j \in 1..n : Bytes(m, mtu_, j) \in Nat
    BY <1>1, Pieces
  <2> QED
    BY <1>1, <2>1
<1>2. CASE ~RoomForOptions(m, mtu_)
  <2>1. ob \in Nat /\ bl \in Nat /\ m.buffer_len \in Nat /\ n \in Nat \ {0}
    BY OptionsBuilt, MessagesAssumption, MessageBuilt
  <2>2. u \in Nat
    BY DEF Usable, HEADER_BYTES, UNYTE_SEGMENTATION_OPTION_LEN
  <2>3. n # 1 /\ ~(ob <= Smaller(bl, u))
    BY <1>2 DEF RoomForOptions
  <2>4. Start(m, mtu_, 1) = 0
    <3>1. IsCopyIt(CopyIt(m, ob, u, n), m, ob, u, n)
      <4> HIDE DEF ob, u, n
      <4> QED
        BY <2>1, <2>2, CopyItIsLoop
    <3>2. Start(m, mtu_, 1) = CopyIt(m, ob, u, n)[0]
      BY <2>3 DEF Start
    <3> QED
      BY <3>1, <3>2 DEF IsCopyIt
  <2>5. Bytes(m, mtu_, 1) = Smaller(bl, u) - ob
    <3>1. Bytes(m, mtu_, 1) = Smaller(bl - 0, u) - ob
      BY <2>3, <2>4 DEF Bytes, bytes_to_send
    <3> HIDE DEF ob, u, n
    <3>2. bl - 0 = bl
      BY <2>1
    <3> QED
      BY <3>1, <3>2
  <2>6. 1 \in 1..n
    BY <2>1
  <2>7. Bytes(m, mtu_, 1) < 0
    <3> HIDE DEF ob, u, n, bl
    <3> QED
      BY <2>1, <2>2, <2>3, <2>5 DEF Smaller
  <2> QED
    BY <1>2, <2>6, <2>7
<1> QED
  BY <1>1, <1>2

-----------------------------------------------------------------------------
(* What the collector reads of a segment.                                   *)
LEMMA SegmentHeaderRead ==
  ASSUME NEW m \in Messages, NEW mtu_, NEW j
  PROVE  LET x == parse_with_metadata(serialize_message(SegmentOf(m, mtu_, j))) IN
         /\ x.version = m.version
         /\ x.media_type = m.media_type
         /\ x.observation_domain_id = m.observation_domain_id
         /\ x.message_id = m.message_id
<1> DEFINE h == SegmentOf(m, mtu_, j)
<1>1. /\ h.version = m.version /\ h.space = m.space /\ h.media_type = m.media_type
      /\ h.observation_domain_id = m.observation_domain_id /\ h.message_id = m.message_id
  BY SegmentFields
<1>2. /\ m.version \in 0..2^3-1 /\ m.space \in {0, 1} /\ m.media_type \in 0..2^4-1
      /\ IsUint32(m.observation_domain_id) /\ IsUint32(m.message_id)
  BY MessagesAssumption
<1> HIDE DEF h
<1>3. /\ h.version \in 0..2^3-1 /\ h.space \in {0, 1} /\ h.media_type \in 0..2^4-1
      /\ IsUint32(h.observation_domain_id) /\ IsUint32(h.message_id)
  BY <1>1, <1>2, Zenon
<1>4. LET x == parse_with_metadata(serialize_message(h)) IN
      /\ x.version = h.version
      /\ x.media_type = h.media_type
      /\ x.observation_domain_id = h.observation_domain_id
      /\ x.message_id = h.message_id
  BY <1>3, HeaderRoundTrip
<1> QED
  BY <1>1, <1>4 DEF h

(* The header of the first segment, the longest, is one that a byte counts. *)
HeaderCounts(m, mtu_) ==
  HEADER_BYTES + OptionBytes(m) + SegmentationBytes(NumberOfSegments(m, mtu_)) < 2^8

LEMMA SegmentCounts ==
  ASSUME NEW m \in Messages, NEW mtu_ \in Nat, mtu_ > 16, HeaderCounts(m, mtu_), NEW j \in Nat
  PROVE  LET h == SegmentOf(m, mtu_, j)
             n == NumberOfSegments(m, mtu_)
         IN /\ h.options \in Options /\ h.options = OptionsOf(m, j) /\ CountsOptions(h)
            /\ IsSegmented(h) <=> n # 1
            /\ h.header_length = HEADER_BYTES + SegmentationBytes(n)
                                 + (IF j = 1 THEN OptionBytes(m) ELSE 0)
<1> DEFINE h == SegmentOf(m, mtu_, j)
           n == NumberOfSegments(m, mtu_)
           ob == OptionBytes(m)
           o == options_total_bytes(OptionsOf(m, j))
           sb == SegmentationBytes(n)
<1>1. h.options = OptionsOf(m, j) /\ h.header_length = (HEADER_BYTES + sb + o) % 2^8
  BY SegmentFields
<1>2. ob \in Nat /\ HEADER_BYTES + ob + sb < 2^8
  BY OptionsBuilt DEF HeaderCounts
<1>3. o = IF j = 1 THEN ob ELSE 0
  BY TotalBytes DEF OptionsOf, OptionBytes
<1>4. h.options \in Options
  <2>1. <<>> \in Options
    BY EmptySeq DEF Options
  <2> QED
    BY <1>1, <2>1, OptionsBuilt DEF OptionsOf
<1>5. sb = IF n = 1 THEN 0 ELSE 4
  BY DEF SegmentationBytes, UNYTE_SEGMENTATION_OPTION_LEN
<1>6. Behind(h) = (IF IsSegmented(h) THEN 1 ELSE 0)
      /\ (IsSegmented(h) <=> h.header_length > HEADER_BYTES + o)
  BY <1>1 DEF Behind, IsSegmented
<1> HIDE DEF h, n, ob, o, sb
<1>7. HEADER_BYTES + sb + o \in 0..2^8-1
  BY <1>2, <1>3, <1>5, SMT DEF HEADER_BYTES
<1>8. h.header_length = HEADER_BYTES + sb + o
  BY <1>1, <1>7, SMT
<1>9. IsSegmented(h) <=> n # 1
  BY <1>2, <1>3, <1>5, <1>6, <1>8 DEF HEADER_BYTES
<1>10. CountsOptions(h)
  BY <1>1, <1>2, <1>3, <1>5, <1>6, <1>8, <1>9 DEF CountsOptions, o, HEADER_BYTES,
     UNYTE_SEGMENTATION_OPTION_LEN
<1> QED
  BY <1>1, <1>3, <1>4, <1>8, <1>9, <1>10 DEF h, n, ob, o, sb

(* Options the parser can read: none is taken for a segmentation option,    *)
(* and the length of each, with its two bytes, fits in its byte.            *)
PlainMessage(m) ==
  \A j \in 1..Len(m.options) :
     m.options[j].type # UNYTE_TYPE_SEGMENTATION /\ m.options[j].data_length <= 253

LEMMA SegmentOptionsRead ==
  ASSUME NEW m \in Messages, NEW mtu_ \in Nat, mtu_ > 16, HeaderCounts(m, mtu_),
         PlainMessage(m), NEW j \in 1..NumberOfSegments(m, mtu_)
  PROVE  LET x == parse_with_metadata(serialize_message(SegmentOf(m, mtu_, j)))
             n == NumberOfSegments(m, mtu_)
         IN /\ x.options = OptionsOf(m, j)
            /\ IsSegmented(x) <=> n # 1
            /\ n # 1 /\ n <= 2^7 =>
                 x.f_num = j - 1 /\ x.f_last = IF j = n THEN 1 ELSE 0
<1> DEFINE h == SegmentOf(m, mtu_, j)
           n == NumberOfSegments(m, mtu_)
           x == parse_with_metadata(serialize_message(h))
<1>1. n \in Nat \ {0} /\ j \in Nat
  BY MessageBuilt
<1>2. h.options \in Options /\ h.options = OptionsOf(m, j) /\ CountsOptions(h)
      /\ (IsSegmented(h) <=> n # 1)
  BY <1>1, SegmentCounts
<1>3. /\ h.f_type = Segmentation(j, n).type /\ h.f_num = Segmentation(j, n).num
      /\ h.f_last = Segmentation(j, n).last
  BY SegmentFields
<1>4. n # 1 => /\ h.f_type = UNYTE_TYPE_SEGMENTATION /\ h.f_num = j - 1
               /\ h.f_last = IF j = n THEN 1 ELSE 0
  BY <1>3 DEF Segmentation
<1>5. PlainOptions(OptionsOf(m, j))
  <2>1. CASE j = 1
    <3> DEFINE b == build_message_options(m)
               O == m.options
    <3>1. OptionsOf(m, j) = b
      BY <2>1 DEF OptionsOf
    <3>2. O \in Seq([type : 0..2^8-1, data_length : 0..2^8-1])
      BY MessagesAssumption
    <3>3. Len(b) = Len(O) /\ \A k \in 1..Len(O) :
            b[k].type = O[k].type /\ b[k].length = (O[k].data_length + 2) % 2^8
      BY OptionsBuilt
    <3>4. \A k \in 1..Len(O) : O[k].type # UNYTE_TYPE_SEGMENTATION /\ O[k].data_length <= 253
      BY DEF PlainMessage
    <3> HIDE DEF b, O
    <3>5. ASSUME NEW k \in 1..Len(b) PROVE b[k].type # UNYTE_TYPE_SEGMENTATION /\ b[k].length > 0
      <4> DEFINE d == O[k].data_length
      <4>1. k \in 1..Len(O) /\ O \in [1..Len(O) -> [type : 0..2^8-1, data_length : 0..2^8-1]]
        BY <3>2, <3>3, LenProperties
      <4>2. O[k] \in [type : 0..2^8-1, data_length : 0..2^8-1]
        BY <4>1
      <4>3. d \in 0..2^8-1 /\ d <= 253
        BY <3>4, <4>1, <4>2
      <4>4. b[k].type # UNYTE_TYPE_SEGMENTATION /\ b[k].length = (d + 2) % 2^8
        BY <3>3, <3>4, <4>1
      <4> HIDE DEF d
      <4>5. (d + 2) % 2^8 = d + 2 /\ d + 2 > 0
        BY <4>3, SMT
      <4> QED
        BY <4>4, <4>5
    <3> QED
      BY <3>1, <3>5 DEF PlainOptions
  <2>2. CASE j # 1
    <3>1. OptionsOf(m, j) = <<>>
      BY <2>2 DEF OptionsOf
    <3>2. Len(<<>>) = 0
      BY EmptySeq
    <3> QED
      BY <3>1, <3>2 DEF PlainOptions
  <2> QED
    BY <2>1, <2>2
<1> HIDE DEF h
<1>6. /\ x.options = h.options
      /\ IsSegmented(h) => /\ x.f_num = NumberOf(SegmentationOption(h))
                           /\ x.f_last = LastOf(SegmentationOption(h))
  BY <1>2, <1>4, <1>5, OptionsRoundTrip
<1>7. x.header_length = h.header_length
  BY DEF parse_with_metadata, serialize_message
<1> HIDE DEF x
<1>8. IsSegmented(x) <=> IsSegmented(h)
  BY <1>6, <1>7 DEF IsSegmented
<1>9. ASSUME n # 1, n <= 2^7 PROVE x.f_num = j - 1 /\ x.f_last = IF j = n THEN 1 ELSE 0
  <2>1. h.f_num \in 0..2^7-1 /\ h.f_last \in {0, 1}
    <3> HIDE DEF n
    <3>1. j - 1 \in 0..2^7-1
      BY <1>1, <1>9 DEF n
    <3> QED
      BY <1>4, <1>9, <3>1
  <2>2. x.f_num = h.f_num /\ x.f_last = h.f_last
    BY <1>2, <1>6, <1>9, <2>1, NumberRoundTrip
  <2> QED
    BY <1>4, <1>9, <2>2
<1> QED
  BY <1>2, <1>6, <1>8, <1>9 DEF x, h

LEMMA SegmentPayloadRead ==
  ASSUME NEW m \in Messages, NEW mtu_ \in Nat, mtu_ > 16, mtu_ < 2^16,
         HeaderCounts(m, mtu_), RoomForOptions(m, mtu_),
         NEW j \in 1..NumberOfSegments(m, mtu_)
  PROVE  LET p == serialize_message(SegmentOf(m, mtu_, j))
             x == parse_with_metadata(p)
         IN /\ x.payload.from = Start(m, mtu_, j) /\ x.payload.len = Bytes(m, mtu_, j)
            /\ p.sent <= mtu_
            /\ FromBigEndian2(p.length) = p.sent
<1> DEFINE h == SegmentOf(m, mtu_, j)
           n == NumberOfSegments(m, mtu_)
           front == HEADER_BYTES + SegmentationBytes(n) + (IF j = 1 THEN OptionBytes(m) ELSE 0)
           B == Bytes(m, mtu_, j)
<1>1. n \in Nat \ {0} /\ j \in Nat /\ OptionBytes(m) \in Nat
  BY MessageBuilt, OptionsBuilt
<1>2. h.options \in Options /\ CountsOptions(h) /\ h.header_length = front
  BY <1>1, SegmentCounts
<1>3. /\ h.message_length = B % 2^16
      /\ h.payload.from = Start(m, mtu_, j) /\ h.payload.len = B
  BY SegmentFields
<1>4. Start(m, mtu_, j) \in Nat /\ B \in Nat /\ front + B <= mtu_
  BY Pieces
<1>5. front \in Nat
  BY <1>1 DEF HEADER_BYTES, SegmentationBytes, UNYTE_SEGMENTATION_OPTION_LEN
<1> HIDE DEF h, front, B
<1>6. h.message_length = B
  <2>1. B \in 0..2^16-1
    BY <1>4, <1>5, SMT
  <2>2. B % 2^16 = B
    BY <2>1, SMT
  <2> QED
    BY <1>3, <2>2
<1>7. h.header_length + h.message_length <= mtu_ /\ h.header_length + h.message_length < 2^16
  BY <1>2, <1>4, <1>5, <1>6, SMT
<1>8. LET p == serialize_message(h)
          x == parse_with_metadata(p)
      IN /\ x.payload.from = h.payload.from /\ x.payload.len = h.payload.len
         /\ p.sent = h.header_length + h.message_length
         /\ FromBigEndian2(p.length) = p.sent
  BY <1>2, <1>3, <1>4, <1>6, <1>7, PayloadRoundTrip
<1> QED
  BY <1>3, <1>7, <1>8 DEF h, B

-----------------------------------------------------------------------------
(* The inductive invariant of Sender.  sent(j) is the datagram of segment j *)
(* and read(j) what the collector makes of it.                              *)
SentOf(j) == serialize_message(packets[j])

ReadOf(j) == parse_with_metadata(SentOf(j))

LegacyDatagram ==
  [first |-> message.version * 2^4, encoding |-> message.encoding,
   length |-> BigEndian2(HEADER_BYTES + message.buffer_len),
   observation_domain_id |-> BigEndian4(message.observation_domain_id),
   message_id |-> BigEndian4(message.message_id),
   payload_at |-> HEADER_BYTES,
   payload |-> [from |-> 0, len |-> message.buffer_len]]

LegacySegments ==
  {parse_with_metadata_legacy(LegacyDatagram, media_type) :
     media_type \in get_encoding_IANA_ET_from_legacy(message.encoding)}

TypeOK ==
  /\ legacy \in BOOLEAN
  /\ message \in IF legacy THEN LegacyMessages ELSE Messages
  /\ default_mtu \in DefaultMtus
  /\ sender \in {"idle", "sending", "done", "crashed"}
  /\ it \in Nat /\ it <= Len(packets)

(* packets is what build_message makes of the message, and the sender stops *)
(* there when the options have no room.                                     *)
PacketsBuilt ==
  /\ packets = IF legacy \/ sender = "idle" THEN <<>> ELSE build_message(message, mtu)
  /\ ~legacy /\ sender \in {"sending", "done"} => RoomForOptions(message, mtu)
  /\ sender = "crashed" => ~legacy /\ ~RoomForOptions(message, mtu)

(* The segments sent are those the collector parsed and those on their way, *)
(* in their order.                                                          *)
InTransit ==
  ~legacy =>
    /\ parsed \in Seq({ReadOf(j) : j \in 1..Len(packets)})
    /\ wire \in Seq({SentOf(j) : j \in 1..Len(packets)})
    /\ Len(parsed) + Len(wire) = it
    /\ \A j \in 1..Len(parsed) : parsed[j] = ReadOf(j)
    /\ \A j \in 1..Len(wire) : wire[j] = SentOf(Len(parsed) + j)
    /\ sender \in {"idle", "crashed"} => it = 0
    /\ sender = "done" => it = Len(packets)

LegacyInTransit ==
  legacy => wire \in Seq({LegacyDatagram}) /\ parsed \in Seq(LegacySegments)

SenderInv == TypeOK /\ PacketsBuilt /\ InTransit /\ LegacyInTransit

(* The MTU has room for a segment (lines 98-103 of unyte_sender.c).         *)
LEMMA MtuHasRoom ==
  ASSUME message \in Messages, default_mtu \in DefaultMtus
  PROVE  mtu \in Nat /\ mtu > 16
<1>1. /\ message.used_mtu \in Nat /\ (message.used_mtu = 0 \/ message.used_mtu > 16)
      /\ default_mtu \in Nat /\ (default_mtu = 0 \/ default_mtu > 16)
  BY MessagesAssumption
<1> QED
  BY <1>1 DEF mtu, DEFAULT_MTU

LEMMA SenderInit == Init => SenderInv
<1> SUFFICES ASSUME Init PROVE SenderInv
  OBVIOUS
<1>1. /\ legacy \in BOOLEAN /\ message \in (IF legacy THEN LegacyMessages ELSE Messages)
      /\ default_mtu \in DefaultMtus /\ sender = "idle"
      /\ packets = <<>> /\ wire = <<>> /\ parsed = <<>> /\ it = 0
  BY DEF Init
<1>2. Len(<<>>) = 0 /\ \A S : <<>> \in Seq(S)
  BY EmptySeq
<1>3. TypeOK
  BY <1>1, <1>2 DEF TypeOK
<1>4. PacketsBuilt
  BY <1>1 DEF PacketsBuilt
<1>5. InTransit
  <2>1. Len(parsed) = 0 /\ Len(wire) = 0 /\ Len(packets) = 0
    BY <1>1, <1>2
  <2>2. /\ parsed \in Seq({ReadOf(j) : j \in 1..Len(packets)})
        /\ wire \in Seq({SentOf(j) : j \in 1..Len(packets)})
    BY <1>1, <1>2, Zenon
  <2> QED
    BY <1>1, <2>1, <2>2 DEF InTransit
<1>6. LegacyInTransit
  BY <1>1, <1>2, Zenon DEF LegacyInTransit
<1> QED
  BY <1>3, <1>4, <1>5, <1>6 DEF SenderInv

(* The definitions that only read the variables a step leaves alone.        *)
LEMMA SameMessage ==
  ASSUME UNCHANGED <<message, default_mtu, legacy>>
  PROVE  /\ mtu' = mtu /\ LegacyDatagram' = LegacyDatagram
         /\ LegacySegments' = LegacySegments
<1>1. message' = message /\ default_mtu' = default_mtu
  OBVIOUS
<1>2. mtu' = mtu /\ LegacyDatagram' = LegacyDatagram
  BY <1>1 DEF mtu, LegacyDatagram
<1> QED
  BY <1>1, <1>2 DEF LegacySegments

LEMMA BuildKeepsInv ==
  ASSUME SenderInv, Build
  PROVE  SenderInv'
<1>1. /\ sender = "idle" /\ ~legacy /\ packets' = build_message(message, mtu)
      /\ sender' = IF \E j \in 1..Len(packets') : packets'[j].payload.len < 0
                     THEN "crashed" ELSE "sending"
      /\ message' = message /\ default_mtu' = default_mtu /\ legacy' = legacy
      /\ it' = it /\ wire' = wire /\ parsed' = parsed
  BY DEF Build
<1>2. /\ legacy \in BOOLEAN /\ message \in Messages /\ default_mtu \in DefaultMtus
      /\ it = 0 /\ parsed \in Seq({ReadOf(j) : j \in 1..Len(packets)})
      /\ wire \in Seq({SentOf(j) : j \in 1..Len(packets)}) /\ Len(parsed) + Len(wire) = it
  BY <1>1 DEF SenderInv, TypeOK, InTransit
<1>3. wire = <<>> /\ parsed = <<>>
  <2>1. Len(wire) \in Nat /\ Len(parsed) \in Nat
    BY <1>2, LenProperties
  <2>2. Len(wire) = 0 /\ Len(parsed) = 0
    BY <1>2, <2>1
  <2> QED
    BY <1>2, <2>2, EmptySeq
<1>4. mtu' = mtu /\ mtu \in Nat /\ mtu > 16
  BY <1>1, <1>2, SameMessage, MtuHasRoom
<1> DEFINE n == NumberOfSegments(message, mtu)
<1>5. Len(packets') = n /\ n \in Nat \ {0} /\ \A j \in 1..n : packets'[j] = SegmentOf(message, mtu, j)
  BY <1>1, <1>2, <1>4, MessageBuilt
<1>6. \A j \in 1..n : packets'[j].payload.len = Bytes(message, mtu, j)
  BY <1>5, SegmentFields
<1>7. RoomForOptions(message, mtu) <=> \A j \in 1..n : ~(Bytes(message, mtu, j) < 0)
  BY <1>2, <1>4, NegativeSegment
<1>8. sender' = IF RoomForOptions(message, mtu) THEN "sending" ELSE "crashed"
  <2> HIDE DEF n
  <2> QED
    BY <1>1, <1>5, <1>6, <1>7
<1>9. TypeOK'
  BY <1>1, <1>2, <1>5, <1>8 DEF TypeOK
<1>10. PacketsBuilt'
  <2>1. RoomForOptions(message, mtu)' <=> RoomForOptions(message, mtu)
    BY <1>1, <1>4
  <2> QED
    BY <1>1, <1>4, <1>8, <2>1 DEF PacketsBuilt
<1>11. Len(<<>>) = 0 /\ \A S : <<>> \in Seq(S)
  BY EmptySeq
<1>12. InTransit'
  <2>1. wire' = <<>> /\ parsed' = <<>> /\ it' = 0 /\ Len(parsed') = 0 /\ Len(wire') = 0
    BY <1>1, <1>2, <1>3, <1>11
  <2>2. /\ parsed' \in Seq({ReadOf(j) : j \in 1..Len(packets)}')
        /\ wire' \in Seq({SentOf(j) : j \in 1..Len(packets)}')
    BY <1>11, <2>1, Zenon
  <2>3. sender' # "done"
    BY <1>8
  <2> QED
    BY <2>1, <2>2, <2>3 DEF InTransit
<1>13. LegacyInTransit'
  BY <1>1 DEF LegacyInTransit
<1> QED
  BY <1>9, <1>10, <1>12, <1>13 DEF SenderInv

(* A step that leaves packets and the message alone, and does not change    *)
(* where the sender stopped.                                                *)
LEMMA PacketsStay ==
  ASSUME PacketsBuilt, UNCHANGED <<message, default_mtu, legacy, packets>>,
         \/ sender' = sender
         \/ sender = "sending" /\ sender' = "done"
         \/ sender = "idle" /\ legacy /\ sender' = "done"
  PROVE  PacketsBuilt'
<1>1. mtu' = mtu
  BY SameMessage
<1>2. RoomForOptions(message, mtu)' <=> RoomForOptions(message, mtu)
  BY <1>1
<1>3. build_message(message, mtu)' = build_message(message, mtu)
  BY <1>1
<1> QED
  BY <1>2, <1>3 DEF PacketsBuilt

LEMMA SendSegmentKeepsInv ==
  ASSUME SenderInv, SendSegment
  PROVE  SenderInv'
<1>1. /\ sender = "sending" /\ it < Len(packets) /\ it' = it + 1
      /\ wire' = Append(wire, SentOf(it + 1))
      /\ message' = message /\ default_mtu' = default_mtu /\ legacy' = legacy
      /\ packets' = packets /\ parsed' = parsed /\ sender' = sender
  BY DEF SendSegment, SentOf
<1>2. it \in Nat
  BY DEF SenderInv, TypeOK
<1>3. ~legacy
  <2>1. CASE legacy
    <3>1. packets = <<>>
      BY <2>1 DEF SenderInv, PacketsBuilt
    <3>2. Len(packets) = 0
      BY <3>1, EmptySeq
    <3> QED
      BY <1>1, <1>2, <3>2
  <2> QED
    BY <2>1
<1>4. Len(packets) \in Nat
  BY <1>1, <1>3, MtuHasRoom, MessageBuilt DEF SenderInv, TypeOK, PacketsBuilt
<1>5. TypeOK'
  BY <1>1, <1>2, <1>4 DEF SenderInv, TypeOK
<1>6. PacketsBuilt'
  BY <1>1, PacketsStay DEF SenderInv
<1>7. InTransit'
  <2> DEFINE R == {ReadOf(j) : j \in 1..Len(packets)}
             S == {SentOf(j) : j \in 1..Len(packets)}
  <2>1. /\ parsed \in Seq(R) /\ wire \in Seq(S) /\ Len(parsed) + Len(wire) = it
        /\ \A j \in 1..Len(parsed) : parsed[j] = ReadOf(j)
        /\ \A j \in 1..Len(wire) : wire[j] = SentOf(Len(parsed) + j)
    BY <1>3 DEF SenderInv, InTransit
  <2>2. Len(parsed) \in Nat /\ Len(wire) \in Nat
    BY <2>1, LenProperties
  <2>3. SentOf(it + 1) \in S
    BY <1>1, <1>2, <1>4
  <2>4. \A j : SentOf(j)' = SentOf(j) /\ ReadOf(j)' = ReadOf(j)
    BY <1>1 DEF SentOf, ReadOf
  <2>5. R' = R /\ S' = S
    BY <1>1, <2>4
  <2> HIDE DEF R, S
  <2>6. /\ wire' \in Seq(S) /\ Len(wire') = Len(wire) + 1
        /\ \A j \in 1..Len(wire) : wire'[j] = wire[j]
        /\ wire'[Len(wire) + 1] = SentOf(it + 1)
    BY <1>1, <2>1, <2>3, AppendProperties
  <2>7. \A j \in 1..Len(wire') : wire'[j] = SentOf(Len(parsed) + j)
    <3> SUFFICES ASSUME NEW j \in 1..Len(wire') PROVE wire'[j] = SentOf(Len(parsed) + j)
      OBVIOUS
    <3>1. CASE j = Len(wire) + 1
      <4>1. Len(parsed) + j = it + 1
        BY <2>1, <2>2, <3>1
      <4> QED
        BY <2>6, <3>1, <4>1
    <3>2. CASE j # Len(wire) + 1
      <4>1. j \in 1..Len(wire)
        BY <2>2, <2>6, <3>2
      <4> QED
        BY <2>1, <2>6, <4>1
    <3> QED
      BY <3>1, <3>2
  <2>8. Len(parsed') + Len(wire') = it'
    BY <1>1, <2>1, <2>2, <2>6
  <2>9. parsed' \in Seq(R') /\ wire' \in Seq(S')
    BY <1>1, <2>1, <2>5, <2>6
  <2>10. /\ \A j \in 1..Len(parsed') : parsed'[j] = ReadOf(j)'
         /\ \A j \in 1..Len(wire') : wire'[j] = SentOf(Len(parsed) + j)'
    BY <1>1, <2>1, <2>4, <2>7
  <2> QED
    BY <1>1, <2>8, <2>9, <2>10 DEF InTransit, R, S
<1>8. LegacyInTransit'
  BY <1>1, <1>3 DEF LegacyInTransit
<1> QED
  BY <1>5, <1>6, <1>7, <1>8 DEF SenderInv

LEMMA FinishKeepsInv ==
  ASSUME SenderInv, Finish
  PROVE  SenderInv'
<1>1. /\ sender = "sending" /\ it = Len(packets) /\ sender' = "done"
      /\ message' = message /\ default_mtu' = default_mtu /\ legacy' = legacy
      /\ packets' = packets /\ it' = it /\ wire' = wire /\ parsed' = parsed
  BY DEF Finish
<1>2. TypeOK'
  BY <1>1 DEF SenderInv, TypeOK
<1>3. PacketsBuilt'
  BY <1>1, PacketsStay DEF SenderInv
<1>4. InTransit'
  BY <1>1 DEF SenderInv, InTransit, SentOf, ReadOf
<1>5. LegacyInTransit'
  BY <1>1, SameMessage DEF SenderInv, LegacyInTransit
<1> QED
  BY <1>2, <1>3, <1>4, <1>5 DEF SenderInv

LEMMA SendLegacyKeepsInv ==
  ASSUME SenderInv, SendLegacy
  PROVE  SenderInv'
<1>1. /\ sender = "idle" /\ legacy /\ sender' = "done"
      /\ wire' = <<LegacyDatagram>>
      /\ message' = message /\ default_mtu' = default_mtu /\ legacy' = legacy
      /\ packets' = packets /\ it' = it /\ parsed' = parsed
  BY DEF SendLegacy, LegacyDatagram
<1>2. TypeOK'
  BY <1>1 DEF SenderInv, TypeOK
<1>3. PacketsBuilt'
  BY <1>1, PacketsStay DEF SenderInv
<1>4. InTransit'
  BY <1>1 DEF InTransit
<1>5. LegacyInTransit'
  <2> DEFINE d == LegacyDatagram
  <2>1. wire' = <<d>>
    BY <1>1
  <2> HIDE DEF d
  <2>2. wire' \in Seq({d})
    BY <2>1
  <2> QED
    BY <1>1, <2>2, SameMessage DEF SenderInv, LegacyInTransit, d
<1> QED
  BY <1>2, <1>3, <1>4, <1>5 DEF SenderInv

LEMMA ReceiveKeepsInv ==
  ASSUME SenderInv, Receive
  PROVE  SenderInv'
<1>1. /\ wire # <<>> /\ wire' = Tail(wire)
      /\ message' = message /\ default_mtu' = default_mtu /\ legacy' = legacy
      /\ packets' = packets /\ it' = it /\ sender' = sender
  BY DEF Receive
<1>2. TypeOK'
  BY <1>1 DEF SenderInv, TypeOK
<1>3. PacketsBuilt'
  BY <1>1, PacketsStay DEF SenderInv
<1>4. InTransit'
  <2> SUFFICES ASSUME ~legacy PROVE InTransit'
    BY <1>1 DEF InTransit
  <2> DEFINE R == {ReadOf(j) : j \in 1..Len(packets)}
             S == {SentOf(j) : j \in 1..Len(packets)}
  <2>1. /\ parsed \in Seq(R) /\ wire \in Seq(S) /\ Len(parsed) + Len(wire) = it
        /\ \A j \in 1..Len(parsed) : parsed[j] = ReadOf(j)
        /\ \A j \in 1..Len(wire) : wire[j] = SentOf(Len(parsed) + j)
        /\ sender \in {"idle", "crashed"} => it = 0
        /\ sender = "done" => it = Len(packets)
    BY DEF SenderInv, InTransit
  <2>2. Len(parsed) \in Nat /\ Len(wire) \in Nat
    BY <2>1, LenProperties
  <2>3. \A j : SentOf(j)' = SentOf(j) /\ ReadOf(j)' = ReadOf(j)
    BY <1>1 DEF SentOf, ReadOf
  <2>4. R' = R /\ S' = S
    BY <1>1, <2>3
  <2>5. parsed' = Append(parsed, parse_with_metadata(Head(wire)))
    BY DEF Receive
  <2>6. it <= Len(packets) /\ Len(packets) \in Int
    <3>1. sender # "idle"
      <4>1. CASE sender = "idle"
        <5>1. Len(wire) = 0
          BY <2>1, <2>2, <4>1
        <5> QED
          BY <1>1, <2>1, <5>1, EmptySeq
      <4> QED
        BY <4>1
    <3> QED
      BY <3>1, MtuHasRoom, MessageBuilt DEF SenderInv, TypeOK, PacketsBuilt
  <2> DEFINE k == Len(parsed) + 1
  <2> HIDE DEF R, S
  <2>7. /\ Head(wire) = wire[1] /\ 1 \in 1..Len(wire)
        /\ Tail(wire) \in Seq(S) /\ Len(Tail(wire)) = Len(wire) - 1
        /\ \A j \in 1..Len(Tail(wire)) : Tail(wire)[j] = wire[j+1]
    <3>1. /\ Tail(wire) \in Seq(S) /\ Len(Tail(wire)) = Len(wire) - 1
          /\ \A j \in 1..Len(Tail(wire)) : Tail(wire)[j] = wire[j+1]
      BY <1>1, <2>1, HeadTailProperties
    <3>2. Head(wire) = wire[1]
      BY <1>1, <2>1
    <3>3. Len(wire) # 0
      BY <1>1, <2>1, EmptySeq
    <3> QED
      BY <2>2, <3>1, <3>2, <3>3
  <2>8. parse_with_metadata(Head(wire)) = ReadOf(k) /\ k \in 1..Len(packets)
    <3>1. Head(wire) = SentOf(k)
      BY <2>1, <2>7
    <3>2. k \in 1..Len(packets)
      BY <2>1, <2>2, <2>6, <2>7
    <3> QED
      BY <3>1, <3>2 DEF ReadOf
  <2>9. ReadOf(k) \in R
    BY <2>8 DEF R
  <2>10. /\ parsed' \in Seq(R) /\ Len(parsed') = k
         /\ \A j \in 1..Len(parsed) : parsed'[j] = parsed[j]
         /\ parsed'[k] = ReadOf(k)
    BY <2>1, <2>5, <2>8, <2>9, AppendProperties
  <2>11. \A j \in 1..Len(parsed') : parsed'[j] = ReadOf(j)
    <3> SUFFICES ASSUME NEW j \in 1..Len(parsed') PROVE parsed'[j] = ReadOf(j)
      OBVIOUS
    <3>1. CASE j = k
      BY <2>10, <3>1
    <3>2. CASE j # k
      <4>1. j \in 1..Len(parsed)
        BY <2>2, <2>10, <3>2
      <4> QED
        BY <2>1, <2>10, <4>1
    <3> QED
      BY <3>1, <3>2
  <2>12. \A j \in 1..Len(wire') : wire'[j] = SentOf(Len(parsed') + j)
    <3> SUFFICES ASSUME NEW j \in 1..Len(wire') PROVE wire'[j] = SentOf(Len(parsed') + j)
      OBVIOUS
    <3>1. wire'[j] = wire[j+1] /\ j + 1 \in 1..Len(wire)
      BY <1>1, <2>2, <2>7
    <3>2. Len(parsed) + (j + 1) = Len(parsed') + j
      BY <2>2, <2>10
    <3> QED
      BY <2>1, <3>1, <3>2
  <2>13. Len(parsed') + Len(wire') = it'
    BY <1>1, <2>1, <2>2, <2>7, <2>10
  <2>14. parsed' \in Seq(R') /\ wire' \in Seq(S')
    BY <1>1, <2>4, <2>7, <2>10
  <2>15. /\ \A j \in 1..Len(parsed') : parsed'[j] = ReadOf(j)'
         /\ \A j \in 1..Len(wire') : wire'[j] = SentOf(Len(parsed) + j)'
    BY <2>3, <2>11, <2>12
  <2> QED
    BY <1>1, <2>1, <2>13, <2>14, <2>15 DEF InTransit, R, S
<1>5. LegacyInTransit'
  <2> SUFFICES ASSUME legacy PROVE LegacyInTransit'
    BY <1>1 DEF LegacyInTransit
  <2>1. wire \in Seq({LegacyDatagram}) /\ parsed \in Seq(LegacySegments)
    BY DEF SenderInv, LegacyInTransit
  <2>2. LegacyDatagram' = LegacyDatagram /\ LegacySegments' = LegacySegments
    BY <1>1, SameMessage
  <2>3. Head(wire) = LegacyDatagram /\ Tail(wire) \in Seq({LegacyDatagram})
    BY <1>1, <2>1, HeadTailProperties
  <2>4. PICK media_type \in get_encoding_IANA_ET_from_legacy(Head(wire).encoding) :
          parsed' = Append(parsed, parse_with_metadata_legacy(Head(wire), media_type))
    BY DEF Receive
  <2>5. Head(wire).encoding = message.encoding
    BY <2>3 DEF LegacyDatagram
  <2>6. parse_with_metadata_legacy(Head(wire), media_type) \in LegacySegments
    BY <2>3, <2>4, <2>5 DEF LegacySegments
  <2>7. parsed' \in Seq(LegacySegments)
    BY <2>1, <2>4, <2>6, AppendProperties
  <2> QED
    BY <1>1, <2>2, <2>3, <2>7 DEF LegacyInTransit
<1> QED
  BY <1>2, <1>3, <1>4, <1>5 DEF SenderInv

(* SenderInv holds in every state of Sender: the segments are those         *)
(* build_message makes of the message, each one sent is parsed or on its    *)
(* way, in order, and what is parsed is what the codec reads of it.         *)
THEOREM SenderInvariant == Spec => []SenderInv
<1>1. ASSUME SenderInv, [Next]_vars PROVE SenderInv'
  <2>1. CASE Build
    BY <1>1, <2>1, BuildKeepsInv
  <2>2. CASE SendSegment
    BY <1>1, <2>2, SendSegmentKeepsInv
  <2>3. CASE Finish
    BY <1>1, <2>3, FinishKeepsInv
  <2>4. CASE SendLegacy
    BY <1>1, <2>4, SendLegacyKeepsInv
  <2>5. CASE Receive
    BY <1>1, <2>5, ReceiveKeepsInv
  <2>6. CASE UNCHANGED vars
    <3>1. /\ message' = message /\ default_mtu' = default_mtu /\ legacy' = legacy
          /\ packets' = packets /\ it' = it /\ wire' = wire /\ parsed' = parsed
          /\ sender' = sender
      BY <2>6 DEF vars
    <3>2. TypeOK' /\ InTransit'
      BY <1>1, <3>1 DEF SenderInv, TypeOK, InTransit, SentOf, ReadOf
    <3>3. PacketsBuilt'
      BY <1>1, <3>1, PacketsStay DEF SenderInv
    <3>4. LegacyInTransit'
      BY <1>1, <3>1, SameMessage DEF SenderInv, LegacyInTransit
    <3> QED
      BY <3>2, <3>3, <3>4 DEF SenderInv
  <2> QED
    BY <1>1, <2>1, <2>2, <2>3, <2>4, <2>5, <2>6 DEF Next
<1> QED
  BY <1>1, SenderInit, PTL DEF Spec

-----------------------------------------------------------------------------
(* A segment the collector parsed, and one on its way.                      *)
LEMMA SegmentsOnTheWay ==
  ASSUME SenderInv, ~legacy, parsed # <<>> \/ wire # <<>> \/ packets # <<>>
  PROVE  LET n == NumberOfSegments(message, mtu) IN
         /\ message \in Messages /\ mtu \in Nat /\ mtu > 16
         /\ n \in Nat \ {0} /\ Len(packets) = n /\ packets # <<>>
         /\ \A j \in 1..n : packets[j] = SegmentOf(message, mtu, j)
         /\ Len(parsed) \in Nat /\ Len(wire) \in Nat /\ Len(parsed) + Len(wire) <= n
         /\ sender = "done" => Len(parsed) + Len(wire) = n
         /\ Len(parsed) + Len(wire) > 0 => RoomForOptions(message, mtu)
         /\ \A j \in 1..Len(parsed) :
              /\ j \in 1..n
              /\ parsed[j] = parse_with_metadata(serialize_message(SegmentOf(message, mtu, j)))
         /\ \A j \in 1..Len(wire) :
              /\ Len(parsed) + j \in 1..n
              /\ wire[j] = serialize_message(SegmentOf(message, mtu, Len(parsed) + j))
<1> DEFINE n == NumberOfSegments(message, mtu)
<1>1. /\ message \in Messages /\ default_mtu \in DefaultMtus /\ it \in Nat /\ it <= Len(packets)
      /\ sender \in {"idle", "sending", "done", "crashed"}
  BY DEF SenderInv, TypeOK
<1>2. /\ packets = IF sender = "idle" THEN <<>> ELSE build_message(message, mtu)
      /\ sender \in {"sending", "done"} => RoomForOptions(message, mtu)
  BY DEF SenderInv, PacketsBuilt
<1>3. /\ parsed \in Seq({ReadOf(j) : j \in 1..Len(packets)})
      /\ wire \in Seq({SentOf(j) : j \in 1..Len(packets)})
      /\ Len(parsed) + Len(wire) = it
      /\ \A j \in 1..Len(parsed) : parsed[j] = ReadOf(j)
      /\ \A j \in 1..Len(wire) : wire[j] = SentOf(Len(parsed) + j)
      /\ sender \in {"idle", "crashed"} => it = 0
      /\ sender = "done" => it = Len(packets)
  BY DEF SenderInv, InTransit
<1>4. Len(parsed) \in Nat /\ Len(wire) \in Nat
  BY <1>3, LenProperties
<1>5. mtu \in Nat /\ mtu > 16
  BY <1>1, MtuHasRoom
<1>6. it = 0 => parsed = <<>> /\ wire = <<>>
  <2>1. it = 0 => Len(parsed) = 0 /\ Len(wire) = 0
    BY <1>3, <1>4
  <2> QED
    BY <1>3, <2>1, EmptySeq
<1>7. sender # "idle"
  BY <1>2, <1>3, <1>6
<1>8. /\ n \in Nat \ {0} /\ Len(packets) = n /\ packets # <<>>
      /\ \A j \in 1..n : packets[j] = SegmentOf(message, mtu, j)
  BY <1>1, <1>2, <1>5, <1>7, MessageBuilt
<1> HIDE DEF n
<1>9. Len(parsed) + Len(wire) <= n /\ (sender = "done" => Len(parsed) + Len(wire) = n)
  BY <1>1, <1>3, <1>8
<1>10. Len(parsed) + Len(wire) > 0 => RoomForOptions(message, mtu)
  BY <1>1, <1>2, <1>3, <1>7
<1>11. \A j \in 1..Len(parsed) :
         /\ j \in 1..n
         /\ parsed[j] = parse_with_metadata(serialize_message(SegmentOf(message, mtu, j)))
  BY <1>3, <1>4, <1>8, <1>9 DEF ReadOf, SentOf
<1>12. \A j \in 1..Len(wire) :
         /\ Len(parsed) + j \in 1..n
         /\ wire[j] = serialize_message(SegmentOf(message, mtu, Len(parsed) + j))
  <2> SUFFICES ASSUME NEW j \in 1..Len(wire)
               PROVE  /\ Len(parsed) + j \in 1..n
                      /\ wire[j] = serialize_message(SegmentOf(message, mtu, Len(parsed) + j))
    OBVIOUS
  <2>1. Len(parsed) + j \in 1..n
    BY <1>4, <1>8, <1>9
  <2> QED
    BY <1>3, <1>8, <2>1 DEF SentOf
<1> QED
  BY <1>1, <1>4, <1>5, <1>8, <1>9, <1>10, <1>11, <1>12 DEF n

(* HeaderFits is about the header of the message that was cut.              *)
LEMMA HeaderFitsCounts ==
  ASSUME SenderInv, packets # <<>>
  PROVE  ~legacy /\ (HeaderFits => HeaderCounts(message, mtu))
<1>1. ~legacy
  BY DEF SenderInv, PacketsBuilt
<1> DEFINE n == NumberOfSegments(message, mtu)
           ob == OptionBytes(message)
<1>2. /\ n \in Nat \ {0} /\ Len(packets) = n /\ packets[1] = SegmentOf(message, mtu, 1)
      /\ message \in Messages
  BY <1>1, SegmentsOnTheWay
<1>3. packets[1].options = build_message_options(message)
  BY <1>2, SegmentFields DEF OptionsOf
<1>4. options_total_bytes(packets[1].options) = ob /\ ob \in Nat
  BY <1>2, <1>3, OptionsBuilt DEF OptionBytes
<1>5. SegmentationBytes(n) = IF n = 1 THEN 0 ELSE 4
  BY DEF SegmentationBytes, UNYTE_SEGMENTATION_OPTION_LEN
<1>6. HeaderFits => HEADER_BYTES + ob + (IF n > 1 THEN 4 ELSE 0) < 2^8
  BY <1>2, <1>4 DEF HeaderFits, UNYTE_SEGMENTATION_OPTION_LEN
<1>7. HeaderCounts(message, mtu) <=> HEADER_BYTES + ob + SegmentationBytes(n) < 2^8
  BY DEF HeaderCounts
<1> HIDE DEF n, ob
<1> QED
  BY <1>1, <1>2, <1>4, <1>5, <1>6, <1>7, SMT DEF HEADER_BYTES

(* Version, media type and ids of every segment the collector parses are    *)
(* those the user of the sender put in the message (serialize_message,      *)
(* parse_with_metadata), for any value of the fields.                       *)
THEOREM HeadersAlwaysSurvive == Spec => []HeadersSurvive
<1>1. ASSUME SenderInv PROVE HeadersSurvive
  <2> SUFFICES ASSUME ~legacy, NEW j \in 1..Len(parsed)
               PROVE  /\ parsed[j].version = message.version
                      /\ parsed[j].media_type = message.media_type
                      /\ parsed[j].observation_domain_id = message.observation_domain_id
                      /\ parsed[j].message_id = message.message_id
    BY DEF HeadersSurvive
  <2>1. parsed # <<>>
    BY EmptySeq
  <2>2. /\ message \in Messages
        /\ parsed[j] = parse_with_metadata(serialize_message(SegmentOf(message, mtu, j)))
    BY <1>1, <2>1, SegmentsOnTheWay
  <2> QED
    BY <2>2, SegmentHeaderRead
<1> QED
  BY <1>1, SenderInvariant, PTL

(* The segments of a message are read with the numbers and the last flag    *)
(* they were cut with, up to 128 of them: the number loses its eighth bit   *)
(* when it is shifted (serialize_message), which sender_long_message shows. *)
(* No option of the user may pass for a segmentation option or wrap its     *)
(* length.                                                                  *)
THEOREM ShortMessagesNumbered ==
  Spec => [](Len(packets) <= 2^7 /\ PlainMessage(message) => SegmentNumbersSurvive)
<1>1. ASSUME SenderInv, Len(packets) <= 2^7, PlainMessage(message) PROVE SegmentNumbersSurvive
  <2> SUFFICES ASSUME Len(packets) > 1, HeaderFits, NEW j \in 1..Len(parsed)
               PROVE  /\ parsed[j].f_num = j - 1
                      /\ parsed[j].f_last = IF j = Len(packets) THEN 1 ELSE 0
    BY DEF SegmentNumbersSurvive
  <2> DEFINE n == NumberOfSegments(message, mtu)
  <2>1. packets # <<>>
    BY EmptySeq
  <2>2. ~legacy /\ HeaderCounts(message, mtu)
    BY <1>1, <2>1, HeaderFitsCounts
  <2>3. /\ message \in Messages /\ mtu \in Nat /\ mtu > 16 /\ Len(packets) = n
        /\ j \in 1..n
        /\ parsed[j] = parse_with_metadata(serialize_message(SegmentOf(message, mtu, j)))
    BY <1>1, <2>1, <2>2, SegmentsOnTheWay
  <2>4. n # 1 /\ n <= 2^7
    BY <1>1, <2>3
  <2> QED
    BY <1>1, <2>2, <2>3, <2>4, SegmentOptionsRead
<1> QED
  BY <1>1, SenderInvariant, PTL

(* Every custom option of a message arrives once, in the first segment and  *)
(* in its order, and the parsed header tells a segmented message from one   *)
(* that is not, for any number of options and of segments.                  *)
THEOREM OptionsAlwaysArrive == Spec => [](PlainMessage(message) => OptionsArrive)
<1>1. ASSUME SenderInv, PlainMessage(message) PROVE OptionsArrive
  <2> SUFFICES ASSUME packets # <<>>, HeaderFits
               PROVE  /\ \A j \in 1..Len(parsed) : IsSegmented(parsed[j]) <=> Len(packets) > 1
                      /\ AllParsed /\ parsed # <<>> =>
                           /\ parsed[1].options = build_message_options(message)
                           /\ \A j \in 2..Len(parsed) : parsed[j].options = <<>>
    BY DEF OptionsArrive
  <2> DEFINE n == NumberOfSegments(message, mtu)
             read(j) == parse_with_metadata(serialize_message(SegmentOf(message, mtu, j)))
  <2>1. ~legacy /\ HeaderCounts(message, mtu)
    BY <1>1, HeaderFitsCounts
  <2>2. /\ message \in Messages /\ mtu \in Nat /\ mtu > 16 /\ Len(packets) = n
        /\ n \in Nat \ {0} /\ Len(parsed) \in Nat /\ Len(wire) \in Nat
        /\ sender = "done" => Len(parsed) + Len(wire) = n
        /\ \A j \in 1..Len(parsed) : j \in 1..n /\ parsed[j] = read(j)
    BY <1>1, <2>1, SegmentsOnTheWay
  <2>3. \A j \in 1..n : read(j).options = OptionsOf(message, j) /\ (IsSegmented(read(j)) <=> n # 1)
    BY <1>1, <2>1, <2>2, SegmentOptionsRead
  <2> HIDE DEF n, read
  <2>4. \A j \in 1..Len(parsed) : IsSegmented(parsed[j]) <=> Len(packets) > 1
    BY <2>2, <2>3
  <2>5. ASSUME AllParsed
        PROVE  /\ parsed[1].options = build_message_options(message)
               /\ \A j \in 2..Len(parsed) : parsed[j].options = <<>>
    <3>1. Len(parsed) = n
      <4>1. Len(wire) = 0
        BY <2>5, EmptySeq DEF AllParsed
      <4> QED
        BY <2>2, <2>5, <4>1 DEF AllParsed
    <3>2. \A j \in 1..Len(parsed) : parsed[j].options = OptionsOf(message, j)
      BY <2>2, <2>3
    <3>3. 1 \in 1..Len(parsed) /\ \A j \in 2..Len(parsed) : j \in 1..Len(parsed) /\ j # 1
      BY <2>2, <3>1
    <3> QED
      BY <3>2, <3>3 DEF OptionsOf
  <2> QED
    BY <2>4, <2>5
<1> QED
  BY <1>1, SenderInvariant, PTL

(* No byte of the buffer is lost, repeated or taken from outside it: the    *)
(* payloads that arrive are consecutive pieces that cover it, for any       *)
(* length of the buffer, any options and any MTU of a UDP datagram.         *)
THEOREM PayloadAlwaysCovered == Spec => [](mtu < 2^16 => PayloadCovered)
<1>1. ASSUME SenderInv, mtu < 2^16 PROVE PayloadCovered
  <2> DEFINE End(j) == parsed[j].payload.from + parsed[j].payload.len
  <2> SUFFICES ASSUME packets # <<>>, HeaderFits
               PROVE  /\ \A j \in 1..Len(parsed) :
                           /\ parsed[j].payload.len >= 0
                           /\ parsed[j].payload.from = IF j = 1 THEN 0 ELSE End(j - 1)
                      /\ AllParsed => Len(parsed) > 0 /\ End(Len(parsed)) = message.buffer_len
    BY DEF PayloadCovered
  <2> DEFINE n == NumberOfSegments(message, mtu)
             p == Len(parsed)
             read(j) == parse_with_metadata(serialize_message(SegmentOf(message, mtu, j)))
             S(j) == Start(message, mtu, j)
             B(j) == Bytes(message, mtu, j)
  <2>1. ~legacy /\ HeaderCounts(message, mtu)
    BY <1>1, HeaderFitsCounts
  <2>2. /\ message \in Messages /\ mtu \in Nat /\ mtu > 16
        /\ n \in Nat \ {0} /\ p \in Nat /\ Len(wire) \in Nat /\ p + Len(wire) <= n
        /\ sender = "done" => p + Len(wire) = n
        /\ p + Len(wire) > 0 => RoomForOptions(message, mtu)
        /\ \A j \in 1..p : j \in 1..n /\ parsed[j] = read(j)
    BY <1>1, <2>1, SegmentsOnTheWay
  <2>3. CASE p = 0
    <3>1. ~AllParsed
      <4> SUFFICES ASSUME AllParsed PROVE FALSE
        OBVIOUS
      <4>1. Len(wire) = 0
        BY EmptySeq DEF AllParsed
      <4> HIDE DEF n, p
      <4> QED
        BY <2>2, <2>3, <4>1 DEF AllParsed
    <3> QED
      BY <2>3, <3>1
  <2>4. CASE p # 0
    <3>1. RoomForOptions(message, mtu)
      <4> HIDE DEF n, p
      <4> QED
        BY <2>2, <2>4
    <3>2. \A j \in 1..n : read(j).payload.from = S(j) /\ read(j).payload.len = B(j)
      BY <1>1, <2>1, <2>2, <3>1, SegmentPayloadRead
    <3>3. /\ \A j \in 1..n : S(j) \in Nat /\ B(j) \in Nat
          /\ S(1) = 0 /\ S(n) + B(n) = message.buffer_len
          /\ \A j \in 2..n : S(j) = S(j-1) + B(j-1)
      BY <2>2, <3>1, Pieces
    <3> HIDE DEF n, S, B, read
    <3>4. \A j \in 1..p : parsed[j].payload.from = S(j) /\ parsed[j].payload.len = B(j)
      BY <2>2, <3>2
    <3>5. \A j \in 1..p : End(j) = S(j) + B(j)
      BY <3>4
    <3>6. \A j \in 1..p : parsed[j].payload.len >= 0
      BY <2>2, <3>3, <3>4
    <3>7. ASSUME NEW j \in 1..p
          PROVE  parsed[j].payload.from = IF j = 1 THEN 0 ELSE End(j - 1)
      <4> HIDE DEF End, p
      <4>1. CASE j = 1
        BY <3>3, <3>4, <4>1
      <4>2. CASE j # 1
        <5>1. j - 1 \in 1..p /\ j \in 2..n
          BY <2>2, <4>2
        <5>2. End(j - 1) = S(j - 1) + B(j - 1) /\ S(j) = S(j - 1) + B(j - 1)
          BY <3>3, <3>5, <5>1
        <5> QED
          BY <3>4, <4>2, <5>2
      <4> QED
        BY <4>1, <4>2
    <3>8. ASSUME AllParsed PROVE p > 0 /\ End(p) = message.buffer_len
      <4>1. Len(wire) = 0
        BY <3>8, EmptySeq DEF AllParsed
      <4> HIDE DEF p, End
      <4>2. p = n /\ p \in 1..p
        BY <2>2, <2>4, <3>8, <4>1 DEF AllParsed
      <4> QED
        BY <2>2, <3>3, <3>5, <4>2
    <3> QED
      BY <3>6, <3>7, <3>8
  <2> QED
    BY <2>3, <2>4
<1> QED
  BY <1>1, SenderInvariant, PTL

(* "It cuts the message into segments of the protocol if it is larger than  *)
(* the MTU", README.md:159: every datagram fits in the MTU, options and     *)
(* segmentation option included, and carries the length that is sent.       *)
THEOREM DatagramsFitMtu == Spec => [](mtu < 2^16 => FitsMtu)
<1>1. ASSUME SenderInv, mtu < 2^16 PROVE FitsMtu
  <2> SUFFICES ASSUME packets # <<>>, HeaderFits, NEW j \in 1..Len(wire)
               PROVE  wire[j].sent <= mtu /\ FromBigEndian2(wire[j].length) = wire[j].sent
    BY DEF FitsMtu
  <2> DEFINE n == NumberOfSegments(message, mtu)
             k == Len(parsed) + j
  <2>1. ~legacy /\ HeaderCounts(message, mtu)
    BY <1>1, HeaderFitsCounts
  <2>2. /\ message \in Messages /\ mtu \in Nat /\ mtu > 16
        /\ Len(parsed) \in Nat /\ Len(wire) \in Nat
        /\ Len(parsed) + Len(wire) > 0 => RoomForOptions(message, mtu)
        /\ k \in 1..n /\ wire[j] = serialize_message(SegmentOf(message, mtu, k))
    BY <1>1, <2>1, SegmentsOnTheWay
  <2>3. RoomForOptions(message, mtu)
    BY <2>2
  <2> HIDE DEF k
  <2> QED
    BY <1>1, <2>1, <2>2, <2>3, SegmentPayloadRead
<1> QED
  BY <1>1, SenderInvariant, PTL

(* build_message underflows for no other message than one that must be cut  *)
(* and whose options exceed the room of a segment or the buffer.            *)
THEOREM CrashesNeedLargeOptions == Spec => []CrashesOnlyOnLargeOptions
<1>1. ASSUME SenderInv PROVE CrashesOnlyOnLargeOptions
  <2> SUFFICES ASSUME sender = "crashed"
               PROVE  LET options_bytes == options_total_bytes(build_message_options(message))
                      IN /\ HEADER_BYTES + options_bytes + message.buffer_len > mtu
                         /\ options_bytes > Smaller(message.buffer_len,
                                  mtu - HEADER_BYTES - UNYTE_SEGMENTATION_OPTION_LEN)
    BY DEF CrashesOnlyOnLargeOptions
  <2> DEFINE ob == OptionBytes(message)
             bl == message.buffer_len
             u == Usable(mtu)
             n == NumberOfSegments(message, mtu)
  <2>1. ~legacy /\ ~RoomForOptions(message, mtu)
    BY <1>1 DEF SenderInv, PacketsBuilt
  <2>2. message \in Messages /\ mtu \in Nat /\ mtu > 16
    BY <1>1, <2>1, MtuHasRoom DEF SenderInv, TypeOK
  <2>3. n # 1 /\ ~(ob <= Smaller(bl, u))
    BY <2>1 DEF RoomForOptions
  <2>4. n = 1 <=> HEADER_BYTES + ob + bl <= mtu
    BY <2>2, MessageBuilt
  <2>5. ob \in Nat /\ bl \in Nat /\ u \in Int
    BY <2>2, OptionsBuilt, MessagesAssumption
       DEF Usable, HEADER_BYTES, UNYTE_SEGMENTATION_OPTION_LEN
  <2> HIDE DEF ob, bl, u, n
  <2>6. HEADER_BYTES + ob + bl > mtu /\ ob > Smaller(bl, u)
    BY <2>2, <2>3, <2>4, <2>5 DEF HEADER_BYTES, Smaller
  <2> QED
    BY <2>6 DEF ob, bl, u, OptionBytes, Usable
<1> QED
  BY <1>1, SenderInvariant, PTL

(* "For legacy UDP pub channel: Used encoding types identifiers are taken   *)
(* from IANA", README.md:47: what the collector reads of a datagram of the  *)
(* older draft (parse_with_metadata_legacy), for any ids and any length.    *)
THEOREM LegacyAlwaysRead == Spec => []LegacyRead
<1>1. ASSUME SenderInv PROVE LegacyRead
  <2> SUFFICES ASSUME legacy, NEW j \in 1..Len(parsed)
               PROVE  LET x == parsed[j] IN
                 /\ ~IsSegmented(x)
                 /\ x.observation_domain_id = message.observation_domain_id
                 /\ x.message_id = message.message_id
                 /\ x.payload = [from |-> 0, len |-> message.buffer_len]
                 /\ message.version < 2^3 => x.version = message.version
                 /\ message.encoding # SUPPORTED_ET_LEN =>
                      x.media_type = CASE message.encoding = 1 -> UNYTE_MEDIATYPE_YANG_CBOR
                                       [] message.encoding = 2 -> UNYTE_MEDIATYPE_YANG_JSON
                                       [] message.encoding = 3 -> UNYTE_MEDIATYPE_YANG_XML
                                       [] OTHER -> UNYTE_MEDIATYPE_RESERVED
    BY DEF LegacyRead
  <2> DEFINE x == parsed[j]
             bl == message.buffer_len
             v == message.version
             e == message.encoding
             od == message.observation_domain_id
             id == message.message_id
  <2>1. v \in 0..2^4-1 /\ e \in 0..2^4-1 /\ IsUint32(od) /\ IsUint32(id)
        /\ bl \in 0..2^16-1-HEADER_BYTES
    BY <1>1, LegacyAssumption DEF SenderInv, TypeOK
  <2>2. x \in LegacySegments
    <3>1. parsed \in Seq(LegacySegments)
      BY <1>1 DEF SenderInv, LegacyInTransit
    <3> QED
      BY <3>1
  <2>3. PICK media_type \in get_encoding_IANA_ET_from_legacy(e) :
          x = parse_with_metadata_legacy(LegacyDatagram, media_type)
    BY <2>2 DEF LegacySegments
  <2>4. /\ x.version = ((v * 2^4) \div 2^4) % 2^3
        /\ x.media_type = media_type
        /\ x.header_length = HEADER_BYTES
        /\ x.observation_domain_id = FromBigEndian4(BigEndian4(od))
        /\ x.message_id = FromBigEndian4(BigEndian4(id))
        /\ x.options = <<>>
        /\ x.payload = [from |-> 0 + (HEADER_BYTES - HEADER_BYTES),
                        len |-> FromBigEndian2(BigEndian2(HEADER_BYTES + bl)) - HEADER_BYTES]
    BY <2>3 DEF parse_with_metadata_legacy, LegacyDatagram
  <2> HIDE DEF x, bl, v, e, od, id
  <2>5. ~IsSegmented(x)
    BY <2>4, TotalBytes DEF IsSegmented, HEADER_BYTES
  <2>6. x.observation_domain_id = od /\ x.message_id = id
    BY <2>1, <2>4, BigEndian4RoundTrip
  <2>7. x.payload = [from |-> 0, len |-> bl]
    <3>1. HEADER_BYTES + bl \in 0..2^16-1
      BY <2>1, SMT DEF HEADER_BYTES
    <3>2. FromBigEndian2(BigEndian2(HEADER_BYTES + bl)) = HEADER_BYTES + bl
      BY <3>1, BigEndian2RoundTrip
    <3>3. 0 + (HEADER_BYTES - HEADER_BYTES) = 0 /\ (HEADER_BYTES + bl) - HEADER_BYTES = bl
      BY <2>1, SMT DEF HEADER_BYTES
    <3> QED
      BY <2>4, <3>2, <3>3
  <2>8. v < 2^3 => x.version = v
    BY <2>1, <2>4, SMT
  <2>9. SUPPORTED_ET_LEN = 4
    BY DEF SUPPORTED_ET_LEN, LEGACY_ET_TO_IANA
  <2>10. e # SUPPORTED_ET_LEN =>
           x.media_type = CASE e = 1 -> UNYTE_MEDIATYPE_YANG_CBOR
                            [] e = 2 -> UNYTE_MEDIATYPE_YANG_JSON
                            [] e = 3 -> UNYTE_MEDIATYPE_YANG_XML
                            [] OTHER -> UNYTE_MEDIATYPE_RESERVED
    <3> SUFFICES ASSUME e # 4
                 PROVE  media_type = CASE e = 1 -> UNYTE_MEDIATYPE_YANG_CBOR
                                       [] e = 2 -> UNYTE_MEDIATYPE_YANG_JSON
                                       [] e = 3 -> UNYTE_MEDIATYPE_YANG_XML
                                       [] OTHER -> UNYTE_MEDIATYPE_RESERVED
      BY <2>4, <2>9
    <3>1. media_type \in IF e > 4 THEN {UNYTE_MEDIATYPE_RESERVED} ELSE {LEGACY_ET_TO_IANA[e + 1]}
      BY <2>3, <2>9 DEF get_encoding_IANA_ET_from_legacy
    <3>2. e \in Nat
      BY <2>1
    <3>3. CASE e > 4
      BY <3>1, <3>2, <3>3
    <3>4. CASE e \in {0, 1, 2, 3}
      <4>1. media_type = LEGACY_ET_TO_IANA[e + 1]
        BY <3>1, <3>4
      <4>2. /\ LEGACY_ET_TO_IANA[1] = UNYTE_MEDIATYPE_RESERVED
            /\ LEGACY_ET_TO_IANA[2] = UNYTE_MEDIATYPE_YANG_CBOR
            /\ LEGACY_ET_TO_IANA[3] = UNYTE_MEDIATYPE_YANG_JSON
            /\ LEGACY_ET_TO_IANA[4] = UNYTE_MEDIATYPE_YANG_XML
        BY DEF LEGACY_ET_TO_IANA
      <4> QED
        BY <3>4, <4>1, <4>2
    <3> QED
      BY <3>2, <3>3, <3>4
  <2> QED
    BY <2>5, <2>6, <2>7, <2>8, <2>10 DEF x, bl, v, e, od, id
<1> QED
  BY <1>1, SenderInvariant, PTL
=============================================================================
