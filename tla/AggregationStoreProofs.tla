----------------------- MODULE AggregationStoreProofs -----------------------
(***************************************************************************)
(* What the operations on one bucket compute, for buckets of any length:    *)
(* the binary searches of the in-memory store find the edges they look for, *)
(* and on a sorted bucket they select what the SQL queries select.          *)
(*                                                                          *)
(* The searches and the selection are recursive.  Induction is done by      *)
(* smallest counterexample (NatMin): the provers cannot be given the        *)
(* predicate of an induction theorem, but they can be given a set.          *)
(***************************************************************************)
EXTENDS AggregationStore, SequenceTheorems, FunctionTheorems, FiniteSetTheorems, TLAPS

(* A set of numbers that is not empty has a least element.                  *)
LEMMA NatMin ==
  ASSUME NEW T, T \subseteq Nat, T # {}
  PROVE  \E n \in T : \A m \in T : n <= m
  <1> DEFINE R == StrictSubsetOrdering(Nat)
             S == FiniteSubsetsOf(Nat)
             below(n) == 1..n
             I == { below(n) : n \in T }
  <1>1. IsWellFoundedOn(R, S)  BY FS_StrictSubsetOrderingWellFounded
  <1>2. I \subseteq S
    <2> SUFFICES ASSUME NEW n \in T PROVE 1..n \in FiniteSubsetsOf(Nat)  OBVIOUS
    <2>1. IsFiniteSet(1..n)  BY FS_Interval
    <2> QED  BY <2>1 DEF FiniteSubsetsOf
  <1>3. I # {}  OBVIOUS
  <1>4. R = { ss \in (SUBSET Nat) \X (SUBSET Nat) : ss[1] \subseteq ss[2] /\ ss[1] # ss[2] }
    BY DEF StrictSubsetOrdering
  <1> HIDE DEF R, S, I
  <1>5. PICK x \in I : \A y \in I : ~(<<y, x>> \in R)  BY <1>1, <1>2, <1>3, WFMin
  <1>6. PICK n \in T : x = 1..n  BY <1>5 DEF I
  <1>7. ASSUME NEW m \in T, m < n PROVE FALSE
    <2>1. 1..m \in I  BY DEF I
    <2>2. 1..m \subseteq 1..n  BY <1>7
    <2>3. n \in 1..n /\ n \notin 1..m  BY <1>7
    <2>4. 1..m \in SUBSET Nat /\ 1..n \in SUBSET Nat  OBVIOUS
    <2>5. <<1..m, 1..n>> \in R  BY <1>4, <2>2, <2>3, <2>4
    <2> QED  BY <1>5, <1>6, <2>1, <2>5
  <1>8. \A m \in T : n <= m  BY <1>7
  <1> QED  BY <1>8

-----------------------------------------------------------------------------
(* The binary search. *)

(* One turn of the loop, given what the rest of it returns.                 *)
Halve(left, f, range) ==
  LET lo  == range[1]
      hi  == range[2]
      mid == (lo + hi) \div 2
  IN  IF lo >= hi THEN lo
      ELSE IF left[mid + 1] THEN f[<<mid + 1, hi>>] ELSE f[<<lo, mid>>]

Ranges(left) == (0..Len(left)) \X (0..Len(left))

Size(range) == IF range[1] >= range[2] THEN 0 ELSE range[2] - range[1]

LEMMA Halves ==
  ASSUME NEW n \in Nat, NEW lo \in 0..n, NEW hi \in 0..n, lo < hi
  PROVE  LET mid == (lo + hi) \div 2
         IN  /\ mid \in Nat /\ lo <= mid /\ mid < hi
             /\ mid \in 0..n /\ mid + 1 \in 0..n /\ mid + 1 \in 1..n
             /\ Size(<<mid + 1, hi>>) < Size(<<lo, hi>>)
             /\ Size(<<lo, mid>>) < Size(<<lo, hi>>)
  <1> DEFINE mid == (lo + hi) \div 2
  <1>1. mid \in Nat /\ lo <= mid /\ mid < hi  OBVIOUS
  <1> HIDE DEF mid
  <1>2. mid \in 0..n /\ mid + 1 \in 0..n /\ mid + 1 \in 1..n  BY <1>1
  <1>3. Size(<<mid + 1, hi>>) < Size(<<lo, hi>>)  BY <1>1 DEF Size
  <1>4. Size(<<lo, mid>>) < Size(<<lo, hi>>)  BY <1>1 DEF Size
  <1> QED  BY <1>1, <1>2, <1>3, <1>4 DEF mid

(* The search is a function that one turn of the loop maps to itself.       *)
LEMMA SearchDefined ==
  ASSUME NEW left \in Seq(BOOLEAN)
  PROVE  Search(left) = [range \in Ranges(left) |-> Halve(left, Search(left), range)]
  <1> DEFINE n == Len(left)
             D == Ranges(left)
             Good(f, k) == \A x \in D : Size(x) <= k => f[x] = Halve(left, f, x)
             T == { k \in Nat : ~ \E f : Good(f, k) }
  <1>1. n \in Nat  OBVIOUS
  <1>2. \A x \in D : x = <<x[1], x[2]>> /\ x[1] \in 0..n /\ x[2] \in 0..n /\ Size(x) \in Nat
    BY <1>1 DEF Ranges, Size
  <1>3. ASSUME NEW x \in D, NEW f, NEW g, NEW k \in Nat, Size(x) <= k,
               \A y \in D : Size(y) < k => f[y] = g[y]
        PROVE  Halve(left, f, x) = Halve(left, g, x)
    <2>1. CASE x[1] >= x[2]  BY <2>1 DEF Halve
    <2>2. CASE x[1] < x[2]
      <3> DEFINE mid == (x[1] + x[2]) \div 2
      <3>1. /\ mid \in 0..n /\ mid + 1 \in 0..n
            /\ Size(<<mid + 1, x[2]>>) < Size(<<x[1], x[2]>>)
            /\ Size(<<x[1], mid>>) < Size(<<x[1], x[2]>>)
        BY <1>1, <1>2, <2>2, Halves
      <3>2. <<mid + 1, x[2]>> \in D /\ <<x[1], mid>> \in D  BY <1>2, <3>1 DEF Ranges
      <3>3. Size(<<mid + 1, x[2]>>) \in Nat /\ Size(<<x[1], mid>>) \in Nat
            /\ Size(<<x[1], x[2]>>) = Size(x) /\ Size(x) \in Nat
        BY <1>2, <3>2
      <3>4. f[<<mid + 1, x[2]>>] = g[<<mid + 1, x[2]>>]
        BY <1>3, <3>1, <3>2, <3>3
      <3>5. f[<<x[1], mid>>] = g[<<x[1], mid>>]
        BY <1>3, <3>1, <3>2, <3>3
      <3> QED  BY <3>4, <3>5 DEF Halve
    <2> QED  BY <1>1, <1>2, <2>1, <2>2
  <1> HIDE DEF D
  <1>4. T = {}
    <2> SUFFICES ASSUME T # {} PROVE FALSE  OBVIOUS
    <2>1. PICK k \in T : \A m \in T : k <= m  BY NatMin
    <2>2. CASE k = 0
      <3> DEFINE f == [x \in D |-> x[1]]
      <3>1. Good(f, 0)
        <4> SUFFICES ASSUME NEW x \in D, Size(x) <= 0 PROVE f[x] = Halve(left, f, x)  OBVIOUS
        <4>1. x[1] >= x[2]  BY <1>1, <1>2 DEF Size
        <4> QED  BY <4>1 DEF Halve
      <3> QED  BY <2>2, <3>1
    <2>3. CASE k # 0
      <3>1. k - 1 \in Nat /\ k - 1 \notin T  BY <2>1, <2>3
      <3>2. PICK f : Good(f, k - 1)  BY <3>1
      <3> DEFINE g == [x \in D |-> IF Size(x) <= k - 1 THEN f[x] ELSE Halve(left, f, x)]
      <3>3. ASSUME NEW x \in D PROVE g[x] = Halve(left, f, x)  BY <3>2
      <3>4. \A y \in D : Size(y) < k => f[y] = g[y]  BY <1>2, <3>1
      <3> HIDE DEF g
      <3>5. Good(g, k)
        <4> SUFFICES ASSUME NEW x \in D, Size(x) <= k PROVE g[x] = Halve(left, g, x)  OBVIOUS
        <4>1. Halve(left, f, x) = Halve(left, g, x)  BY <1>3, <3>4
        <4> QED  BY <3>3, <4>1
      <3> QED  BY <3>5
    <2> QED  BY <2>2, <2>3
  <1>5. PICK f : Good(f, n)  BY <1>1, <1>4
  <1> DEFINE g == [x \in D |-> f[x]]
  <1>6. \A x \in D : Size(x) <= n  BY <1>1, <1>2 DEF Size
  <1>7. g = [x \in D |-> Halve(left, g, x)]
    <2>1. ASSUME NEW x \in D PROVE g[x] = Halve(left, g, x)
      <3>1. \A y \in D : Size(y) < n + 1 => f[y] = g[y]  OBVIOUS
      <3>2. Halve(left, f, x) = Halve(left, g, x)
        <4>1. Size(x) <= n + 1 /\ n + 1 \in Nat  BY <1>1, <1>2, <1>6
        <4> HIDE DEF g
        <4> QED  BY <1>3, <3>1, <4>1
      <3>3. f[x] = Halve(left, f, x)  BY <1>5, <1>6
      <3> QED  BY <3>2, <3>3
    <2> HIDE DEF g
    <2>2. g = [x \in D |-> g[x]]  BY DEF g
    <2> QED  BY <2>1, <2>2
  <1> HIDE DEF g
  <1>8. Search(left) = CHOOSE s : s = [x \in D |-> Halve(left, s, x)]
    BY DEF Search, Halve, Ranges, D
  <1> QED  BY <1>7, <1>8 DEF D

(* Elements to the left come first. *)
Parted(left) == \A i, j \in 1..Len(left) : i <= j /\ left[j] => left[i]

(* The search splits any sequence somewhere, and one that is parted where   *)
(* its left part ends.                                                      *)
LEMMA SearchSplits ==
  ASSUME NEW left \in Seq(BOOLEAN), NEW lo \in 0..Len(left), NEW hi \in 0..Len(left), lo <= hi
  PROVE  /\ Search(left)[<<lo, hi>>] \in lo..hi
         /\ /\ Parted(left)
            /\ \A i \in 1..Len(left) : (i <= lo => left[i]) /\ (i > hi => ~left[i])
            => \A i \in 1..Len(left) : left[i] <=> i <= Search(left)[<<lo, hi>>]
  <1> DEFINE n == Len(left)
             s == Search(left)
             Good(l, h) ==
               /\ s[<<l, h>>] \in l..h
               /\ /\ Parted(left)
                  /\ \A i \in 1..n : (i <= l => left[i]) /\ (i > h => ~left[i])
                  => \A i \in 1..n : left[i] <=> i <= s[<<l, h>>]
             T == { k \in Nat : \E l, h \in 0..n : l <= h /\ h - l = k /\ ~Good(l, h) }
  <1>1. n \in Nat  OBVIOUS
  <1>2. \A l, h \in 0..n : s[<<l, h>>] = Halve(left, s, <<l, h>>)
    BY <1>1, SearchDefined DEF Ranges
  <1>3. \A i \in 1..n : left[i] \in BOOLEAN  OBVIOUS
  <1> HIDE DEF s
  <1>4. T = {}
    <2> SUFFICES ASSUME T # {} PROVE FALSE  OBVIOUS
    <2>1. PICK k \in T : \A m \in T : k <= m  BY NatMin
    <2>2. PICK l \in 0..n, h \in 0..n : l <= h /\ h - l = k /\ ~Good(l, h)  BY <2>1
    <2>3. ASSUME NEW l1 \in 0..n, NEW h1 \in 0..n, l1 <= h1, h1 - l1 < k PROVE Good(l1, h1)
      <3>1. h1 - l1 \in Nat /\ k \in Nat  BY <1>1, <2>1, <2>3
      <3>2. h1 - l1 \notin T
        <4> HIDE DEF T
        <4> QED  BY <2>1, <2>3, <3>1
      <3> QED  BY <2>3, <3>1, <3>2
    <2>4. CASE l >= h
      <3>1. l = h  BY <1>1, <2>2, <2>4
      <3>2. s[<<l, h>>] = l  BY <1>2, <2>4 DEF Halve
      <3>3. s[<<l, h>>] \in l..h  BY <1>1, <3>1, <3>2
      <3>4. ASSUME NEW i \in 1..n, (i <= l => left[i]) /\ (i > h => ~left[i])
            PROVE  left[i] <=> i <= s[<<l, h>>]
        BY <1>1, <3>1, <3>2, <3>4
      <3> QED  BY <2>2, <3>3, <3>4
    <2>5. CASE l < h
      <3> DEFINE mid == (l + h) \div 2
      <3>1. /\ mid \in Nat /\ l <= mid /\ mid < h
            /\ mid \in 0..n /\ mid + 1 \in 0..n /\ mid + 1 \in 1..n
        BY <1>1, <2>5, Halves
      <3>2. s[<<l, h>>] = IF left[mid + 1] THEN s[<<mid + 1, h>>] ELSE s[<<l, mid>>]
        <4>1. ~(l >= h)  BY <1>1, <2>5
        <4> QED  BY <1>2, <4>1 DEF Halve
      <3> HIDE DEF mid
      <3>3. CASE left[mid + 1]
        <4>1. s[<<l, h>>] = s[<<mid + 1, h>>]  BY <3>2, <3>3
        <4>2. Good(mid + 1, h)
          <5>1. mid + 1 <= h /\ h - (mid + 1) < k  BY <1>1, <2>2, <3>1
          <5> QED  BY <2>3, <3>1, <5>1
        <4>3. s[<<l, h>>] \in l..h  BY <1>1, <3>1, <4>1, <4>2
        <4>4. ASSUME Parted(left),
                     \A i \in 1..n : (i <= l => left[i]) /\ (i > h => ~left[i])
              PROVE  \A i \in 1..n : left[i] <=> i <= s[<<l, h>>]
          <5>1. \A i \in 1..n : i <= mid + 1 => left[i]  BY <3>1, <3>3, <4>4 DEF Parted
          <5> QED  BY <4>1, <4>2, <4>4, <5>1
        <4> QED  BY <2>2, <4>3, <4>4
      <3>4. CASE ~left[mid + 1]
        <4>1. s[<<l, h>>] = s[<<l, mid>>]  BY <3>2, <3>4
        <4>2. Good(l, mid)
          <5>1. l <= mid /\ mid - l < k  BY <1>1, <2>2, <3>1
          <5> QED  BY <2>3, <3>1, <5>1
        <4>3. s[<<l, h>>] \in l..h  BY <1>1, <3>1, <4>1, <4>2
        <4>4. ASSUME Parted(left),
                     \A i \in 1..n : (i <= l => left[i]) /\ (i > h => ~left[i])
              PROVE  \A i \in 1..n : left[i] <=> i <= s[<<l, h>>]
          <5>1. \A i \in 1..n : i > mid => ~left[i]
            <6>1. \A i \in 1..n : i > mid => mid + 1 <= i  BY <3>1
            <6> QED  BY <3>1, <3>4, <4>4, <6>1 DEF Parted
          <5> QED  BY <4>1, <4>2, <4>4, <5>1
        <4> QED  BY <2>2, <4>3, <4>4
      <3> QED  BY <3>3, <3>4
    <2> QED  BY <1>1, <2>4, <2>5
  <1>5. hi - lo \in Nat  BY <1>1
  <1>6. hi - lo \notin T
    <2> HIDE DEF T
    <2> QED  BY <1>4
  <1>7. Good(lo, hi)  BY <1>5, <1>6
  <1> QED  BY <1>7 DEF s

LEMMA BisectSplits ==
  ASSUME NEW left \in Seq(BOOLEAN)
  PROVE  /\ Bisect(left) \in 0..Len(left)
         /\ Parted(left) => \A i \in 1..Len(left) : left[i] <=> i <= Bisect(left)
  <1>1. Len(left) \in Nat /\ 0 \in 0..Len(left) /\ Len(left) \in 0..Len(left)  OBVIOUS
  <1>2. \A i \in 1..Len(left) : (i <= 0 => left[i]) /\ (i > Len(left) => ~left[i])  BY <1>1
  <1> QED  BY <1>1, <1>2, SearchSplits DEF Bisect

-----------------------------------------------------------------------------
(* Sorted buckets.  R is any set of records with a time.                    *)

Sorted(bucket) ==
  \A i, j \in 1..Len(bucket) : i <= j => bucket[i].at <= bucket[j].at

LEMMA EntryTimes ==
  ASSUME NEW R, \A r \in R : r.at \in Int, NEW bucket \in Seq(R)
  PROVE  /\ DOMAIN bucket = 1..Len(bucket) /\ Len(bucket) \in Nat
         /\ \A i \in 1..Len(bucket) : bucket[i] \in R /\ bucket[i].at \in Int
OBVIOUS

(* The lower bound is behind the entries that are older. *)
LEMMA LowerBoundSplits ==
  ASSUME NEW R, \A r \in R : r.at \in Int, NEW bucket \in Seq(R), NEW target \in Int
  PROVE  /\ LowerBound(bucket, target) \in 0..Len(bucket)
         /\ Sorted(bucket) =>
              \A i \in 1..Len(bucket) :
                bucket[i].at < target <=> i <= LowerBound(bucket, target)
  <1> DEFINE left == [i \in DOMAIN bucket |-> bucket[i].at < target]
  <1>1. DOMAIN bucket = 1..Len(bucket) /\ Len(bucket) \in Nat
        /\ \A i \in 1..Len(bucket) : bucket[i] \in R /\ bucket[i].at \in Int
    BY EntryTimes
  <1>2. left \in Seq(BOOLEAN) /\ Len(left) = Len(bucket)
        /\ \A i \in 1..Len(bucket) : left[i] = (bucket[i].at < target)
    <2>1. left = [i \in 1..Len(bucket) |-> bucket[i].at < target]  BY <1>1
    <2>2. \A i \in 1..Len(bucket) : (bucket[i].at < target) \in BOOLEAN  OBVIOUS
    <2> QED  BY <1>1, <2>1, <2>2
  <1> HIDE DEF left
  <1>3. Sorted(bucket) => Parted(left)
    <2> SUFFICES ASSUME Sorted(bucket), NEW i \in 1..Len(bucket), NEW j \in 1..Len(bucket),
                        i <= j, left[j]
                 PROVE  left[i]
      BY <1>2 DEF Parted
    <2>1. bucket[i].at <= bucket[j].at /\ bucket[j].at < target  BY <1>2 DEF Sorted
    <2> QED  BY <1>1, <1>2, <2>1
  <1>4. LowerBound(bucket, target) = Bisect(left)  BY DEF LowerBound, left
  <1> QED  BY <1>2, <1>3, <1>4, BisectSplits

(* The upper bound is in front of the entries that are younger. *)
LEMMA UpperBoundSplits ==
  ASSUME NEW R, \A r \in R : r.at \in Int, NEW bucket \in Seq(R), NEW target \in Int
  PROVE  /\ UpperBound(bucket, target) \in 0..Len(bucket)
         /\ Sorted(bucket) =>
              \A i \in 1..Len(bucket) :
                bucket[i].at <= target <=> i <= UpperBound(bucket, target)
  <1> DEFINE left == [i \in DOMAIN bucket |-> bucket[i].at <= target]
  <1>1. DOMAIN bucket = 1..Len(bucket) /\ Len(bucket) \in Nat
        /\ \A i \in 1..Len(bucket) : bucket[i] \in R /\ bucket[i].at \in Int
    BY EntryTimes
  <1>2. left \in Seq(BOOLEAN) /\ Len(left) = Len(bucket)
        /\ \A i \in 1..Len(bucket) : left[i] = (bucket[i].at <= target)
    <2>1. left = [i \in 1..Len(bucket) |-> bucket[i].at <= target]  BY <1>1
    <2>2. \A i \in 1..Len(bucket) : (bucket[i].at <= target) \in BOOLEAN  OBVIOUS
    <2> QED  BY <1>1, <2>1, <2>2
  <1> HIDE DEF left
  <1>3. Sorted(bucket) => Parted(left)
    <2> SUFFICES ASSUME Sorted(bucket), NEW i \in 1..Len(bucket), NEW j \in 1..Len(bucket),
                        i <= j, left[j]
                 PROVE  left[i]
      BY <1>2 DEF Parted
    <2>1. bucket[i].at <= bucket[j].at /\ bucket[j].at <= target  BY <1>2 DEF Sorted
    <2> QED  BY <1>1, <1>2, <2>1
  <1>4. UpperBound(bucket, target) = Bisect(left)  BY DEF UpperBound, left
  <1> QED  BY <1>2, <1>3, <1>4, BisectSplits

-----------------------------------------------------------------------------
(* Selections. *)

(* "result" is what "rows" has at the chosen positions, in their order.     *)
Picks(result, rows, chosen) ==
  \E place \in [1..Len(result) -> chosen] :
    /\ \A i, j \in 1..Len(result) : i < j => place[i] < place[j]
    /\ \A k \in chosen : \E i \in 1..Len(result) : place[i] = k
    /\ \A i \in 1..Len(result) : result[i] = rows[place[i]]

LEMMA SelectionDefined ==
  ASSUME NEW R, NEW rows \in Seq(R), NEW where
  PROVE  LET upTo == Selection(rows, where)
         IN  \A n \in 0..Len(rows) :
               upTo[n] = IF n = 0 THEN << >>
                         ELSE IF where[n] THEN Append(upTo[n - 1], rows[n]) ELSE upTo[n - 1]
  <1> DEFINE N == Len(rows)
             Next(f, n) == IF n = 0 THEN << >>
                           ELSE IF where[n] THEN Append(f[n - 1], rows[n]) ELSE f[n - 1]
             Good(f, k) == \A n \in 0..N : n <= k => f[n] = Next(f, n)
             T == { k \in Nat : ~ \E f : Good(f, k) }
  <1>1. N \in Nat  OBVIOUS
  <1>2. T = {}
    <2> SUFFICES ASSUME T # {} PROVE FALSE  OBVIOUS
    <2>1. PICK k \in T : \A m \in T : k <= m  BY NatMin
    <2>2. CASE k = 0
      <3>1. Good([n \in 0..N |-> << >>], 0)  BY <1>1
      <3> QED  BY <2>2, <3>1
    <2>3. CASE k # 0
      <3>1. k \in Nat /\ k - 1 \in Nat  BY <2>1, <2>3
      <3>2. k - 1 \notin T
        <4> HIDE DEF T
        <4> QED  BY <2>1, <3>1
      <3>3. PICK f : Good(f, k - 1)  BY <3>1, <3>2
      <3> DEFINE g == [n \in 0..N |-> IF n <= k - 1 THEN f[n] ELSE Next(f, n)]
      <3>4. Good(g, k)
        <4> SUFFICES ASSUME NEW n \in 0..N, n <= k PROVE g[n] = Next(g, n)  OBVIOUS
        <4>1. g[n] = Next(f, n)  BY <3>3
        <4>2. CASE n = 0  BY <4>1, <4>2
        <4>3. CASE n # 0
          <5>1. n - 1 \in 0..N /\ n - 1 <= k - 1  BY <1>1, <3>1, <4>3
          <5>2. g[n - 1] = f[n - 1]  BY <5>1
          <5> HIDE DEF g
          <5> QED  BY <4>1, <4>3, <5>2
        <4> QED  BY <4>2, <4>3
      <3> QED  BY <3>1, <3>4
    <2> QED  BY <2>2, <2>3
  <1>3. PICK f : Good(f, N)
    <2>1. N \notin T
      <3> HIDE DEF T
      <3> QED  BY <1>2
    <2> QED  BY <1>1, <2>1
  <1> DEFINE g == [n \in 0..N |-> f[n]]
  <1>4. g = [n \in 0..N |-> Next(g, n)]
    <2>1. ASSUME NEW n \in 0..N PROVE g[n] = Next(g, n)
      <3>1. f[n] = Next(f, n)  BY <1>1, <1>3
      <3>2. n # 0 => n - 1 \in 0..N  BY <1>1
      <3>3. n # 0 => g[n - 1] = f[n - 1]  BY <3>2
      <3>4. g[n] = f[n]  OBVIOUS
      <3> HIDE DEF g
      <3> QED  BY <3>1, <3>3, <3>4
    <2> HIDE DEF g, Next
    <2>2. g = [n \in 0..N |-> g[n]]  BY DEF g
    <2> QED  BY <2>1, <2>2
  <1> HIDE DEF g
  <1>5. Selection(rows, where) = CHOOSE s : s = [n \in 0..N |-> Next(s, n)]
    BY DEF Selection
  <1>6. Selection(rows, where) = [n \in 0..N |-> Next(Selection(rows, where), n)]
    BY <1>4, <1>5
  <1> DEFINE upTo == Selection(rows, where)
  <1> HIDE DEF upTo
  <1>7. upTo = [n \in 0..N |-> Next(upTo, n)]  BY <1>6 DEF upTo
  <1>8. \A n \in 0..N : upTo[n] = Next(upTo, n)  BY <1>7
  <1> QED  BY <1>8 DEF upTo

(* A query returns the rows its WHERE clause holds for, in their order.     *)
LEMMA SelectPicks ==
  ASSUME NEW R, NEW rows \in Seq(R), NEW where
  PROVE  /\ Select(rows, where) \in Seq(R)
         /\ Picks(Select(rows, where), rows, { i \in 1..Len(rows) : where[i] })
  <1> DEFINE N == Len(rows)
             upTo == Selection(rows, where)
             chosen(n) == { i \in 1..n : where[i] }
             Good(n) == upTo[n] \in Seq(R) /\ Picks(upTo[n], rows, chosen(n))
             T == { n \in 0..N : ~Good(n) }
  <1>1. N \in Nat  OBVIOUS
  <1>2. /\ upTo[0] = << >>
        /\ \A n \in 1..N : upTo[n] = IF where[n] THEN Append(upTo[n - 1], rows[n]) ELSE upTo[n - 1]
    <2>1. \A n \in 0..N :
            upTo[n] = IF n = 0 THEN << >>
                      ELSE IF where[n] THEN Append(upTo[n - 1], rows[n]) ELSE upTo[n - 1]
      BY SelectionDefined
    <2> HIDE DEF upTo
    <2>2. 0 \in 0..N /\ \A n \in 1..N : n \in 0..N /\ n # 0  BY <1>1
    <2> QED  BY <2>1, <2>2
  <1> HIDE DEF upTo
  <1>3. Good(0)
    <2> DEFINE none == [i \in 1..0 |-> 0]
    <2>1. upTo[0] \in Seq(R) /\ Len(upTo[0]) = 0  BY <1>2
    <2>2. chosen(0) = {}  OBVIOUS
    <2>3. none \in [1..0 -> chosen(0)]  OBVIOUS
    <2> HIDE DEF none, chosen
    <2>4. Picks(upTo[0], rows, chosen(0))  BY <2>1, <2>2, <2>3 DEF Picks
    <2> QED  BY <2>1, <2>4
  <1>4. ASSUME NEW n \in 1..N, Good(n - 1) PROVE Good(n)
    <2> DEFINE old == upTo[n - 1]
               new == upTo[n]
    <2>1. n \in Nat /\ n - 1 \in Nat /\ rows[n] \in R  BY <1>1
    <2>2. old \in Seq(R) /\ Len(old) \in Nat  BY <1>4
    <2>3. PICK place \in [1..Len(old) -> chosen(n - 1)] :
            /\ \A i, j \in 1..Len(old) : i < j => place[i] < place[j]
            /\ \A k \in chosen(n - 1) : \E i \in 1..Len(old) : place[i] = k
            /\ \A i \in 1..Len(old) : old[i] = rows[place[i]]
      BY <1>4 DEF Picks
    <2>4. CASE ~where[n]
      <3>1. new = old  BY <1>2, <2>4
      <3>2. chosen(n) = chosen(n - 1)  BY <2>1, <2>4
      <3> HIDE DEF old, new, chosen
      <3> QED  BY <1>4, <3>1, <3>2 DEF old, new
    <2>5. CASE where[n]
      <3>1. new = Append(old, rows[n])  BY <1>2, <2>5
      <3>2. chosen(n) = chosen(n - 1) \cup {n}  BY <2>1, <2>5
      <3>3. \A k \in chosen(n - 1) : k \in Nat /\ k < n  BY <2>1
      <3> HIDE DEF old, new, chosen
      <3>4. /\ new \in Seq(R) /\ Len(new) = Len(old) + 1
            /\ \A i \in 1..Len(old) : new[i] = old[i]
            /\ new[Len(old) + 1] = rows[n]
        BY <2>1, <2>2, <3>1
      <3> DEFINE more == [i \in 1..(Len(old) + 1) |-> IF i = Len(old) + 1 THEN n ELSE place[i]]
      <3>5. \A i \in 1..(Len(old) + 1) : i # Len(old) + 1 => i \in 1..Len(old)  BY <2>2
      <3>6. /\ \A i \in 1..Len(old) : i \in 1..(Len(old) + 1) /\ more[i] = place[i]
            /\ more[Len(old) + 1] = n /\ Len(old) + 1 \in 1..(Len(old) + 1)
        BY <2>2
      <3>7. more \in [1..(Len(old) + 1) -> chosen(n)]  BY <2>3, <3>2, <3>5
      <3> HIDE DEF more
      <3>8. \A i, j \in 1..Len(new) : i < j => more[i] < more[j]
        <4> SUFFICES ASSUME NEW i \in 1..(Len(old) + 1), NEW j \in 1..(Len(old) + 1), i < j
                     PROVE  more[i] < more[j]
          BY <3>4
        <4>1. i \in 1..Len(old)  BY <2>2
        <4>2. CASE j = Len(old) + 1  BY <2>3, <3>3, <3>6, <4>1, <4>2
        <4>3. CASE j # Len(old) + 1  BY <2>3, <3>5, <3>6, <4>1, <4>3
        <4> QED  BY <4>2, <4>3
      <3>9. \A k \in chosen(n) : \E i \in 1..Len(new) : more[i] = k
        BY <2>3, <3>2, <3>4, <3>6
      <3>10. \A i \in 1..Len(new) : new[i] = rows[more[i]]
        BY <2>3, <3>4, <3>5, <3>6
      <3>11. Picks(new, rows, chosen(n))
        BY <3>4, <3>7, <3>8, <3>9, <3>10 DEF Picks
      <3> QED  BY <3>4, <3>11 DEF new
    <2> QED  BY <2>4, <2>5
  <1>5. T = {}
    <2> SUFFICES ASSUME T # {} PROVE FALSE  OBVIOUS
    <2>1. T \subseteq Nat  BY <1>1
    <2>2. PICK n \in T : \A m \in T : n <= m
      <3> HIDE DEF T
      <3> QED  BY <2>1, NatMin
    <2>3. n \in 0..N /\ ~Good(n)  BY <2>2
    <2> HIDE DEF Good
    <2>4. n \in 1..N /\ n - 1 \in 0..N  BY <1>1, <1>3, <2>3
    <2>5. n - 1 \notin T
      <3> HIDE DEF T
      <3> QED  BY <2>2, <2>4
    <2>6. Good(n - 1)  BY <2>4, <2>5
    <2> QED  BY <1>4, <2>3, <2>4, <2>6
  <1>6. Good(N)
    <2>1. N \notin T
      <3> HIDE DEF T
      <3> QED  BY <1>5
    <2> HIDE DEF Good
    <2> QED  BY <1>1, <2>1
  <1> QED  BY <1>6 DEF Select, upTo

(* A part of a sequence is a selection of it. *)
LEMMA SubSeqPicks ==
  ASSUME NEW R, NEW rows \in Seq(R), NEW m \in 1..(Len(rows) + 1), NEW n \in 0..Len(rows)
  PROVE  SubSeq(rows, m, n) \in Seq(R) /\ Picks(SubSeq(rows, m, n), rows, m..n)
  <1> DEFINE part == SubSeq(rows, m, n)
             place == [i \in 1..Len(part) |-> m + i - 1]
  <1>1. Len(rows) \in Nat /\ m \in Nat /\ n \in Nat /\ m >= 1  OBVIOUS
  <1>2. \A i \in m..n : rows[i] \in R  BY <1>1
  <1>3. /\ part \in Seq(R) /\ Len(part) = IF m <= n THEN n - m + 1 ELSE 0
        /\ \A i \in 1..(n - m + 1) : part[i] = rows[m + i - 1]
    BY <1>1, <1>2, SubSeqProperties
  <1> HIDE DEF part
  <1>4. \A i \in 1..Len(part) : m + i - 1 \in m..n /\ i \in 1..(n - m + 1)  BY <1>1, <1>3
  <1>5. place \in [1..Len(part) -> m..n]  BY <1>4
  <1>6. \A i, j \in 1..Len(part) : i < j => place[i] < place[j]  BY <1>1, <1>3
  <1>7. ASSUME NEW k \in m..n PROVE \E i \in 1..Len(part) : place[i] = k
    <2>1. k - m + 1 \in 1..Len(part)  BY <1>1, <1>3
    <2>2. place[k - m + 1] = k  BY <1>1, <2>1
    <2> QED  BY <2>1, <2>2
  <1>8. \A i \in 1..Len(part) : part[i] = rows[place[i]]  BY <1>3, <1>4
  <1> HIDE DEF place
  <1>9. Picks(part, rows, m..n)  BY <1>5, <1>6, <1>7, <1>8 DEF Picks
  <1> QED  BY <1>3, <1>9 DEF part

(* In memory and in SQL the same entries are in the window ...              *)
InWindow(rows, now, window) ==
  { i \in 1..Len(rows) : rows[i].at >= now - window /\ rows[i].at <= now }

THEOREM WindowsAgree ==
  ASSUME NEW R, \A r \in R : r.at \in Int, NEW rows \in Seq(R), NEW now \in Int, NEW window \in Nat
  PROVE  /\ SqlWindow(rows, now, window) \in Seq(R)
         /\ Picks(SqlWindow(rows, now, window), rows, InWindow(rows, now, window))
         /\ MemoryWindow(rows, now, window) \in Seq(R)
         /\ Sorted(rows) =>
              Picks(MemoryWindow(rows, now, window), rows, InWindow(rows, now, window))
  <1>1. DOMAIN rows = 1..Len(rows) /\ Len(rows) \in Nat
        /\ \A i \in 1..Len(rows) : rows[i] \in R /\ rows[i].at \in Int
    BY EntryTimes
  <1>2. /\ SqlWindow(rows, now, window) \in Seq(R)
        /\ Picks(SqlWindow(rows, now, window), rows, InWindow(rows, now, window))
    <2> DEFINE where == [i \in DOMAIN rows |-> rows[i].at >= now - window /\ rows[i].at <= now]
    <2>1. { i \in 1..Len(rows) : where[i] } = InWindow(rows, now, window)
      BY <1>1 DEF InWindow
    <2>2. SqlWindow(rows, now, window) = Select(rows, where)  BY DEF SqlWindow
    <2> HIDE DEF where
    <2> QED  BY <2>1, <2>2, SelectPicks
  <1> DEFINE lower == LowerBound(rows, now - window)
             upper == UpperBound(rows, now)
  <1>3. now - window \in Int  OBVIOUS
  <1>4. /\ lower \in 0..Len(rows) /\ upper \in 0..Len(rows)
        /\ Sorted(rows) => \A i \in 1..Len(rows) : rows[i].at < now - window <=> i <= lower
        /\ Sorted(rows) => \A i \in 1..Len(rows) : rows[i].at <= now <=> i <= upper
    BY <1>3, LowerBoundSplits, UpperBoundSplits
  <1>5. MemoryWindow(rows, now, window) = SubSeq(rows, lower + 1, upper)  BY DEF MemoryWindow
  <1> HIDE DEF lower, upper
  <1>6. lower + 1 \in 1..(Len(rows) + 1)  BY <1>1, <1>4
  <1>7. /\ MemoryWindow(rows, now, window) \in Seq(R)
        /\ Picks(MemoryWindow(rows, now, window), rows, (lower + 1)..upper)
    BY <1>4, <1>5, <1>6, SubSeqPicks
  <1>8. ASSUME Sorted(rows) PROVE (lower + 1)..upper = InWindow(rows, now, window)
    <2>1. (lower + 1)..upper = { i \in 1..Len(rows) : ~(i <= lower) /\ i <= upper }
      BY <1>1, <1>4
    <2>2. \A i \in 1..Len(rows) : rows[i].at >= now - window <=> ~(i <= lower)
      BY <1>1, <1>4, <1>8
    <2> QED  BY <1>4, <1>8, <2>1, <2>2 DEF InWindow
  <1> QED  BY <1>2, <1>7, <1>8

(* ... and the same entries are pruned, but for the open transactions.      *)
THEOREM PrunesAgree ==
  ASSUME NEW R, \A r \in R : r.at \in Int /\ r.committed \in BOOLEAN,
         NEW rows \in Seq(R), NEW cutoff \in Int
  PROVE  /\ SqlPruned(rows, cutoff) \in Seq(R)
         /\ Picks(SqlPruned(rows, cutoff), rows,
                  { i \in 1..Len(rows) : rows[i].at >= cutoff \/ ~rows[i].committed })
         /\ MemoryPruned(rows, cutoff) \in Seq(R)
         /\ Sorted(rows) =>
              Picks(MemoryPruned(rows, cutoff), rows, { i \in 1..Len(rows) : rows[i].at >= cutoff })
  <1>1. DOMAIN rows = 1..Len(rows) /\ Len(rows) \in Nat
        /\ \A i \in 1..Len(rows) : rows[i] \in R /\ rows[i].at \in Int
    BY EntryTimes
  <1>2. /\ SqlPruned(rows, cutoff) \in Seq(R)
        /\ Picks(SqlPruned(rows, cutoff), rows,
                 { i \in 1..Len(rows) : rows[i].at >= cutoff \/ ~rows[i].committed })
    <2> DEFINE where == [i \in DOMAIN rows |-> ~(rows[i].committed /\ rows[i].at < cutoff)]
    <2>1. { i \in 1..Len(rows) : where[i] }
          = { i \in 1..Len(rows) : rows[i].at >= cutoff \/ ~rows[i].committed }
      <3>1. ASSUME NEW i \in 1..Len(rows)
            PROVE  where[i] = (rows[i].at >= cutoff \/ ~rows[i].committed)
        <4>1. rows[i].committed \in BOOLEAN /\ rows[i].at \in Int /\ i \in DOMAIN rows
          BY <1>1
        <4> QED  BY <4>1
      <3> HIDE DEF where
      <3> QED  BY <3>1
    <2>2. SqlPruned(rows, cutoff) = Select(rows, where)  BY DEF SqlPruned
    <2> HIDE DEF where
    <2> QED  BY <2>1, <2>2, SelectPicks
  <1> DEFINE lower == LowerBound(rows, cutoff)
  <1>3. /\ lower \in 0..Len(rows)
        /\ Sorted(rows) => \A i \in 1..Len(rows) : rows[i].at < cutoff <=> i <= lower
    BY LowerBoundSplits
  <1>4. MemoryPruned(rows, cutoff) = SubSeq(rows, lower + 1, Len(rows))  BY DEF MemoryPruned
  <1> HIDE DEF lower
  <1>5. lower + 1 \in 1..(Len(rows) + 1) /\ Len(rows) \in 0..Len(rows)  BY <1>1, <1>3
  <1>6. /\ MemoryPruned(rows, cutoff) \in Seq(R)
        /\ Picks(MemoryPruned(rows, cutoff), rows, (lower + 1)..Len(rows))
    BY <1>4, <1>5, SubSeqPicks
  <1>7. ASSUME Sorted(rows)
        PROVE  (lower + 1)..Len(rows) = { i \in 1..Len(rows) : rows[i].at >= cutoff }
    <2>1. (lower + 1)..Len(rows) = { i \in 1..Len(rows) : ~(i <= lower) }  BY <1>1, <1>3
    <2>2. \A i \in 1..Len(rows) : rows[i].at >= cutoff <=> ~(i <= lower)
      BY <1>1, <1>3, <1>7
    <2> QED  BY <2>1, <2>2
  <1> QED  BY <1>2, <1>6, <1>7

-----------------------------------------------------------------------------
(* Buckets as sets of rows: an evaluation has at most one row in a bucket,  *)
(* so a bucket is known by the set of its rows, and a count by a set too.   *)

OneEach(bucket) ==
  \A i, j \in 1..Len(bucket) : bucket[i].by = bucket[j].by => i = j

Rows(bucket) == { bucket[i] : i \in 1..Len(bucket) }

LEMMA PicksKeeps ==
  ASSUME NEW R, \A r \in R : r.at \in Int, NEW rows \in Seq(R), NEW result \in Seq(R),
         NEW chosen \in SUBSET (1..Len(rows)), Picks(result, rows, chosen)
  PROVE  /\ Sorted(rows) => Sorted(result)
         /\ OneEach(rows) => OneEach(result)
         /\ Rows(result) = { rows[i] : i \in chosen }
  <1>1. PICK place \in [1..Len(result) -> chosen] :
          /\ \A i, j \in 1..Len(result) : i < j => place[i] < place[j]
          /\ \A k \in chosen : \E i \in 1..Len(result) : place[i] = k
          /\ \A i \in 1..Len(result) : result[i] = rows[place[i]]
    BY DEF Picks
  <1>2. Len(rows) \in Nat /\ Len(result) \in Nat  OBVIOUS
  <1>3. \A i \in 1..Len(result) : place[i] \in 1..Len(rows) /\ place[i] \in chosen  OBVIOUS
  <1>4. \A i, j \in 1..Len(result) : i <= j => place[i] <= place[j]
    <2> SUFFICES ASSUME NEW i \in 1..Len(result), NEW j \in 1..Len(result), i <= j
                 PROVE  place[i] <= place[j]
      OBVIOUS
    <2>1. i < j \/ i = j  BY <1>2
    <2>2. place[i] \in Nat /\ place[j] \in Nat  BY <1>2, <1>3
    <2> QED  BY <1>1, <2>1, <2>2
  <1>5. \A i, j \in 1..Len(result) : place[i] = place[j] => i = j
    <2> SUFFICES ASSUME NEW i \in 1..Len(result), NEW j \in 1..Len(result), i < j
                 PROVE  place[i] # place[j]
      BY <1>2
    <2>1. place[i] < place[j] /\ place[i] \in Nat /\ place[j] \in Nat  BY <1>1, <1>2, <1>3
    <2> QED  BY <2>1
  <1>6. ASSUME Sorted(rows) PROVE Sorted(result)
    <2> SUFFICES ASSUME NEW i \in 1..Len(result), NEW j \in 1..Len(result), i <= j
                 PROVE  result[i].at <= result[j].at
      BY DEF Sorted
    <2>1. place[i] <= place[j] /\ place[i] \in 1..Len(rows) /\ place[j] \in 1..Len(rows)
      BY <1>3, <1>4
    <2>2. rows[place[i]].at <= rows[place[j]].at  BY <1>6, <2>1 DEF Sorted
    <2> QED  BY <1>1, <2>2
  <1>7. ASSUME OneEach(rows) PROVE OneEach(result)
    <2> SUFFICES ASSUME NEW i \in 1..Len(result), NEW j \in 1..Len(result),
                        result[i].by = result[j].by
                 PROVE  i = j
      BY DEF OneEach
    <2>1. place[i] \in 1..Len(rows) /\ place[j] \in 1..Len(rows)  BY <1>3
    <2>2. rows[place[i]].by = rows[place[j]].by  BY <1>1
    <2>3. place[i] = place[j]  BY <1>7, <2>1, <2>2 DEF OneEach
    <2> QED  BY <1>5, <2>3
  <1>8. Rows(result) = { rows[i] : i \in chosen }
    <2>1. \A i \in 1..Len(result) : result[i] \in { rows[k] : k \in chosen }  BY <1>1, <1>3
    <2>2. \A k \in chosen : \E i \in 1..Len(result) : result[i] = rows[k]  BY <1>1
    <2> QED  BY <2>1, <2>2 DEF Rows
  <1> QED  BY <1>6, <1>7, <1>8

(* With one row each, a bucket is as long as its set of rows is large.      *)
LEMMA RowsCounted ==
  ASSUME NEW R, NEW bucket \in Seq(R), OneEach(bucket)
  PROVE  IsFiniteSet(Rows(bucket)) /\ Cardinality(Rows(bucket)) = Len(bucket)
  <1> DEFINE f == [i \in 1..Len(bucket) |-> bucket[i]]
  <1>1. Len(bucket) \in Nat  OBVIOUS
  <1>2. f \in Bijection(1..Len(bucket), Rows(bucket))
    <2>1. f \in [1..Len(bucket) -> Rows(bucket)]  BY DEF Rows
    <2>2. \A i, j \in 1..Len(bucket) : f[i] = f[j] => i = j  BY DEF OneEach
    <2>3. \A r \in Rows(bucket) : \E i \in 1..Len(bucket) : f[i] = r  BY DEF Rows
    <2> QED  BY <2>1, <2>2, <2>3 DEF Bijection, Injection, Surjection, IsInjective
  <1>3. ExistsBijection(1..Len(bucket), Rows(bucket))  BY <1>2 DEF ExistsBijection
  <1>4. IsFiniteSet(1..Len(bucket)) /\ Cardinality(1..Len(bucket)) = Len(bucket)
    BY <1>1, FS_Interval
  <1> QED  BY <1>3, <1>4, FS_Bijection

(* Insertion keeps the order and adds the row. *)
THEOREM InsertionSorts ==
  ASSUME NEW R, \A r \in R : r.at \in Int, NEW bucket \in Seq(R), NEW entry \in R
  PROVE  /\ InsertSorted(bucket, entry) \in Seq(R)
         /\ Rows(InsertSorted(bucket, entry)) = Rows(bucket) \cup {entry}
         /\ Sorted(bucket) => Sorted(InsertSorted(bucket, entry))
         /\ OneEach(bucket) /\ (\A r \in Rows(bucket) : r.by # entry.by) =>
              OneEach(InsertSorted(bucket, entry))
  <1> DEFINE n == Len(bucket)
             p == UpperBound(bucket, entry.at)
             head == SubSeq(bucket, 1, p)
             tail == SubSeq(bucket, p + 1, n)
             new == InsertSorted(bucket, entry)
  <1>1. /\ n \in Nat /\ entry.at \in Int
        /\ \A i \in 1..n : bucket[i] \in R /\ bucket[i].at \in Int
    BY EntryTimes
  <1>2. /\ p \in 0..n
        /\ Sorted(bucket) => \A i \in 1..n : bucket[i].at <= entry.at <=> i <= p
    BY <1>1, UpperBoundSplits
  <1>3. new = head \o <<entry>> \o tail
    <2>1. (p + 1) - 1 = p  BY <1>1, <1>2
    <2> QED  BY <2>1 DEF InsertSorted, InsertAt
  <1> HIDE DEF p, n
  <1>4. /\ head \in Seq(R) /\ Len(head) = p /\ \A i \in 1..p : head[i] = bucket[i]
    <2>1. \A i \in 1..p : bucket[i] \in R  BY <1>1, <1>2
    <2>2. p \in Int /\ p >= 0  BY <1>1, <1>2
    <2>3. /\ head \in Seq(R) /\ Len(head) = IF 1 <= p THEN p - 1 + 1 ELSE 0
          /\ \A i \in 1..(p - 1 + 1) : head[i] = bucket[1 + i - 1]
      BY <2>1, <2>2, SubSeqProperties
    <2> HIDE DEF head
    <2> QED  BY <2>2, <2>3
  <1>5. /\ tail \in Seq(R) /\ Len(tail) = n - p
        /\ \A i \in 1..(n - p) : tail[i] = bucket[p + i]
    <2>1. \A i \in (p + 1)..n : bucket[i] \in R  BY <1>1, <1>2
    <2>2. p \in Int /\ n \in Int /\ 0 <= p /\ p <= n  BY <1>1, <1>2
    <2>3. /\ tail \in Seq(R) /\ Len(tail) = IF p + 1 <= n THEN n - (p + 1) + 1 ELSE 0
          /\ \A i \in 1..(n - (p + 1) + 1) : tail[i] = bucket[(p + 1) + i - 1]
      BY <2>1, <2>2, SubSeqProperties
    <2> HIDE DEF tail
    <2> QED  BY <2>2, <2>3
  <1> HIDE DEF head, tail, new
  <1>6. /\ new \in Seq(R) /\ Len(new) = n + 1
        /\ \A i \in 1..p : new[i] = bucket[i]
        /\ new[p + 1] = entry
        /\ \A i \in (p + 2)..(n + 1) : new[i] = bucket[i - 1]
    <2> DEFINE front == head \o <<entry>>
    <2>1. <<entry>> \in Seq(R) /\ Len(<<entry>>) = 1 /\ <<entry>>[1] = entry  OBVIOUS
    <2>2. /\ front \in Seq(R) /\ Len(front) = p + 1
          /\ \A i \in 1..p : front[i] = head[i]
          /\ front[p + 1] = entry
      BY <1>1, <1>2, <1>4, <2>1, ConcatProperties
    <2> HIDE DEF front
    <2>3. new = front \o tail  BY <1>3 DEF front
    <2>4. /\ new \in Seq(R) /\ Len(new) = n + 1
          /\ \A i \in 1..(p + 1) : new[i] = front[i]
          /\ \A i \in (p + 2)..(n + 1) : new[i] = tail[i - (p + 1)]
      <3>1. /\ new \in Seq(R) /\ Len(new) = Len(front) + Len(tail)
            /\ \A i \in 1..(Len(front) + Len(tail)) :
                 new[i] = IF i <= Len(front) THEN front[i] ELSE tail[i - Len(front)]
        BY <1>5, <2>2, <2>3, ConcatProperties
      <3>2. p \in Nat /\ n \in Nat /\ p <= n  BY <1>1, <1>2
      <3>3. Len(front) + Len(tail) = n + 1  BY <1>5, <2>2, <3>2
      <3>4. \A i \in 1..(p + 1) : i \in 1..(n + 1) /\ i <= p + 1  BY <3>2
      <3>5. \A i \in (p + 2)..(n + 1) : i \in 1..(n + 1) /\ ~(i <= p + 1)  BY <3>2
      <3> QED  BY <2>2, <3>1, <3>3, <3>4, <3>5
    <2>5. \A i \in (p + 2)..(n + 1) : i - (p + 1) \in 1..(n - p) /\ p + (i - (p + 1)) = i - 1
      BY <1>1, <1>2
    <2>6. \A i \in (p + 2)..(n + 1) : new[i] = bucket[i - 1]  BY <1>5, <2>4, <2>5
    <2>7. \A i \in 1..p : i \in 1..(p + 1)  BY <1>1, <1>2
    <2>8. p + 1 \in 1..(p + 1)  BY <1>1, <1>2
    <2> QED  BY <1>4, <2>2, <2>4, <2>6, <2>7, <2>8
  <1>7. \A i \in 1..(n + 1) :
          \/ i \in 1..p /\ i \in 1..n /\ new[i] = bucket[i]
          \/ i = p + 1 /\ new[i] = entry
          \/ i \in (p + 2)..(n + 1) /\ i - 1 \in 1..n /\ new[i] = bucket[i - 1] /\ ~(i - 1 <= p)
    BY <1>1, <1>2, <1>6
  <1>8. Rows(new) = Rows(bucket) \cup {entry}
    <2>1. \A i \in 1..(n + 1) : new[i] \in Rows(bucket) \cup {entry}  BY <1>7 DEF Rows, n
    <2>2. ASSUME NEW k \in 1..n PROVE \E i \in 1..(n + 1) : new[i] = bucket[k]
      <3>1. CASE k <= p
        <4>1. k \in 1..p /\ k \in 1..(n + 1)  BY <1>1, <1>2, <3>1
        <4> QED  BY <1>6, <4>1
      <3>2. CASE ~(k <= p)
        <4>1. k + 1 \in (p + 2)..(n + 1) /\ k + 1 \in 1..(n + 1) /\ (k + 1) - 1 = k
          BY <1>1, <1>2, <3>2
        <4> QED  BY <1>6, <4>1
      <3> QED  BY <3>1, <3>2
    <2>3. p + 1 \in 1..(n + 1)  BY <1>1, <1>2
    <2> QED  BY <1>6, <2>1, <2>2, <2>3 DEF Rows, n
  <1>9. ASSUME Sorted(bucket) PROVE Sorted(new)
    <2> SUFFICES ASSUME NEW i \in 1..(n + 1), NEW j \in 1..(n + 1), i < j
                 PROVE  new[i].at <= new[j].at
      BY <1>1, <1>6, <1>7 DEF Sorted
    <2>1. \A k, l \in 1..n : k <= l => bucket[k].at <= bucket[l].at  BY <1>9 DEF Sorted, n
    <2>2. \A k \in 1..n : bucket[k].at <= entry.at <=> k <= p  BY <1>2, <1>9
    <2>3. CASE i \in 1..p /\ i \in 1..n /\ new[i] = bucket[i]
      <3>1. bucket[i].at <= entry.at  BY <1>2, <2>2, <2>3
      <3>2. CASE j \in 1..n /\ new[j] = bucket[j]  BY <1>1, <2>1, <2>3, <3>2
      <3>3. CASE new[j] = entry  BY <2>3, <3>1, <3>3
      <3>4. CASE j - 1 \in 1..n /\ new[j] = bucket[j - 1]
        <4>1. i <= j - 1  BY <1>1
        <4> QED  BY <2>1, <2>3, <3>4, <4>1
      <3> QED  BY <1>7, <3>2, <3>3, <3>4
    <2>4. CASE i = p + 1 /\ new[i] = entry
      <3>1. j \in (p + 2)..(n + 1) /\ j - 1 \in 1..n /\ new[j] = bucket[j - 1] /\ ~(j - 1 <= p)
        BY <1>1, <1>2, <1>7, <2>4
      <3>2. ~(bucket[j - 1].at <= entry.at)  BY <2>2, <3>1
      <3> QED  BY <1>1, <2>4, <3>1, <3>2
    <2>5. CASE i \in (p + 2)..(n + 1) /\ i - 1 \in 1..n /\ new[i] = bucket[i - 1]
      <3>1. j \in (p + 2)..(n + 1) /\ j - 1 \in 1..n /\ new[j] = bucket[j - 1]
        BY <1>1, <1>2, <1>7, <2>5
      <3>2. i - 1 <= j - 1  BY <1>1
      <3> QED  BY <2>1, <2>5, <3>1, <3>2
    <2> QED  BY <1>7, <2>3, <2>4, <2>5
  <1>10. ASSUME OneEach(bucket), \A r \in Rows(bucket) : r.by # entry.by PROVE OneEach(new)
    <2>1. \A k, l \in 1..n : bucket[k].by = bucket[l].by => k = l  BY <1>10 DEF OneEach, n
    <2>2. \A k \in 1..n : bucket[k].by # entry.by  BY <1>10 DEF Rows, n
    <2> SUFFICES ASSUME NEW i \in 1..(n + 1), NEW j \in 1..(n + 1), i < j
                 PROVE  new[i].by # new[j].by
      <3>1. ASSUME \A i, j \in 1..(n + 1) : i < j => new[i].by # new[j].by,
                   NEW i \in 1..(n + 1), NEW j \in 1..(n + 1), new[i].by = new[j].by
            PROVE  i = j
        <4>1. ~(i < j) /\ ~(j < i)  BY <3>1
        <4> QED  BY <1>1, <4>1
      <3> QED  BY <1>6, <3>1 DEF OneEach
    <2>3. CASE i \in 1..p /\ i \in 1..n /\ new[i] = bucket[i]
      <3>1. CASE j \in 1..n /\ new[j] = bucket[j]  BY <1>1, <2>1, <2>3, <3>1
      <3>2. CASE new[j] = entry  BY <2>2, <2>3, <3>2
      <3>3. CASE j - 1 \in 1..n /\ new[j] = bucket[j - 1] /\ ~(j - 1 <= p)
        <4>1. i # j - 1  BY <1>1, <1>2, <2>3, <3>3
        <4> QED  BY <2>1, <2>3, <3>3, <4>1
      <3> QED  BY <1>7, <3>1, <3>2, <3>3
    <2>4. CASE i = p + 1 /\ new[i] = entry
      <3>1. j \notin 1..p /\ j # p + 1  BY <1>1, <1>2, <2>4
      <3>2. j - 1 \in 1..n /\ new[j] = bucket[j - 1]  BY <1>7, <3>1
      <3> QED  BY <2>2, <2>4, <3>2
    <2>5. CASE i \in (p + 2)..(n + 1) /\ i - 1 \in 1..n /\ new[i] = bucket[i - 1]
      <3>1. j - 1 \in 1..n /\ new[j] = bucket[j - 1]  BY <1>1, <1>2, <1>7, <2>5
      <3>2. i - 1 # j - 1  BY <1>1
      <3> QED  BY <2>1, <2>5, <3>1, <3>2
    <2> QED  BY <1>7, <2>3, <2>4, <2>5
  <1> QED  BY <1>6, <1>8, <1>9, <1>10 DEF new
=============================================================================
