---------------------------- MODULE PlansProofs -----------------------------
(* What PlansCheck asks of the plans of memory, disk and cache, of reused   *)
(* prefixes, and of conversations that are sent back holds of every input,  *)
(* not only of small ones.                                                  *)
EXTENDS PlansCheck, KvLemmas

LEMMA BoundedIsSeq ==
    ASSUME NEW S, NEW n \in Nat, NEW s \in BoundedSeq(S, n)
    PROVE  s \in Seq(S)
<1>1. PICK m \in 0..n : s \in [1..m -> S]
    BY DEF BoundedSeq, SeqOf
<1> QED BY <1>1, SeqDef

-----------------------------------------------------------------------------
(* checkpoint_from_offsets: the stored ends that hold together hold.        *)
At(ends, i) == IF i = 0 THEN 0 ELSE ends[i]

Holds(a, p, ends, i) ==
    At(ends, i - 1) <= At(ends, i) /\ Agree(a, p, At(ends, i - 1), At(ends, i))

LEMMA HeldEndsAgree ==
    ASSUME NEW S, NEW a \in Seq(S), NEW p \in Seq(S), NEW ends \in Seq(Nat)
    PROVE  LET k == HeldEnds(a, p, ends)
           IN  k \in 0..Len(ends) /\ At(ends, k) \in Nat
               /\ Agree(a, p, 0, At(ends, k))
<1> DEFINE T == {n \in Nat : n = Len(ends) \/ ~Holds(a, p, ends, n + 1)}
           k == HeldEnds(a, p, ends)
<1>1. /\ Len(a) \in Nat /\ Len(p) \in Nat /\ Len(ends) \in Nat
      /\ \A i \in 1..Len(ends) : ends[i] \in Nat
    BY LenProperties, ElementOfSeq
<1>2. T \subseteq Nat /\ Len(ends) \in T
    BY <1>1
<1>3. PICK n \in T : \A m \in 0..(n - 1) : m \notin T
  <2> HIDE DEF T
  <2> QED BY <1>2, SmallestOf
<1>4. n \in 0..Len(ends)
    BY <1>1, <1>2, <1>3
<1>5. \A i \in 1..n : Holds(a, p, ends, i)
  <2> TAKE i \in 1..n
  <2>1. i - 1 \in 0..(n - 1) /\ i - 1 \in Nat /\ i - 1 + 1 = i
    BY <1>4
  <2> QED BY <1>3, <2>1
<1>6. n < Len(ends) => ~Holds(a, p, ends, n + 1)
    BY <1>1, <1>3
<1>7. k \in 0..Len(ends) /\ \A i \in 1..k : Holds(a, p, ends, i)
    BY <1>4, <1>5, <1>6 DEF HeldEnds, Holds, At
<1>8. \A i \in 0..Len(ends) : At(ends, i) \in Nat
    BY <1>1 DEF At
<1>9. Agree(a, p, 0, At(ends, k))
  <2> DEFINE U == {i \in 0..k : Agree(a, p, 0, At(ends, i))}
  <2> HIDE DEF k
  <2>1. 0 \in U
    BY <1>1, <1>7 DEF Agree, At
  <2>2. ASSUME NEW i \in 1..k, i - 1 \in U
        PROVE  i \in U
    <3>1. Agree(a, p, 0, At(ends, i - 1)) /\ Holds(a, p, ends, i)
        BY <1>7, <2>2
    <3>2. i - 1 \in 0..Len(ends) /\ i \in 0..Len(ends) /\ i \in 0..k
        BY <1>1, <1>7
    <3>3. At(ends, i - 1) \in Nat /\ At(ends, i) \in Nat
        BY <1>8, <3>2
    <3>4. Agree(a, p, 0, At(ends, i))
        BY <1>1, <3>1, <3>3 DEF Agree, Holds
    <3> QED BY <3>2, <3>4
  <2>3. 0..k \subseteq U
    <3>1. k \in Nat
        BY <1>7
    <3> HIDE DEF U
    <3> QED BY <2>1, <2>2, <3>1, UpTo
  <2> QED BY <1>7, <2>3
<1> QED BY <1>7, <1>8, <1>9

(* Whatever the stored ends say, the answer is where the two part.          *)
LEMMA CheckpointIsWhereTheyPart ==
    ASSUME NEW S, NEW a \in Seq(S), NEW p \in Seq(S), NEW ends \in Seq(Nat)
    PROVE  LET c == CheckpointFromOffsets(a, p, ends)
           IN  c \in Nat /\ Agree(a, p, 0, c) /\ ~Agree(a, p, 0, c + 1)
<1> DEFINE k == HeldEnds(a, p, ends)
           from == At(ends, k)
           c == CheckpointFromOffsets(a, p, ends)
           T == {n \in from..Len(a) : ~Agree(a, p, from, n + 1)}
<1>1. Len(a) \in Nat /\ Len(p) \in Nat
    BY LenProperties
<1>2. from \in Nat /\ Agree(a, p, 0, from)
    BY HeldEndsAgree
<1>3. c = CHOOSE n \in from..Len(a) : Agree(a, p, from, n) /\ ~Agree(a, p, from, n + 1)
    BY DEF CheckpointFromOffsets, At
<1> HIDE DEF k, c, from
<1>4. from <= Len(a) /\ from <= Len(p)
    BY <1>2 DEF Agree
<1>5. Len(a) \in T /\ T \subseteq Nat
    BY <1>1, <1>2, <1>4 DEF Agree
<1>6. PICK n \in T : \A m \in 0..(n - 1) : m \notin T
  <2> HIDE DEF T
  <2> QED BY <1>5, SmallestOf
<1>7. Agree(a, p, from, n)
  <2>1. CASE n = from
    BY <1>2, <1>4, <2>1 DEF Agree
  <2>2. CASE n # from
    <3>1. n - 1 \in 0..(n - 1) /\ n - 1 \in from..Len(a) /\ n - 1 + 1 = n
        BY <1>1, <1>2, <1>6, <2>2
    <3> QED BY <1>6, <3>1
  <2> QED BY <2>1, <2>2
<1>8. c \in from..Len(a) /\ Agree(a, p, from, c) /\ ~Agree(a, p, from, c + 1)
    BY <1>3, <1>6, <1>7
<1>9. c \in Nat
    BY <1>1, <1>2, <1>8
<1>10. Agree(a, p, 0, c)
    BY <1>1, <1>2, <1>8, <1>9 DEF Agree
<1>11. ~Agree(a, p, 0, c + 1)
    BY <1>1, <1>2, <1>8, <1>9 DEF Agree
<1> QED BY <1>9, <1>10, <1>11 DEF c

(* The prefixes two sequences share, by their length.                       *)
LEMMA SharedPrefixes ==
    ASSUME NEW S, NEW a \in Seq(S), NEW p \in Seq(S)
    PROVE  /\ \A s \in CommonPrefixes({a, p}) :
                  s \in Seq(S) /\ Agree(a, p, 0, Len(s))
           /\ \A n \in Nat : Agree(a, p, 0, n) =>
                  Prefix(a, n) \in CommonPrefixes({a, p}) /\ Len(Prefix(a, n)) = n
<1>1. Len(a) \in Nat /\ Len(p) \in Nat
    BY LenProperties
<1>2. ASSUME NEW s \in CommonPrefixes({a, p})
      PROVE  s \in Seq(S) /\ Agree(a, p, 0, Len(s))
  <2>1. IsPrefix(s, a) /\ IsPrefix(s, p)
    BY DEF CommonPrefixes
  <2>2. PICK t \in {a, p} : \E l \in 0..Len(t) : s = Prefix(t, l)
    BY DEF CommonPrefixes, Prefixes, Prefix
  <2>3. s \in Seq(S)
    BY <2>2, PrefixLemma
  <2>4. /\ Len(s) <= Len(a) /\ \A i \in 1..Len(s) : s[i] = a[i]
        /\ Len(s) <= Len(p) /\ \A i \in 1..Len(s) : s[i] = p[i]
    BY <2>1, <2>3, IsPrefixLemma
  <2> QED BY <2>3, <2>4 DEF Agree
<1>3. ASSUME NEW n \in Nat, Agree(a, p, 0, n)
      PROVE  Prefix(a, n) \in CommonPrefixes({a, p}) /\ Len(Prefix(a, n)) = n
  <2>1. n \in 0..Len(a) /\ n \in 0..Len(p) /\ \A i \in 1..n : a[i] = p[i]
    BY <1>1, <1>3 DEF Agree
  <2>2. /\ Prefix(a, n) \in Seq(S) /\ Len(Prefix(a, n)) = n
        /\ \A i \in 1..n : Prefix(a, n)[i] = a[i]
    BY <2>1, PrefixLemma
  <2>3. IsPrefix(Prefix(a, n), a)
    BY <2>1, IsPrefixLemma
  <2>4. IsPrefix(Prefix(a, n), p)
    BY <2>1, <2>2, IsPrefixLemma
  <2>5. Prefix(a, n) \in Prefixes(a)
    BY <2>1 DEF Prefixes, Prefix
  <2> QED BY <2>2, <2>3, <2>4, <2>5 DEF CommonPrefixes
<1> QED BY <1>2, <1>3

LEMMA CheckpointIsLongest ==
    ASSUME NEW S, NEW a \in Seq(S), NEW p \in Seq(S), NEW ends \in Seq(Nat)
    PROVE  CheckpointFromOffsets(a, p, ends) = Len(LongestCommonPrefix({a, p}))
<1> DEFINE c == CheckpointFromOffsets(a, p, ends)
           shared == CommonPrefixes({a, p})
           best == LongestCommonPrefix({a, p})
<1>1. c \in Nat /\ Agree(a, p, 0, c) /\ ~Agree(a, p, 0, c + 1)
    BY CheckpointIsWhereTheyPart
<1> HIDE DEF c
<1>2. Prefix(a, c) \in shared /\ Len(Prefix(a, c)) = c
    BY <1>1, SharedPrefixes
<1>3. \A s \in shared : Len(s) \in Nat /\ Len(s) <= c
  <2> TAKE s \in shared
  <2>1. s \in Seq(S) /\ Agree(a, p, 0, Len(s))
    BY SharedPrefixes
  <2>2. Len(s) \in Nat
    BY <2>1, LenProperties
  <2>3. CASE Len(s) >= c + 1
    BY <1>1, <2>1, <2>2, <2>3 DEF Agree
  <2> QED BY <1>1, <2>2, <2>3
<1> HIDE DEF shared
<1>4. best \in shared /\ \A s \in shared : Len(s) <= Len(best)
    BY <1>2, <1>3 DEF LongestCommonPrefix, shared
<1>5. Len(best) <= c /\ c <= Len(best) /\ Len(best) \in Nat
  <2> HIDE DEF best
  <2> QED BY <1>2, <1>3, <1>4
<1> HIDE DEF best
<1>6. c = Len(best)
    BY <1>1, <1>5
<1> QED BY <1>6 DEF c, best

-----------------------------------------------------------------------------
(* message_token_ends: no end before the one it follows, all of them inside *)
(* the prompt, a new one where a rendering ends that the prompt begins with. *)
InOneLine(ends) == \A i, j \in 1..Len(ends) : i <= j => ends[i] <= ends[j]

LEMMA EndsAreThePrompts ==
    ASSUME NEW S, NEW a \in Seq(S), NEW p \in Seq(S),
           NEW ends \in Seq(Nat), InOneLine(ends), NEW renders \in Seq(Seq(S))
    PROVE  LET r == MessageTokenEnds(ends, a, p, renders)
           IN  \A i \in DOMAIN r :
                   /\ r[i] <= Len(p)
                   /\ i > 1 => r[i - 1] <= r[i]
                   /\ \/ i \in DOMAIN ends /\ ends[i] = r[i] /\ Agree(a, p, 0, r[i])
                      \/ i \in DOMAIN renders /\ Len(renders[i]) = r[i]
                         /\ IsPrefix(renders[i], p)
<1> DEFINE r == MessageTokenEnds(ends, a, p, renders)
           reuse == ends # <<>> /\ Agree(a, p, 0, Last(ends))
           start == IF reuse THEN Len(ends) ELSE 0
           end(i) == IF i <= start THEN ends[i] ELSE Len(renders[i])
           fits(i) == /\ IsPrefix(renders[i], p)
                      /\ i > 1 => end(i - 1) <= end(i)
           all == IF start > Len(renders) THEN start ELSE Len(renders)
           n == CHOOSE n \in start..all :
                    /\ \A i \in (start + 1)..n : fits(i)
                    /\ n < all => ~fits(n + 1)
           T == {k \in start..all : k = all \/ ~fits(k + 1)}
<1>1. /\ Len(a) \in Nat /\ Len(p) \in Nat /\ Len(ends) \in Nat
      /\ Len(renders) \in Nat
      /\ DOMAIN ends = 1..Len(ends) /\ DOMAIN renders = 1..Len(renders)
      /\ \A i \in 1..Len(ends) : ends[i] \in Nat
      /\ \A i \in 1..Len(renders) : renders[i] \in Seq(S)
    BY LenProperties, ElementOfSeq
<1>2. r = [i \in 1..n |-> end(i)]
    BY DEF MessageTokenEnds
<1>3. start \in Nat /\ all \in Nat /\ start <= all
    BY <1>1
<1>4. reuse \/ start = 0
    OBVIOUS
<1>5. reuse => start = Len(ends)
    OBVIOUS
<1>6. start = Len(ends) \/ start = 0
    OBVIOUS
<1>7. all = start \/ all = Len(renders)
    OBVIOUS
<1>8. \A i : end(i) = IF i <= start THEN ends[i] ELSE Len(renders[i])
    OBVIOUS
<1> HIDE DEF start, all, end, fits
<1>9. PICK m \in T : \A k \in 0..(m - 1) : k \notin T
  <2>1. T \subseteq Nat /\ all \in T
    BY <1>3
  <2> HIDE DEF T
  <2> QED BY <2>1, SmallestOf
<1>10. \A i \in (start + 1)..m : fits(i)
  <2> TAKE i \in (start + 1)..m
  <2>1. /\ i - 1 \in 0..(m - 1) /\ i - 1 \in start..all /\ i - 1 + 1 = i
        /\ i - 1 # all
    BY <1>3, <1>9
  <2> QED BY <1>9, <2>1
<1>11. /\ n \in start..all
       /\ \A i \in (start + 1)..n : fits(i)
  <2>1. m \in start..all /\ (m < all => ~fits(m + 1))
    BY <1>3, <1>9
  <2> QED BY <1>10, <2>1
<1> HIDE DEF n
<1>12. ASSUME NEW i \in 1..n, i <= start
       PROVE  /\ i \in 1..Len(ends) /\ end(i) = ends[i]
              /\ ends[i] <= Len(p) /\ Agree(a, p, 0, ends[i])
              /\ i > 1 => end(i - 1) <= end(i)
  <2>1. reuse /\ start = Len(ends) /\ i \in 1..Len(ends)
    BY <1>3, <1>4, <1>5, <1>11, <1>12
  <2>2. /\ ends[i] <= ends[Len(ends)] /\ Len(ends) \in 1..Len(ends)
        /\ i > 1 => ends[i - 1] <= ends[i]
    <3>1. Len(ends) \in 1..Len(ends) /\ i <= Len(ends)
        BY <1>1, <2>1
    <3>2. i > 1 => i - 1 \in 1..Len(ends) /\ i - 1 <= i
        BY <1>1, <2>1
    <3> QED BY <2>1, <3>1, <3>2 DEF InOneLine
  <2>3. Agree(a, p, 0, ends[Len(ends)])
    BY <2>1 DEF Last
  <2>4. ends[i] \in Nat /\ ends[Len(ends)] \in Nat
    BY <1>1, <2>1, <2>2
  <2>5. Agree(a, p, 0, ends[i])
    <3> DEFINE e == ends[i]
               last == ends[Len(ends)]
    <3>1. e \in Nat /\ last \in Nat /\ e <= last /\ Agree(a, p, 0, last)
        BY <2>2, <2>3, <2>4
    <3> HIDE DEF e, last
    <3>2. Len(a) \in Nat /\ Len(p) \in Nat
        BY LenProperties
    <3>3. e <= Len(a) /\ e <= Len(p) /\ \A j \in (0 + 1)..e : j \in (0 + 1)..last
        BY <3>1, <3>2 DEF Agree
    <3>4. Agree(a, p, 0, e)
        BY <3>1, <3>3 DEF Agree
    <3> QED BY <3>4 DEF e
  <2>6. ends[i] <= Len(p)
    BY <2>5 DEF Agree
  <2>7. end(i) = ends[i] /\ (i > 1 => end(i - 1) = ends[i - 1])
    BY <1>3, <1>8, <1>12
  <2> QED BY <2>1, <2>2, <2>5, <2>6, <2>7
<1>13. ASSUME NEW i \in 1..n, ~(i <= start)
       PROVE  /\ i \in 1..Len(renders) /\ end(i) = Len(renders[i])
              /\ end(i) <= Len(p) /\ IsPrefix(renders[i], p)
              /\ i > 1 => end(i - 1) <= end(i)
  <2>1. i \in (start + 1)..n /\ i \in 1..Len(renders)
    <3>1. n \in Nat /\ n <= all
        BY <1>3, <1>11
    <3>2. i \in Nat /\ i <= n /\ i >= start + 1 /\ i >= 1
        BY <1>3, <1>13, <3>1
    <3>3. all # start
        BY <1>3, <3>1, <3>2
    <3>4. i \in (start + 1)..n
        BY <1>3, <3>1, <3>2
    <3>5. i <= all
        BY <1>3, <3>1, <3>2
    <3>6. all = Len(renders)
        BY <1>7, <3>3
    <3>7. Len(renders) \in Nat /\ i <= Len(renders)
        BY <1>1, <3>5, <3>6
    <3>8. i \in 1..Len(renders)
        BY <3>2, <3>7
    <3> QED BY <3>4, <3>8
  <2>2. fits(i)
    BY <1>11, <2>1
  <2>3. IsPrefix(renders[i], p) /\ (i > 1 => end(i - 1) <= end(i))
    BY <2>2 DEF fits
  <2>4. end(i) = Len(renders[i])
    BY <1>8, <1>13
  <2>5. end(i) <= Len(p)
    BY <2>3, <2>4 DEF IsPrefix
  <2> QED BY <2>1, <2>3, <2>4, <2>5
<1>14. /\ DOMAIN r = 1..n /\ \A i \in 1..n : r[i] = end(i)
       /\ \A i \in 1..n : i > 1 => r[i - 1] = end(i - 1)
  <2>1. n \in Nat
    BY <1>3, <1>11
  <2> HIDE DEF r
  <2> QED BY <1>2, <2>1
<1> HIDE DEF r
<1>15. ASSUME NEW i \in DOMAIN r
       PROVE  /\ r[i] <= Len(p)
              /\ i > 1 => r[i - 1] <= r[i]
              /\ \/ i \in DOMAIN ends /\ ends[i] = r[i] /\ Agree(a, p, 0, r[i])
                 \/ i \in DOMAIN renders /\ Len(renders[i]) = r[i]
                    /\ IsPrefix(renders[i], p)
  <2>1. i \in 1..n /\ r[i] = end(i) /\ (i > 1 => r[i - 1] = end(i - 1))
    BY <1>14
  <2>2. CASE i <= start
    BY <1>1, <1>12, <2>1, <2>2
  <2>3. CASE ~(i <= start)
    BY <1>1, <1>13, <2>1, <2>3
  <2> QED BY <2>2, <2>3
<1> QED BY <1>15 DEF r

-----------------------------------------------------------------------------
(* Sums over sets.                                                          *)

(* Induction over the subsets of a finite set.                              *)
LEMMA BySubsets ==
    ASSUME NEW S, IsFiniteSet(S), NEW W,
           \A s \in SUBSET S : (\A x \in s : s \ {x} \in W) => s \in W
    PROVE  SUBSET S \subseteq W
<1> DEFINE T == {n \in Nat : \A s \in SUBSET S : Cardinality(s) = n => s \in W}
<1>1. \A s \in SUBSET S : IsFiniteSet(s) /\ Cardinality(s) \in 0..Cardinality(S)
  <2> TAKE s \in SUBSET S
  <2>1. IsFiniteSet(s) /\ Cardinality(s) <= Cardinality(S)
    BY FS_Subset
  <2>2. Cardinality(s) \in Nat /\ Cardinality(S) \in Nat
    BY <2>1, FS_CardinalityType
  <2> QED BY <2>1, <2>2
<1>2. 0 \in T
  <2> SUFFICES ASSUME NEW s \in SUBSET S, Cardinality(s) = 0 PROVE s \in W
    OBVIOUS
  <2>1. s = {}
    BY <1>1, FS_EmptySet
  <2> QED BY <2>1
<1>3. ASSUME NEW n \in 1..Cardinality(S), n - 1 \in T PROVE n \in T
  <2> SUFFICES ASSUME NEW s \in SUBSET S, Cardinality(s) = n PROVE s \in W
    OBVIOUS
  <2>1. ASSUME NEW x \in s PROVE s \ {x} \in W
    <3>1. Cardinality(s \ {x}) = n - 1
        BY <1>1, FS_RemoveElement
    <3> QED BY <1>3, <3>1
  <2> QED BY <2>1
<1>4. 0..Cardinality(S) \subseteq T
  <2>1. Cardinality(S) \in Nat
    BY FS_CardinalityType
  <2> HIDE DEF T
  <2> QED BY <1>2, <1>3, <2>1, UpTo
<1> QED BY <1>1, <1>4

(* MapThenSumSet takes the elements out in an order of its own.             *)
Some(s) == CHOOSE x \in s : TRUE

SetSums(S) ==
    LET iter[s \in SUBSET S] ==
            IF s = {} THEN 0 ELSE Some(s).bytes + iter[s \ {Some(s)}]
    IN  iter

Sized(S) == IsFiniteSet(S) /\ \A r \in S : r.bytes \in Nat

SumsUp(g, D) ==
    /\ g \in [D -> Nat]
    /\ \A s \in D : g[s] = IF s = {} THEN 0 ELSE Some(s).bytes + g[s \ {Some(s)}]

LEMMA SetSumsExist ==
    ASSUME NEW S, Sized(S)
    PROVE  SumsUp(SetSums(S), SUBSET S)
<1> DEFINE D(n) == {s \in SUBSET S : Cardinality(s) <= n}
           T == {n \in Nat : \E g : SumsUp(g, D(n))}
           N == Cardinality(S)
<1>1. IsFiniteSet(S) /\ N \in Nat /\ \A r \in S : r.bytes \in Nat
    BY FS_CardinalityType DEF Sized
<1>2. \A s \in SUBSET S : /\ IsFiniteSet(s) /\ Cardinality(s) \in Nat
                          /\ Cardinality(s) <= N
                          /\ (Cardinality(s) = 0 <=> s = {})
    BY <1>1, FS_Subset, FS_CardinalityType, FS_EmptySet
<1>3. \A s \in SUBSET S : s # {} =>
          /\ Some(s) \in s /\ Some(s) \in S
          /\ s \ {Some(s)} \in SUBSET S
          /\ Cardinality(s \ {Some(s)}) = Cardinality(s) - 1
  <2> TAKE s \in SUBSET S
  <2> HAVE s # {}
  <2>1. Some(s) \in s
    BY DEF Some
  <2>2. IsFiniteSet(s)
    BY <1>2
  <2>3. Cardinality(s \ {Some(s)}) = Cardinality(s) - 1
    BY <2>1, <2>2, FS_RemoveElement
  <2> QED BY <2>1, <2>3
<1> HIDE DEF N
<1>4. 0 \in T
  <2>1. \A s \in SUBSET S : Cardinality(s) <= 0 <=> s = {}
    <3> TAKE s \in SUBSET S
    <3>1. Cardinality(s) \in Nat /\ (Cardinality(s) = 0 <=> s = {})
        BY <1>2
    <3> QED BY <3>1
  <2>2. SumsUp([s \in D(0) |-> 0], D(0))
    BY <2>1 DEF SumsUp
  <2> QED BY <2>2
<1>5. ASSUME NEW n \in 1..N, n - 1 \in T PROVE n \in T
  <2>1. PICK g : SumsUp(g, D(n - 1))
    BY <1>5
  <2> DEFINE h == [s \in D(n) |-> IF s = {} THEN 0
                                  ELSE Some(s).bytes + g[s \ {Some(s)}]]
  <2>2. \A s \in D(n) : s # {} => s \ {Some(s)} \in D(n - 1)
    <3> TAKE s \in D(n)
    <3> HAVE s # {}
    <3>1. /\ s \ {Some(s)} \in SUBSET S
          /\ Cardinality(s \ {Some(s)}) = Cardinality(s) - 1
        BY <1>3
    <3>2. Cardinality(s) \in Nat /\ Cardinality(s) <= n /\ n \in Nat
        BY <1>1, <1>2
    <3> DEFINE k == Cardinality(s)
    <3>3. k - 1 <= n - 1
        BY <3>2
    <3> QED BY <3>1, <3>3
  <2>3. D(n - 1) \subseteq D(n)
    <3> SUFFICES ASSUME NEW s \in SUBSET S, Cardinality(s) <= n - 1
                 PROVE  Cardinality(s) <= n
        OBVIOUS
    <3>1. Cardinality(s) \in Nat /\ n \in Nat
        BY <1>1, <1>2
    <3> QED BY <3>1
  <2>4. \A s \in D(n - 1) : h[s] = g[s]
    BY <2>1, <2>3 DEF SumsUp
  <2>5. h \in [D(n) -> Nat]
    <3>1. ASSUME NEW s \in D(n)
          PROVE  (IF s = {} THEN 0 ELSE Some(s).bytes + g[s \ {Some(s)}]) \in Nat
      <4>1. CASE s # {}
        <5>1. g[s \ {Some(s)}] \in Nat
            BY <2>1, <2>2, <4>1 DEF SumsUp
        <5>2. Some(s).bytes \in Nat
            BY <1>1, <1>3, <4>1
        <5> QED BY <4>1, <5>1, <5>2
      <4> QED BY <4>1
    <3> QED BY <3>1
  <2>6. \A s \in D(n) :
            h[s] = IF s = {} THEN 0 ELSE Some(s).bytes + h[s \ {Some(s)}]
    BY <2>2, <2>4
  <2>7. SumsUp(h, D(n))
    <3> HIDE DEF h
    <3> QED BY <2>5, <2>6 DEF SumsUp
  <2>8. n \in Nat
    BY <1>1
  <2> QED BY <2>7, <2>8
<1>6. N \in T
  <2>1. 0..N \subseteq T
    <3>1. N \in Nat
        BY <1>1
    <3> HIDE DEF T
    <3> QED BY <1>4, <1>5, <3>1, UpTo
  <2> QED BY <1>1, <2>1
<1>7. PICK g : SumsUp(g, SUBSET S)
  <2>1. D(N) = SUBSET S
    <3>1. \A s \in SUBSET S : Cardinality(s) <= N
        BY <1>2
    <3> QED BY <3>1
  <2> QED BY <1>6, <2>1
<1>8. g = [s \in SUBSET S |-> IF s = {} THEN 0
                              ELSE Some(s).bytes + g[s \ {Some(s)}]]
  <2>1. g = [s \in SUBSET S |-> g[s]]
    BY <1>7 DEF SumsUp
  <2> QED BY <1>7, <2>1 DEF SumsUp
<1> DEFINE f == SetSums(S)
<1>9. f = [s \in SUBSET S |-> IF s = {} THEN 0
                              ELSE Some(s).bytes + f[s \ {Some(s)}]]
    BY <1>8 DEF SetSums
<1>10. \A s \in SUBSET S :
          f[s] = IF s = {} THEN 0 ELSE Some(s).bytes + f[s \ {Some(s)}]
  <2> HIDE DEF f
  <2> QED BY <1>9
<1>11. SUBSET S \subseteq {s \in SUBSET S : f[s] \in Nat}
  <2> DEFINE W == {s \in SUBSET S : f[s] \in Nat}
  <2> HIDE DEF f
  <2>1. ASSUME NEW s \in SUBSET S, \A x \in s : s \ {x} \in W PROVE s \in W
    <3>1. CASE s = {}
        BY <1>10, <3>1
    <3>2. CASE s # {}
      <4>1. Some(s) \in s /\ Some(s).bytes \in Nat
        BY <1>1, <1>3, <3>2
      <4>2. f[s \ {Some(s)}] \in Nat
        BY <2>1, <4>1
      <4>3. f[s] = Some(s).bytes + f[s \ {Some(s)}]
        BY <1>10, <3>2
      <4> QED BY <4>1, <4>2, <4>3
    <3> QED BY <3>1, <3>2
  <2> HIDE DEF W
  <2>2. SUBSET S \subseteq W
    BY <1>1, <2>1, BySubsets
  <2> QED BY <2>2 DEF W
<1>12. f \in [SUBSET S -> Nat]
  <2>1. \A s \in SUBSET S : f[s] \in Nat
    BY <1>11
  <2>2. f = [s \in SUBSET S |-> f[s]]
    <3> HIDE DEF f
    <3> QED BY <1>9
  <2> HIDE DEF f
  <2> QED BY <2>1, <2>2
<1> QED BY <1>10, <1>12 DEF SumsUp

LEMMA SizeIsSum == \A S : SizeOf(S) = SetSums(S)[S] /\ BytesOf(S) = SizeOf(S)
BY DEF SizeOf, BytesOf, MapThenSumSet, MapThenFoldSet, SetSums, Some

(* The sum of a set is the same wherever it is a part.                      *)
LEMMA SizeOfPart ==
    ASSUME NEW S, Sized(S)
    PROVE  \A s \in SUBSET S : SetSums(S)[s] = SizeOf(s) /\ SizeOf(s) \in Nat
<1> SUFFICES ASSUME NEW R \in SUBSET S
             PROVE  SetSums(S)[R] = SizeOf(R) /\ SizeOf(R) \in Nat
    OBVIOUS
<1> DEFINE W == {s \in SUBSET R : SetSums(S)[s] = SetSums(R)[s]}
<1>1. IsFiniteSet(R) /\ Sized(R)
    BY FS_Subset DEF Sized
<1>2. SumsUp(SetSums(S), SUBSET S) /\ SumsUp(SetSums(R), SUBSET R)
    BY <1>1, SetSumsExist
<1>3. ASSUME NEW s \in SUBSET R, \A x \in s : s \ {x} \in W PROVE s \in W
  <2>1. CASE s = {}
    BY <1>2, <2>1 DEF SumsUp
  <2>2. CASE s # {}
    <3>1. Some(s) \in s
        BY <2>2 DEF Some
    <3>2. SetSums(S)[s \ {Some(s)}] = SetSums(R)[s \ {Some(s)}]
        BY <1>3, <3>1
    <3>3. /\ SetSums(S)[s] = Some(s).bytes + SetSums(S)[s \ {Some(s)}]
          /\ SetSums(R)[s] = Some(s).bytes + SetSums(R)[s \ {Some(s)}]
        BY <1>2, <2>2 DEF SumsUp
    <3> QED BY <3>2, <3>3
  <2> QED BY <2>1, <2>2
<1>4. R \in W
  <2> HIDE DEF W
  <2> QED BY <1>1, <1>3, BySubsets
<1> QED BY <1>2, <1>4, SizeIsSum DEF SumsUp

LEMMA SizeOfNone == SizeOf({}) = 0
<1>1. Sized({})
    BY FS_EmptySet DEF Sized
<1>2. SumsUp(SetSums({}), SUBSET {})
    BY <1>1, SetSumsExist
<1> QED BY <1>2, SizeIsSum DEF SumsUp

(* Whichever element is taken out takes its bytes along.                    *)
LEMMA SizeOfRest ==
    ASSUME NEW S, Sized(S), NEW x \in S
    PROVE  /\ SizeOf(S) = x.bytes + SizeOf(S \ {x})
           /\ SizeOf(S) \in Nat /\ SizeOf(S \ {x}) \in Nat /\ x.bytes \in Nat
<1> DEFINE W == {s \in SUBSET S : \A y \in s : SizeOf(s) = y.bytes + SizeOf(s \ {y})}
<1>1. IsFiniteSet(S) /\ \A r \in S : r.bytes \in Nat
    BY DEF Sized
<1>2. \A s \in SUBSET S : SetSums(S)[s] = SizeOf(s) /\ SizeOf(s) \in Nat
    BY SizeOfPart
<1>3. SumsUp(SetSums(S), SUBSET S)
    BY SetSumsExist
<1>4. \A s \in SUBSET S : s # {} =>
          Some(s) \in s /\ SizeOf(s) = Some(s).bytes + SizeOf(s \ {Some(s)})
  <2> TAKE s \in SUBSET S
  <2> HAVE s # {}
  <2>1. Some(s) \in s /\ s \ {Some(s)} \in SUBSET S
    BY DEF Some
  <2>2. SetSums(S)[s] = Some(s).bytes + SetSums(S)[s \ {Some(s)}]
    BY <1>3 DEF SumsUp
  <2> QED BY <1>2, <2>1, <2>2
<1>5. ASSUME NEW s \in SUBSET S, \A z \in s : s \ {z} \in W PROVE s \in W
  <2> SUFFICES ASSUME NEW y \in s
               PROVE  SizeOf(s) = y.bytes + SizeOf(s \ {y})
    OBVIOUS
  <2> DEFINE z == Some(s)
  <2>1. z \in s /\ SizeOf(s) = z.bytes + SizeOf(s \ {z})
    BY <1>4
  <2>2. CASE z = y
    BY <2>1, <2>2
  <2>3. CASE z # y
    <3> HIDE DEF z
    <3>1. y \in s \ {z} /\ z \in s \ {y} /\ (s \ {z}) \ {y} = (s \ {y}) \ {z}
        BY <2>1, <2>3
    <3>2. /\ SizeOf(s \ {z}) = y.bytes + SizeOf((s \ {z}) \ {y})
          /\ SizeOf(s \ {y}) = z.bytes + SizeOf((s \ {y}) \ {z})
        BY <1>5, <2>1, <3>1
    <3> DEFINE rest == SizeOf((s \ {z}) \ {y})
               yb == y.bytes
               zb == z.bytes
    <3>3. yb \in Nat /\ zb \in Nat /\ rest \in Nat
        BY <1>1, <1>2, <2>1
    <3>4. SizeOf(s) = zb + (yb + rest) /\ SizeOf(s \ {y}) = zb + rest
        BY <2>1, <3>1, <3>2
    <3> HIDE DEF yb, zb, rest
    <3>5. SizeOf(s) = yb + SizeOf(s \ {y})
        BY <3>3, <3>4
    <3> QED BY <3>5 DEF yb
  <2> QED BY <2>2, <2>3
<1>6. S \in W
  <2> HIDE DEF W
  <2> QED BY <1>1, <1>5, BySubsets
<1> QED BY <1>1, <1>2, <1>6

(* A part, and what is left without it.                                     *)
LEMMA SizeOfSplit ==
    ASSUME NEW S, Sized(S), NEW R \in SUBSET S
    PROVE  /\ SizeOf(S \ R) = SizeOf(S) - SizeOf(R)
           /\ SizeOf(S) \in Nat /\ SizeOf(R) \in Nat /\ SizeOf(S \ R) \in Nat
<1> DEFINE W == {s \in SUBSET S : SizeOf(S \ s) = SizeOf(S) - SizeOf(s)}
<1>1. \A s \in SUBSET S : Sized(s) /\ SizeOf(s) \in Nat
    BY SizeOfPart, FS_Subset DEF Sized
<1>2. ASSUME NEW s \in SUBSET S, \A x \in s : s \ {x} \in W PROVE s \in W
  <2>1. CASE s = {}
    <3>1. SizeOf(S \ s) = SizeOf(S) /\ SizeOf(s) = 0
        BY <2>1, SizeOfNone
    <3> QED BY <1>1, <3>1
  <2>2. CASE s # {}
    <3>1. PICK x \in s : TRUE
        BY <2>2
    <3> DEFINE a == SizeOf(S \ s)
               b == SizeOf(S)
               c == SizeOf(s \ {x})
               xb == x.bytes
    <3>2. SizeOf(S \ (s \ {x})) = b - c
        BY <1>2, <3>1
    <3>3. x \in S \ (s \ {x}) /\ (S \ (s \ {x})) \ {x} = S \ s
        BY <3>1
    <3>4. SizeOf(S \ (s \ {x})) = xb + a
        BY <1>1, <3>3, SizeOfRest
    <3>5. SizeOf(s) = xb + c /\ xb \in Nat
        BY <1>1, <3>1, SizeOfRest
    <3>6. a \in Nat /\ b \in Nat /\ c \in Nat
        BY <1>1
    <3> HIDE DEF a, b, c, xb
    <3>7. a = b - SizeOf(s)
        BY <3>2, <3>4, <3>5, <3>6
    <3> QED BY <3>7 DEF a, b
  <2> QED BY <2>1, <2>2
<1>3. R \in W
  <2>1. IsFiniteSet(S)
    BY DEF Sized
  <2> HIDE DEF W
  <2> QED BY <1>2, <2>1, BySubsets
<1> QED BY <1>1, <1>3

LEMMA SizeGrows ==
    ASSUME NEW S, Sized(S), NEW R \in SUBSET S, NEW Q \in SUBSET R
    PROVE  SizeOf(Q) <= SizeOf(R) /\ SizeOf(Q) \in Nat /\ SizeOf(R) \in Nat
<1>1. Sized(R)
    BY FS_Subset DEF Sized
<1>2. /\ SizeOf(R \ Q) = SizeOf(R) - SizeOf(Q) /\ SizeOf(R \ Q) \in Nat
      /\ SizeOf(Q) \in Nat /\ SizeOf(R) \in Nat
    BY <1>1, SizeOfSplit
<1> QED BY <1>2

-----------------------------------------------------------------------------
(* Both plans for a directory go down an order until the rest fits.         *)
LineOf(lt, S) ==
    /\ \A f \in S : <<f, f>> \notin lt
    /\ \A f, g, h \in S : <<f, g>> \in lt /\ <<g, h>> \in lt => <<f, h>> \in lt
    /\ \A f, g \in S : f = g \/ <<f, g>> \in lt \/ <<g, f>> \in lt

Before(lt, S, f) == {g \in S : <<g, f>> \in lt}

(* Of the members of a part one comes first.                                *)
LEMMA FirstInLine ==
    ASSUME NEW S, IsFiniteSet(S), NEW lt, LineOf(lt, S), NEW R \in SUBSET S, R # {}
    PROVE  \E f \in R : \A g \in R \ {f} : <<f, g>> \in lt
<1> DEFINE rank(f) == Cardinality(Before(lt, S, f))
           T == {n \in Nat : \E f \in R : rank(f) = n}
<1>1. \A f \in S : IsFiniteSet(Before(lt, S, f)) /\ rank(f) \in Nat
    BY FS_Subset, FS_CardinalityType DEF Before
<1>2. T \subseteq Nat /\ T # {}
    BY <1>1
<1>3. PICK n \in T : \A m \in 0..(n - 1) : m \notin T
  <2> HIDE DEF T
  <2> QED BY <1>2, SmallestOf
<1>4. PICK f \in R : rank(f) = n
    BY <1>3
<1>5. ASSUME NEW g \in R \ {f} PROVE <<f, g>> \in lt
  <2> SUFFICES ASSUME <<g, f>> \in lt PROVE FALSE
    BY <1>4 DEF LineOf
  <2>1. Before(lt, S, g) \subseteq Before(lt, S, f)
    BY <1>4 DEF Before, LineOf
  <2>2. g \in Before(lt, S, f) /\ g \notin Before(lt, S, g)
    BY DEF Before, LineOf
  <2>3. rank(g) <= rank(f) /\ rank(g) # rank(f)
    BY <1>1, <1>4, <2>1, <2>2, FS_Subset
  <2>4. rank(g) \in Nat /\ rank(f) \in Nat
    BY <1>1, <1>4
  <2> HIDE DEF rank
  <2>5. rank(g) \in 0..(n - 1) /\ rank(g) \in T
    BY <1>4, <2>3, <2>4
  <2> QED BY <1>3, <2>5
<1> QED BY <1>4, <1>5

(* A member goes while what is left without those before it is too much.    *)
Dropped(lt, S, total, limit) ==
    {f \in S : total - SizeOf(Before(lt, S, f)) > limit}

LEMMA DroppedIsTight ==
    ASSUME NEW S, Sized(S), NEW lt, LineOf(lt, S),
           NEW total \in Int, NEW limit \in Nat
    PROVE  LET gone == Dropped(lt, S, total, limit)
           IN  /\ \A f \in S \ gone, g \in gone : <<g, f>> \in lt
               /\ \A f \in gone : /\ Before(lt, gone, f) = Before(lt, S, f)
                                  /\ total - SizeOf(Before(lt, gone, f)) > limit
               /\ gone # {} => total > limit
               /\ total > limit /\ S # {} => gone # {}
               /\ gone = S \/ total - SizeOf(gone) <= limit
               /\ gone \in SUBSET S
<1> DEFINE gone == Dropped(lt, S, total, limit)
           left(f) == total - SizeOf(Before(lt, S, f))
<1>1. IsFiniteSet(S) /\ gone \in SUBSET S
    BY DEF Sized, Dropped
<1>2. \A f \in S : SizeOf(Before(lt, S, f)) \in Nat
    BY SizeOfPart DEF Before
<1>3. \A f \in S : f \in gone <=> left(f) > limit
    BY DEF Dropped
<1>4. ASSUME NEW f \in S, NEW g \in gone, <<f, g>> \in lt PROVE f \in gone
  <2>1. Before(lt, S, f) \in SUBSET Before(lt, S, g) /\ Before(lt, S, g) \in SUBSET S
    BY <1>1, <1>4 DEF Before, LineOf
  <2> DEFINE a == SizeOf(Before(lt, S, f))
             b == SizeOf(Before(lt, S, g))
  <2>2. a <= b /\ a \in Nat /\ b \in Nat
    BY <2>1, SizeGrows
  <2>3. total - b > limit
    BY <1>1, <1>3
  <2> HIDE DEF a, b
  <2>4. total - a > limit
    BY <2>2, <2>3
  <2> QED BY <1>3, <2>4 DEF a
<1>5. \A f \in S \ gone, g \in gone : <<g, f>> \in lt
    BY <1>1, <1>4 DEF LineOf
<1>6. ASSUME NEW f \in gone
      PROVE  /\ Before(lt, gone, f) = Before(lt, S, f)
             /\ total - SizeOf(Before(lt, gone, f)) > limit
  <2>1. Before(lt, gone, f) = Before(lt, S, f)
    BY <1>1, <1>4 DEF Before
  <2> QED BY <1>1, <1>3, <2>1
<1>7. ASSUME gone # {} PROVE total > limit
  <2>1. PICK f \in gone : TRUE
    BY <1>7
  <2> DEFINE a == SizeOf(Before(lt, S, f))
  <2>2. a \in Nat /\ total - a > limit
    BY <1>1, <1>2, <1>3
  <2> HIDE DEF a
  <2> QED BY <2>2
<1>8. ASSUME NEW R \in SUBSET S, R # {}
      PROVE  \E f \in R : Before(lt, S, f) \cap R = {}
  <2>1. PICK f \in R : \A g \in R \ {f} : <<f, g>> \in lt
    BY <1>1, <1>8, FirstInLine
  <2>2. Before(lt, S, f) \cap R = {}
    BY <2>1 DEF Before, LineOf
  <2> QED BY <2>2
<1>9. ASSUME total > limit, S # {} PROVE gone # {}
  <2>1. PICK f \in S : Before(lt, S, f) \cap S = {}
    BY <1>8, <1>9
  <2>2. Before(lt, S, f) = {}
    BY <2>1 DEF Before
  <2>3. left(f) = total
    BY <2>2, SizeOfNone
  <2> QED BY <1>3, <1>9, <2>3
<1>10. ASSUME gone # S PROVE total - SizeOf(gone) <= limit
  <2>1. PICK f \in S \ gone : Before(lt, S, f) \cap (S \ gone) = {}
    BY <1>1, <1>8, <1>10
  <2>2. Before(lt, S, f) = gone
    BY <1>1, <1>5, <2>1 DEF Before
  <2>3. ~(left(f) > limit) /\ SizeOf(gone) \in Nat
    BY <1>2, <1>3, <2>2
  <2> QED BY <2>2, <2>3
<1> QED BY <1>1, <1>5, <1>6, <1>7, <1>9, <1>10

-----------------------------------------------------------------------------
(* Files, sessions and candidates go by their ids.                          *)
Named(R) ==
    /\ \A r \in R : r.id \in 1..MaxHeld
    /\ \A r, q \in R : r.id = q.id => r = q

LEMMA NamedAreFinite ==
    ASSUME NEW R, Named(R)
    PROVE  IsFiniteSet(R)
<1> DEFINE f == [r \in R |-> r.id]
<1>1. f \in Injection(R, 1..MaxHeld)
    BY DEF Named, Injection, IsInjective
<1>2. IsFiniteSet(1..MaxHeld)
    BY BoundsAssumption, FS_Interval
<1> QED BY <1>1, <1>2, FS_Injection

(* plan_session_disk_gc.                                                    *)
Files(files) ==
    /\ Named(files)
    /\ \A f \in files : f.bytes \in Nat /\ f.mtime \in Nat

LEMMA FileSetsAreFiles ==
    ASSUME NEW files \in FileSets
    PROVE  Files(files)
<1> DEFINE Present == [bytes : 0..MaxSize, mtime : 0..MaxSize]
<1>1. PICK S \in SUBSET (1..MaxHeld) :
          files \in {{[id |-> i, bytes |-> f[i].bytes, mtime |-> f[i].mtime]
                         : i \in S} : f \in [S -> Present]}
    BY DEF FileSets
<1>2. PICK f \in [S -> Present] :
          files = {[id |-> i, bytes |-> f[i].bytes, mtime |-> f[i].mtime] : i \in S}
    BY <1>1
<1>3. \A i \in S : f[i].bytes \in Nat /\ f[i].mtime \in Nat
    BY <1>2, BoundsAssumption
<1> QED BY <1>2, <1>3 DEF Files, Named

LEMMA GcPlan ==
    ASSUME NEW files, Files(files), NEW age \in Int, age >= 0, NEW limit \in Nat,
           NEW now
    PROVE  LET gone == PlanDiskGc(files, age, limit, now)
               old  == {f \in files : IsOld(f, age, now)}
               before(f) == {g \in gone : Older(g, f)}
           IN  /\ gone \subseteq old
               /\ \A f \in old \ gone, g \in gone : Older(g, f)
               /\ \A f \in gone : SizeOf(files \ before(f)) > limit
               /\ SizeOf(files) > limit /\ limit < MaxBytes /\ old # {} => gone # {}
               /\ SizeOf(files) <= MaxBytes =>
                      SizeOf(files \ gone) <= limit \/ gone = old
<1> DEFINE gone == PlanDiskGc(files, age, limit, now)
           old  == {f \in files : IsOld(f, age, now)}
           all  == SizeOf(files)
           total == Capped(all)
           lt == {p \in files \X files : Older(p[1], p[2])}
<1>1. /\ Sized(files) /\ Sized(old)
      /\ \A f \in files : f.id \in Nat /\ f.mtime \in Nat
      /\ \A f, g \in files : f.id = g.id => f = g
  <2>1. IsFiniteSet(files)
    BY NamedAreFinite DEF Files
  <2>2. IsFiniteSet(old)
    BY <2>1, FS_Subset
  <2> QED BY <2>1, <2>2 DEF Sized, Files, Named
<1>2. \A f, g \in files : <<f, g>> \in lt <=> Older(f, g)
    OBVIOUS
<1> HIDE DEF lt
<1>3. LineOf(lt, old)
    BY <1>1, <1>2 DEF LineOf, Older
<1>4. all \in Nat /\ total \in Nat /\ total <= all /\ (all <= MaxBytes => total = all)
      /\ (all > limit /\ limit < MaxBytes => total > limit)
  <2>1. all \in Nat
    BY <1>1, SizeOfPart
  <2> HIDE DEF all
  <2> QED BY <2>1, MaxBytesAssumption DEF Capped
<1>5. gone = Dropped(lt, old, total, limit)
  <2>1. \A f \in old : Before(lt, old, f) = {g \in old : Older(g, f)}
    BY <1>2 DEF Before
  <2>2. gone = {f \in old : total - SizeOf({g \in old : Older(g, f)}) > limit}
    BY DEF PlanDiskGc
  <2> HIDE DEF old, gone, total
  <2> QED BY <2>1, <2>2 DEF Dropped
<1> HIDE DEF gone, total, all
<1>6. /\ \A f \in old \ gone, g \in gone : <<g, f>> \in lt
      /\ \A f \in gone : total - SizeOf(Before(lt, gone, f)) > limit
      /\ total > limit /\ old # {} => gone # {}
      /\ gone = old \/ total - SizeOf(gone) <= limit
      /\ gone \in SUBSET old
  <2> HIDE DEF old
  <2> QED BY <1>1, <1>3, <1>4, <1>5, DroppedIsTight
<1>7. \A f \in old \ gone, g \in gone : Older(g, f)
    BY <1>2, <1>6
<1>8. ASSUME NEW f \in gone
      PROVE  SizeOf(files \ {g \in gone : Older(g, f)}) > limit
  <2> DEFINE b == {g \in gone : Older(g, f)}
  <2>1. Before(lt, gone, f) = b /\ b \in SUBSET files
    BY <1>2, <1>6 DEF Before
  <2>2. total - SizeOf(b) > limit
    BY <1>6, <2>1
  <2> HIDE DEF b
  <2>3. SizeOf(files \ b) = all - SizeOf(b) /\ SizeOf(b) \in Nat
    BY <1>1, <2>1, SizeOfSplit DEF all
  <2>4. SizeOf(files \ b) > limit
    BY <1>4, <2>2, <2>3
  <2> QED BY <2>4 DEF b
<1>9. all <= MaxBytes => SizeOf(files \ gone) <= limit \/ gone = old
  <2>1. gone \in SUBSET files
    BY <1>6
  <2>2. SizeOf(files \ gone) = all - SizeOf(gone)
    BY <1>1, <2>1, SizeOfSplit DEF all
  <2> QED BY <1>4, <1>6, <2>2
<1> QED BY <1>4, <1>6, <1>7, <1>8, <1>9 DEF gone, all

(* plan_session_cache.                                                      *)
Rows(rows) ==
    /\ Named(rows)
    /\ \A r \in rows : r.bytes \in Nat /\ r.mtime \in Nat

Refs(refs) == Named(refs) /\ \A r \in refs : r.updated \in Nat

LEMMA RowsAndRefs ==
    ASSUME NEW found \in [1..MaxHeld -> Founds], NEW known \in [1..MaxHeld -> Knowns]
    PROVE  Rows(RowsOf(found)) /\ Refs(RefsOf(known))
<1>1. \A r : r \in RowsOf(found) <=>
          \E i \in 1..MaxHeld : \E f \in found[i] : r = Row(i, f.bytes, f.json, f.mtime)
    BY DEF RowsOf
<1>2. \A r : r \in RefsOf(known) <=>
          \E i \in 1..MaxHeld : \E k \in known[i] : r = Ref(i, k.updated, k.pinned)
    BY DEF RefsOf
<1>3. \A i \in 1..MaxHeld : \A f, g \in found[i] :
          f = g /\ f.bytes \in Nat /\ f.mtime \in Nat
    BY DEF Founds
<1>4. \A i \in 1..MaxHeld : \A k, m \in known[i] : k = m /\ k.updated \in Nat
    BY DEF Knowns
<1>5. Rows(RowsOf(found))
    BY <1>1, <1>3 DEF Rows, Named, Row
<1>6. Refs(RefsOf(known))
    BY <1>2, <1>4 DEF Refs, Named, Ref
<1> QED BY <1>5, <1>6

(* Everything that may go: sessions and stray files, by their ids.          *)
LEMMA CandidatesAreNamed ==
    ASSUME NEW rows, Rows(rows), NEW refs, Refs(refs)
    PROVE  LET all == SessionCandidates(rows, refs) \cup Orphans(rows, refs)
           IN  /\ Named(all) /\ Sized(all)
               /\ \A c \in all : /\ c.bytes = BytesUnder(rows, c.id)
                                 /\ c.updated \in Nat
               /\ \A o \in Orphans(rows, refs) : o.pinned = FALSE
<1> DEFINE sessions == SessionCandidates(rows, refs)
           stray == Orphans(rows, refs)
           all == sessions \cup stray
<1>1. \A r \in rows : BytesUnder(rows, r.id) = r.bytes
  <2> TAKE r \in rows
  <2>1. r.id \in IdsOf(rows) /\ \A q \in rows : q.id = r.id => q = r
    BY DEF IdsOf, Rows, Named
  <2> QED BY <2>1 DEF BytesUnder
<1>2. \A i : BytesUnder(rows, i) \in Nat
  <2> TAKE i
  <2>1. CASE i \in IdsOf(rows)
    <3>1. PICK r \in rows : r.id = i
        BY <2>1 DEF IdsOf
    <3> QED BY <1>1, <3>1 DEF Rows
  <2>2. CASE i \notin IdsOf(rows)
    BY <2>2 DEF BytesUnder
  <2> QED BY <2>1, <2>2
<1>3. ASSUME NEW c \in all
      PROVE  \/ /\ c.id \in IdsOf(refs)
                /\ \E r \in refs : c = Candidate(r.id, r.updated,
                                                 BytesUnder(rows, r.id), r.pinned)
             \/ /\ c.id \notin IdsOf(refs)
                /\ \E r \in rows : c = Candidate(r.id, r.mtime, r.bytes, FALSE)
    BY DEF SessionCandidates, Orphans, Candidate, IdsOf
<1> HIDE DEF all
<1>4. \A c \in all : /\ c.id \in 1..MaxHeld /\ c.bytes = BytesUnder(rows, c.id)
                     /\ c.updated \in Nat
  <2> TAKE c \in all
  <2>1. CASE \E r \in refs : c = Candidate(r.id, r.updated,
                                           BytesUnder(rows, r.id), r.pinned)
    BY <2>1 DEF Candidate, Refs, Named
  <2>2. CASE \E r \in rows : c = Candidate(r.id, r.mtime, r.bytes, FALSE)
    BY <1>1, <2>2 DEF Candidate, Rows, Named
  <2> QED BY <1>3, <2>1, <2>2
<1>5. ASSUME NEW c \in all, NEW d \in all, c.id = d.id PROVE c = d
  <2>1. CASE c.id \in IdsOf(refs)
    <3>1. PICK r \in refs : c = Candidate(r.id, r.updated,
                                          BytesUnder(rows, r.id), r.pinned)
        BY <1>3, <2>1
    <3>2. PICK q \in refs : d = Candidate(q.id, q.updated,
                                          BytesUnder(rows, q.id), q.pinned)
        BY <1>3, <1>5, <2>1
    <3>3. r.id = q.id
        BY <1>5, <3>1, <3>2 DEF Candidate
    <3>4. r = q
        BY <3>3 DEF Refs, Named
    <3> QED BY <3>1, <3>2, <3>4
  <2>2. CASE c.id \notin IdsOf(refs)
    <3>1. PICK r \in rows : c = Candidate(r.id, r.mtime, r.bytes, FALSE)
        BY <1>3, <2>2
    <3>2. PICK q \in rows : d = Candidate(q.id, q.mtime, q.bytes, FALSE)
        BY <1>3, <1>5, <2>2
    <3>3. r.id = q.id
        BY <1>5, <3>1, <3>2 DEF Candidate
    <3>4. r = q
        BY <3>3 DEF Rows, Named
    <3> QED BY <3>1, <3>2, <3>4
  <2> QED BY <2>1, <2>2
<1>6. Named(all)
    BY <1>4, <1>5 DEF Named
<1>7. Sized(all)
    BY <1>2, <1>4, <1>6, NamedAreFinite DEF Sized
<1>8. \A o \in stray : o.pinned = FALSE
    BY DEF Orphans, Candidate
<1> QED BY <1>4, <1>6, <1>7, <1>8 DEF all

(* What goes weighs what the directory holds under its ids.                 *)
Under(rows, s) == {r \in rows : r.id \in IdsOf(s)}

LEMMA WeightIsRows ==
    ASSUME NEW rows, Rows(rows), NEW D, Named(D), Sized(D),
           \A c \in D : c.bytes = BytesUnder(rows, c.id)
    PROVE  SizeOf(D) = SizeOf(Under(rows, D))
<1> DEFINE W == {s \in SUBSET D : SizeOf(s) = SizeOf(Under(rows, s))}
<1>1. Sized(rows)
    BY NamedAreFinite DEF Rows, Sized
<1>2. \A s \in SUBSET D : Sized(s) /\ SizeOf(s) \in Nat
    BY SizeOfPart, FS_Subset DEF Sized
<1>3. ASSUME NEW s \in SUBSET D, \A x \in s : s \ {x} \in W PROVE s \in W
  <2>1. CASE s = {}
    <3>1. Under(rows, s) = {}
        BY <2>1 DEF Under, IdsOf
    <3> QED BY <2>1, <3>1
  <2>2. CASE s # {}
    <3>1. PICK x \in s : TRUE
        BY <2>2
    <3>2. SizeOf(s) = x.bytes + SizeOf(s \ {x}) /\ SizeOf(s \ {x}) \in Nat
        BY <1>2, <3>1, SizeOfRest
    <3>3. SizeOf(s \ {x}) = SizeOf(Under(rows, s \ {x}))
        BY <1>3, <3>1
    <3>4. \A i : i \in IdsOf(s \ {x}) <=> i \in IdsOf(s) /\ i # x.id
        BY <3>1 DEF IdsOf, Named
    <3>5. x.id \in IdsOf(s)
        BY <3>1 DEF IdsOf
    <3>6. CASE x.id \in IdsOf(rows)
      <4>1. PICK r \in rows : r.id = x.id
        BY <3>6 DEF IdsOf
      <4>2. \A q \in rows : q.id = x.id => q = r
        BY <4>1 DEF Rows, Named
      <4>3. x.bytes = r.bytes
        BY <3>1, <3>6, <4>1, <4>2 DEF BytesUnder
      <4>4. r \in Under(rows, s) /\ Under(rows, s) \ {r} = Under(rows, s \ {x})
        BY <3>4, <3>5, <4>1, <4>2 DEF Under
      <4>5. Sized(Under(rows, s))
        BY <1>1, FS_Subset DEF Sized, Under
      <4>6. SizeOf(Under(rows, s)) = r.bytes + SizeOf(Under(rows, s \ {x}))
        BY <4>4, <4>5, SizeOfRest
      <4> QED BY <3>2, <3>3, <4>3, <4>6
    <3>7. CASE x.id \notin IdsOf(rows)
      <4>1. x.bytes = 0
        BY <3>1, <3>7 DEF BytesUnder
      <4>2. Under(rows, s) = Under(rows, s \ {x})
        BY <3>4, <3>7 DEF Under, IdsOf
      <4> QED BY <3>2, <3>3, <4>1, <4>2
    <3> QED BY <3>6, <3>7
  <2> QED BY <2>1, <2>2
<1>4. D \in W
  <2>1. IsFiniteSet(D)
    BY DEF Sized
  <2> HIDE DEF W
  <2> QED BY <1>3, <2>1, BySubsets
<1> QED BY <1>4

(* What the directory holds without some of the candidates.                 *)
LEMMA WithoutSome ==
    ASSUME NEW rows, Rows(rows), NEW D, Named(D), Sized(D),
           \A c \in D : c.bytes = BytesUnder(rows, c.id),
           NEW gone \in SUBSET D
    PROVE  BytesOf({r \in rows : r.id \notin IdsOf(gone)}) = SizeOf(rows) - SizeOf(gone)
<1>1. Sized(rows) /\ Named(gone) /\ Sized(gone)
  <2>1. IsFiniteSet(rows) /\ IsFiniteSet(gone)
    BY NamedAreFinite, FS_Subset DEF Rows, Sized
  <2> QED BY <2>1 DEF Rows, Sized, Named
<1>2. SizeOf(gone) = SizeOf(Under(rows, gone))
    BY <1>1, WeightIsRows
<1>3. Under(rows, gone) \in SUBSET rows
    BY DEF Under
<1>4. {r \in rows : r.id \notin IdsOf(gone)} = rows \ Under(rows, gone)
    BY DEF Under
<1>5. SizeOf(rows \ Under(rows, gone)) = SizeOf(rows) - SizeOf(Under(rows, gone))
    BY <1>1, <1>3, SizeOfSplit
<1>6. \A X : BytesOf(X) = SizeOf(X)
    BY DEF BytesOf, SizeOf
<1> QED BY <1>2, <1>4, <1>5, <1>6

(* A stray file is not a session.                                           *)
LEMMA StrayIsNoSession ==
    ASSUME NEW rows, Rows(rows), NEW refs, Refs(refs)
    PROVE  SessionCandidates(rows, refs) \cap Orphans(rows, refs) = {}
<1> SUFFICES ASSUME NEW c \in SessionCandidates(rows, refs),
                    c \in Orphans(rows, refs)
             PROVE  FALSE
    OBVIOUS
<1>1. PICK o \in rows : /\ ~o.json /\ o.id \notin IdsOf(refs)
                        /\ c.id = o.id
    BY DEF Orphans, Candidate
<1>2. c.id \in IdsOf(refs) \/ \E r \in rows : r.json /\ c.id = r.id
    BY DEF SessionCandidates, Candidate, IdsOf
<1>3. \A r \in rows : r.id = o.id => r = o
    BY <1>1 DEF Rows, Named
<1> QED BY <1>1, <1>2, <1>3

Stalest(all) == {p \in all \X all : StalestFirst(p[1], p[2])}

LEMMA LimitPlan ==
    ASSUME NEW rows, Rows(rows), NEW refs, Refs(refs), NEW limit \in Nat, limit > 0
    PROVE  LET plan   == PlanSessionCache(rows, refs, limit)
               unused == {c \in SessionCandidates(rows, refs) : ~c.pinned}
               stray  == Orphans(rows, refs)
               gone   == plan.sessions \cup plan.orphans
               staler(c) == {d \in gone : StalestFirst(d, c)}
               rest(S) == BytesOf({r \in rows : r.id \notin IdsOf(S)})
           IN  /\ plan.sessions \subseteq unused /\ plan.orphans \subseteq stray
               /\ \A S \in {unused, stray} : \A c, e \in S :
                      StalestFirst(c, e) /\ e \in gone => c \in gone
               /\ plan.orphans # {} => unused = plan.sessions
               /\ \A c \in plan.sessions :
                      rest(staler(c) \cap plan.sessions) > limit
               /\ \A c \in plan.orphans : rest(staler(c) \cup plan.sessions) > limit
               /\ plan.over <=> rest(gone) > limit
               /\ plan.over => gone = unused \cup stray
<1> DEFINE plan == PlanSessionCache(rows, refs, limit)
           unused == {c \in SessionCandidates(rows, refs) : ~c.pinned}
           stray == Orphans(rows, refs)
           all == SessionCandidates(rows, refs) \cup stray
           lt == Stalest(all)
           total == SizeOf(rows)
           sessions == Dropped(lt, unused, total, limit)
           left == total - SizeOf(sessions)
           orphans == Dropped(lt, stray, left, limit)
           gone == sessions \cup orphans
           rest(S) == BytesOf({r \in rows : r.id \notin IdsOf(S)})
<1>1. /\ Named(all) /\ Sized(all)
      /\ \A c \in all : c.bytes = BytesUnder(rows, c.id) /\ c.updated \in Nat
      /\ \A o \in stray : o.pinned = FALSE
    BY CandidatesAreNamed
<1>2. /\ unused \in SUBSET all /\ stray \in SUBSET all
      /\ unused \cap stray = {}
    BY StrayIsNoSession
<1>3. \A c, d \in all : <<c, d>> \in lt <=> StalestFirst(c, d)
    BY DEF Stalest
<1>4. /\ \A c, d \in all : c.id = d.id => c = d
      /\ \A c \in all : c.id \in Nat /\ c.updated \in Nat
    BY <1>1 DEF Named
<1>5. \A s \in SUBSET all : rest(s) = total - SizeOf(s)
  <2> HIDE DEF all
  <2> QED BY <1>1, WithoutSome
<1>6. \A s \in SUBSET all : Sized(s) /\ SizeOf(s) \in Nat
  <2> HIDE DEF all
  <2> QED BY <1>1, SizeOfPart, FS_Subset DEF Sized
<1>7. total \in Nat
  <2>1. Sized(rows)
    BY NamedAreFinite DEF Rows, Sized
  <2> QED BY <2>1, SizeOfPart
<1>8. \A X : BytesOf(X) = SizeOf(X)
    BY DEF BytesOf, SizeOf
<1>9. LineOf(lt, unused) /\ LineOf(lt, stray)
  <2> HIDE DEF lt, all, unused, stray
  <2>1. LineOf(lt, all)
    BY <1>3, <1>4 DEF LineOf, StalestFirst
  <2> QED BY <1>2, <2>1 DEF LineOf
<1>10. /\ Evict(SessionCandidates(rows, refs), total, limit) = sessions
       /\ Evict(stray, left, limit) = orphans
  <2>1. /\ \A c \in unused : Before(lt, unused, c) = {d \in unused : StalestFirst(d, c)}
        /\ \A c \in stray : Before(lt, stray, c) = {d \in stray : StalestFirst(d, c)}
    <3> HIDE DEF lt, all, unused, stray
    <3> QED BY <1>2, <1>3 DEF Before
  <2>2. {c \in stray : ~c.pinned} = stray
    BY <1>1
  <2>3. Evict(SessionCandidates(rows, refs), total, limit)
            = {c \in unused : total - SizeOf({d \in unused : StalestFirst(d, c)}) > limit}
    BY <1>8 DEF Evict
  <2>4. Evict(stray, left, limit)
            = {c \in stray : left - SizeOf({d \in stray : StalestFirst(d, c)}) > limit}
    BY <1>8, <2>2 DEF Evict
  <2>5. Evict(SessionCandidates(rows, refs), total, limit) = sessions
    <3> HIDE DEF unused, total
    <3> QED BY <2>1, <2>3 DEF Dropped
  <2>6. Evict(stray, left, limit) = orphans
    <3> HIDE DEF stray, left
    <3> QED BY <2>1, <2>4 DEF Dropped
  <2> QED BY <2>5, <2>6
<1>11. CASE total <= limit
  <2>1. plan = [sessions |-> {}, orphans |-> {}, over |-> FALSE]
    BY <1>8, <1>11 DEF PlanSessionCache
  <2>2. rest({}) = total
    BY <1>5, <1>7, SizeOfNone
  <2> HIDE DEF plan, rest, total
  <2> QED BY <1>7, <1>11, <2>1, <2>2 DEF plan, rest
<1>12. CASE total > limit
  <2>1. /\ plan.sessions = sessions /\ plan.orphans = orphans
        /\ plan.over = (left - SizeOf(orphans) > limit)
    <3>1. plan = [sessions |-> sessions, orphans |-> orphans,
                  over |-> left - SizeOf(orphans) > limit]
      <4> HIDE DEF sessions, orphans
      <4> QED BY <1>7, <1>8, <1>10, <1>12 DEF PlanSessionCache
    <3> HIDE DEF plan, sessions, orphans, left
    <3> QED BY <3>1
  <2> HIDE DEF plan, unused, stray, all, lt
  <2>2. /\ \A f \in unused \ sessions, g \in sessions : <<g, f>> \in lt
        /\ \A f \in sessions : total - SizeOf(Before(lt, sessions, f)) > limit
        /\ sessions = unused \/ left <= limit
        /\ sessions \in SUBSET unused
    <3> HIDE DEF total
    <3>1. Sized(unused)
      BY <1>2, <1>6
    <3> QED BY <1>7, <1>9, <3>1, DroppedIsTight
  <2>3. sessions \in SUBSET all /\ left \in Int /\ SizeOf(sessions) \in Nat
    <3>1. sessions \in SUBSET all
      BY <1>2, <2>2
    <3> HIDE DEF sessions, total
    <3> QED BY <1>6, <1>7, <3>1
  <2> HIDE DEF total, sessions
  <2>4. /\ \A f \in stray \ orphans, g \in orphans : <<g, f>> \in lt
        /\ \A f \in orphans : left - SizeOf(Before(lt, orphans, f)) > limit
        /\ orphans # {} => left > limit
        /\ orphans = stray \/ left - SizeOf(orphans) <= limit
        /\ orphans \in SUBSET stray
    <3>1. Sized(stray)
      BY <1>2, <1>6
    <3> HIDE DEF left
    <3> QED BY <1>9, <2>3, <3>1, DroppedIsTight
  <2> HIDE DEF orphans
  <2>5. /\ orphans \in SUBSET all /\ gone \in SUBSET all
        /\ sessions \cap orphans = {}
        /\ sessions \cap stray = {} /\ orphans \cap unused = {}
    BY <1>2, <2>2, <2>4
  <2>6. \A s \in SUBSET orphans : rest(s \cup sessions) = left - SizeOf(s)
    <3> TAKE s \in SUBSET orphans
    <3> DEFINE u == s \cup sessions
    <3>1. u \in SUBSET all /\ sessions \in SUBSET u /\ u \ sessions = s
        BY <2>3, <2>5
    <3>2. SizeOf(u \ sessions) = SizeOf(u) - SizeOf(sessions) /\ SizeOf(u) \in Nat
        BY <1>6, <3>1, SizeOfSplit
    <3>3. rest(u) = total - SizeOf(u)
        BY <1>5, <3>1
    <3> DEFINE a == SizeOf(u)
               b == SizeOf(sessions)
               c == SizeOf(s)
    <3>4. rest(u) = total - a /\ c = a - b /\ a \in Nat /\ b \in Nat
        BY <2>3, <3>1, <3>2, <3>3
    <3> HIDE DEF u, rest, a, b, c
    <3>5. total - a = (total - b) - c
        BY <1>7, <3>4
    <3> QED BY <3>4, <3>5 DEF u, b, c
  <2>7. left - SizeOf(orphans) > limit <=> rest(gone) > limit
    <3>1. rest(orphans \cup sessions) = left - SizeOf(orphans)
        BY <2>6
    <3>2. gone = orphans \cup sessions
        OBVIOUS
    <3> HIDE DEF rest, left, gone
    <3> QED BY <3>1, <3>2
  <2>8. left - SizeOf(orphans) > limit => gone = unused \cup stray
    <3> SUFFICES ASSUME left - SizeOf(orphans) > limit PROVE gone = unused \cup stray
        OBVIOUS
    <3>1. SizeOf(orphans) \in Nat
        BY <1>6, <2>5
    <3>2. orphans = stray /\ sessions = unused
      <4> HIDE DEF left
      <4> QED BY <2>2, <2>3, <2>4, <3>1
    <3> QED BY <3>2
  <2>9. orphans # {} => unused = sessions
    <3> HIDE DEF left
    <3> QED BY <2>2, <2>3, <2>4
  <2>10. ASSUME NEW c \in sessions
         PROVE  rest({d \in gone : StalestFirst(d, c)} \cap sessions) > limit
    <3> DEFINE b == {d \in gone : StalestFirst(d, c)} \cap sessions
    <3>1. b = Before(lt, sessions, c) /\ b \in SUBSET all
        BY <1>3, <2>3 DEF Before
    <3>2. rest(b) = total - SizeOf(b)
        BY <1>5, <3>1
    <3> HIDE DEF b, rest
    <3> QED BY <2>2, <3>1, <3>2 DEF b
  <2>11. ASSUME NEW c \in orphans
         PROVE  rest({d \in gone : StalestFirst(d, c)} \cup sessions) > limit
    <3> DEFINE b == Before(lt, orphans, c)
    <3>1. /\ {d \in gone : StalestFirst(d, c)} \cup sessions = b \cup sessions
          /\ b \in SUBSET orphans
        BY <1>3, <2>5 DEF Before
    <3>2. rest(b \cup sessions) = left - SizeOf(b)
        BY <2>6, <3>1
    <3>3. left - SizeOf(b) > limit
        BY <2>4
    <3> HIDE DEF b, rest, left
    <3>4. rest(b \cup sessions) > limit
        BY <3>2, <3>3
    <3> QED BY <3>1, <3>4
  <2>12. \A c, d \in all : ~(<<c, d>> \in lt /\ <<d, c>> \in lt)
    <3> TAKE c, d \in all
    <3>1. /\ c.updated \in Nat /\ d.updated \in Nat
          /\ c.id \in Nat /\ d.id \in Nat
        BY <1>4
    <3>2. ~(StalestFirst(c, d) /\ StalestFirst(d, c))
        BY <3>1 DEF StalestFirst
    <3> QED BY <1>3, <3>2
  <2>13. ASSUME NEW S \in {unused, stray}, NEW c \in S, NEW e \in S,
                StalestFirst(c, e), e \in gone
         PROVE  c \in gone
    <3>1. c \in all /\ e \in all /\ <<c, e>> \in lt
        BY <1>2, <1>3, <2>13
    <3>2. CASE S = unused
        BY <2>2, <2>5, <2>12, <2>13, <3>1, <3>2
    <3>3. CASE S = stray
        BY <2>4, <2>5, <2>12, <2>13, <3>1, <3>3
    <3> QED BY <3>2, <3>3
  <2> HIDE DEF rest, left
  <2>14. /\ plan.over <=> rest(gone) > limit
         /\ plan.over => gone = unused \cup stray
    BY <2>1, <2>7, <2>8
  <2> QED BY <2>1, <2>2, <2>4, <2>9, <2>10, <2>11, <2>13, <2>14
          DEF rest, plan, unused, stray
<1>13. total <= limit \/ total > limit
  <2> HIDE DEF total
  <2> QED BY <1>7
<1> QED BY <1>11, <1>12, <1>13

-----------------------------------------------------------------------------
(* Conversations: what the loop of responses_from_json has read after each  *)
(* item.                                                                    *)
LEMMA LargestOf ==
    ASSUME NEW n \in Nat, NEW s \in SUBSET (1..n), s # {}
    PROVE  Max(s) \in s /\ \A y \in s : y <= Max(s)
<1> DEFINE T == {m \in Nat : \A y \in s : y <= m}
<1>1. T \subseteq Nat /\ n \in T
    OBVIOUS
<1>2. PICK m \in T : \A k \in 0..(m - 1) : k \notin T
    BY <1>1, SmallestOf
<1>3. m \in s
  <2> SUFFICES ASSUME m \notin s PROVE FALSE
    OBVIOUS
  <2>1. m \in Nat /\ \A y \in s : y \in 1..n /\ y <= m /\ y # m
    BY <1>2
  <2>2. PICK z \in s : TRUE
    OBVIOUS
  <2>3. m - 1 \in Nat /\ m - 1 \in 0..(m - 1)
    BY <2>1, <2>2
  <2>4. \A y \in s : y <= m - 1
    BY <2>1
  <2> QED BY <1>2, <2>3, <2>4
<1>4. \A y \in s : m >= y
  <2> TAKE y \in s
  <2>1. m \in Nat /\ y \in Nat /\ y <= m
    BY <1>2
  <2> QED BY <2>1
<1>5. Max(s) \in s /\ \A y \in s : Max(s) >= y
    BY <1>3, <1>4 DEF Max
<1> DEFINE x == Max(s)
<1>6. x \in Nat /\ \A y \in s : y \in Nat
  <2>1. \A y \in s : y \in Nat
    OBVIOUS
  <2> HIDE DEF x
  <2> QED BY <1>5, <2>1 DEF x
<1>7. \A y \in s : y <= x
  <2> TAKE y \in s
  <2>1. x \in Nat /\ y \in Nat /\ x >= y
    BY <1>5, <1>6
  <2> HIDE DEF x
  <2> QED BY <2>1
<1> QED BY <1>5, <1>7

Readings(input) ==
    LET iter[s \in SUBSET DOMAIN input] ==
            IF s = {} THEN <<>>
            ELSE AppendItem(iter[s \ {Max(s)}], input[Max(s)])
    IN  iter

(* The messages after i items. *)
ReadTo(input, i) == Readings(input)[1..i]

Reads(g, input, D) ==
    /\ g = [s \in D |-> g[s]]
    /\ \A s \in D :
           g[s] = IF s = {} THEN <<>>
                  ELSE AppendItem(g[s \ {Max(s)}], input[Max(s)])

LEMMA WithoutLargest ==
    ASSUME NEW n \in Nat, NEW s \in SUBSET (1..n), s # {}
    PROVE  s \ {Max(s)} \in SUBSET (1..(n - 1))
<1>1. Max(s) \in s /\ \A y \in s : y <= Max(s)
    BY LargestOf
<1>2. \A y \in s \ {Max(s)} : y \in 1..(n - 1)
  <2> TAKE y \in s \ {Max(s)}
  <2>1. y \in 1..n /\ Max(s) \in 1..n /\ y <= Max(s) /\ y # Max(s)
    BY <1>1
  <2> QED BY <2>1
<1> QED BY <1>2

LEMMA ReadingsExist ==
    ASSUME NEW input, NEW N \in Nat, DOMAIN input = 1..N
    PROVE  Reads(Readings(input), input, SUBSET (1..N))
<1> DEFINE T == {n \in Nat : \E g : Reads(g, input, SUBSET (1..n))}
<1>1. 0 \in T
  <2> DEFINE g == [s \in SUBSET (1..0) |-> <<>>]
  <2>1. Reads(g, input, SUBSET (1..0))
    <3>1. \A s \in SUBSET (1..0) : s = {}
        OBVIOUS
    <3> QED BY <3>1 DEF Reads
  <2> QED BY <2>1
<1>2. ASSUME NEW n \in 1..N, n - 1 \in T PROVE n \in T
  <2>1. PICK g : Reads(g, input, SUBSET (1..(n - 1)))
    BY <1>2
  <2> DEFINE read(f, s) == IF s = {} THEN <<>>
                           ELSE AppendItem(f[s \ {Max(s)}], input[Max(s)])
             h == [s \in SUBSET (1..n) |-> read(g, s)]
  <2>2. n \in Nat
    OBVIOUS
  <2>3. \A s \in SUBSET (1..n) : s # {} => s \ {Max(s)} \in SUBSET (1..(n - 1))
    BY <2>2, WithoutLargest
  <2>4. \A s \in SUBSET (1..(n - 1)) : s \in SUBSET (1..n) /\ g[s] = read(g, s)
    <3>1. 1..(n - 1) \subseteq 1..n
        OBVIOUS
    <3>2. \A s \in SUBSET (1..(n - 1)) : g[s] = read(g, s)
        BY <2>1 DEF Reads
    <3> QED BY <3>1, <3>2
  <2> HIDE DEF read
  <2>5. \A s \in SUBSET (1..(n - 1)) : h[s] = g[s]
    BY <2>4
  <2>6. \A s \in SUBSET (1..n) : h[s] = read(h, s)
    <3> TAKE s \in SUBSET (1..n)
    <3>1. h[s] = read(g, s)
        OBVIOUS
    <3> HIDE DEF h
    <3>2. s # {} => h[s \ {Max(s)}] = g[s \ {Max(s)}]
        BY <2>3, <2>5
    <3> QED BY <3>1, <3>2 DEF read
  <2>7. h = [s \in SUBSET (1..n) |-> h[s]]
    OBVIOUS
  <2> HIDE DEF h
  <2>8. Reads(h, input, SUBSET (1..n))
    BY <2>6, <2>7 DEF Reads, read
  <2> QED BY <2>2, <2>8
<1>3. 0..N \subseteq T
  <2> HIDE DEF T
  <2> QED BY <1>1, <1>2, UpTo
<1>4. PICK g : Reads(g, input, SUBSET (1..N))
  <2>1. N \in T
    <3> HIDE DEF T
    <3> QED BY <1>3
  <2> QED BY <2>1
<1>5. g = [s \in SUBSET DOMAIN input |->
               IF s = {} THEN <<>>
               ELSE AppendItem(g[s \ {Max(s)}], input[Max(s)])]
    BY <1>4 DEF Reads
<1> DEFINE f == Readings(input)
<1>6. f = [s \in SUBSET DOMAIN input |->
               IF s = {} THEN <<>>
               ELSE AppendItem(f[s \ {Max(s)}], input[Max(s)])]
    BY <1>5 DEF Readings
<1> HIDE DEF f
<1>7. f = [s \in SUBSET (1..N) |-> f[s]]
  <2>1. \A s \in SUBSET (1..N) :
            f[s] = IF s = {} THEN <<>>
                   ELSE AppendItem(f[s \ {Max(s)}], input[Max(s)])
    BY <1>6
  <2> QED BY <1>6, <2>1
<1>8. Reads(f, input, SUBSET (1..N))
    BY <1>6, <1>7 DEF Reads
<1> QED BY <1>8 DEF f

LEMMA ReadingIsFold ==
    \A input : MessagesFromInput(input) = Readings(input)[DOMAIN input]
BY DEF MessagesFromInput, FoldLeft, MapThenFoldSet, Readings

(* Item by item. *)
LEMMA ReadStep ==
    ASSUME NEW input, NEW N \in Nat, DOMAIN input = 1..N
    PROVE  /\ MessagesFromInput(input) = ReadTo(input, N)
           /\ ReadTo(input, 0) = <<>>
           /\ \A i \in 1..N :
                  ReadTo(input, i) = AppendItem(ReadTo(input, i - 1), input[i])
<1> DEFINE f == Readings(input)
<1>1. \A s \in SUBSET (1..N) :
          f[s] = IF s = {} THEN <<>>
                 ELSE AppendItem(f[s \ {Max(s)}], input[Max(s)])
    BY ReadingsExist DEF Reads
<1>2. ASSUME NEW i \in 1..N
      PROVE  ReadTo(input, i) = AppendItem(ReadTo(input, i - 1), input[i])
  <2>1. i \in Nat /\ i \in 1..i /\ 1..i \in SUBSET (1..N) /\ 1..i \in SUBSET (1..i)
    OBVIOUS
  <2>2. Max(1..i) \in 1..i /\ \A y \in 1..i : y <= Max(1..i)
    BY <2>1, LargestOf
  <2>3. Max(1..i) = i
    BY <2>1, <2>2
  <2>4. (1..i) \ {i} = 1..(i - 1)
    OBVIOUS
  <2>5. 1..i # {}
    BY <2>1
  <2> QED BY <1>1, <2>1, <2>3, <2>4, <2>5 DEF ReadTo
<1>3. ReadTo(input, 0) = <<>>
  <2>1. 1..0 = {}
    OBVIOUS
  <2> QED BY <1>1, <2>1 DEF ReadTo
<1>4. MessagesFromInput(input) = ReadTo(input, N)
    BY ReadingIsFold DEF ReadTo
<1> QED BY <1>2, <1>3, <1>4

(* merge_assistant: a part of an answer begins a message or joins the one   *)
(* before it.                                                               *)
NoAnswerLast(m) == m = <<>> \/ Last(m).role # "assistant"

LEMMA LastOfAppend ==
    ASSUME NEW M, NEW m \in Seq(M), NEW x
    PROVE  /\ Append(m, x) \in Seq(M \cup {x}) /\ Append(m, x) # <<>>
           /\ Last(Append(m, x)) = x /\ Front(Append(m, x)) = m
<1> DEFINE S == M \cup {x}
           a == Append(m, x)
<1>1. m \in Seq(S) /\ x \in S /\ Len(m) \in Nat
    BY SeqMonotonic, LenProperties
<1>2. /\ a \in Seq(S) /\ a # <<>> /\ Len(a) = Len(m) + 1
      /\ \A i \in 1..Len(m) : a[i] = m[i]
      /\ a[Len(m) + 1] = x
  <2> HIDE DEF S
  <2> QED BY <1>1, AppendProperties
<1>3. Last(a) = x
    BY <1>2 DEF Last
<1>4. Front(a) = m
  <2> DEFINE f == Front(a)
  <2> HIDE DEF a, S
  <2>1. f = Prefix(a, Len(m))
    <3>1. Len(a) - 1 = Len(m)
        BY <1>1, <1>2
    <3> QED BY <3>1 DEF Front, Prefix
  <2>2. Len(m) \in 0..Len(a)
    BY <1>1, <1>2
  <2>3. f \in Seq(S) /\ Len(f) = Len(m) /\ \A i \in 1..Len(m) : f[i] = a[i]
    BY <1>2, <2>1, <2>2, PrefixLemma
  <2> HIDE DEF f
  <2>4. \A i \in 1..Len(f) : f[i] = m[i]
    BY <1>2, <2>3
  <2>5. f = m
    BY <1>1, <2>3, <2>4, SeqEqual
  <2> QED BY <2>5 DEF f
<1> QED BY <1>2, <1>3, <1>4

LEMMA MergeFirst ==
    ASSUME NEW m, NoAnswerLast(m), NEW x
    PROVE  MergeAssistant(m, x) = Append(m, x)
BY DEF MergeAssistant, NoAnswerLast

LEMMA MergeNext ==
    ASSUME NEW M, NEW m \in Seq(M), NEW c, NEW r, NEW k, NEW d, NEW s, NEW l
    PROVE  MergeAssistant(Append(m, Assistant(c, r, k)), Assistant(d, s, l))
               = Append(m, Assistant(Joined(c, d), Joined(r, s), k \o l))
<1> DEFINE x == Assistant(c, r, k)
           y == Assistant(d, s, l)
           a == Append(m, x)
<1>1. a # <<>> /\ Last(a) = x /\ Front(a) = m
    BY LastOfAppend
<1>2. /\ x.role = "assistant" /\ x.content = c /\ x.reasoning = r /\ x.calls = k
      /\ y.content = d /\ y.reasoning = s /\ y.calls = l
    BY DEF Assistant
<1> HIDE DEF x, y, a
<1>3. MergeAssistant(a, y) = Append(m, Assistant(Joined(c, d), Joined(r, s), k \o l))
    BY <1>1, <1>2 DEF MergeAssistant
<1> QED BY <1>3 DEF x, y, a

LEMMA JoinedNothing == \A a : Joined(a, <<>>) = a /\ Joined(<<>>, a) = a
BY DEF Joined

-----------------------------------------------------------------------------
(* The name of a call: emitted_tool_name and qualify_tool_name together.    *)
Parts == STRING

DeclaredOnce(declared) ==
    declared \in Seq(DeclaredNames) /\ IsInjective(declared)

ToolsOf(declared) == [k \in DOMAIN declared |-> ModelTool(declared[k])]

Returned(raw, declared) ==
    LET emitted == EmittedName(raw, Namespaces(declared), ToolsOf(declared))
    IN  QualifiedName(emitted.name, emitted.ns)

LEMMA ReturnedBy ==
    ASSUME NEW raw, NEW declared, NEW name, NEW ns,
           EmittedName(raw, Namespaces(declared), ToolsOf(declared))
               = [name |-> name, ns |-> ns]
    PROVE  Returned(raw, declared) = QualifiedName(name, ns)
<1> DEFINE e == EmittedName(raw, Namespaces(declared), ToolsOf(declared))
<1>1. e.name = name /\ e.ns = ns
    OBVIOUS
<1> HIDE DEF e
<1>2. QualifiedName(e.name, e.ns) = QualifiedName(name, ns)
    BY <1>1
<1> QED BY <1>2 DEF Returned, e

LEMMA SeveralParts ==
    ASSUME NEW raw \in Seq(Parts), Len(raw) > 1
    PROVE  Len(raw) \in Nat /\ Len(raw) # 1 /\ raw # <<>>
<1> DEFINE n == Len(raw)
<1>1. n \in Nat
    BY LenProperties
<1>2. n > 1 /\ (raw = <<>> => n = 0)
    OBVIOUS
<1> HIDE DEF n
<1>3. n # 1 /\ n # 0
    BY <1>1, <1>2
<1> QED BY <1>1, <1>2, <1>3 DEF n

LEMMA OneInFront ==
    ASSUME NEW S, NEW x \in S, NEW s \in Seq(S)
    PROVE  /\ <<x>> \o s \in Seq(S) /\ Len(<<x>> \o s) = Len(s) + 1
           /\ (<<x>> \o s)[1] = x
           /\ \A i \in 1..Len(s) : (<<x>> \o s)[i + 1] = s[i]
<1>1. <<x>> \in Seq(S) /\ Len(<<x>>) = 1 /\ <<x>>[1] = x
    OBVIOUS
<1>2. Len(s) \in Nat
    BY LenProperties
<1> DEFINE o == <<x>>
           c == o \o s
<1> HIDE DEF o
<1>3. /\ c \in Seq(S) /\ Len(c) = Len(o) + Len(s)
      /\ \A i \in 1..Len(o) + Len(s) :
             c[i] = IF i <= Len(o) THEN o[i] ELSE s[i - Len(o)]
    BY <1>1, ConcatProperties DEF o
<1> HIDE DEF c
<1>4. /\ c \in Seq(S) /\ Len(c) = 1 + Len(s)
      /\ \A i \in 1..1 + Len(s) : c[i] = IF i <= 1 THEN o[i] ELSE s[i - 1]
    BY <1>1, <1>3 DEF o
<1>5. c[1] = x
  <2>1. 1 \in 1..1 + Len(s) /\ 1 <= 1
    BY <1>2
  <2> QED BY <1>1, <1>4, <2>1 DEF o
<1>6. \A i \in 1..Len(s) : c[i + 1] = s[i]
  <2> TAKE i \in 1..Len(s)
  <2>1. i + 1 \in 1..1 + Len(s) /\ ~(i + 1 <= 1) /\ (i + 1) - 1 = i
    BY <1>2
  <2> QED BY <1>4, <2>1
<1> QED BY <1>2, <1>4, <1>5, <1>6 DEF c, o

LEMMA TwoParts ==
    ASSUME NEW x \in Parts, NEW raw \in Seq(Parts), NEW t \in Seq(Parts)
    PROVE  Len(t) = 2 /\ t[1] = x /\ Len(raw) = 1 /\ raw[1] = t[2]
               => <<x>> \o raw = t
<1> DEFINE y == t[2]
           w == <<x>> \o raw
<1>1. /\ w \in Seq(Parts) /\ Len(w) = Len(raw) + 1 /\ w[1] = x
      /\ \A i \in 1..Len(raw) : w[i + 1] = raw[i]
    BY OneInFront
<1> SUFFICES ASSUME Len(t) = 2, t[1] = x, Len(raw) = 1, raw[1] = t[2]
             PROVE  w = t
    OBVIOUS
<1> HIDE DEF w
<1>2. Len(w) = 2 /\ w[1] = x /\ w[2] = y
  <2>1. 1 \in 1..Len(raw) /\ 1 + 1 = 2 /\ Len(raw) + 1 = 2
    OBVIOUS
  <2>2. w[1 + 1] = raw[1]
    BY <1>1, <2>1
  <2> QED BY <1>1, <2>1, <2>2
<1>3. \A i \in 1..Len(w) : w[i] = t[i]
    BY <1>2
<1> QED BY <1>1, <1>2, <1>3, SeqEqual

LEMMA ToolsAreNames ==
    ASSUME NEW declared, DeclaredOnce(declared)
    PROVE  /\ DOMAIN declared = 1..Len(declared) /\ Len(declared) \in Nat
           /\ \A k \in DOMAIN declared :
                  declared[k] \in DeclaredNames /\ ToolsOf(declared)[k] \in Seq(Parts)
           /\ \A j, k \in DOMAIN declared :
                  ToolsOf(declared)[j] = ToolsOf(declared)[k] => j = k
<1>1. declared \in Seq(DeclaredNames) /\ IsInjective(declared)
    BY DEF DeclaredOnce
<1>2. /\ DOMAIN declared = 1..Len(declared) /\ Len(declared) \in Nat
      /\ \A k \in DOMAIN declared : declared[k] \in DeclaredNames
    BY <1>1, LenProperties, ElementOfSeq
<1>3. \A d \in DeclaredNames : ModelTool(d) \in Seq(Parts)
  <2> TAKE d \in DeclaredNames
  <2>1. d.ns \in Parts /\ d.name \in Seq(Parts)
    BY NamesAssumption DEF Parts
  <2>2. <<d.ns>> \o d.name \in Seq(Parts)
    BY <2>1, OneInFront
  <2> QED BY <2>1, <2>2 DEF ModelTool
<1>4. \A j, k \in DOMAIN declared :
          ToolsOf(declared)[j] = ToolsOf(declared)[k] => j = k
  <2> TAKE j \in DOMAIN declared, k \in DOMAIN declared
  <2> HAVE ToolsOf(declared)[j] = ToolsOf(declared)[k]
  <2>1. ModelTool(declared[j]) = ModelTool(declared[k])
    BY DEF ToolsOf
  <2>2. declared[j] = declared[k]
    BY <1>2, <2>1, NamesAssumption
  <2> QED BY <1>1, <2>2 DEF IsInjective
<1>5. \A k \in DOMAIN declared : ToolsOf(declared)[k] \in Seq(Parts)
    BY <1>2, <1>3 DEF ToolsOf
<1> QED BY <1>2, <1>4, <1>5

LEMMA OwnersAreMembers ==
    ASSUME DeclaredOnce(ask.declared), NEW raw
    PROVE  LET tools  == ToolsOf(ask.declared)
               owners == Owners(raw, Namespaces(ask.declared), tools)
           IN  /\ owners \subseteq DOMAIN ask.declared
               /\ Members(raw) = {tools[k] : k \in owners}
               /\ Cardinality(owners) = Cardinality(Members(raw))
               /\ IsFiniteSet(owners)
<1> DEFINE D == DOMAIN ask.declared
           tools == ToolsOf(ask.declared)
           owners == Owners(raw, Namespaces(ask.declared), tools)
           f == [k \in owners |-> tools[k]]
<1>1. DOMAIN tools = D /\ \A k \in D : tools[k] = ModelTool(ask.declared[k])
    BY DEF ToolsOf
<1>2. ToolNames = {tools[k] : k \in D}
    BY <1>1 DEF ToolNames, ToSet
<1> HIDE DEF tools
<1>3. owners \subseteq D
    BY <1>1 DEF Owners
<1>4. Members(raw) = {tools[k] : k \in owners}
    BY <1>1, <1>2 DEF Members, Owners
<1>5. \A j, k \in D : tools[j] = tools[k] => j = k
    BY ToolsAreNames DEF tools
<1>6. IsFiniteSet(owners)
  <2>1. D = 1..Len(ask.declared) /\ Len(ask.declared) \in Nat
    BY ToolsAreNames
  <2> DEFINE n == Len(ask.declared)
  <2> HIDE DEF n
  <2>2. IsFiniteSet(D)
    BY <2>1, FS_Interval DEF n
  <2> HIDE DEF D
  <2> QED BY <1>3, <2>2, FS_Subset
<1> HIDE DEF owners, D
<1>7. f \in [owners -> Members(raw)]
    BY <1>4
<1>8. \A j, k \in owners : f[j] = f[k] => j = k
    BY <1>3, <1>5
<1>9. \A t \in Members(raw) : \E k \in owners : f[k] = t
    BY <1>4
<1> HIDE DEF f
<1>10. f \in Bijection(owners, Members(raw))
    BY <1>7, <1>8, <1>9 DEF Bijection, Injection, Surjection, IsInjective
<1>11. Cardinality(owners) = Cardinality(Members(raw))
  <2>1. ExistsBijection(owners, Members(raw))
    BY <1>10 DEF ExistsBijection
  <2> QED BY <1>6, <2>1, FS_Bijection
<1> QED BY <1>3, <1>4, <1>6, <1>11 DEF owners, tools, D

(* A call of one part goes out with the namespace of its only owner.        *)
LEMMA BareNameReturns ==
    ASSUME DeclaredOnce(ask.declared), NEW raw \in Seq(Parts), Len(raw) = 1,
           ~Mistaken(raw)
    PROVE  Returned(raw, ask.declared) = Meant(raw)
<1> DEFINE D == DOMAIN ask.declared
           tools == ToolsOf(ask.declared)
           spaces == Namespaces(ask.declared)
           owners == Owners(raw, spaces, tools)
           ns == FoundNamespace(owners, tools)
<1>1. /\ owners \subseteq D /\ Members(raw) = {tools[k] : k \in owners}
      /\ Cardinality(owners) = Cardinality(Members(raw)) /\ IsFiniteSet(owners)
    BY OwnersAreMembers
<1>2. Returned(raw, ask.declared) = IF ns = "" THEN raw ELSE <<ns>> \o raw
  <2>1. ~(Len(raw) > 1)
    OBVIOUS
  <2> HIDE DEF ns
  <2>2. EmittedName(raw, spaces, tools) = [name |-> raw, ns |-> ns]
    BY DEF EmittedName, ns
  <2>3. QualifiedName(raw, ns) = IF ns = "" THEN raw ELSE <<ns>> \o raw
    BY <2>1 DEF QualifiedName
  <2>4. Returned(raw, ask.declared) = QualifiedName(raw, ns)
    BY <2>2, ReturnedBy
  <2> QED BY <2>3, <2>4
<1>3. CASE Cardinality(owners) = 1
  <2>1. PICK k : owners = {k}
    BY <1>1, <1>3, FS_Singleton
  <2> DEFINE t == tools[k]
  <2>2. Members(raw) = {t} /\ k \in D /\ k \in owners
    BY <1>1, <2>1
  <2>3. Len(t) = 2 /\ t[1] \in spaces /\ <<t[2]>> = raw
    BY <2>2 DEF Owners
  <2>4. ns = t[1] /\ ns # ""
    BY <1>3, <2>1, <2>3 DEF FoundNamespace, Namespaces
  <2>5. t \in Seq(Parts)
    BY <2>2, ToolsAreNames
  <2> HIDE DEF t, ns
  <2>6. <<ns>> \o raw = t
    <3>1. raw[1] = t[2]
        BY <2>3
    <3>2. ns \in Parts
      <4>1. 1 \in 1..Len(t)
        BY <2>3
      <4> QED BY <2>4, <2>5, <4>1, ElementOfSeq
    <3> QED BY <2>3, <2>4, <2>5, <3>1, <3>2, TwoParts
  <2>7. raw \notin ToolNames /\ Cardinality(Members(raw)) = 1
    BY <1>1, <1>3 DEF Mistaken
  <2>8. Meant(raw) = t
    BY <2>2, <2>7 DEF Meant
  <2> QED BY <1>2, <2>4, <2>6, <2>8
<1>4. CASE Cardinality(owners) # 1
  <2>1. ns = ""
    BY <1>4 DEF FoundNamespace
  <2>2. Meant(raw) = raw
    BY <1>1, <1>4 DEF Meant
  <2> QED BY <1>2, <2>1, <2>2
<1> QED BY <1>3, <1>4

(* A call of several parts loses its namespace and gets it back.            *)
LEMMA QualifiedNameReturns ==
    ASSUME DeclaredOnce(ask.declared), NEW raw \in Seq(Parts), Len(raw) > 1,
           ~Mistaken(raw)
    PROVE  Returned(raw, ask.declared) = Meant(raw)
<1> DEFINE tools == ToolsOf(ask.declared)
           spaces == Namespaces(ask.declared)
<1>1. Len(raw) \in Nat /\ Len(raw) # 1 /\ raw # <<>>
    BY SeveralParts
<1>2. Meant(raw) = raw
  <2>1. Members(raw) = {}
    <3>1. \A t : <<t[2]>> # raw
      <4> TAKE t
      <4>1. Len(<<t[2]>>) = 1
        OBVIOUS
      <4> QED BY <1>1, <4>1
    <3> QED BY <3>1 DEF Members
  <2>2. Cardinality(Members(raw)) = 0
    BY <2>1, FS_EmptySet
  <2> QED BY <2>2 DEF Meant
<1>3. CASE raw[1] \notin spaces
  <2> DEFINE none == ""
  <2>1. EmittedName(raw, spaces, tools) = [name |-> raw, ns |-> none]
    BY <1>1, <1>3 DEF EmittedName
  <2> HIDE DEF none
  <2>2. Returned(raw, ask.declared) = QualifiedName(raw, none)
    BY <2>1, ReturnedBy
  <2>3. QualifiedName(raw, none) = raw
    BY DEF QualifiedName, none
  <2> QED BY <1>2, <2>2, <2>3
<1>4. CASE raw[1] \in spaces
  <2> DEFINE rest == Tail(raw)
             w == <<raw[1]>> \o rest
  <2>1. EmittedName(raw, spaces, tools) = [name |-> rest, ns |-> raw[1]]
    BY <1>1, <1>4 DEF EmittedName
  <2>2. /\ rest \in Seq(Parts) /\ Len(rest) = Len(raw) - 1
        /\ \A i \in 1..Len(rest) : rest[i] = raw[i + 1]
    BY <1>1, HeadTailProperties
  <2> HIDE DEF rest
  <2>3. raw[1] # ""
    BY <1>4 DEF Namespaces
  <2>4. ~(Len(rest) > 1 /\ rest[1] = raw[1])
    <3> SUFFICES ASSUME Len(rest) > 1, rest[1] = raw[1] PROVE FALSE
        OBVIOUS
    <3>1. Len(raw) > 2 /\ 1 \in 1..Len(rest) /\ 1 + 1 = 2
        BY <1>1, <2>2
    <3>2. raw[2] = raw[1]
        BY <2>2, <3>1
    <3> QED BY <1>4, <3>1, <3>2 DEF Mistaken
  <2>5. Returned(raw, ask.declared) = w
    <3>1. QualifiedName(rest, raw[1]) = w
        BY <2>3, <2>4 DEF QualifiedName
    <3>2. Returned(raw, ask.declared) = QualifiedName(rest, raw[1])
        BY <2>1, ReturnedBy
    <3> QED BY <3>1, <3>2
  <2>6. raw[1] \in Parts
    BY <1>1, ElementOfSeq
  <2>7. /\ w \in Seq(Parts) /\ Len(w) = Len(rest) + 1 /\ w[1] = raw[1]
        /\ \A i \in 1..Len(rest) : w[i + 1] = rest[i]
    BY <2>2, <2>6, OneInFront
  <2> HIDE DEF w
  <2>8. Len(w) = Len(raw)
    BY <1>1, <2>2, <2>7
  <2>9. \A i \in 1..Len(w) : w[i] = raw[i]
    <3> TAKE i \in 1..Len(w)
    <3>1. CASE i = 1
        BY <2>7, <3>1
    <3>2. CASE i # 1
      <4>1. i - 1 \in 1..Len(rest) /\ (i - 1) + 1 = i
        BY <1>1, <2>2, <2>8, <3>2
      <4>2. w[i] = rest[i - 1] /\ rest[i - 1] = raw[i]
        BY <2>2, <2>7, <4>1
      <4> QED BY <4>2
    <3> QED BY <3>1, <3>2
  <2>10. w = raw
    BY <2>7, <2>8, <2>9, SeqEqual
  <2> QED BY <1>2, <2>5, <2>10
<1> QED BY <1>3, <1>4

LEMMA NameReturns ==
    ASSUME DeclaredOnce(ask.declared), NEW raw \in CalledNames, ~Mistaken(raw)
    PROVE  Returned(raw, ask.declared) = Meant(raw)
<1>1. raw \in Seq(Parts) /\ raw # <<>>
    BY NamesAssumption DEF Parts
<1>2. Len(raw) \in Nat /\ Len(raw) # 0
    BY <1>1, EmptySeq, LenProperties
<1> DEFINE n == Len(raw)
<1>3. n = 1 \/ n > 1
  <2> HIDE DEF n
  <2>1. n \in Nat /\ n # 0
    BY <1>2 DEF n
  <2> QED BY <2>1
<1> QED BY <1>1, <1>3, BareNameReturns, QualifiedNameReturns

-----------------------------------------------------------------------------
(* The items of an answer, one by one.                                      *)
CallRead(call, i, declared) ==
    [name |-> Returned(call.name, declared), id |-> CallId(call, i)]

CallsRead(calls, declared, k) == [i \in 1..k |-> CallRead(calls[i], i, declared)]

AnswerRead(a, declared) ==
    Assistant(a.text, a.reasoning, CallsRead(a.calls, declared, Len(a.calls)))

LEMMA ReadCall ==
    ASSUME NEW m, NEW call, NEW i, NEW declared
    PROVE  AppendItem(m, CallItem(call, i, declared))
               = MergeAssistant(m, Assistant(<<>>, <<>>, <<CallRead(call, i, declared)>>))
<1> DEFINE e == EmittedName(call.name, Namespaces(declared), ToolsOf(declared))
           item == CallItem(call, i, declared)
           c == CallRead(call, i, declared)
<1>1. item = [type |-> "function_call", name |-> e.name, ns |-> e.ns,
              id |-> CallId(call, i)]
    BY DEF CallItem, ToolsOf
<1>2. c = [name |-> QualifiedName(e.name, e.ns), id |-> CallId(call, i)]
    BY DEF CallRead, Returned
<1> HIDE DEF e, item, c
<1>3. /\ item.type = "function_call" /\ item.name = e.name /\ item.ns = e.ns
      /\ item.id = CallId(call, i)
    BY <1>1
<1>4. AppendItem(m, item) = MergeAssistant(m, Assistant(<<>>, <<>>,
          <<[name |-> QualifiedName(item.name, item.ns), id |-> item.id]>>))
    BY <1>3 DEF AppendItem
<1>5. [name |-> QualifiedName(item.name, item.ns), id |-> item.id] = c
    BY <1>2, <1>3
<1>6. AppendItem(m, item) = MergeAssistant(m, Assistant(<<>>, <<>>, <<c>>))
    BY <1>4, <1>5
<1> QED BY <1>6 DEF item, c

LEMMA ReadText ==
    ASSUME NEW m, NEW text
    PROVE  /\ text # <<>> => AppendItem(m, TextItem("reasoning", text))
                  = MergeAssistant(m, Assistant(<<>>, text, <<>>))
           /\ AppendItem(m, TextItem("message", text))
                  = MergeAssistant(m, Assistant(text, <<>>, <<>>))
           /\ AppendItem(m, TextItem("user", text))
                  = Append(m, [role |-> "user", content |-> text])
<1> DEFINE item(type) == TextItem(type, text)
<1>1. \A type : item(type).type = type /\ item(type).text = text
    BY DEF TextItem
<1> HIDE DEF item
<1>2. text # <<>> => AppendItem(m, item("reasoning"))
          = MergeAssistant(m, Assistant(<<>>, text, <<>>))
  <2>1. item("reasoning").type = "reasoning" /\ item("reasoning").text = text
    BY <1>1
  <2> QED BY <2>1 DEF AppendItem
<1>3. AppendItem(m, item("message")) = MergeAssistant(m, Assistant(text, <<>>, <<>>))
  <2>1. item("message").type = "message" /\ item("message").text = text
    BY <1>1
  <2> QED BY <2>1 DEF AppendItem
<1>4. AppendItem(m, item("user")) = Append(m, [role |-> "user", content |-> text])
  <2>1. item("user").type = "user" /\ item("user").text = text
    BY <1>1
  <2> QED BY <2>1 DEF AppendItem
<1> QED BY <1>2, <1>3, <1>4 DEF item

ReasoningItems(a) == IF a.reasoning = <<>> THEN 0 ELSE 1

TextItems(a) == IF a.text = <<>> /\ a.calls # <<>> THEN 0 ELSE 1

OutputCount(a) == ReasoningItems(a) + TextItems(a) + Len(a.calls)

ItemsOf(a, declared) ==
    {TextItem("reasoning", a.reasoning), TextItem("message", a.text)}
        \cup {CallItem(a.calls[i], i, declared) : i \in DOMAIN a.calls}

LEMMA OutputParts ==
    ASSUME NEW a, NEW n \in Nat, DOMAIN a.calls = 1..n, Len(a.calls) = n, NEW declared
    PROVE  LET o == OutputItems(a, declared)
               r == ReasoningItems(a)
               t == TextItems(a)
           IN  /\ o \in Seq(ItemsOf(a, declared)) /\ Len(o) = r + t + n
               /\ r = 1 => o[1] = TextItem("reasoning", a.reasoning)
               /\ t = 1 => o[r + 1] = TextItem("message", a.text)
               /\ \A i \in 1..n : o[r + t + i] = CallItem(a.calls[i], i, declared)
<1> DEFINE r == ReasoningItems(a)
           t == TextItems(a)
           S == ItemsOf(a, declared)
           x == TextItem("reasoning", a.reasoning)
           y == TextItem("message", a.text)
           u == IF a.reasoning = <<>> THEN <<>> ELSE <<x>>
           v == IF a.text = <<>> /\ a.calls # <<>> THEN <<>> ELSE <<y>>
           w == [i \in DOMAIN a.calls |-> CallItem(a.calls[i], i, declared)]
           o == OutputItems(a, declared)
<1>1. x \in S /\ y \in S /\ \A i \in 1..n : CallItem(a.calls[i], i, declared) \in S
    BY DEF ItemsOf
<1>2. o = (u \o v) \o w
    BY DEF OutputItems
<1>3. /\ w \in Seq(S) /\ Len(w) = n
      /\ \A i \in 1..n : w[i] = CallItem(a.calls[i], i, declared)
  <2>1. w = [i \in 1..n |-> CallItem(a.calls[i], i, declared)]
    OBVIOUS
  <2>2. w \in [1..n -> S]
    BY <1>1, <2>1
  <2> HIDE DEF w, S
  <2>3. w \in Seq(S)
    BY <2>2, SeqDef
  <2>4. Len(w) = n
    BY <2>1
  <2> QED BY <2>1, <2>3, <2>4
<1> HIDE DEF w, S, x, y, o
<1>4. u \in Seq(S) /\ Len(u) = r /\ r \in 0..1 /\ (r = 1 => u[1] = x)
  <2>1. CASE a.reasoning = <<>>
    BY <2>1 DEF ReasoningItems
  <2>2. CASE a.reasoning # <<>>
    BY <1>1, <2>2 DEF ReasoningItems
  <2> QED BY <2>1, <2>2
<1>5. v \in Seq(S) /\ Len(v) = t /\ t \in 0..1 /\ (t = 1 => v[1] = y)
  <2>1. CASE a.text = <<>> /\ a.calls # <<>>
    BY <2>1 DEF TextItems
  <2>2. CASE ~(a.text = <<>> /\ a.calls # <<>>)
    BY <1>1, <2>2 DEF TextItems
  <2> QED BY <2>1, <2>2
<1> HIDE DEF u, v, r, t
<1> DEFINE d == u \o v
<1>6. /\ d \in Seq(S) /\ Len(d) = r + t
      /\ \A i \in 1..r + t : d[i] = IF i <= r THEN u[i] ELSE v[i - r]
    BY <1>4, <1>5, ConcatProperties
<1> HIDE DEF d
<1>7. /\ o \in Seq(S) /\ Len(o) = (r + t) + n
      /\ \A i \in 1..(r + t) + n : o[i] = IF i <= r + t THEN d[i] ELSE w[i - (r + t)]
  <2> DEFINE z == d \o w
  <2>1. o = z
    BY <1>2 DEF d
  <2>2. /\ z \in Seq(S) /\ Len(z) = Len(d) + Len(w)
        /\ \A i \in 1..Len(d) + Len(w) :
               z[i] = IF i <= Len(d) THEN d[i] ELSE w[i - Len(d)]
    BY <1>3, <1>6, ConcatProperties
  <2> HIDE DEF z
  <2>3. Len(d) = r + t /\ Len(w) = n
    BY <1>3, <1>6
  <2> QED BY <2>1, <2>2, <2>3
<1>8. r = 1 => o[1] = x
  <2> HAVE r = 1
  <2>1. 1 \in 1..(r + t) + n /\ 1 <= r + t /\ 1 \in 1..r + t /\ 1 <= r
    BY <1>4, <1>5
  <2> QED BY <1>4, <1>6, <1>7, <2>1
<1>9. t = 1 => o[r + 1] = y
  <2> HAVE t = 1
  <2>1. /\ r + 1 \in 1..(r + t) + n /\ r + 1 <= r + t /\ r + 1 \in 1..r + t
        /\ ~(r + 1 <= r) /\ (r + 1) - r = 1
    BY <1>4, <1>5
  <2> QED BY <1>5, <1>6, <1>7, <2>1
<1>10. \A i \in 1..n : o[r + t + i] = CallItem(a.calls[i], i, declared)
  <2> TAKE i \in 1..n
  <2>1. /\ r + t + i \in 1..(r + t) + n /\ ~(r + t + i <= r + t)
        /\ (r + t + i) - (r + t) = i
    BY <1>4, <1>5
  <2> QED BY <1>3, <1>7, <2>1
<1>11. /\ o \in Seq(S) /\ Len(o) = r + t + n /\ (r = 1 => o[1] = x)
       /\ (t = 1 => o[r + 1] = y)
       /\ \A i \in 1..n : o[r + t + i] = CallItem(a.calls[i], i, declared)
    BY <1>7, <1>8, <1>9, <1>10
<1> QED BY <1>11 DEF o, S, x, y, r, t

LEMMA CallsGrow ==
    ASSUME NEW calls, NEW declared, NEW k \in Nat, k # 0
    PROVE  CallsRead(calls, declared, k - 1) \o <<CallRead(calls[k], k, declared)>>
               = CallsRead(calls, declared, k)
<1> DEFINE x(i) == CallRead(calls[i], i, declared)
           S == {x(i) : i \in 1..k}
           s == CallsRead(calls, declared, k - 1)
           l == CallsRead(calls, declared, k)
           c == <<x(k)>>
<1>1. s = [i \in 1..(k - 1) |-> x(i)] /\ l = [i \in 1..k |-> x(i)]
    BY DEF CallsRead
<1>2. \A i \in 1..k : x(i) \in S
    OBVIOUS
<1>3. k - 1 \in Nat /\ 1..(k - 1) \subseteq 1..k /\ k \in 1..k
    OBVIOUS
<1> HIDE DEF x, S, s, l
<1>4. s \in Seq(S) /\ Len(s) = k - 1 /\ l \in Seq(S) /\ Len(l) = k
  <2>1. s \in [1..(k - 1) -> S] /\ l \in [1..k -> S]
    BY <1>1, <1>2, <1>3
  <2>2. s \in Seq(S) /\ l \in Seq(S)
    BY <1>3, <2>1, SeqDef
  <2> QED BY <1>1, <1>3, <2>2
<1>5. c \in Seq(S) /\ Len(c) = 1 /\ c[1] = x(k)
    BY <1>2, <1>3
<1> DEFINE j == s \o c
<1> HIDE DEF c
<1>6. /\ j \in Seq(S) /\ Len(j) = (k - 1) + 1
      /\ \A i \in 1..(k - 1) + 1 : j[i] = IF i <= k - 1 THEN s[i] ELSE c[i - (k - 1)]
  <2>1. /\ j \in Seq(S) /\ Len(j) = Len(s) + Len(c)
        /\ \A i \in 1..Len(s) + Len(c) :
               j[i] = IF i <= Len(s) THEN s[i] ELSE c[i - Len(s)]
    BY <1>4, <1>5, ConcatProperties
  <2> HIDE DEF j
  <2> QED BY <1>4, <1>5, <2>1
<1> HIDE DEF j
<1>7. Len(j) = Len(l)
    BY <1>4, <1>6
<1>8. \A i \in 1..Len(j) : j[i] = l[i]
  <2> TAKE i \in 1..Len(j)
  <2>1. i \in 1..k /\ i \in 1..(k - 1) + 1
    BY <1>6
  <2>2. CASE i <= k - 1
    <3>1. i \in 1..(k - 1)
        BY <2>1, <2>2
    <3> QED BY <1>1, <1>6, <2>1, <2>2, <3>1
  <2>3. CASE ~(i <= k - 1)
    <3>1. i = k /\ i - (k - 1) = 1
        BY <2>1, <2>3
    <3> QED BY <1>1, <1>5, <1>6, <2>1, <2>3, <3>1
  <2> QED BY <2>2, <2>3
<1>9. j = l
    BY <1>4, <1>6, <1>7, <1>8, SeqEqual
<1> QED BY <1>9 DEF j, l, s, c, x

(* The items of an answer lie in the input after the first p. *)
ItemsAt(input, p, a, declared) ==
    \A j \in 1..OutputCount(a) : input[p + j] = OutputItems(a, declared)[j]

(* They become one message. *)
LEMMA ReadsOutput ==
    ASSUME NEW input, NEW N \in Nat, DOMAIN input = 1..N,
           NEW a, NEW C, a.calls \in Seq(C),
           NEW n \in Nat, DOMAIN a.calls = 1..n, Len(a.calls) = n,
           NEW declared, NEW p \in 0..N, p + OutputCount(a) <= N,
           ItemsAt(input, p, a, declared),
           NEW M, ReadTo(input, p) \in Seq(M), NoAnswerLast(ReadTo(input, p))
    PROVE  ReadTo(input, p + OutputCount(a))
               = Append(ReadTo(input, p), AnswerRead(a, declared))
<1> DEFINE r == ReasoningItems(a)
           L == OutputCount(a)
           t == TextItems(a)
           m == ReadTo(input, p)
           q == p + r + t
           o == OutputItems(a, declared)
           Told(k) == Assistant(a.text, a.reasoning, CallsRead(a.calls, declared, k))
           Reached(k) == IF r + t + k = 0 THEN m ELSE Append(m, Told(k))
           T == {k \in 0..n : ReadTo(input, q + k) = Reached(k)}
<1>1. \A i \in 1..N : ReadTo(input, i) = AppendItem(ReadTo(input, i - 1), input[i])
    BY ReadStep
<1>2. /\ r \in 0..1 /\ t \in 0..1 /\ L = r + t + n /\ p + L <= N
      /\ (r = 0 <=> a.reasoning = <<>>)
      /\ (t = 0 <=> a.text = <<>> /\ a.calls # <<>>)
      /\ (a.calls = <<>> => n = 0)
  <2>1. a.calls = <<>> => n = 0
    OBVIOUS
  <2>2. r \in 0..1 /\ (r = 0 <=> a.reasoning = <<>>)
    BY DEF ReasoningItems
  <2>3. t \in 0..1 /\ (t = 0 <=> a.text = <<>> /\ a.calls # <<>>)
    BY DEF TextItems
  <2>4. L = r + t + n /\ p + L <= N
    BY DEF OutputCount
  <2> QED BY <2>1, <2>2, <2>3, <2>4
<1>3. /\ r = 1 => o[1] = TextItem("reasoning", a.reasoning)
      /\ t = 1 => o[r + 1] = TextItem("message", a.text)
      /\ \A i \in 1..n : o[r + t + i] = CallItem(a.calls[i], i, declared)
    BY OutputParts
<1>4. /\ r = 1 => input[p + 1] = TextItem("reasoning", a.reasoning)
      /\ t = 1 => input[p + (r + 1)] = TextItem("message", a.text)
      /\ \A i \in 1..n : input[p + (r + t + i)] = CallItem(a.calls[i], i, declared)
  <2>1. \A j \in 1..L : input[p + j] = o[j]
    BY DEF ItemsAt
  <2> HIDE DEF r, t, o, L
  <2>2. r = 1 => 1 \in 1..L
    BY <1>2
  <2>3. t = 1 => r + 1 \in 1..L
    BY <1>2
  <2>4. \A i \in 1..n : r + t + i \in 1..L
    BY <1>2
  <2> QED BY <1>3, <2>1, <2>2, <2>3, <2>4
<1>5. m \in Seq(M) /\ NoAnswerLast(m)
    OBVIOUS
<1> HIDE DEF r, t, m, o, L
<1>6. ReadTo(input, p + r)
          = IF r = 0 THEN m ELSE Append(m, Assistant(<<>>, a.reasoning, <<>>))
  <2>1. CASE r = 0
    BY <2>1 DEF m
  <2>2. CASE r = 1
    <3>1. p + 1 \in 1..N /\ (p + 1) - 1 = p
        BY <1>2, <2>2
    <3>2. ReadTo(input, p + 1) = AppendItem(m, TextItem("reasoning", a.reasoning))
        BY <1>1, <1>4, <2>2, <3>1 DEF m
    <3>3. a.reasoning # <<>>
        BY <1>2, <2>2
    <3>4. ReadTo(input, p + 1)
              = MergeAssistant(m, Assistant(<<>>, a.reasoning, <<>>))
        BY <3>2, <3>3, ReadText
    <3> QED BY <1>5, <2>2, <3>4, MergeFirst
  <2> QED BY <1>2, <2>1, <2>2
<1>7. CallsRead(a.calls, declared, 0) = <<>>
    BY DEF CallsRead
<1>8. ReadTo(input, q) = Reached(0)
  <2> DEFINE x == Assistant(a.text, a.reasoning, <<>>)
  <2>1. Told(0) = x
    BY <1>7
  <2>2. CASE t = 0
    <3>1. q = p + r /\ r + t + 0 = r /\ a.text = <<>>
        BY <1>2, <2>2
    <3> QED BY <1>2, <1>6, <2>1, <3>1
  <2>3. CASE t = 1
    <3>1. /\ p + (r + 1) \in 1..N /\ (p + (r + 1)) - 1 = p + r
          /\ q = p + (r + 1) /\ r + t + 0 # 0
        BY <1>2, <2>3
    <3>2. ReadTo(input, q) = MergeAssistant(ReadTo(input, p + r),
                                            Assistant(a.text, <<>>, <<>>))
      <4>1. ReadTo(input, q)
                = AppendItem(ReadTo(input, p + r), TextItem("message", a.text))
        BY <1>1, <1>4, <2>3, <3>1
      <4> QED BY <4>1, ReadText
    <3>3. ReadTo(input, q) = Append(m, x)
      <4>1. CASE r = 0
        <5>1. a.reasoning = <<>> /\ ReadTo(input, p + r) = m
            BY <1>2, <1>6, <4>1
        <5> QED BY <1>5, <3>2, <5>1, MergeFirst
      <4>2. CASE r = 1
        <5>1. ReadTo(input, p + r) = Append(m, Assistant(<<>>, a.reasoning, <<>>))
            BY <1>6, <4>2
        <5>2. ReadTo(input, q)
                  = Append(m, Assistant(Joined(<<>>, a.text),
                                        Joined(a.reasoning, <<>>), <<>> \o <<>>))
          <6> DEFINE none == <<>>
                     y == Append(m, Assistant(none, a.reasoning, none))
                     z == Assistant(a.text, none, none)
          <6>1. ReadTo(input, q) = MergeAssistant(y, z)
            BY <3>2, <5>1
          <6> HIDE DEF none
          <6>2. MergeAssistant(y, z)
                    = Append(m, Assistant(Joined(none, a.text),
                                          Joined(a.reasoning, none), none \o none))
            BY <1>5, MergeNext
          <6> HIDE DEF y, z
          <6> QED BY <6>1, <6>2 DEF none
        <5>3. <<>> \o <<>> = <<>>
            OBVIOUS
        <5> QED BY <5>2, <5>3, JoinedNothing
      <4> QED BY <1>2, <4>1, <4>2
    <3> QED BY <2>1, <3>1, <3>3
  <2> QED BY <1>2, <2>2, <2>3
<1>9. ASSUME NEW k \in 1..n, k - 1 \in T PROVE k \in T
  <2> DEFINE c == CallRead(a.calls[k], k, declared)
             before == CallsRead(a.calls, declared, k - 1)
             after == CallsRead(a.calls, declared, k)
  <2>1. /\ p + (r + t + k) \in 1..N /\ (p + (r + t + k)) - 1 = q + (k - 1)
        /\ q + k = p + (r + t + k) /\ r + t + k # 0 /\ k \in Nat /\ k # 0
        /\ k \in 0..n
    <3>1. r \in Nat /\ t \in Nat /\ p \in Nat /\ k \in Nat /\ k # 0 /\ k <= n
        BY <1>2
    <3>2. p + (r + t + n) <= N
        BY <1>2
    <3> DEFINE s == r + t
    <3>3. s \in Nat /\ p + (s + n) <= N
        BY <3>1, <3>2
    <3> HIDE DEF s
    <3>4. p + (s + k) \in 1..N /\ s + k # 0 /\ (p + (s + k)) - 1 = p + s + (k - 1)
        BY <3>1, <3>3
    <3>5. p + s = q
        BY <3>1 DEF s
    <3>6. p + s + k = p + (s + k)
        BY <3>1, <3>3
    <3>7. k \in 0..n
        BY <3>1
    <3> QED BY <3>1, <3>4, <3>5, <3>6, <3>7 DEF s
  <2>2. ReadTo(input, q + k)
            = MergeAssistant(Reached(k - 1), Assistant(<<>>, <<>>, <<c>>))
    <3>1. ReadTo(input, q + k)
              = AppendItem(ReadTo(input, q + (k - 1)), CallItem(a.calls[k], k, declared))
        BY <1>1, <1>4, <2>1
    <3>2. ReadTo(input, q + (k - 1)) = Reached(k - 1)
        BY <1>9
    <3> HIDE DEF Reached, q
    <3> QED BY <3>1, <3>2, ReadCall
  <2>3. before \o <<c>> = after
    BY <2>1, CallsGrow
  <2>4. CASE r + t + (k - 1) = 0
    <3>1. r = 0 /\ t = 0 /\ k = 1
      <4>1. r \in 0..1 /\ t \in 0..1
        BY <1>2
      <4> QED BY <2>1, <2>4, <4>1
    <3>2. a.reasoning = <<>> /\ a.text = <<>>
        BY <1>2, <3>1
    <3>3. <<c>> = after
      <4>1. before = <<>>
        BY <1>7, <3>1
      <4>2. <<>> \o <<c>> = <<c>>
        OBVIOUS
      <4> QED BY <2>3, <4>1, <4>2
    <3>4. ReadTo(input, q + k) = Append(m, Assistant(<<>>, <<>>, <<c>>))
      <4>1. Reached(k - 1) = m
        BY <2>4
      <4> HIDE DEF Reached, q
      <4> QED BY <1>5, <2>2, <4>1, MergeFirst
    <3> QED BY <2>1, <3>2, <3>3, <3>4
  <2>5. CASE r + t + (k - 1) # 0
    <3>1. Reached(k - 1) = Append(m, Assistant(a.text, a.reasoning, before))
        BY <2>5
    <3>2. ReadTo(input, q + k)
              = Append(m, Assistant(Joined(a.text, <<>>), Joined(a.reasoning, <<>>),
                                    before \o <<c>>))
      <4> DEFINE x == Append(m, Assistant(a.text, a.reasoning, before))
                 y == Assistant(<<>>, <<>>, <<c>>)
      <4> HIDE DEF Reached, q, before, c
      <4>1. MergeAssistant(x, y)
                = Append(m, Assistant(Joined(a.text, <<>>), Joined(a.reasoning, <<>>),
                                      before \o <<c>>))
        BY <1>5, MergeNext
      <4>2. ReadTo(input, q + k) = MergeAssistant(x, y)
        BY <2>2, <3>1
      <4> HIDE DEF x, y
      <4> QED BY <4>1, <4>2
    <3>3. ReadTo(input, q + k) = Append(m, Told(k))
        BY <2>3, <3>2, JoinedNothing
    <3> QED BY <2>1, <3>3
  <2> QED BY <2>4, <2>5
<1>10. n \in T
  <2>1. q + 0 = q /\ 0 \in 0..n
    BY <1>2
  <2>2. 0 \in T
    BY <1>8, <2>1
  <2> HIDE DEF T
  <2>3. 0..n \subseteq T
    BY <1>9, <2>2, UpTo
  <2> QED BY <2>3
<1>11. q + n = p + L /\ r + t + n # 0
  <2>1. t = 0 => n # 0
    <3> SUFFICES ASSUME t = 0, n = 0 PROVE FALSE
        OBVIOUS
    <3>0. a.calls \in Seq(C) /\ Len(a.calls) = 0
        OBVIOUS
    <3>1. a.calls # <<>>
        BY <1>2
    <3>2. a.calls = <<>>
        BY <3>0, EmptySeq
    <3> QED BY <3>1, <3>2
  <2> QED BY <1>2, <2>1
<1>12. ReadTo(input, p + L) = Append(m, Told(n))
    BY <1>10, <1>11
<1>13. Told(n) = AnswerRead(a, declared)
    BY DEF AnswerRead
<1> QED BY <1>12, <1>13 DEF m, L

(* What the client adds is read as it is. *)
ReplyCount(a) == IF a.calls = <<>> THEN 1 ELSE Len(a.calls)

ReplyAt(input, p, a) ==
    \A j \in 1..ReplyCount(a) : input[p + j] = ClientReply(a)[j]

ReplyRead(a, j) ==
    IF a.calls = <<>> THEN [role |-> "user", content |-> <<"more">>]
    ELSE [role |-> "tool", content |-> <<"out">>, id |-> CallId(a.calls[j], j)]

LEMMA ReplyShape ==
    ASSUME NEW C, NEW a, a.calls \in Seq(C)
    PROVE  /\ ReplyCount(a) \in Nat /\ ReplyCount(a) # 0
           /\ ReplyMessages(a) = [j \in 1..ReplyCount(a) |-> ReplyRead(a, j)]
           /\ \A j \in 1..ReplyCount(a) :
                  \A m : AppendItem(m, ClientReply(a)[j]) = Append(m, ReplyRead(a, j))
<1> DEFINE n == ReplyCount(a)
<1>1. DOMAIN a.calls = 1..Len(a.calls) /\ Len(a.calls) \in Nat
    BY LenProperties
<1>2. CASE a.calls = <<>>
  <2>1. n = 1
    BY <1>2 DEF ReplyCount
  <2> DEFINE u == [role |-> "user", content |-> <<"more">>]
             i == TextItem("user", <<"more">>)
  <2>2. \A j : ReplyRead(a, j) = u
    BY <1>2 DEF ReplyRead
  <2>3. ReplyMessages(a) = <<u>> /\ ClientReply(a) = <<i>>
    BY <1>2 DEF ReplyMessages, ClientReply
  <2>4. \A m : AppendItem(m, i) = Append(m, u)
    BY ReadText
  <2> HIDE DEF u, i, n
  <2>5. <<u>> = [j \in 1..1 |-> u] /\ <<i>>[1] = i
    OBVIOUS
  <2>6. ReplyMessages(a) = [j \in 1..n |-> ReplyRead(a, j)]
    BY <2>1, <2>2, <2>3, <2>5
  <2>7. \A j \in 1..n : \A m : AppendItem(m, ClientReply(a)[j]) = Append(m, ReplyRead(a, j))
    <3>1. \A j \in 1..n : ClientReply(a)[j] = i
        BY <2>1, <2>3, <2>5
    <3> QED BY <2>2, <2>4, <3>1
  <2>8. n \in Nat /\ n # 0
    BY <2>1
  <2> QED BY <2>6, <2>7, <2>8 DEF n
<1>3. CASE a.calls # <<>>
  <2>1. n = Len(a.calls) /\ n # 0
    BY <1>3, EmptySeq DEF ReplyCount
  <2> DEFINE u(j) == [role |-> "tool", content |-> <<"out">>,
                      id |-> CallId(a.calls[j], j)]
             i(j) == [type |-> "function_call_output", text |-> <<"out">>,
                      id |-> CallId(a.calls[j], j)]
  <2>2. \A j : ReplyRead(a, j) = u(j)
    BY <1>3 DEF ReplyRead
  <2>3. /\ ReplyMessages(a) = [j \in DOMAIN a.calls |-> u(j)]
        /\ ClientReply(a) = [j \in DOMAIN a.calls |-> i(j)]
    BY <1>3 DEF ReplyMessages, ClientReply, ToolOutputs
  <2>4. ASSUME NEW m, NEW j PROVE AppendItem(m, i(j)) = Append(m, u(j))
    <3> DEFINE d == CallId(a.calls[j], j)
               t == <<"out">>
               x == i(j)
    <3>1. x.type = "function_call_output" /\ x.text = t /\ x.id = d
        OBVIOUS
    <3> HIDE DEF x
    <3>2. AppendItem(m, x) = Append(m, [role |-> "tool", content |-> x.text, id |-> x.id])
        BY <3>1 DEF AppendItem
    <3>3. [role |-> "tool", content |-> x.text, id |-> x.id] = u(j)
        BY <3>1
    <3> QED BY <3>2, <3>3 DEF x
  <2> HIDE DEF u, i, n
  <2>5. ReplyMessages(a) = [j \in 1..n |-> ReplyRead(a, j)]
    BY <1>1, <2>1, <2>2, <2>3
  <2>6. \A j \in 1..n : \A m : AppendItem(m, ClientReply(a)[j]) = Append(m, ReplyRead(a, j))
    <3>1. \A j \in 1..n : ClientReply(a)[j] = i(j)
        BY <1>1, <2>1, <2>3
    <3> QED BY <2>2, <2>4, <3>1
  <2> QED BY <1>1, <2>1, <2>5, <2>6 DEF n
<1> QED BY <1>2, <1>3

LEMMA ReadsReply ==
    ASSUME NEW input, NEW N \in Nat, DOMAIN input = 1..N,
           NEW C, NEW a, a.calls \in Seq(C),
           NEW p \in 0..N, p + ReplyCount(a) <= N, ReplyAt(input, p, a),
           NEW M, ReadTo(input, p) \in Seq(M)
    PROVE  LET s == ReadTo(input, p + ReplyCount(a))
           IN  /\ s = ReadTo(input, p) \o ReplyMessages(a)
               /\ s \in Seq(M \cup {ReplyRead(a, j) : j \in 1..ReplyCount(a)})
               /\ NoAnswerLast(s)
<1> DEFINE n == ReplyCount(a)
           m == ReadTo(input, p)
           l == Len(m)
           x(j) == ReplyRead(a, j)
           S == M \cup {x(j) : j \in 1..n}
           at(k) == ReadTo(input, p + k)
           Read(s, k) == /\ s \in Seq(S) /\ Len(s) = l + k
                         /\ \A i \in 1..l : s[i] = m[i]
                         /\ \A i \in 1..k : s[l + i] = x(i)
           T == {k \in 0..n : Read(at(k), k)}
<1>1. /\ n \in Nat /\ n # 0 /\ ReplyMessages(a) = [j \in 1..n |-> x(j)]
      /\ \A j \in 1..n : \A y : AppendItem(y, ClientReply(a)[j]) = Append(y, x(j))
    BY ReplyShape
<1>2. \A i \in 1..N : ReadTo(input, i) = AppendItem(ReadTo(input, i - 1), input[i])
    BY ReadStep
<1>3. l \in Nat /\ m \in Seq(S) /\ \A j \in 1..n : x(j) \in S
  <2>1. m \in Seq(M) /\ M \subseteq S
    OBVIOUS
  <2>2. \A j \in 1..n : x(j) \in S
    OBVIOUS
  <2> HIDE DEF S, m
  <2> QED BY <2>1, <2>2, SeqMonotonic, LenProperties
<1>4. p \in Nat /\ p + n <= N
    OBVIOUS
<1>5. \A j \in 1..n : input[p + j] = ClientReply(a)[j]
    BY DEF ReplyAt
<1> HIDE DEF n, m, S, x, l
<1>6. ASSUME NEW k \in 1..n PROVE at(k) = Append(at(k - 1), x(k))
  <2>1. p + k \in 1..N /\ (p + k) - 1 = p + (k - 1)
    BY <1>1, <1>4
  <2>2. at(k) = AppendItem(at(k - 1), ClientReply(a)[k])
    BY <1>2, <1>5, <2>1
  <2> QED BY <1>1, <2>2
<1>7. 0 \in T
  <2>1. at(0) = m
    BY <1>4 DEF m
  <2>2. l + 0 = l /\ 0 \in 0..n /\ 1..0 = {}
    BY <1>1, <1>3
  <2>3. Len(m) = l
    BY DEF l
  <2> HIDE DEF at
  <2> QED BY <1>3, <2>1, <2>2, <2>3
<1>8. ASSUME NEW k \in 1..n, k - 1 \in T PROVE k \in T
  <2> DEFINE before == at(k - 1)
             after == at(k)
  <2>1. Read(before, k - 1) /\ k \in 0..n /\ x(k) \in S
    <3>1. k \in 0..n /\ x(k) \in S
        BY <1>1, <1>3
    <3> HIDE DEF Read, at
    <3>2. Read(before, k - 1)
        BY <1>8
    <3> QED BY <3>1, <3>2
  <2>2. after = Append(before, x(k))
    BY <1>6
  <2> HIDE DEF at, before, after
  <2>3. k \in Nat /\ l + (k - 1) + 1 = l + k /\ Len(before) = l + (k - 1)
    BY <1>3, <2>1
  <2>4. /\ after \in Seq(S) /\ Len(after) = Len(before) + 1
        /\ \A i \in 1..Len(before) : after[i] = before[i]
        /\ after[Len(before) + 1] = x(k)
    BY <2>1, <2>2, AppendProperties
  <2>5. \A i \in 1..l : after[i] = m[i]
    <3> TAKE i \in 1..l
    <3>1. i \in 1..Len(before)
        BY <1>3, <2>3
    <3> QED BY <2>1, <2>4, <3>1
  <2>6. \A i \in 1..k : after[l + i] = x(i)
    <3> TAKE i \in 1..k
    <3>1. CASE i = k
        BY <2>3, <2>4, <3>1
    <3>2. CASE i # k
      <4>1. i \in 1..(k - 1) /\ l + i \in 1..Len(before)
        BY <1>3, <2>3, <3>2
      <4> QED BY <2>1, <2>4, <4>1
    <3> QED BY <3>1, <3>2
  <2>7. Read(after, k)
    BY <2>3, <2>4, <2>5, <2>6
  <2> QED BY <2>1, <2>7 DEF after
<1>9. Read(at(n), n)
  <2> HIDE DEF T
  <2>1. 0..n \subseteq T
    BY <1>1, <1>7, <1>8, UpTo
  <2>2. n \in T
    BY <1>1, <2>1
  <2> QED BY <2>2 DEF T
<1> DEFINE s == at(n)
<1> HIDE DEF at, s
<1>10. /\ s \in Seq(S) /\ Len(s) = l + n /\ \A i \in 1..l : s[i] = m[i]
       /\ \A i \in 1..n : s[l + i] = x(i)
    BY <1>9 DEF s
<1>11. s = m \o ReplyMessages(a)
  <2> DEFINE r == ReplyMessages(a)
             w == m \o r
  <2>1. r \in Seq(S) /\ Len(r) = n /\ \A i \in 1..n : r[i] = x(i)
    <3>1. r \in [1..n -> S]
        BY <1>1, <1>3
    <3>2. r \in Seq(S)
        BY <1>1, <3>1, SeqDef
    <3> QED BY <1>1, <3>2
  <2> HIDE DEF r
  <2>2. /\ w \in Seq(S) /\ Len(w) = Len(m) + Len(r)
        /\ \A i \in 1..Len(m) + Len(r) :
               w[i] = IF i <= Len(m) THEN m[i] ELSE r[i - Len(m)]
    BY <1>3, <2>1, ConcatProperties
  <2> HIDE DEF w
  <2>3. Len(m) = l
    BY DEF l
  <2>4. Len(s) = Len(w)
    BY <1>10, <2>1, <2>2, <2>3
  <2>5. \A i \in 1..Len(s) : s[i] = w[i]
    <3> TAKE i \in 1..Len(s)
    <3>1. i \in 1..Len(m) + Len(r)
        BY <1>10, <2>1, <2>3
    <3>2. CASE i <= l
      <4>1. i \in 1..l
        BY <1>3, <3>2
      <4> QED BY <1>10, <2>2, <2>3, <3>1, <3>2, <4>1
    <3>3. CASE ~(i <= l)
      <4>1. i - l \in 1..n /\ l + (i - l) = i
        BY <1>1, <1>3, <1>10, <3>3
      <4> QED BY <1>10, <2>1, <2>2, <2>3, <3>1, <3>3, <4>1
    <3> QED BY <3>2, <3>3
  <2>6. s = w
    BY <1>10, <2>2, <2>4, <2>5, SeqEqual
  <2> QED BY <2>6 DEF w, r
<1>12. NoAnswerLast(s)
  <2>1. n \in 1..n
    BY <1>1
  <2>2. Last(s) = x(n)
    BY <1>10, <2>1 DEF Last
  <2>3. x(n).role # "assistant"
    BY DEF x, ReplyRead
  <2> QED BY <2>2, <2>3 DEF NoAnswerLast
<1> QED BY <1>10, <1>11, <1>12 DEF s, at, m, n, S, x

(* The same with what the steps have in common under a name. *)
InputOf(input, N) == N \in Nat /\ DOMAIN input = 1..N

Unanswered(m) == (\E M : m \in Seq(M)) /\ NoAnswerLast(m)

LEMMA TwoInLine ==
    ASSUME NEW u, NEW x
    PROVE  Append(<<u>>, x) = <<u, x>> /\ <<u, x>> \in Seq({u, x})
<1> DEFINE S == {u, x}
           s == <<u>>
           t == <<u, x>>
           a == Append(s, x)
<1>1. /\ s \in Seq(S) /\ Len(s) = 1 /\ s[1] = u /\ x \in S
      /\ t \in Seq(S) /\ Len(t) = 2 /\ t[1] = u /\ t[2] = x
    OBVIOUS
<1> HIDE DEF S, s, t
<1>2. /\ a \in Seq(S) /\ Len(a) = Len(s) + 1
      /\ \A i \in 1..Len(s) : a[i] = s[i]
      /\ a[Len(s) + 1] = x
  <2>1. s \in Seq(S) /\ x \in S
    BY <1>1
  <2> QED BY <2>1, AppendProperties
<1> HIDE DEF a
<1>3. Len(a) = Len(t) /\ \A i \in 1..Len(a) : a[i] = t[i]
    BY <1>1, <1>2
<1>4. a = t
    BY <1>1, <1>2, <1>3, SeqEqual
<1> QED BY <1>1, <1>4 DEF S, s, t, a

LEMMA ReadsAnswer ==
    ASSUME NEW input, NEW N, InputOf(input, N),
           NEW a, a.calls \in Seq(Calls), NEW declared,
           NEW p \in Nat, p + OutputCount(a) <= N, ItemsAt(input, p, a, declared),
           Unanswered(ReadTo(input, p))
    PROVE  ReadTo(input, p + OutputCount(a))
               = Append(ReadTo(input, p), AnswerRead(a, declared))
<1> DEFINE n == Len(a.calls)
<1>1. n \in Nat /\ DOMAIN a.calls = 1..n /\ Len(a.calls) = n
    BY LenProperties
<1>2. N \in Nat /\ DOMAIN input = 1..N
    BY DEF InputOf
<1>3. PICK M : ReadTo(input, p) \in Seq(M)
    BY DEF Unanswered
<1>4. NoAnswerLast(ReadTo(input, p))
    BY DEF Unanswered
<1>5. p \in 0..N
  <2>1. ReasoningItems(a) \in 0..1 /\ TextItems(a) \in 0..1
    BY DEF ReasoningItems, TextItems
  <2>2. \A i, j \in 0..1, k \in Nat : i + j + k \in Nat
    OBVIOUS
  <2> DEFINE c == OutputCount(a)
  <2>3. c \in Nat
    BY <1>1, <2>1, <2>2 DEF OutputCount
  <2>4. p + c <= N
    OBVIOUS
  <2> HIDE DEF c
  <2> QED BY <1>2, <2>3, <2>4
<1>6. a.calls \in Seq(Calls) /\ p + OutputCount(a) <= N
    OBVIOUS
<1> HIDE DEF n
<1> QED BY <1>1, <1>2, <1>3, <1>4, <1>5, <1>6, ReadsOutput

LEMMA ReadsBetween ==
    ASSUME NEW input, NEW N, InputOf(input, N),
           NEW a, a.calls \in Seq(Calls),
           NEW p \in Nat, p + ReplyCount(a) <= N, ReplyAt(input, p, a),
           \E M : ReadTo(input, p) \in Seq(M)
    PROVE  /\ ReadTo(input, p + ReplyCount(a)) = ReadTo(input, p) \o ReplyMessages(a)
           /\ Unanswered(ReadTo(input, p + ReplyCount(a)))
<1>1. N \in Nat /\ DOMAIN input = 1..N
    BY DEF InputOf
<1>2. PICK M : ReadTo(input, p) \in Seq(M)
    OBVIOUS
<1>3. p \in 0..N
  <2> DEFINE c == ReplyCount(a)
  <2>1. c \in Nat
    BY ReplyShape
  <2>2. p + c <= N
    OBVIOUS
  <2> HIDE DEF c
  <2> QED BY <1>1, <2>1, <2>2
<1> DEFINE s == ReadTo(input, p + ReplyCount(a))
<1>4. /\ s = ReadTo(input, p) \o ReplyMessages(a)
      /\ s \in Seq(M \cup {ReplyRead(a, j) : j \in 1..ReplyCount(a)})
      /\ NoAnswerLast(s)
    BY <1>1, <1>2, <1>3, ReadsReply
<1> HIDE DEF s
<1>5. Unanswered(s)
    BY <1>4 DEF Unanswered
<1> QED BY <1>4, <1>5 DEF s

-----------------------------------------------------------------------------
(* The whole conversation.                                                  *)
FourJoined(a, b, c, d) == a \o b \o c \o d

InParts(w, a, b, c, d) ==
    /\ Len(w) = Len(a) + Len(b) + Len(c) + Len(d)
    /\ \A i \in 1..Len(a) : w[i] = a[i]
    /\ \A i \in 1..Len(b) : w[Len(a) + i] = b[i]
    /\ \A i \in 1..Len(c) : w[Len(a) + Len(b) + i] = c[i]
    /\ \A i \in 1..Len(d) : w[Len(a) + Len(b) + Len(c) + i] = d[i]

LEMMA FourParts ==
    ASSUME NEW S, NEW a \in Seq(S), NEW b \in Seq(S), NEW c \in Seq(S), NEW d \in Seq(S)
    PROVE  FourJoined(a, b, c, d) \in Seq(S) /\ InParts(FourJoined(a, b, c, d), a, b, c, d)
<1> DEFINE u == a \o b
           v == u \o c
           w == v \o d
           A == Len(a)
           B == Len(b)
           C == Len(c)
           D == Len(d)
<1>1. A \in Nat /\ B \in Nat /\ C \in Nat /\ D \in Nat
    BY LenProperties
<1>2. /\ u \in Seq(S) /\ Len(u) = A + B
      /\ \A i \in 1..A + B : u[i] = IF i <= A THEN a[i] ELSE b[i - A]
    BY ConcatProperties
<1> HIDE DEF u
<1>3. u \in Seq(S)
    BY <1>2
<1>4. /\ v \in Seq(S) /\ Len(v) = Len(u) + C
      /\ \A i \in 1..Len(u) + C : v[i] = IF i <= Len(u) THEN u[i] ELSE c[i - Len(u)]
    BY <1>3, ConcatProperties
<1> HIDE DEF v
<1>5. v \in Seq(S)
    BY <1>4
<1>6. /\ w \in Seq(S) /\ Len(w) = Len(v) + D
      /\ \A i \in 1..Len(v) + D : w[i] = IF i <= Len(v) THEN v[i] ELSE d[i - Len(v)]
    BY <1>5, ConcatProperties
<1> HIDE DEF w, A, B, C, D
<1>7. Len(u) = A + B /\ Len(v) = A + B + C /\ Len(w) = A + B + C + D
    BY <1>2, <1>4, <1>6
<1>8. \A i \in 1..A + B + C : w[i] = v[i]
  <2> TAKE i \in 1..A + B + C
  <2>1. i \in 1..(A + B + C) + D /\ i <= A + B + C
    BY <1>1
  <2> QED BY <1>6, <1>7, <2>1
<1>9. \A i \in 1..A + B : w[i] = u[i]
  <2> TAKE i \in 1..A + B
  <2>1. i \in 1..A + B + C /\ i <= A + B
    BY <1>1
  <2> QED BY <1>4, <1>7, <1>8, <2>1
<1>10. \A i \in 1..A : w[i] = a[i]
  <2> TAKE i \in 1..A
  <2>1. i \in 1..A + B /\ i <= A
    BY <1>1
  <2> QED BY <1>2, <1>9, <2>1
<1>11. \A i \in 1..B : w[A + i] = b[i]
  <2> TAKE i \in 1..B
  <2>1. A + i \in 1..A + B /\ ~(A + i <= A) /\ (A + i) - A = i
    BY <1>1
  <2> QED BY <1>2, <1>9, <2>1
<1>12. \A i \in 1..C : w[A + B + i] = c[i]
  <2> TAKE i \in 1..C
  <2>1. /\ A + B + i \in 1..A + B + C /\ ~(A + B + i <= A + B)
        /\ (A + B + i) - (A + B) = i
    BY <1>1
  <2> QED BY <1>4, <1>7, <1>8, <2>1
<1>13. \A i \in 1..D : w[A + B + C + i] = d[i]
  <2> TAKE i \in 1..D
  <2>1. /\ A + B + C + i \in 1..(A + B + C) + D /\ ~(A + B + C + i <= A + B + C)
        /\ (A + B + C + i) - (A + B + C) = i
    BY <1>1
  <2> QED BY <1>6, <1>7, <2>1
<1>14. w = FourJoined(a, b, c, d)
    BY DEF u, v, w, FourJoined
<1>15. InParts(w, a, b, c, d)
    BY <1>7, <1>10, <1>11, <1>12, <1>13 DEF A, B, C, D, InParts
<1> QED BY <1>6, <1>14, <1>15

(* A conversation a client may have had. *)
AnswersAsked ==
    /\ DeclaredOnce(ask.declared)
    /\ ask.first.calls \in Seq(Calls)
    /\ ask.second.calls = <<>>

ReplyItems(a) == {ClientReply(a)[j] : j \in 1..ReplyCount(a)}

(* The items of the input, by their places. *)
LEMMA InputShape ==
    ASSUME AnswersAsked
    PROVE  LET l == OutputCount(ask.first)
               r == ReplyCount(ask.first)
               n == 1 + l + r + OutputCount(ask.second)
           IN  /\ l \in Nat /\ l # 0 /\ r \in Nat /\ n \in Nat
               /\ OutputCount(ask.second) \in Nat
               /\ DOMAIN ClientInput = 1..n
               /\ ClientInput[1] = TextItem("user", <<"ask">>)
               /\ ItemsAt(ClientInput, 1, ask.first, ask.declared)
               /\ ReplyAt(ClientInput, 1 + l, ask.first)
               /\ ItemsAt(ClientInput, 1 + l + r, ask.second, ask.declared)
<1> DEFINE x == TextItem("user", <<"ask">>)
           a == <<x>>
           b == OutputItems(ask.first, ask.declared)
           c == ClientReply(ask.first)
           d == OutputItems(ask.second, ask.declared)
           S == {x} \cup ItemsOf(ask.first, ask.declared) \cup ReplyItems(ask.first)
                    \cup ItemsOf(ask.second, ask.declared)
           l == OutputCount(ask.first)
           r == ReplyCount(ask.first)
           m == OutputCount(ask.second)
           n == 1 + l + r + m
<1>1. /\ DOMAIN ask.first.calls = 1..Len(ask.first.calls)
      /\ Len(ask.first.calls) \in Nat
    BY LenProperties DEF AnswersAsked
<1>2. /\ DOMAIN ask.second.calls = 1..0 /\ Len(ask.second.calls) = 0
      /\ ask.second.calls \in Seq(Calls)
    BY EmptySeq DEF AnswersAsked
<1>3. b \in Seq(S) /\ Len(b) = l
  <2>1. b \in Seq(ItemsOf(ask.first, ask.declared)) /\ Len(b) = l
    BY <1>1, OutputParts DEF OutputCount
  <2>2. ItemsOf(ask.first, ask.declared) \subseteq S
    OBVIOUS
  <2> HIDE DEF b, S
  <2> QED BY <2>1, <2>2, SeqMonotonic
<1>4. d \in Seq(S) /\ Len(d) = m
  <2>1. d \in Seq(ItemsOf(ask.second, ask.declared)) /\ Len(d) = m
    BY <1>2, OutputParts DEF OutputCount
  <2>2. ItemsOf(ask.second, ask.declared) \subseteq S
    OBVIOUS
  <2> HIDE DEF d, S
  <2> QED BY <2>1, <2>2, SeqMonotonic
<1>5. c \in Seq(S) /\ Len(c) = r /\ r \in Nat
  <2>1. r \in Nat /\ r # 0
    BY ReplyShape DEF AnswersAsked
  <2>2. DOMAIN c = 1..r /\ c = [j \in 1..r |-> c[j]]
    <3>1. CASE ask.first.calls = <<>>
      <4>1. c = <<TextItem("user", <<"more">>)>> /\ r = 1
        BY <3>1 DEF ClientReply, ReplyCount
      <4> QED BY <4>1
    <3>2. CASE ask.first.calls # <<>>
      <4>1. r = Len(ask.first.calls) /\ c = ToolOutputs(ask.first.calls)
        BY <3>2 DEF ClientReply, ReplyCount
      <4> QED BY <1>1, <4>1 DEF ToolOutputs
    <3> QED BY <3>1, <3>2
  <2>3. \A j \in 1..r : c[j] \in S
    BY DEF ReplyItems
  <2> HIDE DEF c, S, r
  <2>4. c \in [1..r -> S]
    BY <2>2, <2>3
  <2>5. c \in Seq(S)
    BY <2>1, <2>4, SeqDef
  <2> QED BY <2>1, <2>2, <2>5
<1>6. a \in Seq(S) /\ Len(a) = 1 /\ a[1] = x
  <2>1. x \in S
    OBVIOUS
  <2> HIDE DEF x, S
  <2> QED BY <2>1
<1>7. l \in Nat /\ l # 0 /\ m \in Nat
  <2>1. \A v : ReasoningItems(v) \in 0..1 /\ TextItems(v) \in 0..1
    BY DEF ReasoningItems, TextItems
  <2>2. TextItems(ask.first) = 0 => Len(ask.first.calls) # 0
    <3> SUFFICES ASSUME TextItems(ask.first) = 0 PROVE Len(ask.first.calls) # 0
        OBVIOUS
    <3>1. ask.first.calls # <<>>
        BY DEF TextItems
    <3>2. ask.first.calls \in Seq(Calls)
        BY DEF AnswersAsked
    <3> QED BY <3>1, <3>2, EmptySeq
  <2>3. /\ ReasoningItems(ask.first) \in 0..1 /\ TextItems(ask.first) \in 0..1
        /\ ReasoningItems(ask.second) \in 0..1 /\ TextItems(ask.second) \in 0..1
    BY <2>1
  <2>4. \A i, j \in 0..1, k \in Nat :
            i + j + k \in Nat /\ ((j = 0 => k # 0) => i + j + k # 0)
    OBVIOUS
  <2>5. m \in Nat
    BY <1>2, <2>3, <2>4 DEF OutputCount
  <2>6. l \in Nat /\ l # 0
    BY <1>1, <2>2, <2>3, <2>4 DEF OutputCount
  <2> QED BY <2>5, <2>6
<1> HIDE DEF a, b, c, d, x, S, l, r, m
<1> DEFINE w == FourJoined(a, b, c, d)
<1>8. a \in Seq(S) /\ b \in Seq(S) /\ c \in Seq(S) /\ d \in Seq(S)
    BY <1>3, <1>4, <1>5, <1>6
<1>9. w \in Seq(S) /\ InParts(w, a, b, c, d)
    BY <1>8, FourParts
<1>10. w = ClientInput
    BY DEF a, b, c, d, x, ClientInput, FourJoined
<1> HIDE DEF w
<1>11. /\ Len(w) = n /\ \A i \in 1..1 : w[i] = a[i]
       /\ \A i \in 1..l : w[1 + i] = b[i]
       /\ \A i \in 1..r : w[1 + l + i] = c[i]
       /\ \A i \in 1..m : w[1 + l + r + i] = d[i]
    BY <1>3, <1>4, <1>5, <1>6, <1>9 DEF InParts
<1>12. DOMAIN w = 1..n /\ n \in Nat /\ w[1] = x
  <2>1. DOMAIN w = 1..Len(w)
    BY <1>9, LenProperties
  <2>2. n \in Nat /\ 1 \in 1..1
    BY <1>5, <1>7
  <2> QED BY <1>6, <1>11, <2>1, <2>2
<1>13. /\ ItemsAt(w, 1, ask.first, ask.declared)
       /\ ReplyAt(w, 1 + l, ask.first)
       /\ ItemsAt(w, 1 + l + r, ask.second, ask.declared)
    BY <1>11 DEF ItemsAt, ReplyAt, l, r, m, b, c, d
<1> QED BY <1>5, <1>7, <1>10, <1>12, <1>13 DEF l, r, m, x

(* What is read is the conversation. *)
LEMMA ConversationIsRead ==
    ASSUME AnswersAsked
    PROVE  MessagesFromInput(ClientInput)
               = <<[role |-> "user", content |-> <<"ask">>],
                   AnswerRead(ask.first, ask.declared)>>
                 \o ReplyMessages(ask.first)
                 \o <<AnswerRead(ask.second, ask.declared)>>
<1> DEFINE u == [role |-> "user", content |-> <<"ask">>]
           x == AnswerRead(ask.first, ask.declared)
           y == AnswerRead(ask.second, ask.declared)
           v == ReplyMessages(ask.first)
           l == OutputCount(ask.first)
           r == ReplyCount(ask.first)
           m == OutputCount(ask.second)
           n == 1 + l + r + m
           f(i) == ReadTo(ClientInput, i)
<1>1. /\ l \in Nat /\ l # 0 /\ r \in Nat /\ m \in Nat /\ n \in Nat
      /\ DOMAIN ClientInput = 1..n
      /\ ClientInput[1] = TextItem("user", <<"ask">>)
      /\ ItemsAt(ClientInput, 1, ask.first, ask.declared)
      /\ ReplyAt(ClientInput, 1 + l, ask.first)
      /\ ItemsAt(ClientInput, 1 + l + r, ask.second, ask.declared)
    BY InputShape
<1>2. /\ MessagesFromInput(ClientInput) = f(n) /\ f(0) = <<>>
      /\ \A i \in 1..n : f(i) = AppendItem(f(i - 1), ClientInput[i])
    BY <1>1, ReadStep
<1>3. ask.first.calls \in Seq(Calls) /\ ask.second.calls \in Seq(Calls)
    BY EmptySeq DEF AnswersAsked
<1>4. f(1) = <<u>>
  <2>1. 1 \in 1..n /\ 1 - 1 = 0
    BY <1>1
  <2>2. f(1) = AppendItem(<<>>, TextItem("user", <<"ask">>))
    BY <1>1, <1>2, <2>1
  <2>3. f(1) = Append(<<>>, u)
    BY <2>2, ReadText
  <2> HIDE DEF u, f
  <2> QED BY <2>3
<1> HIDE DEF l, r, m, n
<1>5. f(1) \in Seq({u}) /\ NoAnswerLast(f(1))
  <2>1. u.role # "assistant"
    OBVIOUS
  <2> HIDE DEF u, f
  <2>2. <<u>> \in Seq({u}) /\ Last(<<u>>) = u
    BY DEF Last
  <2> QED BY <1>4, <2>1, <2>2 DEF NoAnswerLast
<1>6. f(1 + l) = Append(f(1), x)
  <2>1. 1 \in Nat /\ 1 + l <= n
    BY <1>1 DEF n
  <2>2. InputOf(ClientInput, n) /\ Unanswered(f(1))
    BY <1>1, <1>5 DEF InputOf, Unanswered
  <2> QED BY <1>1, <1>3, <2>1, <2>2, ReadsAnswer DEF l
<1>7. f(1 + l) = <<u, x>> /\ f(1 + l) \in Seq({u, x})
  <2> HIDE DEF f, u, x
  <2> QED BY <1>4, <1>6, TwoInLine
<1>8. f((1 + l) + r) = <<u, x>> \o v /\ Unanswered(f((1 + l) + r))
  <2>1. 1 + l \in Nat /\ (1 + l) + r <= n
    BY <1>1 DEF n
  <2>2. InputOf(ClientInput, n)
    BY <1>1 DEF InputOf
  <2>3. \E M : f(1 + l) \in Seq(M)
    BY <1>7
  <2>4. /\ f((1 + l) + r) = f(1 + l) \o v /\ Unanswered(f((1 + l) + r))
    BY <1>1, <1>3, <2>1, <2>2, <2>3, ReadsBetween DEF r
  <2> QED BY <1>7, <2>4
<1>9. PICK S : f((1 + l) + r) \in Seq(S)
    BY <1>8 DEF Unanswered
<1>10. f(n) = Append(f(1 + l + r), y)
  <2>1. 1 + l + r \in Nat /\ (1 + l + r) + m <= n /\ n = (1 + l + r) + m
    BY <1>1 DEF n
  <2>2. InputOf(ClientInput, n)
    BY <1>1 DEF InputOf
  <2>3. f((1 + l + r) + m) = Append(f(1 + l + r), y)
    BY <1>1, <1>3, <1>8, <2>1, <2>2, ReadsAnswer DEF m
  <2> QED BY <2>1, <2>3
<1>11. Append(f(1 + l + r), y) = f(1 + l + r) \o <<y>>
  <2> DEFINE s == f(1 + l + r)
             R == S \cup {y}
  <2>1. s \in Seq(R) /\ y \in R
    BY <1>9, SeqMonotonic
  <2> HIDE DEF s, R, y
  <2>2. Append(s, y) = s \o <<y>>
    BY <2>1, AppendIsConcat
  <2> QED BY <2>2 DEF s
<1>12. MessagesFromInput(ClientInput) = <<u, x>> \o v \o <<y>>
  <2> HIDE DEF f, n, u, x, v, y
  <2> QED BY <1>2, <1>8, <1>10, <1>11
<1> QED BY <1>12

(* A message has the names that were meant. *)
LEMMA AnswerMeant ==
    ASSUME DeclaredOnce(ask.declared), NEW a, a.calls \in Seq(Calls),
           \A i \in DOMAIN a.calls : ~Mistaken(a.calls[i].name)
    PROVE  AnswerRead(a, ask.declared) = AnswerMessage(a)
<1>1. /\ DOMAIN a.calls = 1..Len(a.calls)
      /\ \A i \in DOMAIN a.calls : a.calls[i] \in Calls
    BY LenProperties, ElementOfSeq
<1>2. ASSUME NEW i \in DOMAIN a.calls
      PROVE  CallRead(a.calls[i], i, ask.declared)
                 = [name |-> Meant(a.calls[i].name), id |-> CallId(a.calls[i], i)]
  <2>1. a.calls[i].name \in CalledNames
    BY <1>1 DEF Calls
  <2>2. Returned(a.calls[i].name, ask.declared) = Meant(a.calls[i].name)
    BY <2>1, NameReturns
  <2> QED BY <2>2 DEF CallRead
<1>3. CallsRead(a.calls, ask.declared, Len(a.calls))
          = [i \in DOMAIN a.calls |-> [name |-> Meant(a.calls[i].name),
                                       id |-> CallId(a.calls[i], i)]]
    BY <1>1, <1>2 DEF CallsRead
<1> QED BY <1>3 DEF AnswerRead, AnswerMessage

LEMMA NamesDeclaredOnce ==
    ASSUME NEW names \in SUBSET DeclaredNames
    PROVE  DeclaredOnce(SetToSeq(names))
<1> DEFINE n == Cardinality(names)
           s == SetToSeq(names)
<1>1. IsFiniteSet(names)
    BY NamesAssumption, FS_Subset
<1>2. n \in Nat /\ ExistsBijection(1..n, names)
    BY <1>1, FS_CardinalityType
<1>3. PICK f \in Bijection(1..n, names) : TRUE
    BY <1>2 DEF ExistsBijection
<1> HIDE DEF n
<1>4. f \in [1..n -> names] /\ IsInjective(f)
    BY <1>3 DEF Bijection, Injection, IsInjective
<1>5. s \in [1..n -> names] /\ IsInjective(s)
  <2>1. s = CHOOSE g \in [1..n -> names] : IsInjective(g)
    BY DEF SetToSeq, n
  <2> HIDE DEF s
  <2> QED BY <1>4, <2>1
<1> HIDE DEF s
<1>6. s \in [1..n -> DeclaredNames]
    BY <1>5
<1>7. s \in Seq(DeclaredNames)
    BY <1>2, <1>6, SeqDef
<1> QED BY <1>5, <1>7 DEF DeclaredOnce, s

-----------------------------------------------------------------------------
(* A question is one the engine can ask, and its answer is the plan's.      *)
AskedAdmit ==
    ask.about = "admit" =>
        /\ ask.held \in Seq(Nat) /\ ask.incoming \in Nat /\ ask.limit \in Nat
        /\ answer # <<>> =>
               answer = <<PlanMemoryAdmit(ask.held, ask.incoming, ask.limit)>>

AskedCheckpoint ==
    ask.about = "checkpoint" =>
        /\ ask.active \in Seq(Tokens) /\ ask.prompt \in Seq(Tokens)
        /\ ask.ends \in Seq(Nat)
        /\ answer # <<>> =>
               answer = <<CheckpointFromOffsets(ask.active, ask.prompt, ask.ends)>>

AskedEnds ==
    ask.about = "ends" =>
        /\ ask.active \in Seq(Tokens) /\ ask.prompt \in Seq(Tokens)
        /\ ask.ends \in Seq(Nat) /\ InOneLine(ask.ends)
        /\ ask.renders \in Seq(Seq(Tokens))
        /\ answer # <<>> =>
               answer = <<MessageTokenEnds(ask.ends, ask.active, ask.prompt,
                                           ask.renders)>>

AskedGc ==
    ask.about = "gc" =>
        /\ Files(ask.files) /\ ask.age \in Int /\ ask.limit \in Nat
        /\ answer # <<>> =>
               answer = <<PlanDiskGc(ask.files, ask.age, ask.limit, MaxSize)>>

AskedLimit ==
    ask.about = "limit" =>
        /\ Rows(ask.rows) /\ Refs(ask.refs) /\ ask.limit \in Nat
        /\ answer # <<>> =>
               answer = <<PlanSessionCache(ask.rows, ask.refs, ask.limit)>>

AskedHistory ==
    ask.about = "history" =>
        /\ AnswersAsked
        /\ answer # <<>> => answer = <<MessagesFromInput(ClientInput)>>

PlansInv ==
    AskedAdmit /\ AskedGc /\ AskedCheckpoint /\ AskedEnds /\ AskedLimit
    /\ AskedHistory

LEMMA OffsetsInOneLine ==
    ASSUME NEW e \in Offsets
    PROVE  e \in Seq(Nat) /\ InOneLine(e)
<1>1. PICK m \in 0..2 : e \in [1..m -> 0..MaxLen]
    BY DEF Offsets, BoundedSeq, SeqOf
<1>2. \A i \in 1..m : e[i] \in Nat
    BY <1>1, BoundsAssumption
<1>3. e \in Seq(Nat) /\ Len(e) = m
    BY <1>1, <1>2
<1>4. Len(e) = 2 => e[1] <= e[2]
    BY DEF Offsets
<1> QED BY <1>2, <1>3, <1>4 DEF InOneLine

LEMMA PlansInvariant == Spec => []PlansInv
<1>1. Init => PlansInv
  <2> SUFFICES ASSUME Init PROVE PlansInv
    OBVIOUS
  <2>1. answer = <<>>
    BY DEF Init
  <2>2. ask.about = "admit" =>
            ask.held \in Seq(Nat) /\ ask.incoming \in Nat /\ ask.limit \in Nat
    <3> SUFFICES ASSUME ask.about = "admit"
                 PROVE  ask.held \in Seq(Nat) /\ ask.incoming \in Nat
                        /\ ask.limit \in Nat
        OBVIOUS
    <3>1. PICK held \in BoundedSeq(0..MaxSize, MaxHeld),
              incoming \in 0..MaxSize, limit \in 0..MaxBytes :
              ask = [about |-> "admit", held |-> held, incoming |-> incoming,
                     limit |-> limit]
        BY DEF Init
    <3>2. held \in Seq(0..MaxSize) /\ 0..MaxSize \subseteq Nat
        BY BoundedIsSeq, BoundsAssumption
    <3>3. held \in Seq(Nat)
        BY <3>2, SeqMonotonic
    <3> QED BY <3>1, <3>3, BoundsAssumption, MaxBytesAssumption
  <2>3. ask.about = "checkpoint" =>
            /\ ask.active \in Seq(Tokens) /\ ask.prompt \in Seq(Tokens)
            /\ ask.ends \in Seq(Nat)
    <3> SUFFICES ASSUME ask.about = "checkpoint"
                 PROVE  /\ ask.active \in Seq(Tokens)
                        /\ ask.prompt \in Seq(Tokens) /\ ask.ends \in Seq(Nat)
        OBVIOUS
    <3>1. PICK active \in Texts(MaxLen), prompt \in Texts(MaxLen), ends \in Offsets :
              ask = [about |-> "checkpoint", active |-> active,
                     prompt |-> prompt, ends |-> ends]
        BY DEF Init
    <3>2. active \in Seq(Tokens) /\ prompt \in Seq(Tokens)
        BY BoundedIsSeq, BoundsAssumption DEF Texts
    <3> QED BY <3>1, <3>2, OffsetsInOneLine
  <2>4. ask.about = "ends" =>
            /\ ask.active \in Seq(Tokens) /\ ask.prompt \in Seq(Tokens)
            /\ ask.ends \in Seq(Nat) /\ InOneLine(ask.ends)
            /\ ask.renders \in Seq(Seq(Tokens))
    <3> SUFFICES ASSUME ask.about = "ends"
                 PROVE  /\ ask.active \in Seq(Tokens)
                        /\ ask.prompt \in Seq(Tokens)
                        /\ ask.ends \in Seq(Nat) /\ InOneLine(ask.ends)
                        /\ ask.renders \in Seq(Seq(Tokens))
        OBVIOUS
    <3>1. PICK active \in Texts(MaxLen), prompt \in Texts(MaxLen), ends \in Offsets,
               renders \in BoundedSeq(Texts(2), 2) :
              ask = [about |-> "ends", active |-> active, prompt |-> prompt,
                     ends |-> ends, renders |-> renders]
        BY DEF Init
    <3>2. active \in Seq(Tokens) /\ prompt \in Seq(Tokens)
        BY BoundedIsSeq, BoundsAssumption DEF Texts
    <3>3. renders \in Seq(Texts(2)) /\ Texts(2) \subseteq Seq(Tokens)
        BY BoundedIsSeq DEF Texts
    <3>4. renders \in Seq(Seq(Tokens))
        BY <3>3, SeqMonotonic
    <3> QED BY <3>1, <3>2, <3>4, OffsetsInOneLine
  <2>5. ask.about = "gc" =>
            Files(ask.files) /\ ask.age \in Int /\ ask.limit \in Nat
    <3> SUFFICES ASSUME ask.about = "gc"
                 PROVE  Files(ask.files) /\ ask.age \in Int /\ ask.limit \in Nat
        OBVIOUS
    <3>1. PICK files \in FileSets, age \in -1..1, limit \in 0..MaxBytes :
              ask = [about |-> "gc", files |-> files, age |-> age,
                     limit |-> limit]
        BY DEF Init
    <3>2. Files(files) /\ age \in Int /\ limit \in Nat
        BY FileSetsAreFiles, MaxBytesAssumption
    <3> QED BY <3>1, <3>2
  <2>6. ask.about = "limit" =>
            Rows(ask.rows) /\ Refs(ask.refs) /\ ask.limit \in Nat
    <3> SUFFICES ASSUME ask.about = "limit"
                 PROVE  Rows(ask.rows) /\ Refs(ask.refs) /\ ask.limit \in Nat
        OBVIOUS
    <3>1. PICK found \in [1..MaxHeld -> Founds], known \in [1..MaxHeld -> Knowns],
               limit \in {0, 1, 3} :
              ask = [about |-> "limit", rows |-> RowsOf(found),
                     refs |-> RefsOf(known), limit |-> limit]
        BY DEF Init
    <3>2. Rows(RowsOf(found)) /\ Refs(RefsOf(known)) /\ limit \in Nat
        BY RowsAndRefs
    <3> QED BY <3>1, <3>2
  <2>7. ask.about = "history" => AnswersAsked
    <3> SUFFICES ASSUME ask.about = "history" PROVE AnswersAsked
        OBVIOUS
    <3>1. PICK names \in SUBSET DeclaredNames,
               first \in Answers(BoundedSeq(Calls, MaxCalls)),
               second \in Answers({<<>>}) :
              ask = [about |-> "history", declared |-> SetToSeq(names),
                     first |-> first, second |-> second]
        BY DEF Init
    <3>2. first.calls \in BoundedSeq(Calls, MaxCalls) /\ second.calls = <<>>
        BY DEF Answers
    <3>3. first.calls \in Seq(Calls)
        BY <3>2, BoundedIsSeq, BoundsAssumption
    <3>4. DeclaredOnce(SetToSeq(names))
        BY NamesDeclaredOnce
    <3> QED BY <3>1, <3>2, <3>3, <3>4 DEF AnswersAsked
  <2> QED BY <2>1, <2>2, <2>3, <2>4, <2>5, <2>6, <2>7
          DEF PlansInv, AskedAdmit, AskedGc, AskedCheckpoint, AskedEnds, AskedLimit,
              AskedHistory
<1>2. PlansInv /\ [Next]_vars => PlansInv'
  <2> SUFFICES ASSUME PlansInv, [Next]_vars PROVE PlansInv'
    OBVIOUS
  <2>1. AskedHistory'
    <3>1. ask' = ask
        BY DEF Next, AskAdmit, AskGc, AskCheckpoint, AskEnds, AskLimit, AskHistory, vars
    <3>2. ClientInput' = ClientInput /\ (AnswersAsked' <=> AnswersAsked)
        BY <3>1 DEF ClientInput, AnswersAsked
    <3>3. ask.about = "history" =>
              \/ answer' = <<MessagesFromInput(ClientInput)>>
              \/ answer' = answer
        BY DEF Next, AskAdmit, AskGc, AskCheckpoint, AskEnds, AskLimit, AskHistory,
               Asked, vars
    <3>4. AskedHistory
        BY DEF PlansInv
    <3> QED BY <3>1, <3>2, <3>3, <3>4 DEF AskedHistory
  <2> USE DEF PlansInv, AskedAdmit, AskedGc, AskedCheckpoint, AskedEnds,
              AskedLimit, Asked, InOneLine
  <2>2. CASE AskAdmit
    BY <2>2, <2>1 DEF AskAdmit
  <2>3. CASE AskGc
    BY <2>3, <2>1 DEF AskGc
  <2>4. CASE AskCheckpoint
    BY <2>4, <2>1 DEF AskCheckpoint
  <2>5. CASE AskEnds
    BY <2>5, <2>1 DEF AskEnds
  <2>6. CASE AskLimit
    BY <2>6, <2>1 DEF AskLimit
  <2>7. CASE AskHistory
    BY <2>7, <2>1 DEF AskHistory
  <2>8. CASE UNCHANGED vars
    BY <2>8, <2>1 DEF vars
  <2> QED BY <2>2, <2>3, <2>4, <2>5, <2>6, <2>7, <2>8 DEF Next
<1> QED BY <1>1, <1>2, PTL DEF Spec

-----------------------------------------------------------------------------
(* plan_memory_admit: for every list of parked sessions whose bytes fit an  *)
(* integer, every size and every limit, a session that fits the budget is   *)
(* kept, the sessions that stay fit with it, and none is spilled that could *)
(* have stayed.                                                             *)
THEOREM AdmitIsTightAlways == Spec => []AdmitIsTight
<1>1. PlansInv => AdmitIsTight
  <2> SUFFICES ASSUME PlansInv, Answered("admit"), Exact(ask.held) <= MaxBytes
               PROVE  LET Fits(n) == Exact(Remaining(ask.held, n)) + ask.incoming
                                         <= ask.limit
                      IN  /\ Result.keep <=> ask.incoming \in 1..ask.limit
                          /\ Result.keep => Fits(Result.spill)
                          /\ Result.spill > 0 => ~Fits(Result.spill - 1)
    BY DEF AdmitIsTight
  <2> DEFINE held == ask.held
             a == PlanMemoryAdmit(held, ask.incoming, ask.limit)
             left(n) == Exact(Remaining(held, n))
  <2>1. /\ held \in Seq(Nat) /\ ask.incoming \in Nat /\ ask.limit \in Nat
        /\ Result = a
    BY DEF PlansInv, AskedAdmit, Answered, Result
  <2>2. /\ a.keep <=> ask.incoming \in 1..ask.limit
        /\ a.spill \in 0..Len(held)
        /\ a.keep => Exact(held) - Sums(held)[a.spill] + ask.incoming <= ask.limit
        /\ a.spill > 0 =>
               Exact(held) - Sums(held)[a.spill - 1] + ask.incoming > ask.limit
    BY <2>1, AdmitPlan
  <2>3. \A n \in 0..Len(held) : left(n) = Exact(held) - Sums(held)[n]
    BY <2>1, SumOfRest DEF Remaining
  <2>4. Len(held) \in Nat
    BY <2>1, LenProperties
  <2>5. \A n \in 0..Len(held) : Exact(held) \in Nat /\ Sums(held)[n] \in Nat
    BY <2>1, SumsGrow
  <2> HIDE DEF a, held, left
  <2>6. a.keep => left(a.spill) + ask.incoming <= ask.limit
    BY <2>2, <2>3
  <2>7. a.spill > 0 => ~(left(a.spill - 1) + ask.incoming <= ask.limit)
    <3> SUFFICES ASSUME a.spill > 0
                 PROVE  ~(left(a.spill - 1) + ask.incoming <= ask.limit)
        OBVIOUS
    <3>1. a.spill - 1 \in 0..Len(held)
        BY <2>2, <2>4
    <3> DEFINE e == Exact(held)
               s == Sums(held)[a.spill - 1]
               l == left(a.spill - 1)
    <3>2. e \in Nat /\ s \in Nat /\ l = e - s /\ e - s + ask.incoming > ask.limit
        BY <2>2, <2>3, <2>5, <3>1
    <3> HIDE DEF e, s, l
    <3>3. ~(l + ask.incoming <= ask.limit)
        BY <2>1, <3>2
    <3> QED BY <3>3 DEF l
  <2> QED BY <2>1, <2>2, <2>6, <2>7 DEF left, held
<1> QED BY <1>1, PlansInvariant, PTL

(* plan_session_disk_gc: for every set of files and every limit, only files *)
(* over the age go, older ones before younger ones, none once the rest fits *)
(* and all of them as long as it does not.                                  *)
THEOREM GcIsTightAlways == Spec => []GcIsTight
<1>1. PlansInv => GcIsTight
  <2> SUFFICES ASSUME PlansInv, Answered("gc"), ask.age >= 0
               PROVE  GcIsTight
    BY DEF GcIsTight
  <2>1. /\ Files(ask.files) /\ ask.age \in Int /\ ask.limit \in Nat
        /\ Result = PlanDiskGc(ask.files, ask.age, ask.limit, MaxSize)
    BY DEF PlansInv, AskedGc, Answered, Result
  <2>2. OldFiles = {f \in ask.files : IsOld(f, ask.age, MaxSize)}
    BY DEF OldFiles, IsOld
  <2> DEFINE gone == PlanDiskGc(ask.files, ask.age, ask.limit, MaxSize)
             before(f) == {g \in gone : Older(g, f)}
  <2>3. /\ gone \subseteq OldFiles
        /\ \A f \in OldFiles \ gone, g \in gone : Older(g, f)
        /\ \A f \in gone : SizeOf(ask.files \ before(f)) > ask.limit
        /\ SizeOf(ask.files) > ask.limit /\ ask.limit < MaxBytes /\ OldFiles # {}
               => gone # {}
        /\ SizeOf(ask.files) <= MaxBytes =>
               SizeOf(ask.files \ gone) <= ask.limit \/ gone = OldFiles
    BY <2>1, <2>2, GcPlan
  <2> HIDE DEF gone
  <2>4. Result = gone
    BY <2>1 DEF gone
  <2> QED BY <2>3, <2>4 DEF GcIsTight
<1> QED BY <1>1, PlansInvariant, PTL

(* plan_session_cache: for every directory, whatever is loaded or in use,   *)
(* a session in use stays, the stalest of the others go first and stray     *)
(* files last, nothing goes once the rest fits, and the plan says when what *)
(* is in use alone does not fit.                                            *)
THEOREM LimitIsTightAlways == Spec => []LimitIsTight
<1>1. PlansInv => LimitIsTight
  <2> SUFFICES ASSUME PlansInv, Answered("limit"), ask.limit > 0
               PROVE  LimitIsTight
    BY DEF LimitIsTight
  <2>1. /\ Rows(ask.rows) /\ Refs(ask.refs) /\ ask.limit \in Nat
        /\ Result = PlanSessionCache(ask.rows, ask.refs, ask.limit)
    BY DEF PlansInv, AskedLimit, Answered, Result
  <2> DEFINE plan == PlanSessionCache(ask.rows, ask.refs, ask.limit)
             stray == Orphans(ask.rows, ask.refs)
             gone == plan.sessions \cup plan.orphans
             staler(c) == {d \in gone : StalestFirst(d, c)}
  <2>2. /\ plan.sessions \subseteq Unused /\ plan.orphans \subseteq stray
        /\ \A S \in {Unused, stray} : \A c, e \in S :
               StalestFirst(c, e) /\ e \in gone => c \in gone
        /\ plan.orphans # {} => Unused = plan.sessions
        /\ \A c \in plan.sessions :
               Without(staler(c) \cap plan.sessions) > ask.limit
        /\ \A c \in plan.orphans :
               Without(staler(c) \cup plan.sessions) > ask.limit
        /\ plan.over <=> Without(gone) > ask.limit
        /\ plan.over => gone = Unused \cup stray
    BY <2>1, LimitPlan DEF Unused, Without
  <2> HIDE DEF plan
  <2>3. Result = plan
    BY <2>1 DEF plan
  <2> QED BY <2>2, <2>3 DEF LimitIsTight
<1> QED BY <1>1, PlansInvariant, PTL

(* The ends of messages a turn stores are those of its own prompt, and in   *)
(* the next turn they only save comparisons: whatever they say, what is     *)
(* reused of the next prompt is the longest prefix it shares with the       *)
(* sequence in the cache.                                                   *)
THEOREM EndsSaveWorkAlways == Spec => []EndsOnlySaveWork
<1>1. PlansInv => CheckpointIsCommonPrefix
  <2> SUFFICES ASSUME PlansInv, Answered("checkpoint")
               PROVE  Result = Len(LongestCommonPrefix({ask.active, ask.prompt}))
    BY DEF CheckpointIsCommonPrefix
  <2>1. /\ ask.active \in Seq(Tokens) /\ ask.prompt \in Seq(Tokens)
        /\ ask.ends \in Seq(Nat)
        /\ Result = CheckpointFromOffsets(ask.active, ask.prompt, ask.ends)
    BY DEF PlansInv, AskedCheckpoint, Answered, Result
  <2> QED BY <2>1, CheckpointIsLongest
<1>2. PlansInv => EndsLieInPrompt
  <2> SUFFICES ASSUME PlansInv, Answered("ends")
               PROVE  EndsLieInPrompt
    BY DEF EndsLieInPrompt
  <2>1. /\ ask.active \in Seq(Tokens) /\ ask.prompt \in Seq(Tokens)
        /\ ask.ends \in Seq(Nat) /\ InOneLine(ask.ends)
        /\ ask.renders \in Seq(Seq(Tokens))
        /\ Result = MessageTokenEnds(ask.ends, ask.active, ask.prompt, ask.renders)
    BY DEF PlansInv, AskedEnds, Answered, Result
  <2> QED BY <2>1, EndsAreThePrompts DEF EndsLieInPrompt
<1> QED BY <1>1, <1>2, PlansInvariant, PTL DEF EndsOnlySaveWork

(* responses_from_json, with sglang_result_to_responses_json: for every set *)
(* of declared tools, every list of calls, with or without reasoning and    *)
(* text, the items a client sends back are read as the conversation the     *)
(* model had.                                                               *)
THEOREM HistoryRoundTripsAlways == Spec => []HistoryRoundTrips
<1>1. PlansInv => HistoryRoundTrips
  <2> DEFINE asked == [role |-> "user", content |-> <<"ask">>]
  <2> SUFFICES ASSUME PlansInv, Answered("history"),
                      \A i \in DOMAIN ask.first.calls :
                          ~Mistaken(ask.first.calls[i].name)
               PROVE  Result = <<asked, AnswerMessage(ask.first)>>
                               \o ReplyMessages(ask.first)
                               \o <<AnswerMessage(ask.second)>>
    BY DEF HistoryRoundTrips
  <2>1. AnswersAsked /\ Result = MessagesFromInput(ClientInput)
    BY DEF PlansInv, AskedHistory, Answered, Result
  <2>2. AnswerRead(ask.first, ask.declared) = AnswerMessage(ask.first)
    BY <2>1, AnswerMeant DEF AnswersAsked
  <2>3. AnswerRead(ask.second, ask.declared) = AnswerMessage(ask.second)
    <3>1. ask.second.calls \in Seq(Calls) /\ DOMAIN ask.second.calls = {}
        BY <2>1, EmptySeq DEF AnswersAsked
    <3> QED BY <2>1, <3>1, AnswerMeant DEF AnswersAsked
  <2>4. Result = <<asked, AnswerRead(ask.first, ask.declared)>>
                 \o ReplyMessages(ask.first)
                 \o <<AnswerRead(ask.second, ask.declared)>>
    BY <2>1, ConversationIsRead
  <2> HIDE DEF asked
  <2> QED BY <2>2, <2>3, <2>4
<1> QED BY <1>1, PlansInvariant, PTL
=============================================================================
