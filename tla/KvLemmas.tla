------------------------------ MODULE KvLemmas ------------------------------
(* What the operators of KvPlans return, for every input.                   *)
EXTENDS KvPlans, SequenceTheorems, WellFoundedInduction, FiniteSetTheorems, TLAPS

(* Of some natural numbers one is the smallest. *)
LEMMA SmallestOf ==
    ASSUME NEW T, T \subseteq Nat, T # {}
    PROVE  \E n \in T : \A m \in 0..(n - 1) : m \notin T
<1>1. PICK n \in T : \A m \in T : ~(<<m, n>> \in OpToRel(<, Nat))
    BY WFMin, NatLessThanWellFounded
<1>2. \A m \in T : ~(m < n)
    BY <1>1 DEF OpToRel
<1> QED BY <1>2

(* Sequences are typed by their elements. *)
LEMMA SeqTyped ==
    ASSUME NEW S, NEW T, NEW s \in Seq(S), \A i \in 1..Len(s) : s[i] \in T
    PROVE  s \in Seq(T)
<1>1. Len(s) \in Nat /\ s \in [1..Len(s) -> S]
    BY LenProperties
<1>2. s \in [1..Len(s) -> T]
    BY <1>1
<1> QED BY <1>1, <1>2, SeqDef

(* A prefix, by its length and its elements. *)
LEMMA PrefixLemma ==
    ASSUME NEW S, NEW s \in Seq(S), NEW n \in 0..Len(s)
    PROVE  /\ Prefix(s, n) \in Seq(S) /\ Len(Prefix(s, n)) = n
           /\ \A i \in 1..n : Prefix(s, n)[i] = s[i]
<1>1. \A i \in 1..n : s[i] \in S
    BY ElementOfSeq, LenProperties
<1>2. n \in Int /\ 1 \in Int
    BY LenProperties
<1> QED BY <1>1, <1>2, SubSeqProperties, LenProperties DEF Prefix



(* A prefix, element by element. *)
LEMMA IsPrefixLemma ==
    ASSUME NEW S, NEW s \in Seq(S), NEW t \in Seq(S)
    PROVE  /\ IsPrefix(s, t) <=> /\ Len(s) <= Len(t)
                                 /\ \A i \in 1..Len(s) : s[i] = t[i]
           /\ IsPrefix(s, t) => s = Prefix(t, Len(s))
           /\ \A n \in 0..Len(t) : IsPrefix(Prefix(t, n), t)
<1>1. Len(s) \in Nat /\ Len(t) \in Nat
    BY LenProperties
<1>2. SubSeq(s, 1, Len(s)) = s
    BY SubSeqFull
<1>3. ASSUME Len(s) <= Len(t), \A i \in 1..Len(s) : s[i] = t[i]
      PROVE  s = Prefix(t, Len(s))
  <2> Len(s) \in 0..Len(t)
    BY <1>1, <1>3
  <2>1. /\ Prefix(t, Len(s)) \in Seq(S) /\ Len(Prefix(t, Len(s))) = Len(s)
        /\ \A i \in 1..Len(s) : Prefix(t, Len(s))[i] = t[i]
    BY PrefixLemma
  <2> QED BY <2>1, <1>3, SeqEqual
<1>4. ASSUME Len(s) <= Len(t), s = Prefix(t, Len(s))
      PROVE  \A i \in 1..Len(s) : s[i] = t[i]
  <2>1. \A i \in 1..Len(s) : Prefix(t, Len(s))[i] = t[i]
    BY <1>1, <1>4, PrefixLemma
  <2> QED BY <2>1, <1>4
<1>5. IsPrefix(s, t) <=> Len(s) <= Len(t) /\ s = Prefix(t, Len(s))
    BY <1>2 DEF IsPrefix, Prefix
<1>6. ASSUME NEW n \in 0..Len(t) PROVE IsPrefix(Prefix(t, n), t)
  <2>1. Prefix(t, n) \in Seq(S) /\ Len(Prefix(t, n)) = n
    BY PrefixLemma
  <2>2. SubSeq(Prefix(t, n), 1, Len(Prefix(t, n))) = Prefix(t, n)
    BY <2>1, SubSeqFull
  <2> QED BY <2>1, <2>2 DEF IsPrefix, Prefix
<1> QED BY <1>3, <1>4, <1>5, <1>6

(* A prefix of a prefix. *)
LEMMA PrefixOfPrefix ==
    ASSUME NEW S, NEW t \in Seq(S), NEW n \in 0..Len(t), NEW m \in 0..n
    PROVE  Prefix(Prefix(t, n), m) = Prefix(t, m)
<1>1. /\ Prefix(t, n) \in Seq(S) /\ Len(Prefix(t, n)) = n
      /\ \A i \in 1..n : Prefix(t, n)[i] = t[i]
    BY PrefixLemma
<1>2. m \in 0..Len(t) /\ Len(t) \in Nat
    BY LenProperties
<1>3. /\ Prefix(t, m) \in Seq(S) /\ Len(Prefix(t, m)) = m
      /\ \A i \in 1..m : Prefix(t, m)[i] = t[i]
    BY <1>2, PrefixLemma
<1>4. /\ Prefix(Prefix(t, n), m) \in Seq(S) /\ Len(Prefix(Prefix(t, n), m)) = m
      /\ \A i \in 1..m : Prefix(Prefix(t, n), m)[i] = Prefix(t, n)[i]
    BY <1>1, PrefixLemma
<1> QED BY <1>1, <1>3, <1>4, SeqEqual

(* Both plans drop as many as it takes, or all. *)
LEMMA DropCountLemma ==
    ASSUME NEW sizes, Len(sizes) \in Nat, NEW total, NEW goal
    PROVE  LET n == DropCount(sizes, total, goal)
           IN  /\ n \in 0..Len(sizes)
               /\ n = Len(sizes) \/ LeftAfter(sizes, total)[n] <= goal
               /\ \A m \in 0..(n - 1) : ~(LeftAfter(sizes, total)[m] <= goal)
<1> DEFINE T == {n \in 0..Len(sizes) :
                     n = Len(sizes) \/ LeftAfter(sizes, total)[n] <= goal}
<1>1. T \subseteq Nat /\ Len(sizes) \in T
    OBVIOUS
<1>2. PICK n \in T : \A m \in 0..(n - 1) : m \notin T
    BY <1>1, SmallestOf
<1>3. \A m \in 0..(n - 1) : ~(LeftAfter(sizes, total)[m] <= goal)
    BY <1>2
<1> QED BY <1>2, <1>3 DEF DropCount

(* What is reused of a prompt is a prefix of both sequences. *)
LEMMA CheckpointLemma ==
    ASSUME NEW S, NEW a \in Seq(S), NEW p \in Seq(S)
    PROVE  LET c == CheckpointFromOffsets(a, p, <<>>)
           IN  c \in 0..Len(a) /\ c <= Len(p) /\ Prefix(p, c) = Prefix(a, c)
<1> DEFINE T == {n \in Nat : ~Agree(a, p, 0, n + 1)}
<1> DEFINE c == CheckpointFromOffsets(a, p, <<>>)
<1>1. Len(a) \in Nat /\ Len(p) \in Nat
    BY LenProperties
<1>2. Len(a) \in T
    BY <1>1 DEF Agree
<1>3. PICK n \in T : \A m \in 0..(n - 1) : m \notin T
    BY <1>2, SmallestOf
<1>4. Agree(a, p, 0, n)
  <2>1. CASE n = 0
    BY <2>1, <1>1 DEF Agree
  <2>2. CASE n # 0
    <3>1. n - 1 \in 0..(n - 1) /\ n - 1 \in Nat /\ n - 1 + 1 = n
        BY <2>2
    <3> QED BY <3>1, <1>3
  <2> QED BY <2>1, <2>2
<1>5. n \in 0..Len(a) /\ ~Agree(a, p, 0, n + 1)
    BY <1>4, <1>1 DEF Agree
<1>6. HeldEnds(a, p, <<>>) = 0
    BY EmptySeq DEF HeldEnds
<1>7. c \in 0..Len(a) /\ Agree(a, p, 0, c)
    BY <1>4, <1>5, <1>6 DEF CheckpointFromOffsets
<1>8. c <= Len(p) /\ \A i \in 1..c : a[i] = p[i]
    BY <1>7 DEF Agree
<1>9. Prefix(p, c) = Prefix(a, c)
    BY <1>1, <1>7, <1>8, PrefixLemma, SeqEqual
<1> QED BY <1>7, <1>8, <1>9
-----------------------------------------------------------------------------
(* Sums *)

(* Induction up to a bound. *)
LEMMA UpTo ==
    ASSUME NEW N \in Nat, NEW T, 0 \in T,
           \A n \in 1..N : n - 1 \in T => n \in T
    PROVE  0..N \subseteq T
<1> DEFINE F == {n \in 0..N : n \notin T}
<1> SUFFICES ASSUME F # {} PROVE FALSE
    OBVIOUS
<1>1. PICK n \in F : \A m \in 0..(n - 1) : m \notin F
  <2>1. F \subseteq Nat
    OBVIOUS
  <2> HIDE DEF F
  <2> QED BY <2>1, SmallestOf
<1>2. n \in 1..N /\ n - 1 \in 0..(n - 1) /\ n - 1 \in 0..N
    BY <1>1
<1> QED BY <1>1, <1>2

(* A recursion up to a bound has a solution. *)
Steps(G, N, V) == \A k \in 1..N, x \in V : G[<<k, x>>] \in V

Solves(f, G, v, N, V) ==
    /\ f \in [0..N -> V]
    /\ \A k \in 0..N : f[k] = IF k = 0 THEN v ELSE G[<<k, f[k - 1]>>]

LEMMA Recursion ==
    ASSUME NEW N \in Nat, NEW V, NEW v \in V, NEW G, Steps(G, N, V)
    PROVE  \E f : Solves(f, G, v, N, V)
<1> DEFINE T == {n \in 0..N : \E f : Solves(f, G, v, n, V)}
<1>1. 0 \in T
  <2> DEFINE f == [k \in 0..0 |-> v]
  <2>1. Solves(f, G, v, 0, V)
    BY DEF Solves
  <2> HIDE DEF f
  <2> QED BY <2>1
<1>2. ASSUME NEW n \in 1..N, n - 1 \in T
      PROVE  n \in T
  <2>1. PICK f : Solves(f, G, v, n - 1, V)
    BY <1>2
  <2>2. /\ f \in [0..(n - 1) -> V]
        /\ \A k \in 0..(n - 1) : f[k] = IF k = 0 THEN v ELSE G[<<k, f[k - 1]>>]
    BY <2>1 DEF Solves
  <2> DEFINE g == [k \in 0..n |-> IF k = n THEN G[<<n, f[n - 1]>>] ELSE f[k]]
  <2>3. g \in [0..n -> V]
    <3>1. f[n - 1] \in V
        BY <2>2
    <3>2. G[<<n, f[n - 1]>>] \in V
        BY <3>1 DEF Steps
    <3> QED BY <2>2, <3>2
  <2>4. ASSUME NEW k \in 0..n
        PROVE  g[k] = IF k = 0 THEN v ELSE G[<<k, g[k - 1]>>]
    <3>1. CASE k = 0
      <4>1. 0 \in 0..(n - 1) /\ 0 # n
        OBVIOUS
      <4> QED BY <3>1, <4>1, <2>2
    <3>2. CASE k # 0
      <4>1. k - 1 \in 0..(n - 1) /\ k - 1 \in 0..n /\ k - 1 # n
        BY <3>2
      <4>2. g[k - 1] = f[k - 1]
        BY <4>1
      <4>3. CASE k = n
        BY <3>2, <4>2, <4>3
      <4>4. CASE k # n
        <5>1. k \in 0..(n - 1)
            BY <4>4
        <5> QED BY <3>2, <4>2, <4>4, <5>1, <2>2
      <4> QED BY <4>3, <4>4
    <3> QED BY <3>1, <3>2
  <2> HIDE DEF g
  <2>5. Solves(g, G, v, n, V)
    BY <2>3, <2>4 DEF Solves
  <2> QED BY <2>5
<1>3. 0..N \subseteq T
  <2> HIDE DEF T
  <2> QED BY <1>1, <1>2, UpTo
<1> QED BY <1>3

(* The sums are defined. *)
LEMMA SumsExist ==
    ASSUME NEW z \in Seq(Nat)
    PROVE  Sums(z) = [k \in 0..Len(z) |->
                   IF k = 0 THEN 0 ELSE Sums(z)[k - 1] + z[k]]
<1> DEFINE G == [p \in (1..Len(z)) \X Nat |-> p[2] + z[p[1]]]
<1>1. Len(z) \in Nat /\ \A k \in 1..Len(z) : z[k] \in Nat
    BY LenProperties, ElementOfSeq
<1>2. \A k \in 1..Len(z), x \in Nat : G[<<k, x>>] = x + z[k]
    OBVIOUS
<1> HIDE DEF G
<1>3. Steps(G, Len(z), Nat)
  <2>1. ASSUME NEW k \in 1..Len(z), NEW x \in Nat
        PROVE  G[<<k, x>>] \in Nat
    <3>1. G[<<k, x>>] = x + z[k]
        BY <1>2
    <3>2. z[k] \in Nat
        BY <1>1
    <3> QED BY <3>1, <3>2, MaxBytesAssumption
  <2> QED BY <2>1 DEF Steps
<1>4. PICK f : Solves(f, G, 0, Len(z), Nat)
    BY <1>1, <1>3, Recursion
<1>5. ASSUME NEW k \in 0..Len(z)
      PROVE  (IF k = 0 THEN 0 ELSE G[<<k, f[k - 1]>>])
                 = IF k = 0 THEN 0 ELSE f[k - 1] + z[k]
  <2>1. CASE k # 0
    <3>1. k \in 1..Len(z) /\ k - 1 \in 0..Len(z)
        BY <1>1, <2>1
    <3>2. f[k - 1] \in Nat
        BY <1>4, <3>1 DEF Solves
    <3> QED BY <1>2, <2>1, <3>1, <3>2
  <2> QED BY <2>1
<1>6. f = [k \in 0..Len(z) |-> IF k = 0 THEN 0 ELSE f[k - 1] + z[k]]
  <2>1. f = [k \in 0..Len(z) |-> f[k]]
    BY <1>4 DEF Solves
  <2>2. \A k \in 0..Len(z) : f[k] = IF k = 0 THEN 0 ELSE f[k - 1] + z[k]
    BY <1>4, <1>5 DEF Solves
  <2> QED BY <2>1, <2>2, Zenon
<1> QED BY <1>6 DEF Sums

(* Sums are natural numbers, each with one more size than the one before.   *)
LEMMA SumsLemma ==
    ASSUME NEW z \in Seq(Nat)
    PROVE  /\ Len(z) \in Nat /\ \A n \in 1..Len(z) : z[n] \in Nat
           /\ Sums(z)[0] = 0
           /\ \A n \in 1..Len(z) : Sums(z)[n] = Sums(z)[n - 1] + z[n]
           /\ \A n \in 0..Len(z) : Sums(z)[n] \in Nat
<1>1. Len(z) \in Nat /\ \A n \in 1..Len(z) : z[n] \in Nat
    BY LenProperties, ElementOfSeq
<1>2. /\ Sums(z)[0] = 0
      /\ \A n \in 1..Len(z) : Sums(z)[n] = Sums(z)[n - 1] + z[n]
    BY <1>1, SumsExist
<1> DEFINE T == {n \in 0..Len(z) : Sums(z)[n] \in Nat}
<1>3. 0 \in T
    BY <1>1, <1>2
<1>4. ASSUME NEW n \in 1..Len(z), n - 1 \in T
      PROVE  n \in T
  <2>1. Sums(z)[n - 1] \in Nat /\ z[n] \in Nat /\ n \in 0..Len(z)
    BY <1>1, <1>4
  <2>2. Sums(z)[n] = Sums(z)[n - 1] + z[n]
    BY <1>2
  <2> QED BY <2>1, <2>2
<1>5. 0..Len(z) \subseteq T
  <2> HIDE DEF T
  <2> QED BY <1>1, <1>3, <1>4, UpTo
<1> QED BY <1>1, <1>2, <1>5

(* Two sequences that agree on some sizes, wherever these are, grow alike.  *)
Alike(w, a, c, z, b, d) ==
    /\ a \in Nat /\ c \in a..Len(w) /\ b \in Nat /\ d \in b..Len(z)
    /\ c - a = d - b
    /\ \A i \in 1..(c - a) : w[a + i] = z[b + i]

Between(w, a, c) == Sums(w)[c] - Sums(w)[a]

LEMMA SumsAlike ==
    ASSUME NEW w \in Seq(Nat), NEW a, NEW c, NEW z \in Seq(Nat), NEW b, NEW d,
           Alike(w, a, c, z, b, d)
    PROVE  Between(w, a, c) = Between(z, b, d)
<1> USE DEF Alike, Between
<1> DEFINE n == c - a
<1>1. /\ Len(w) \in Nat /\ Len(z) \in Nat /\ c \in Nat /\ d \in Nat
      /\ n \in Nat /\ a + n = c /\ b + n = d
    BY SumsLemma
<1> DEFINE grown(i) == Sums(w)[a + i] - Sums(w)[a]
           alike(i) == Sums(z)[b + i] - Sums(z)[b]
           T == {i \in 0..n : grown(i) = alike(i)}
<1>2. Sums(w)[a] \in Nat /\ Sums(z)[b] \in Nat
  <2>1. a \in 0..Len(w) /\ b \in 0..Len(z)
    BY <1>1
  <2> QED BY <2>1, SumsLemma
<1>3. grown(0) = alike(0)
  <2>1. a + 0 = a /\ b + 0 = b
    OBVIOUS
  <2> QED BY <1>2, <2>1
<1>4. ASSUME NEW i \in 1..n, grown(i - 1) = alike(i - 1)
      PROVE  grown(i) = alike(i)
  <2>1. a + i \in 1..Len(w) /\ b + i \in 1..Len(z)
    BY <1>1
  <2>2. /\ Sums(w)[a + i] = Sums(w)[(a + i) - 1] + w[a + i]
        /\ Sums(z)[b + i] = Sums(z)[(b + i) - 1] + z[b + i]
        /\ w[a + i] \in Nat /\ z[b + i] \in Nat
    BY <2>1, SumsLemma
  <2>3. (a + i) - 1 \in 0..Len(w) /\ (b + i) - 1 \in 0..Len(z)
    BY <2>1, <1>1
  <2>4. Sums(w)[(a + i) - 1] \in Nat /\ Sums(z)[(b + i) - 1] \in Nat
    BY <2>3, SumsLemma
  <2>5. (a + i) - 1 = a + (i - 1) /\ (b + i) - 1 = b + (i - 1)
    OBVIOUS
  <2>6. w[a + i] = z[b + i]
    OBVIOUS
  <2>7. Sums(w)[(a + i) - 1] - Sums(w)[a] = Sums(z)[(b + i) - 1] - Sums(z)[b]
    BY <1>4, <2>5
  <2> DEFINE p == Sums(w)[(a + i) - 1]
             q == Sums(z)[(b + i) - 1]
             r == Sums(w)[a]
             s == Sums(z)[b]
             x == w[a + i]
  <2>8. /\ p \in Nat /\ q \in Nat /\ r \in Nat /\ s \in Nat /\ x \in Nat
        /\ p - r = q - s /\ Sums(w)[a + i] = p + x /\ Sums(z)[b + i] = q + x
    BY <1>2, <2>2, <2>4, <2>6, <2>7
  <2> HIDE DEF p, q, r, s, x
  <2>9. (p + x) - r = (q + x) - s
    BY <2>8
  <2> QED BY <2>8, <2>9 DEF r, s
<1> HIDE DEF grown, alike
<1>5. 0..n \subseteq T
  <2>1. 0 \in T
    BY <1>1, <1>3
  <2>2. ASSUME NEW i \in 1..n, i - 1 \in T PROVE i \in T
    BY <1>1, <1>4, <2>2
  <2> HIDE DEF T, n
  <2> QED BY <1>1, <2>1, <2>2, UpTo
<1>6. grown(n) = alike(n)
    BY <1>1, <1>5
<1> QED BY <1>1, <1>6 DEF grown, alike

(* Sequences that begin alike. *)
LEMMA SumsSame ==
    ASSUME NEW w \in Seq(Nat), NEW z \in Seq(Nat), NEW n \in Nat,
           n <= Len(w), n <= Len(z), \A i \in 1..n : w[i] = z[i]
    PROVE  Sums(w)[n] = Sums(z)[n] /\ Sums(w)[n] \in Nat
<1>1. n \in 0..Len(w) /\ n \in 0..Len(z)
    BY SumsLemma
<1>2. /\ Sums(w)[0] = 0 /\ Sums(z)[0] = 0
      /\ Sums(w)[n] \in Nat /\ Sums(z)[n] \in Nat
    BY <1>1, SumsLemma
<1>3. \A i \in 1..(n - 0) : w[0 + i] = z[0 + i]
    OBVIOUS
<1>4. Sums(w)[n] - Sums(w)[0] = Sums(z)[n] - Sums(z)[0]
  <2>1. Alike(w, 0, n, z, 0, n)
    BY <1>1, <1>3 DEF Alike
  <2>2. Between(w, 0, n) = Between(z, 0, n)
    BY <2>1, SumsAlike
  <2> QED BY <2>2 DEF Between
<1> QED BY <1>2, <1>4

(* The sum of what is left when the first n are gone. *)
LEMMA SumOfRest ==
    ASSUME NEW z \in Seq(Nat), NEW n \in 0..Len(z)
    PROVE  /\ SubSeq(z, n + 1, Len(z)) \in Seq(Nat)
           /\ Exact(SubSeq(z, n + 1, Len(z))) = Exact(z) - Sums(z)[n]
<1> DEFINE w == SubSeq(z, n + 1, Len(z))
<1>1. /\ Len(z) \in Nat /\ \A i \in 1..Len(z) : z[i] \in Nat
      /\ Sums(z)[n] \in Nat /\ Sums(z)[Len(z)] \in Nat
    BY SumsLemma
<1>2. /\ w \in Seq(Nat)
      /\ Len(w) = IF n + 1 <= Len(z) THEN Len(z) - (n + 1) + 1 ELSE 0
      /\ \A i \in 1..(Len(z) - (n + 1) + 1) : w[i] = z[n + 1 + i - 1]
    BY <1>1, SubSeqProperties
<1>3. Len(w) = Len(z) - n /\ \A i \in 1..(Len(w) - 0) : w[0 + i] = z[n + i]
    BY <1>1, <1>2
<1> HIDE DEF w
<1>4. Sums(w)[Len(w)] - Sums(w)[0] = Sums(z)[Len(z)] - Sums(z)[n]
  <2>1. /\ n \in Nat /\ 0 \in Nat
        /\ Len(w) \in 0..Len(w) /\ Len(z) \in n..Len(z) /\ Len(w) - 0 = Len(z) - n
    BY <1>1, <1>3
  <2>2. Alike(w, 0, Len(w), z, n, Len(z))
    BY <1>3, <2>1 DEF Alike
  <2>3. w \in Seq(Nat)
    BY <1>2
  <2>4. Between(w, 0, Len(w)) = Between(z, n, Len(z))
    BY <2>2, <2>3, SumsAlike
  <2> QED BY <2>4 DEF Between
<1>5. Sums(w)[0] = 0 /\ Sums(w)[Len(w)] \in Nat
  <2>1. Len(w) \in 0..Len(w)
    BY <1>1, <1>3
  <2> QED BY <1>2, <2>1, SumsLemma
<1> QED BY <1>1, <1>2, <1>4, <1>5 DEF Exact, w

(* Nothing, and one more. *)
LEMMA SumOfNone == Exact(<<>>) = 0
<1>1. <<>> \in Seq(Nat) /\ Len(<<>>) = 0
    BY EmptySeq
<1> QED BY <1>1, SumsLemma DEF Exact

LEMMA SumOfMore ==
    ASSUME NEW z \in Seq(Nat), NEW b \in Nat
    PROVE  Append(z, b) \in Seq(Nat) /\ Exact(Append(z, b)) = Exact(z) + b
<1> DEFINE w == Append(z, b)
<1>1. /\ w \in Seq(Nat) /\ Len(w) = Len(z) + 1
      /\ \A i \in 1..Len(z) : w[i] = z[i]
      /\ w[Len(z) + 1] = b /\ Len(z) \in Nat
    BY AppendProperties, LenProperties
<1> HIDE DEF w
<1>2. Sums(w)[Len(z)] = Sums(z)[Len(z)] /\ Sums(w)[Len(z)] \in Nat
  <2>1. Len(z) <= Len(w) /\ Len(z) <= Len(z)
    BY <1>1
  <2> QED BY <1>1, <2>1, SumsSame
<1>4. Sums(w)[Len(w)] = Sums(w)[Len(w) - 1] + w[Len(w)]
  <2>1. Len(w) \in 1..Len(w)
    BY <1>1
  <2> QED BY <1>1, <2>1, SumsLemma
<1> QED BY <1>1, <1>2, <1>4 DEF Exact, w

(* erase takes its size with it. *)
LEMMA SumOfErased ==
    ASSUME NEW w \in Seq(Nat), NEW z \in Seq(Nat), NEW k \in 1..Len(z),
           Len(w) = Len(z) - 1,
           \A i \in 1..(Len(z) - 1) : w[i] = IF i < k THEN z[i] ELSE z[i + 1]
    PROVE  Exact(w) = Exact(z) - z[k]
<1>1. Len(z) \in Nat /\ Len(w) \in Nat /\ z[k] \in Nat
    BY SumsLemma
<1>2. Sums(w)[k - 1] = Sums(z)[k - 1] /\ Sums(z)[k - 1] \in Nat
  <2>1. k - 1 \in Nat /\ k - 1 <= Len(w) /\ k - 1 <= Len(z)
    BY <1>1
  <2>2. ASSUME NEW i \in 1..(k - 1) PROVE w[i] = z[i]
    <3>1. i \in 1..(Len(z) - 1) /\ i < k
        BY <1>1
    <3> QED BY <3>1
  <2> QED BY <2>1, <2>2, SumsSame
<1>3. Sums(w)[Len(w)] - Sums(w)[k - 1] = Sums(z)[Len(z)] - Sums(z)[k]
  <2>1. /\ k - 1 \in Nat /\ k \in Nat /\ Len(w) \in (k - 1)..Len(w)
        /\ Len(z) \in k..Len(z) /\ Len(w) - (k - 1) = Len(z) - k
    BY <1>1
  <2>2. ASSUME NEW i \in 1..(Len(w) - (k - 1))
        PROVE  w[(k - 1) + i] = z[k + i]
    <3>1. /\ (k - 1) + i \in 1..(Len(z) - 1) /\ ~((k - 1) + i < k)
          /\ ((k - 1) + i) + 1 = k + i
        BY <1>1
    <3> QED BY <3>1
  <2>3. Alike(w, k - 1, Len(w), z, k, Len(z))
    BY <2>1, <2>2 DEF Alike
  <2>4. Between(w, k - 1, Len(w)) = Between(z, k, Len(z))
    BY <2>3, SumsAlike
  <2> QED BY <2>4 DEF Between
<1>4. Sums(z)[k] = Sums(z)[k - 1] + z[k]
    BY SumsLemma
<1>5. Sums(z)[Len(z)] \in Nat /\ Sums(w)[Len(w)] \in Nat
  <2>1. Len(z) \in 0..Len(z) /\ Len(w) \in 0..Len(w)
    BY <1>1
  <2> QED BY <2>1, SumsLemma
<1> DEFINE p == Sums(w)[Len(w)]
           q == Sums(z)[Len(z)]
           r == Sums(z)[k - 1]
           x == z[k]
<1>6. /\ p \in Nat /\ q \in Nat /\ r \in Nat /\ x \in Nat
      /\ p - r = q - (r + x)
    BY <1>1, <1>2, <1>3, <1>4, <1>5
<1>7. p = q - x
  <2> HIDE DEF p, q, r, x
  <2> QED BY <1>6
<1> QED BY <1>7 DEF Exact
-----------------------------------------------------------------------------
(* The plans *)

(* So are the capped sums ... *)
LEMMA AddingExists ==
    ASSUME NEW z \in Seq(Nat)
    PROVE  Adding(z) = [k \in 0..Len(z) |->
                   IF k = 0 THEN 0 ELSE IF Adding(z)[k - 1] > MaxBytes - z[k] THEN MaxBytes
                   ELSE Adding(z)[k - 1] + z[k]]
<1> DEFINE G == [p \in (1..Len(z)) \X Nat |-> IF p[2] > MaxBytes - z[p[1]] THEN MaxBytes ELSE p[2] + z[p[1]]]
<1>1. Len(z) \in Nat /\ \A k \in 1..Len(z) : z[k] \in Nat
    BY LenProperties, ElementOfSeq
<1>2. \A k \in 1..Len(z), x \in Nat : G[<<k, x>>] = IF x > MaxBytes - z[k] THEN MaxBytes ELSE x + z[k]
    OBVIOUS
<1> HIDE DEF G
<1>3. Steps(G, Len(z), Nat)
  <2>1. ASSUME NEW k \in 1..Len(z), NEW x \in Nat
        PROVE  G[<<k, x>>] \in Nat
    <3>1. G[<<k, x>>] = IF x > MaxBytes - z[k] THEN MaxBytes ELSE x + z[k]
        BY <1>2
    <3>2. z[k] \in Nat
        BY <1>1
    <3> QED BY <3>1, <3>2, MaxBytesAssumption
  <2> QED BY <2>1 DEF Steps
<1>4. PICK f : Solves(f, G, 0, Len(z), Nat)
    BY <1>1, <1>3, Recursion
<1>5. ASSUME NEW k \in 0..Len(z)
      PROVE  (IF k = 0 THEN 0 ELSE G[<<k, f[k - 1]>>])
                 = IF k = 0 THEN 0 ELSE IF f[k - 1] > MaxBytes - z[k] THEN MaxBytes
                   ELSE f[k - 1] + z[k]
  <2>1. CASE k # 0
    <3>1. k \in 1..Len(z) /\ k - 1 \in 0..Len(z)
        BY <1>1, <2>1
    <3>2. f[k - 1] \in Nat
        BY <1>4, <3>1 DEF Solves
    <3> QED BY <1>2, <2>1, <3>1, <3>2
  <2> QED BY <2>1
<1>6. f = [k \in 0..Len(z) |-> IF k = 0 THEN 0 ELSE IF f[k - 1] > MaxBytes - z[k] THEN MaxBytes
                   ELSE f[k - 1] + z[k]]
  <2>1. f = [k \in 0..Len(z) |-> f[k]]
    BY <1>4 DEF Solves
  <2>2. \A k \in 0..Len(z) :
            f[k] = IF k = 0 THEN 0 ELSE IF f[k - 1] > MaxBytes - z[k] THEN MaxBytes
                   ELSE f[k - 1] + z[k]
    BY <1>4, <1>5 DEF Solves
  <2> QED BY <2>1, <2>2, Zenon
<1> QED BY <1>6 DEF Adding

(* ... and what is left of a total. *)
LEMMA LeftExists ==
    ASSUME NEW z \in Seq(Nat), NEW total \in Nat
    PROVE  LeftAfter(z, total) = [k \in 0..Len(z) |->
                   IF k = 0 THEN total ELSE IF LeftAfter(z, total)[k - 1] >= z[k]
                   THEN LeftAfter(z, total)[k - 1] - z[k] ELSE 0]
<1> DEFINE G == [p \in (1..Len(z)) \X Nat |-> IF p[2] >= z[p[1]] THEN p[2] - z[p[1]] ELSE 0]
<1>1. Len(z) \in Nat /\ \A k \in 1..Len(z) : z[k] \in Nat
    BY LenProperties, ElementOfSeq
<1>2. \A k \in 1..Len(z), x \in Nat : G[<<k, x>>] = IF x >= z[k] THEN x - z[k] ELSE 0
    OBVIOUS
<1> HIDE DEF G
<1>3. Steps(G, Len(z), Nat)
  <2>1. ASSUME NEW k \in 1..Len(z), NEW x \in Nat
        PROVE  G[<<k, x>>] \in Nat
    <3>1. G[<<k, x>>] = IF x >= z[k] THEN x - z[k] ELSE 0
        BY <1>2
    <3>2. z[k] \in Nat
        BY <1>1
    <3> QED BY <3>1, <3>2, MaxBytesAssumption
  <2> QED BY <2>1 DEF Steps
<1>4. PICK f : Solves(f, G, total, Len(z), Nat)
    BY <1>1, <1>3, Recursion
<1>5. ASSUME NEW k \in 0..Len(z)
      PROVE  (IF k = 0 THEN total ELSE G[<<k, f[k - 1]>>])
                 = IF k = 0 THEN total ELSE IF f[k - 1] >= z[k]
                   THEN f[k - 1] - z[k] ELSE 0
  <2>1. CASE k # 0
    <3>1. k \in 1..Len(z) /\ k - 1 \in 0..Len(z)
        BY <1>1, <2>1
    <3>2. f[k - 1] \in Nat
        BY <1>4, <3>1 DEF Solves
    <3> QED BY <1>2, <2>1, <3>1, <3>2
  <2> QED BY <2>1
<1>6. f = [k \in 0..Len(z) |-> IF k = 0 THEN total ELSE IF f[k - 1] >= z[k]
                   THEN f[k - 1] - z[k] ELSE 0]
  <2>1. f = [k \in 0..Len(z) |-> f[k]]
    BY <1>4 DEF Solves
  <2> QED BY <1>4, <1>5, <2>1 DEF Solves
<1> QED BY <1>6 DEF LeftAfter

(* SumOf is the exact sum, or the largest integer when that is smaller.     *)
LEMMA SumOfLemma ==
    ASSUME NEW z \in Seq(Nat)
    PROVE  SumOf(z) = IF Exact(z) <= MaxBytes THEN Exact(z) ELSE MaxBytes
<1> DEFINE capped(x) == IF x <= MaxBytes THEN x ELSE MaxBytes
           T == {n \in 0..Len(z) : Adding(z)[n] = capped(Sums(z)[n])}
<1>1. Len(z) \in Nat /\ MaxBytes \in Nat
    BY SumsLemma, MaxBytesAssumption
<1>2. 0 \in T
    BY <1>1, SumsLemma, AddingExists
<1>3. ASSUME NEW n \in 1..Len(z), n - 1 \in T
      PROVE  n \in T
  <2> DEFINE s == Sums(z)[n - 1]
             a == Adding(z)[n - 1]
             b == z[n]
  <2>1. n \in 0..Len(z) /\ n - 1 \in 0..Len(z) /\ n # 0
    BY <1>1
  <2>2. s \in Nat /\ b \in Nat /\ Sums(z)[n] = s + b
    BY <2>1, SumsLemma
  <2>3. Adding(z)[n] = IF a > MaxBytes - b THEN MaxBytes ELSE a + b
    BY <2>1, AddingExists
  <2>4. a = capped(s)
    BY <1>3
  <2> HIDE DEF s, a, b
  <2>5. (IF a > MaxBytes - b THEN MaxBytes ELSE a + b) = capped(s + b)
    BY <1>1, <2>2, <2>4
  <2> QED BY <2>1, <2>2, <2>3, <2>5
<1>4. 0..Len(z) \subseteq T
  <2> HIDE DEF T
  <2> QED BY <1>1, <1>2, <1>3, UpTo
<1>5. Len(z) \in T
    BY <1>1, <1>4
<1> QED BY <1>5 DEF SumOf, Exact

(* What is left of a total, down to nothing.                                *)
LEMMA LeftLemma ==
    ASSUME NEW z \in Seq(Nat), NEW total \in Nat, NEW n \in 0..Len(z)
    PROVE  LeftAfter(z, total)[n] =
               IF Sums(z)[n] <= total THEN total - Sums(z)[n] ELSE 0
<1> DEFINE rest(x) == IF x <= total THEN total - x ELSE 0
           T == {k \in 0..Len(z) : LeftAfter(z, total)[k] = rest(Sums(z)[k])}
<1>1. Len(z) \in Nat
    BY SumsLemma
<1>2. 0 \in T
    BY <1>1, SumsLemma, LeftExists
<1>3. ASSUME NEW k \in 1..Len(z), k - 1 \in T
      PROVE  k \in T
  <2> DEFINE s == Sums(z)[k - 1]
             a == LeftAfter(z, total)[k - 1]
             b == z[k]
  <2>1. k \in 0..Len(z) /\ k - 1 \in 0..Len(z) /\ k # 0
    BY <1>1
  <2>2. s \in Nat /\ b \in Nat /\ Sums(z)[k] = s + b
    BY <2>1, SumsLemma
  <2>3. LeftAfter(z, total)[k] = IF a >= b THEN a - b ELSE 0
    BY <2>1, LeftExists
  <2>4. a = rest(s)
    BY <1>3
  <2> HIDE DEF s, a, b
  <2>5. (IF a >= b THEN a - b ELSE 0) = rest(s + b)
    BY <2>2, <2>4
  <2> QED BY <2>1, <2>2, <2>3, <2>5
<1>4. 0..Len(z) \subseteq T
  <2> HIDE DEF T
  <2> QED BY <1>1, <1>2, <1>3, UpTo
<1> QED BY <1>4

(* Sums never shrink. *)
LEMMA SumsGrow ==
    ASSUME NEW z \in Seq(Nat), NEW n \in 0..Len(z)
    PROVE  Sums(z)[n] <= Exact(z) /\ Sums(z)[n] \in Nat /\ Exact(z) \in Nat
<1>1. Len(z) \in Nat /\ Len(z) \in 0..Len(z)
    BY SumsLemma
<1>2. Sums(z)[n] \in Nat /\ Exact(z) \in Nat
    BY <1>1, SumsLemma DEF Exact
<1> DEFINE w == SubSeq(z, n + 1, Len(z))
<1>3. w \in Seq(Nat) /\ Exact(w) = Exact(z) - Sums(z)[n]
    BY SumOfRest
<1> HIDE DEF w
<1>4. Exact(w) \in Nat
  <2>1. Len(w) \in 0..Len(w)
    BY <1>3, SumsLemma
  <2> QED BY <1>3, <2>1, SumsLemma DEF Exact
<1> QED BY <1>2, <1>3, <1>4

(* plan_memory_admit keeps what fits at all, makes room for it, and spills  *)
(* nothing that could have stayed.                                          *)
LEMMA AdmitPlan ==
    ASSUME NEW held \in Seq(Nat), Exact(held) <= MaxBytes,
           NEW incoming \in Nat, NEW limit \in Nat
    PROVE  LET a == PlanMemoryAdmit(held, incoming, limit)
           IN  /\ a.keep \in BOOLEAN /\ (a.keep <=> incoming \in 1..limit)
               /\ a.spill \in 0..Len(held)
               /\ a.keep => Exact(held) - Sums(held)[a.spill] + incoming <= limit
               /\ a.spill > 0 =>
                      Exact(held) - Sums(held)[a.spill - 1] + incoming > limit
<1> DEFINE a == PlanMemoryAdmit(held, incoming, limit)
           room == limit - incoming
           total == SumOf(held)
           n == DropCount(held, total, room)
<1>1. Len(held) \in Nat
    BY SumsLemma
<1>2. CASE incoming \notin 1..limit
  <2>1. a = [keep |-> FALSE, spill |-> 0]
    BY <1>2 DEF PlanMemoryAdmit
  <2> QED BY <1>1, <1>2, <2>1
<1>3. CASE incoming \in 1..limit
  <2>1. a = [keep |-> LeftAfter(held, total)[n] <= room, spill |-> n]
    BY <1>3 DEF PlanMemoryAdmit
  <2>2. total = Exact(held) /\ total \in Nat
    <3>1. 0 \in 0..Len(held)
        BY <1>1
    <3> QED BY <3>1, SumOfLemma, SumsGrow
  <2>3. /\ n \in 0..Len(held)
        /\ n = Len(held) \/ LeftAfter(held, total)[n] <= room
        /\ \A m \in 0..(n - 1) : ~(LeftAfter(held, total)[m] <= room)
    BY <1>1, DropCountLemma
  <2> HIDE DEF total, n, a
  <2>4. ASSUME NEW m \in 0..Len(held)
        PROVE  /\ LeftAfter(held, total)[m] = total - Sums(held)[m]
               /\ Sums(held)[m] \in Nat
    <3>1. Sums(held)[m] <= total /\ Sums(held)[m] \in Nat
        BY <2>2, SumsGrow
    <3> QED BY <2>2, <3>1, LeftLemma
  <2>5. LeftAfter(held, total)[n] <= room
    <3>1. CASE n = Len(held)
      <4>1. LeftAfter(held, total)[n] = total - total
        BY <2>2, <2>3, <2>4, <3>1 DEF Exact
      <4> QED BY <1>3, <2>2, <4>1
    <3> QED BY <2>3, <3>1
  <2>6. a.keep = TRUE /\ a.spill = n
    BY <2>1, <2>5
  <2>7. Exact(held) - Sums(held)[n] + incoming <= limit
    BY <1>3, <2>2, <2>3, <2>4, <2>5
  <2>8. n > 0 => Exact(held) - Sums(held)[n - 1] + incoming > limit
    <3> SUFFICES ASSUME n > 0
                 PROVE  Exact(held) - Sums(held)[n - 1] + incoming > limit
        OBVIOUS
    <3>1. n - 1 \in 0..(n - 1) /\ n - 1 \in 0..Len(held)
        BY <2>3
    <3>2. /\ ~(total - Sums(held)[n - 1] <= room)
          /\ Sums(held)[n - 1] \in Nat
        BY <2>3, <2>4, <3>1
    <3> QED BY <1>3, <2>2, <3>2
  <2>9. a.keep \in BOOLEAN /\ (a.keep <=> incoming \in 1..limit)
    BY <1>3, <2>6
  <2> QED BY <2>3, <2>6, <2>7, <2>8, <2>9 DEF a
<1> QED BY <1>2, <1>3
=============================================================================
