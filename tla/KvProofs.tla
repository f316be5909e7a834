------------------------------ MODULE KvProofs ------------------------------
(* What the engine's cache promises, for any sessions, prompts and sizes,   *)
(* whichever calls fail and whenever the process is killed: what the        *)
(* helpers of KvEngine return, then that every step keeps CacheInv, by one  *)
(* lemma per part of the state and one step per action.                     *)
EXTENDS KvInv, KvLemmas

(* Records with an id: the parked sessions, the files *)

(* Every entry of a is one of b. *)
Among(a, b) == \A i \in DOMAIN a : \E j \in DOMAIN b : a[i] = b[j]

(* take and erase: the entry found goes, the others close up. *)
LEMMA ErasedLemma ==
    ASSUME NEW E, NEW es \in Seq(E), NEW s, Has(es, s)
    PROVE  LET w == Without(es, s)
               k == IndexOf(es, s)
           IN  /\ k \in 1..Len(es) /\ Len(es) \in Nat /\ es[k].id = s
               /\ w \in Seq(E) /\ Len(w) = Len(es) - 1 /\ DOMAIN w = 1..(Len(es) - 1)
               /\ \A i \in 1..(Len(es) - 1) : w[i] = IF i < k THEN es[i] ELSE es[i + 1]
<1> DEFINE w == Without(es, s)
           k == IndexOf(es, s)
<1>1. k \in 1..Len(es) /\ DOMAIN es = 1..Len(es) /\ Len(es) \in Nat /\ es[k].id = s
  BY LenProperties DEF Has, IndexOf
<1>2. w = SubSeq(es, 1, k - 1) \o SubSeq(es, k + 1, Len(es))
  BY DEF Without, RemoveAt
<1>3. \A i \in 1..Len(es) : es[i] \in E
  BY ElementOfSeq
<1>4. /\ SubSeq(es, 1, k - 1) \in Seq(E)
      /\ Len(SubSeq(es, 1, k - 1)) = k - 1
      /\ \A i \in 1..(k - 1) : SubSeq(es, 1, k - 1)[i] = es[i]
  <2>1. /\ SubSeq(es, 1, k - 1) \in Seq(E)
        /\ Len(SubSeq(es, 1, k - 1)) = IF 1 <= k - 1 THEN k - 1 - 1 + 1 ELSE 0
        /\ \A i \in 1..(k - 1 - 1 + 1) : SubSeq(es, 1, k - 1)[i] = es[1 + i - 1]
      BY <1>1, <1>3, SubSeqProperties
  <2> QED BY <2>1, <1>1
<1>5. /\ SubSeq(es, k + 1, Len(es)) \in Seq(E)
      /\ Len(SubSeq(es, k + 1, Len(es))) = Len(es) - k
      /\ \A i \in 1..(Len(es) - k) : SubSeq(es, k + 1, Len(es))[i] = es[k + i]
  <2>1. /\ SubSeq(es, k + 1, Len(es)) \in Seq(E)
        /\ Len(SubSeq(es, k + 1, Len(es))) =
               IF k + 1 <= Len(es) THEN Len(es) - (k + 1) + 1 ELSE 0
        /\ \A i \in 1..(Len(es) - (k + 1) + 1) :
               SubSeq(es, k + 1, Len(es))[i] = es[k + 1 + i - 1]
      BY <1>1, <1>3, SubSeqProperties
  <2> QED BY <2>1, <1>1
<1>6. /\ w \in Seq(E) /\ Len(w) = Len(es) - 1
      /\ \A i \in 1..(Len(es) - 1) : w[i] = IF i < k THEN es[i] ELSE es[i + 1]
  <2>1. /\ w \in Seq(E) /\ Len(w) = (k - 1) + (Len(es) - k)
        /\ \A i \in 1..((k - 1) + (Len(es) - k)) :
               w[i] = IF i <= k - 1 THEN SubSeq(es, 1, k - 1)[i]
                      ELSE SubSeq(es, k + 1, Len(es))[i - (k - 1)]
      BY <1>2, <1>4, <1>5, ConcatProperties
  <2>2. ASSUME NEW i \in 1..(Len(es) - 1)
        PROVE  w[i] = IF i < k THEN es[i] ELSE es[i + 1]
    <3>1. CASE i < k
      BY <3>1, <2>1, <1>4, <1>1
    <3>2. CASE ~(i < k)
      <4>1. i - (k - 1) \in 1..(Len(es) - k) /\ k + (i - (k - 1)) = i + 1
          BY <3>2, <1>1
      <4>2. i \in 1..((k - 1) + (Len(es) - k)) /\ ~(i <= k - 1)
          BY <3>2, <1>1
      <4>3. w[i] = SubSeq(es, k + 1, Len(es))[i - (k - 1)]
          BY <4>2, <2>1
      <4>4. SubSeq(es, k + 1, Len(es))[i - (k - 1)] = es[k + (i - (k - 1))]
          BY <4>1, <1>5
      <4> QED BY <4>1, <4>3, <4>4, <3>2
    <3> QED BY <3>1, <3>2
  <2> QED BY <2>1, <2>2, <1>1
<1>7. DOMAIN w = 1..(Len(es) - 1)
  BY <1>6, LenProperties
<1> QED BY <1>1, <1>6, <1>7

(* What is left is unique, and all but the one erased. *)
LEMMA WithoutLemma ==
    ASSUME NEW E, NEW es \in Seq(E), NEW s
    PROVE  /\ Without(es, s) \in Seq(E)
           /\ Among(Without(es, s), es)
           /\ \A j \in DOMAIN es : es[j].id # s =>
                  \E i \in DOMAIN Without(es, s) : Without(es, s)[i] = es[j]
           /\ Unique(es) => Unique(Without(es, s)) /\ ~Has(Without(es, s), s)
<1> DEFINE w == Without(es, s)
           k == IndexOf(es, s)
<1>1. CASE ~Has(es, s)
    BY <1>1 DEF Without, Among, Has
<1>2. CASE Has(es, s)
  <2>1. k \in 1..Len(es) /\ DOMAIN es = 1..Len(es) /\ Len(es) \in Nat /\ es[k].id = s
    BY <1>2, ErasedLemma, LenProperties
  <2>2. /\ w \in Seq(E) /\ Len(w) = Len(es) - 1
        /\ \A i \in 1..(Len(es) - 1) : w[i] = IF i < k THEN es[i] ELSE es[i + 1]
    BY <1>2, ErasedLemma
  <2>3. DOMAIN w = 1..(Len(es) - 1)
    BY <1>2, ErasedLemma
  <2>4. Among(w, es)
    <3>1. ASSUME NEW i \in DOMAIN w PROVE \E j \in DOMAIN es : w[i] = es[j]
      <4>1. i \in DOMAIN es /\ i + 1 \in DOMAIN es
        BY <2>1, <2>3
      <4>2. w[i] = es[i] \/ w[i] = es[i + 1]
        BY <2>2, <2>3
      <4> QED BY <4>1, <4>2
    <3> QED BY <3>1 DEF Among
  <2>5. ASSUME NEW j \in DOMAIN es, es[j].id # s
        PROVE  \E i \in DOMAIN w : w[i] = es[j]
    <3>1. j # k /\ j \in 1..Len(es)
        BY <2>5, <2>1
    <3>2. CASE j < k
        BY <3>1, <3>2, <2>1, <2>2, <2>3
    <3>3. CASE j > k
      <4>1. j - 1 \in 1..(Len(es) - 1) /\ ~(j - 1 < k) /\ j - 1 + 1 = j
        BY <3>1, <3>3, <2>1
      <4> QED BY <4>1, <2>2, <2>3
    <3> QED BY <3>1, <3>2, <3>3, <2>1
  <2>6. ASSUME Unique(es) PROVE Unique(w) /\ ~Has(w, s)
    <3> DEFINE at(i) == IF i < k THEN i ELSE i + 1
    <3>1. \A i \in DOMAIN w : at(i) \in DOMAIN es /\ at(i) # k /\ w[i] = es[at(i)]
        BY <2>1, <2>2, <2>3
    <3>2. \A i, j \in DOMAIN w : at(i) = at(j) => i = j
        BY <2>1, <2>3
    <3>3. Unique(w)
        BY <2>6, <3>1, <3>2 DEF Unique
    <3>4. ~Has(w, s)
        BY <2>6, <3>1, <2>1 DEF Unique, Has
    <3> QED BY <3>3, <3>4
  <2> QED BY <2>2, <2>4, <2>5, <2>6
<1> QED BY <1>1, <1>2

(* insert, and the writing of a file. *)
LEMMA InsertedLemma ==
    ASSUME NEW E, NEW es \in Seq(E), NEW e \in E
    PROVE  /\ Inserted(es, e) \in Seq(E)
           /\ \A i \in DOMAIN Inserted(es, e) :
                  \/ Inserted(es, e)[i] = e
                  \/ \E j \in DOMAIN es : Inserted(es, e)[i] = es[j]
           /\ \A s : Has(es, s) \/ s = e.id => Has(Inserted(es, e), s)
           /\ \A s : Has(Inserted(es, e), s) => Has(es, s) \/ s = e.id
           /\ Unique(es) => Unique(Inserted(es, e))
<1> DEFINE w == Without(es, e.id)
           a == Inserted(es, e)
<1>1. w \in Seq(E) /\ Len(w) \in Nat /\ DOMAIN w = 1..Len(w)
    BY WithoutLemma, LenProperties
<1>2. /\ a \in Seq(E) /\ Len(a) = Len(w) + 1
      /\ \A i \in 1..Len(w) : a[i] = w[i]
      /\ a[Len(w) + 1] = e
    BY <1>1, AppendProperties DEF Inserted
<1>3. DOMAIN a = 1..(Len(w) + 1)
    BY <1>2, LenProperties
<1>4. \A i \in DOMAIN w : \E j \in DOMAIN es : w[i] = es[j]
    BY WithoutLemma DEF Among
<1>5. ASSUME NEW i \in DOMAIN a
      PROVE  a[i] = e \/ \E j \in DOMAIN es : a[i] = es[j]
    BY <1>1, <1>2, <1>3, <1>4
<1>6. ASSUME NEW s, Has(es, s) \/ s = e.id
      PROVE  Has(a, s)
  <2>1. CASE s = e.id
    BY <2>1, <1>1, <1>2, <1>3 DEF Has
  <2>2. CASE s # e.id
    <3>1. PICK j \in DOMAIN es : es[j].id = s
        BY <1>6, <2>2 DEF Has
    <3>2. PICK i \in DOMAIN w : w[i] = es[j]
        BY <3>1, <2>2, WithoutLemma
    <3> QED BY <3>1, <3>2, <1>1, <1>2, <1>3 DEF Has
  <2> QED BY <2>1, <2>2
<1>7. ASSUME NEW s, Has(a, s)
      PROVE  Has(es, s) \/ s = e.id
    BY <1>5, <1>7 DEF Has
<1>8. ASSUME Unique(es) PROVE Unique(a)
  <2>1. Unique(w) /\ ~Has(w, e.id)
    BY <1>8, WithoutLemma
  <2> QED BY <2>1, <1>1, <1>2, <1>3 DEF Unique, Has
<1> QED BY <1>2, <1>5, <1>6, <1>7, <1>8

(* A suffix keeps entries, and keeps them unique. *)
LEMMA SuffixLemma ==
    ASSUME NEW E, NEW es \in Seq(E), NEW n \in 0..Len(es)
    PROVE  /\ SubSeq(es, n + 1, Len(es)) \in Seq(E)
           /\ Among(SubSeq(es, n + 1, Len(es)), es)
           /\ Unique(es) => Unique(SubSeq(es, n + 1, Len(es)))
           /\ DOMAIN SubSeq(es, n + 1, Len(es)) = 1..(Len(es) - n)
           /\ Len(SubSeq(es, n + 1, Len(es))) = Len(es) - n
           /\ \A i \in 1..(Len(es) - n) : SubSeq(es, n + 1, Len(es))[i] = es[n + i]
<1> DEFINE t == SubSeq(es, n + 1, Len(es))
<1>1. Len(es) \in Nat /\ DOMAIN es = 1..Len(es) /\ \A i \in 1..Len(es) : es[i] \in E
    BY LenProperties, ElementOfSeq
<1>2. /\ t \in Seq(E)
      /\ Len(t) = IF n + 1 <= Len(es) THEN Len(es) - (n + 1) + 1 ELSE 0
      /\ \A i \in 1..(Len(es) - (n + 1) + 1) : t[i] = es[n + 1 + i - 1]
    BY <1>1, SubSeqProperties
<1>3. DOMAIN t = 1..(Len(es) - n) /\ \A i \in 1..(Len(es) - n) : t[i] = es[n + i]
    BY <1>1, <1>2, LenProperties
<1>4. Among(t, es)
    BY <1>1, <1>3 DEF Among
<1>5. Unique(es) => Unique(t)
    BY <1>1, <1>3 DEF Unique
<1>6. Len(t) = Len(es) - n
  <2> HIDE DEF t
  <2>1. n \in Int /\ 0 <= n /\ n <= Len(es) /\ Len(es) \in Nat
    BY <1>1
  <2>2. CASE n + 1 <= Len(es)
    <3>1. Len(t) = Len(es) - (n + 1) + 1
        BY <1>2, <2>2
    <3> QED BY <2>1, <3>1
  <2>3. CASE ~(n + 1 <= Len(es))
    <3>1. Len(t) = 0 /\ n = Len(es)
        BY <1>2, <2>1, <2>3
    <3> QED BY <2>1, <3>1
  <2> QED BY <2>2, <2>3
<1> QED BY <1>2, <1>3, <1>4, <1>5, <1>6

(* trim_session_disk drops files from the front, no more than there are old *)
(* ones.                                                                    *)
LEMMA TrimIsSuffix ==
    ASSUME NEW E, NEW fs \in Seq(E)
    PROVE  \E n \in 0..Len(fs) :
               /\ n <= Cardinality({i \in DOMAIN fs : fs[i].old})
               /\ TrimDisk(fs) = SubSeq(fs, n + 1, Len(fs))
<1> DEFINE D == {i \in DOMAIN fs : fs[i].old}
           old == Cardinality(D)
           olds == Sizes(SubSeq(fs, 1, old))
           k == DropCount(olds, SumOf(Sizes(fs)), DiskLimit)
<1>1. Len(fs) \in Nat /\ DOMAIN fs = 1..Len(fs)
    BY LenProperties
<1>2. old \in 0..Len(fs)
  <2>1. IsFiniteSet(1..Len(fs)) /\ Cardinality(1..Len(fs)) = Len(fs)
    BY <1>1, FS_Interval
  <2>2. IsFiniteSet(D) /\ Cardinality(D) <= Cardinality(1..Len(fs))
    BY <1>1, <2>1, FS_Subset
  <2> QED BY <2>1, <2>2, <1>1, FS_CardinalityType
<1>3. Len(SubSeq(fs, 1, old)) = old /\ DOMAIN SubSeq(fs, 1, old) = 1..old
    BY <1>2, PrefixLemma, LenProperties DEF Prefix
<1>4. Len(olds) = old
    BY <1>2, <1>3 DEF Sizes
<1>5. k \in 0..Len(fs) /\ k <= old
  <2>1. Len(olds) \in Nat
    BY <1>2, <1>4
  <2>2. k \in 0..Len(olds)
    BY <2>1, DropCountLemma
  <2> QED BY <2>2, <1>2, <1>4
<1>6. CASE DiskGc /\ SumOf(Sizes(fs)) > DiskLimit
  <2>1. TrimDisk(fs) = SubSeq(fs, k + 1, Len(fs))
    BY <1>6 DEF TrimDisk
  <2> QED BY <1>5, <2>1
<1>7. CASE ~(DiskGc /\ SumOf(Sizes(fs)) > DiskLimit)
  <2>1. TrimDisk(fs) = fs
    BY <1>7 DEF TrimDisk
  <2>2. SubSeq(fs, 0 + 1, Len(fs)) = fs
    BY SubSeqFull
  <2>3. 0 <= old /\ 0 \in 0..Len(fs)
    BY <1>1, <1>2
  <2>4. TrimDisk(fs) = SubSeq(fs, 0 + 1, Len(fs))
    BY <2>1, <2>2
  <2> QED BY <2>3, <2>4
<1> QED BY <1>6, <1>7

LEMMA TrimDiskLemma ==
    ASSUME NEW E, NEW fs \in Seq(E)
    PROVE  /\ TrimDisk(fs) \in Seq(E) /\ Among(TrimDisk(fs), fs)
           /\ Unique(fs) => Unique(TrimDisk(fs))
<1>1. PICK n \in 0..Len(fs) : TrimDisk(fs) = SubSeq(fs, n + 1, Len(fs))
    BY TrimIsSuffix
<1> QED BY <1>1, SuffixLemma
-----------------------------------------------------------------------------
(* The context *)

(* Whatever the tail does, after a trim the tokens are those whose cells    *)
(* are there: a prefix of the tokens before, or nothing.                    *)
LEMMA TrimLemma ==
    ASSUME tokens \in Texts, cells \in Texts,
           tail = Len(cells), IsPrefix(tokens, cells),
           NEW n \in Nat, NEW o \in TrimOutcomes(n)
    PROVE  /\ o.tokens \in Texts /\ o.cells = o.tokens
           /\ o.tail = Len(o.cells) /\ o.kept \in BOOLEAN
           /\ o.kept => o.tokens = Prefix(tokens, IF n > Len(tokens)
                                                  THEN Len(tokens) ELSE n)
           /\ ~o.kept => o.tokens = <<>>
<1> USE DEF Texts
<1> DEFINE m == IF n > Len(tokens) THEN Len(tokens) ELSE n
<1>1. Len(tokens) \in Nat /\ Len(cells) \in Nat /\ m \in 0..Len(tokens)
    BY LenProperties
<1>2. Len(tokens) <= Len(cells) /\ tokens = Prefix(cells, Len(tokens))
    BY IsPrefixLemma
<1>3. CASE o = Cleared
    BY <1>3, EmptySeq DEF Cleared
<1>4. CASE o # Cleared /\ m = Len(tokens)
  <2>1. /\ o = [kept |-> TRUE, tokens |-> tokens, cells |-> cells, tail |-> tail]
        /\ KvTailMatches(m, tail - 1)
    BY <1>4 DEF TrimOutcomes
  <2>2. Len(cells) = Len(tokens)
    BY <2>1, <1>1, <1>4 DEF KvTailMatches
  <2>3. cells = tokens /\ Prefix(tokens, m) = tokens
    BY <2>2, <1>2, <1>4, SubSeqFull DEF Prefix
  <2> QED BY <2>1, <2>3
<1>5. CASE o # Cleared /\ m # Len(tokens)
  <2>1. PICK q \in SeqRmOutcomes(m) :
            /\ q.ok /\ KvTailMatches(m, q.tail - 1)
            /\ o = [kept |-> TRUE, tokens |-> Prefix(tokens, m),
                    cells |-> q.cells, tail |-> q.tail]
    BY <1>5 DEF TrimOutcomes
  <2>2. q.cells = Prefix(cells, m) /\ q.tail \in 0..m
    BY <2>1, <1>1 DEF SeqRmOutcomes
  <2>3. q.tail = m
    BY <2>1, <2>2, <1>1 DEF KvTailMatches
  <2>4. Prefix(tokens, m) = Prefix(cells, m)
    BY <1>1, <1>2, PrefixOfPrefix
  <2>5. Prefix(cells, m) \in Seq(Vocabulary) /\ Len(Prefix(cells, m)) = m
    BY <1>1, <1>2, PrefixLemma
  <2> QED BY <2>1, <2>2, <2>3, <2>4, <2>5
<1> QED BY <1>3, <1>4, <1>5

(* A trim to nothing starts from any context. *)
LEMMA ClearLemma ==
    ASSUME tokens = <<>>, cells \in Texts, tail = Len(cells),
           NEW o \in TrimOutcomes(0)
    PROVE  o.tokens = <<>> /\ o.cells = <<>> /\ o.tail = 0
<1>1. tokens \in Texts /\ Len(tokens) = 0 /\ Len(cells) \in Nat
    BY EmptySeq, LenProperties DEF Texts
<1>2. IsPrefix(tokens, cells)
  <2>1. tokens \in Seq(Vocabulary) /\ cells \in Seq(Vocabulary)
    BY <1>1 DEF Texts
  <2>2. Len(tokens) <= Len(cells) /\ \A i \in 1..Len(tokens) : tokens[i] = cells[i]
    BY <1>1
  <2> QED BY <2>1, <2>2, IsPrefixLemma
<1>3. Prefix(tokens, 0) = <<>>
    BY SubSeqEmpty DEF Prefix
<1>4. o.tokens = <<>> /\ o.cells = o.tokens /\ o.tail = Len(o.cells)
    BY <1>1, <1>2, <1>3, TrimLemma
<1> QED BY <1>4, <1>1
-----------------------------------------------------------------------------
(* The parts of the invariant *)

(* What may be parked: the state after its tokens, no larger than a context. *)
SoundEntries ==
    {e \in Entries : e.state = e.tokens /\ Len(e.state) <= MaxCtx}

SoundFiles ==
    {f \in FileEntries : /\ f.whole => f.state = f.tokens
                         /\ Len(f.state) <= MaxCtx}

Stores == /\ parked \in Seq(SoundEntries) /\ Unique(parked)
          /\ files \in Seq(SoundFiles) /\ Unique(files)
          /\ snap \in SoundEntries \cup {NoSnap}

(* The context and its mirror, between any two steps. *)
Context == /\ cells \in Texts /\ tokens \in Texts /\ fresh \in BOOLEAN
           /\ tail = Len(cells) /\ Len(cells) <= MaxCtx
           /\ IsPrefix(tokens, cells)
           /\ pc \notin {"miss", "rollback"} => cells = tokens

(* A sequence is a prefix of itself, and has the empty one as a prefix. *)
LEMMA PrefixSelf ==
    ASSUME NEW s \in Texts
    PROVE  IsPrefix(s, s) /\ IsPrefix(<<>>, s)
<1>1. s \in Seq(Vocabulary) /\ <<>> \in Seq(Vocabulary) /\ Len(<<>>) = 0
    BY EmptySeq DEF Texts
<1>2. Len(s) \in Nat
    BY <1>1, LenProperties
<1>3. IsPrefix(s, s)
  <2>1. Len(s) <= Len(s) /\ \A i \in 1..Len(s) : s[i] = s[i]
    BY <1>2
  <2> QED BY <1>1, <2>1, IsPrefixLemma
<1>4. IsPrefix(<<>>, s)
  <2>1. Len(<<>>) <= Len(s) /\ \A i \in 1..Len(<<>>) : <<>>[i] = s[i]
    BY <1>1, <1>2
  <2> QED BY <1>1, <2>1, IsPrefixLemma
<1> QED BY <1>3, <1>4

LEMMA CacheContext == CacheInv => Context
<1> SUFFICES ASSUME CacheInv PROVE Context
    OBVIOUS
<1>1. TypeOK /\ MirrorInv /\ SizeInv
    BY DEF CacheInv
<1>2. cells \in Texts /\ tokens \in Texts /\ fresh \in BOOLEAN /\ Len(cells) <= MaxCtx
    BY <1>1 DEF TypeOK, SizeInv, ContextFits
<1>3. CASE pc \in {"miss", "rollback"}
    BY <1>1, <1>2, <1>3 DEF MirrorInv, Context
<1>4. CASE pc \notin {"miss", "rollback"}
    BY <1>1, <1>2, <1>4, PrefixSelf DEF MirrorInv, CacheMirrorsContext, Context
<1> QED BY <1>3, <1>4

LEMMA CacheStores == CacheInv => Stores
<1> SUFFICES ASSUME CacheInv PROVE Stores
    OBVIOUS
<1> USE DEF CacheInv
<1>1. parked \in Seq(SoundEntries)
  <2>1. parked \in Seq(Entries)
    BY DEF TypeOK
  <2>2. \A i \in 1..Len(parked) : parked[i] \in Entries /\ i \in DOMAIN parked
    BY <2>1, ElementOfSeq, LenProperties
  <2>3. \A i \in 1..Len(parked) : parked[i] \in SoundEntries
    BY <2>2 DEF ParkedInv, ParkedMatchesState, SizeInv, SoundEntries
  <2> QED BY <2>1, <2>3, SeqTyped
<1>2. files \in Seq(SoundFiles)
  <2>1. files \in Seq(FileEntries)
    BY DEF TypeOK
  <2>2. \A i \in 1..Len(files) : files[i] \in FileEntries /\ i \in DOMAIN files
    BY <2>1, ElementOfSeq, LenProperties
  <2>3. \A i \in 1..Len(files) : files[i] \in SoundFiles
    BY <2>2 DEF ParkedInv, ParkedMatchesState, SizeInv, SoundFiles
  <2> QED BY <2>1, <2>3, SeqTyped
<1>3. snap \in SoundEntries \cup {NoSnap}
    BY DEF TypeOK, ParkedInv, SizeInv, SoundEntries
<1> QED BY <1>1, <1>2, <1>3 DEF Stores, UniqueInv
-----------------------------------------------------------------------------
(* What is found under an id. *)
LEMMA FoundLemma ==
    ASSUME NEW E, NEW es \in Seq(E), NEW s, Has(es, s)
    PROVE  es[IndexOf(es, s)] \in E /\ es[IndexOf(es, s)].id = s
<1>1. IndexOf(es, s) \in DOMAIN es /\ es[IndexOf(es, s)].id = s
    BY DEF Has, IndexOf
<1>2. DOMAIN es = 1..Len(es)
    BY LenProperties
<1> QED BY <1>1, <1>2, ElementOfSeq

(* Which ids there are afterwards. *)
LEMMA HasWithout ==
    ASSUME NEW E, NEW es \in Seq(E), Unique(es), NEW s
    PROVE  /\ Without(es, s) \in Seq(E) /\ Unique(Without(es, s))
           /\ \A x : Has(Without(es, s), x) <=> Has(es, x) /\ x # s
<1>1. /\ Without(es, s) \in Seq(E) /\ Unique(Without(es, s))
      /\ ~Has(Without(es, s), s) /\ Among(Without(es, s), es)
    BY WithoutLemma
<1>2. ASSUME NEW x, Has(Without(es, s), x) PROVE Has(es, x) /\ x # s
    BY <1>1, <1>2 DEF Has, Among
<1>3. ASSUME NEW x, Has(es, x), x # s PROVE Has(Without(es, s), x)
  <2>1. PICK j \in DOMAIN es : es[j].id = x
    BY <1>3 DEF Has
  <2>2. PICK i \in DOMAIN Without(es, s) : Without(es, s)[i] = es[j]
    BY <2>1, <1>3, WithoutLemma
  <2> QED BY <2>1, <2>2 DEF Has
<1> QED BY <1>1, <1>2, <1>3

LEMMA HasInserted ==
    ASSUME NEW E, NEW es \in Seq(E), Unique(es), NEW e \in E
    PROVE  /\ Inserted(es, e) \in Seq(E) /\ Unique(Inserted(es, e))
           /\ \A x : Has(Inserted(es, e), x) <=> Has(es, x) \/ x = e.id
BY InsertedLemma

LEMMA HasTrimmed ==
    ASSUME NEW E, NEW fs \in Seq(E), Unique(fs)
    PROVE  /\ TrimDisk(fs) \in Seq(E) /\ Unique(TrimDisk(fs))
           /\ \A x : Has(TrimDisk(fs), x) => Has(fs, x)
<1>1. TrimDisk(fs) \in Seq(E) /\ Unique(TrimDisk(fs)) /\ Among(TrimDisk(fs), fs)
    BY TrimDiskLemma
<1> QED BY <1>1 DEF Has, Among

LEMMA EmptyStore == \A E : <<>> \in Seq(E) /\ Unique(<<>>) /\ \A x : ~Has(<<>>, x)
BY EmptySeq DEF Unique, Has
-----------------------------------------------------------------------------
(* The context *)

LEMMA QuietContext ==
    ASSUME Context, UNCHANGED <<context, tokens>>, pc \notin {"miss", "rollback"}
    PROVE  Context'
BY DEF Context, context

LEMMA LostContext == ASSUME LoseProcess PROVE Context'
<1>1. <<>> \in Texts /\ Len(<<>>) = 0
    BY EmptySeq DEF Texts
<1>2. IsPrefix(<<>>, <<>>)
    BY <1>1, PrefixSelf
<1>3. 0 <= MaxCtx
    BY KvAssumption
<1>4. /\ cells' = <<>> /\ tail' = 0 /\ fresh' = FALSE /\ tokens' = <<>>
    BY DEF LoseProcess
<1> QED BY <1>1, <1>2, <1>3, <1>4 DEF Context

(* A trim leaves the mirror true, and a prefix of what was there. *)
LEMMA TrimContext ==
    ASSUME Context, NEW n \in Nat, NEW o \in TrimOutcomes(n), SetTo(o)
    PROVE  /\ Context' /\ cells' = tokens'
           /\ o.kept => tokens' = Prefix(tokens, IF n > Len(tokens)
                                                 THEN Len(tokens) ELSE n)
           /\ ~o.kept => tokens' = <<>>
<1> DEFINE m == IF n > Len(tokens) THEN Len(tokens) ELSE n
<1>1. /\ o.tokens \in Texts /\ o.cells = o.tokens
      /\ o.tail = Len(o.cells) /\ o.kept \in BOOLEAN
      /\ o.kept => o.tokens = Prefix(tokens, m)
      /\ ~o.kept => o.tokens = <<>>
    BY TrimLemma DEF Context
<1>2. cells \in Seq(Vocabulary) /\ tokens \in Seq(Vocabulary)
    BY DEF Context, Texts
<1>3. Len(tokens) \in Nat /\ Len(tokens) <= Len(cells) /\ Len(cells) \in Nat
    BY <1>2, IsPrefixLemma, LenProperties DEF Context
<1>4. m \in 0..Len(tokens)
    BY <1>3
<1>5. Len(o.cells) <= MaxCtx
  <2>1. CASE o.kept
    <3>1. Len(Prefix(tokens, m)) = m
        BY <1>2, <1>4, PrefixLemma
    <3> QED BY <3>1, <2>1, <1>1, <1>3, <1>4, KvAssumption DEF Context
  <2>2. CASE ~o.kept
    BY <2>2, <1>1, KvAssumption, EmptySeq
  <2> QED BY <2>1, <2>2
<1>6. IsPrefix(o.tokens, o.cells)
    BY <1>1, PrefixSelf
<1>7. Context'
    BY <1>1, <1>5, <1>6 DEF SetTo, Context
<1> QED BY <1>1, <1>7 DEF SetTo

(* A batch that was decoded, and one of which some was stored. *)
LEMMA DecodeContext ==
    ASSUME Context, cells = tokens, NEW b \in Texts,
           Len(tokens) + Len(b) <= MaxCtx
    PROVE  /\ DecodeOk(b) => Context'
           /\ DecodeFails(b) /\ pc' = "rollback" => Context'
<1>1. /\ cells \in Seq(Vocabulary) /\ tokens \in Seq(Vocabulary) /\ b \in Seq(Vocabulary)
      /\ Len(cells) \in Nat /\ Len(b) \in Nat
    BY LenProperties DEF Context, Texts
<1>2. ASSUME DecodeOk(b) PROVE Context'
  <2>1. cells \o b \in Seq(Vocabulary) /\ Len(cells \o b) = Len(cells) + Len(b)
    BY <1>1, ConcatProperties
  <2>2. IsPrefix(cells \o b, cells \o b)
    BY <2>1, PrefixSelf DEF Texts
  <2> QED BY <2>1, <2>2, <1>2 DEF DecodeOk, Context, Texts
<1>3. ASSUME DecodeFails(b), pc' = "rollback" PROVE Context'
  <2>1. PICK k \in 0..Len(b) : cells' = cells \o Prefix(b, k) /\ tail' = tail + k
    BY <1>3 DEF DecodeFails
  <2>2. Prefix(b, k) \in Seq(Vocabulary) /\ Len(Prefix(b, k)) = k
    BY <1>1, PrefixLemma
  <2>3. /\ cells' \in Seq(Vocabulary) /\ Len(cells') = Len(cells) + k
        /\ \A i \in 1..Len(cells) : cells'[i] = cells[i]
    <3> DEFINE d == Prefix(b, k)
    <3>1. d \in Seq(Vocabulary) /\ Len(d) = k
        BY <2>2
    <3> HIDE DEF d
    <3>2. /\ cells \o d \in Seq(Vocabulary) /\ Len(cells \o d) = Len(cells) + Len(d)
          /\ \A i \in 1..(Len(cells) + Len(d)) :
                 (cells \o d)[i] = IF i <= Len(cells) THEN cells[i]
                                   ELSE d[i - Len(cells)]
        BY <3>1, <1>1, ConcatProperties
    <3>3. cells' = cells \o d
        BY <2>1 DEF d
    <3> QED BY <3>1, <3>2, <3>3, <1>1
  <2>4. IsPrefix(tokens, cells')
    <3>1. Len(tokens) <= Len(cells') /\ \A i \in 1..Len(tokens) : tokens[i] = cells'[i]
        BY <2>3, <1>1
    <3> QED BY <3>1, <2>3, <1>1, IsPrefixLemma
  <2>5. Len(cells') <= MaxCtx
    BY <2>3, <1>1, KvAssumption
  <2>6. tokens' = tokens /\ fresh' = FALSE
    BY <1>3 DEF DecodeFails
  <2>7. tail' = Len(cells')
    BY <2>1, <2>3 DEF Context
  <2> QED BY <2>3, <2>4, <2>5, <2>6, <2>7, <1>1, <1>3 DEF Context, Texts
<1> QED BY <1>2, <1>3

(* A state that was restored, or of which some was. *)
LEMMA RestoreContext ==
    ASSUME NEW state \in Texts, Len(state) <= MaxCtx
    PROVE  /\ /\ cells' = state /\ tail' = Len(state)
              /\ tokens' = state /\ fresh' = FALSE
              => Context'
           /\ RestoreFails(state) /\ pc' = "miss" => Context'
<1>1. state \in Seq(Vocabulary) /\ Len(state) \in Nat
    BY LenProperties DEF Texts
<1>2. IsPrefix(state, state)
    BY PrefixSelf
<1>3. ASSUME RestoreFails(state), pc' = "miss" PROVE Context'
  <2>1. PICK k \in 0..Len(state) : cells' = Prefix(state, k) /\ tail' = k
    BY <1>3 DEF RestoreFails
  <2>2. cells' \in Seq(Vocabulary) /\ Len(cells') = k
    BY <2>1, <1>1, PrefixLemma
  <2>3. IsPrefix(<<>>, cells') /\ <<>> \in Texts
    BY <2>2, PrefixSelf, EmptySeq DEF Texts
  <2>4. tokens' = <<>> /\ fresh' = FALSE
    BY <1>3 DEF RestoreFails
  <2>5. k <= MaxCtx
    BY <1>1, KvAssumption
  <2> QED BY <2>1, <2>2, <2>3, <2>4, <2>5, <1>3 DEF Context, Texts
<1> QED BY <1>2, <1>3 DEF Context

(* A piece that follows a prefix makes a longer prefix. *)
LEMMA ExtendPrefix ==
    ASSUME NEW S, NEW s \in Seq(S), NEW n \in 0..Len(s), NEW k \in 0..(Len(s) - n)
    PROVE  LET b == SubSeq(s, n + 1, n + k)
           IN  b \in Seq(S) /\ Len(b) = k /\ Prefix(s, n) \o b = Prefix(s, n + k)
<1> DEFINE b == SubSeq(s, n + 1, n + k)
           a == Prefix(s, n)
           c == a \o b
<1>1. Len(s) \in Nat /\ n \in Nat /\ k \in Nat /\ n + k \in 0..Len(s)
    BY LenProperties
<1>2. \A i \in (n + 1)..(n + k) : s[i] \in S
    BY <1>1, ElementOfSeq
<1>3. b \in Seq(S) /\ Len(b) = k /\ \A i \in 1..k : b[i] = s[n + i]
  <2>1. /\ b \in Seq(S)
        /\ Len(b) = IF n + 1 <= n + k THEN n + k - (n + 1) + 1 ELSE 0
        /\ \A i \in 1..(n + k - (n + 1) + 1) : b[i] = s[n + 1 + i - 1]
    BY <1>1, <1>2, SubSeqProperties
  <2> QED BY <2>1, <1>1
<1>4. a \in Seq(S) /\ Len(a) = n /\ \A i \in 1..n : a[i] = s[i]
    BY PrefixLemma
<1>5. /\ Prefix(s, n + k) \in Seq(S) /\ Len(Prefix(s, n + k)) = n + k
      /\ \A i \in 1..(n + k) : Prefix(s, n + k)[i] = s[i]
    BY <1>1, PrefixLemma
<1> HIDE DEF a, b
<1>6. /\ c \in Seq(S) /\ Len(c) = Len(a) + Len(b)
      /\ \A i \in 1..(Len(a) + Len(b)) : c[i] = IF i <= Len(a) THEN a[i]
                                                ELSE b[i - Len(a)]
    BY <1>3, <1>4, ConcatProperties
<1>7. ASSUME NEW i \in 1..(n + k) PROVE c[i] = s[i]
  <2>1. CASE i <= n
    BY <2>1, <1>1, <1>3, <1>4, <1>6
  <2>2. CASE ~(i <= n)
    <3>1. i - n \in 1..k /\ n + (i - n) = i
        BY <2>2, <1>1
    <3> QED BY <3>1, <2>2, <1>1, <1>3, <1>4, <1>6
  <2> QED BY <2>1, <2>2
<1>8. c = Prefix(s, n + k)
  <2>1. c \in Seq(S) /\ Len(c) = n + k
    BY <1>3, <1>4, <1>6
  <2> HIDE DEF c
  <2> QED BY <2>1, <1>5, <1>7, SeqEqual
<1> QED BY <1>3, <1>8 DEF a, b

(* The batch at hand is a piece of the prompt that follows offset. *)
LEMMA BatchLemma ==
    ASSUME prompt \in Texts, offset \in Nat, offset <= Len(prompt)
    PROVE  /\ Batch \in Texts /\ Len(Batch) \in Nat
           /\ offset + Len(Batch) <= Len(prompt)
           /\ Prefix(prompt, offset) \o Batch = Prefix(prompt, offset + Len(Batch))
<1> DEFINE left == Len(prompt) - offset
           k == IF left < BatchSize THEN left ELSE BatchSize
<1>1. prompt \in Seq(Vocabulary) /\ Len(prompt) \in Nat
    BY LenProperties DEF Texts
<1>2. offset \in 0..Len(prompt) /\ k \in 0..(Len(prompt) - offset)
    BY <1>1, KvAssumption
<1>3. Batch = SubSeq(prompt, offset + 1, offset + k)
    BY DEF Batch
<1> HIDE DEF k
<1>4. /\ Batch \in Seq(Vocabulary) /\ Len(Batch) = k
      /\ Prefix(prompt, offset) \o Batch = Prefix(prompt, offset + k)
    BY <1>1, <1>2, <1>3, ExtendPrefix
<1> QED BY <1>1, <1>2, <1>4 DEF Texts

(* What the worker may restore. *)
LEMMA EntrySound ==
    ASSUME Stores, NEW s, InMemory(s)
    PROVE  Entry(s) \in SoundEntries /\ Entry(s).id = s
BY FoundLemma DEF Stores, InMemory, Entry

LEMMA FileSound ==
    ASSUME Stores, NEW s, HasFile(s)
    PROVE  FileOf(s) \in SoundFiles /\ FileOf(s).id = s
BY FoundLemma DEF Stores, HasFile, FileOf

LEMMA ContextInRestoring == CacheInv /\ Restoring => Context'
<1> SUFFICES ASSUME CacheInv, Restoring PROVE Context'
    OBVIOUS
<1>1. Context /\ Stores
    BY CacheContext, CacheStores
<1>2. CASE RestoreFromMemory
  <2>1. /\ Entry(target) \in SoundEntries
        /\ pc' = "checkpoint"
        /\ cells' = Entry(target).state /\ tail' = Len(Entry(target).state)
        /\ tokens' = Entry(target).tokens /\ fresh' = FALSE
    BY <1>1, <1>2, EntrySound DEF RestoreFromMemory, Goto
  <2> QED BY <2>1, RestoreContext DEF SoundEntries, Entries
<1>3. CASE MemoryRestoreFails
  <2>1. /\ Entry(target) \in SoundEntries
        /\ pc' = "miss" /\ RestoreFails(Entry(target).state)
    BY <1>1, <1>3, EntrySound DEF MemoryRestoreFails, Goto
  <2> QED BY <2>1, RestoreContext DEF SoundEntries, Entries
<1>4. CASE RestoreFromDisk
  <2>1. /\ FileOf(target) \in SoundFiles /\ FileOf(target).whole
        /\ pc' = "checkpoint"
        /\ cells' = FileOf(target).state /\ tail' = Len(FileOf(target).state)
        /\ tokens' = FileOf(target).tokens /\ fresh' = FALSE
    BY <1>1, <1>4, FileSound DEF RestoreFromDisk, Loadable, Goto
  <2> QED BY <2>1, RestoreContext DEF SoundFiles, FileEntries
<1>5. CASE DiskRestoreFails
  <2>1. /\ FileOf(target) \in SoundFiles
        /\ pc' = "miss" /\ RestoreFails(FileOf(target).state)
    BY <1>1, <1>5, FileSound DEF DiskRestoreFails, Loadable, Goto
  <2> QED BY <2>1, RestoreContext DEF SoundFiles, FileEntries
<1>6. CASE NothingParked
  <2>1. /\ tokens' = <<>> /\ pc' = "miss"
        /\ cells' = cells /\ tail' = tail /\ fresh' = fresh
    BY <1>6 DEF NothingParked, Goto, context
  <2>2. <<>> \in Texts /\ IsPrefix(<<>>, cells)
    BY <1>1, PrefixSelf, EmptySeq DEF Context, Texts
  <2> QED BY <1>1, <2>1, <2>2 DEF Context
<1>7. CASE Miss
    BY <1>1, <1>7, TrimContext DEF Miss
<1> QED BY <1>2, <1>3, <1>4, <1>5, <1>6, <1>7 DEF Restoring

LEMMA CheckpointType ==
    ASSUME Context, prompt \in Texts
    PROVE  Checkpoint \in 0..Len(tokens) /\ Checkpoint <= Len(prompt)
           /\ Prefix(prompt, Checkpoint) = Prefix(tokens, Checkpoint)
BY CheckpointLemma DEF Checkpoint, Context, Texts

LEMMA SingleToken ==
    ASSUME NEW t \in Sampled
    PROVE  <<t>> \in Texts /\ Len(<<t>>) = 1
<1>1. t \in Vocabulary
    BY KvAssumption
<1>2. <<t>> \in Seq(Vocabulary)
    BY <1>1
<1> QED BY <1>2 DEF Texts

LEMMA PromptType == CacheInv => prompt \in Texts
BY KvAssumption, EmptySeq DEF CacheInv, TypeOK, Texts

LEMMA ContextInTurning == CacheInv /\ (Turning \/ AbortTurn) => Context'
<1> SUFFICES ASSUME CacheInv, Turning \/ AbortTurn PROVE Context'
    OBVIOUS
<1>1. Context /\ prompt \in Texts
    BY CacheContext, PromptType
<1>2. CASE RejectPrompt \/ PromptDecoded \/ FinishTurn \/ FillContext \/ AbortTurn
  <2>1. UNCHANGED <<context, tokens>> /\ pc \notin {"miss", "rollback"}
    BY <1>2 DEF RejectPrompt, PromptDecoded, FinishTurn, FillContext, AbortTurn, cache
  <2> QED BY <1>1, <2>1, QuietContext
<1>3. CASE ReusePrefix
  <2>1. PICK o \in TrimOutcomes(Checkpoint) : SetTo(o)
    BY <1>3 DEF ReusePrefix
  <2>2. Checkpoint \in Nat
    BY <1>1, CheckpointType
  <2> QED BY <1>1, <2>1, <2>2, TrimContext
<1>4. CASE DecodePrompt
  <2>1. pc = "decode" /\ cells = tokens
    BY <1>1, <1>4 DEF DecodePrompt, Context
  <2>2. offset \in Nat /\ offset <= Len(prompt)
    BY <2>1 DEF CacheInv, TypeOK, TurnInv
  <2>3. Batch \in Texts /\ Len(tokens) + Len(Batch) <= MaxCtx
    <3>1. Len(tokens) + Len(Batch) <= MaxCtx
        BY <1>4 DEF DecodePrompt
    <3>2. Batch \in Texts
        BY <1>1, <2>2, BatchLemma
    <3> QED BY <3>1, <3>2
  <2>4. DecodeOk(Batch) \/ (DecodeFails(Batch) /\ pc' = "rollback")
    BY <1>4 DEF DecodePrompt, Goto
  <2> QED BY <1>1, <2>1, <2>3, <2>4, DecodeContext
<1>5. CASE SampleToken
  <2>1. pc = "sample" /\ cells = tokens
    BY <1>1, <1>5 DEF SampleToken, Context
  <2>2. PICK t \in Sampled : DecodeOk(<<t>>) \/ (DecodeFails(<<t>>) /\ pc' = "rollback")
    BY <1>5 DEF SampleToken, Goto
  <2>3. <<t>> \in Texts /\ Len(<<t>>) = 1
    BY SingleToken
  <2>4. Len(tokens) + Len(<<t>>) <= MaxCtx
    <3>1. Len(tokens) < MaxCtx /\ Len(tokens) \in Nat
        BY <1>1, <1>5, LenProperties DEF SampleToken, RoomForToken, Context, Texts
    <3> QED BY <3>1, <2>3, KvAssumption
  <2> QED BY <1>1, <2>1, <2>2, <2>3, <2>4, DecodeContext
<1>6. CASE Rollback
  <2>1. PICK o \in TrimOutcomes(ckpt) : SetTo(o)
    BY <1>6 DEF Rollback, RollbackPoint
  <2>2. ckpt \in Nat
    BY DEF CacheInv, TypeOK
  <2> QED BY <1>1, <2>1, <2>2, TrimContext
<1> QED BY <1>2, <1>3, <1>4, <1>5, <1>6 DEF Turning

(* Parking, cloning and flushing leave the context alone. *)
LEMMA ContextStep == CacheInv /\ [Next]_vars => Context'
<1> SUFFICES ASSUME CacheInv, [Next]_vars PROVE Context'
    OBVIOUS
<1>1. Context
    BY CacheContext
<1>2. CASE Parking
  <2>1. UNCHANGED <<context, tokens>> /\ pc \notin {"miss", "rollback"}
    BY <1>2 DEF Parking, ParkNothing, ParkInMemory, ParkOnDisk, Store, SpillOk,
                SpillFails, KeepInMemory, SaveSnapOk, SaveSnapFails, WriteLive, cache
  <2> QED BY <1>1, <2>1, QuietContext
<1>3. CASE CopyLive \/ Flushing
  <2>1. UNCHANGED <<context, tokens>> /\ pc \notin {"miss", "rollback"}
    BY <1>3 DEF CopyLive, Flushing, StartFlush, FlushOne, FlushDone, cache
  <2> QED BY <1>1, <2>1, QuietContext
<1>4. CASE Worker \/ AbortTurn
    BY <1>2, <1>3, <1>4, ContextInRestoring, ContextInTurning DEF Worker
<1>5. ASSUME NEW s \in Ids, NEW p \in Prompts, Turn(s, p) PROVE Context'
  <2>1. UNCHANGED <<context, tokens>> /\ pc \notin {"miss", "rollback"}
    BY <1>5 DEF Turn, cache
  <2> QED BY <1>1, <2>1, QuietContext
<1>6. ASSUME NEW s \in Sessions, Release(s) PROVE Context'
  <2>1. CASE s = active
    BY <1>1, <1>6, <2>1, TrimContext DEF Release
  <2>2. CASE s # active
    <3>1. UNCHANGED <<context, tokens>> /\ pc \notin {"miss", "rollback"}
        BY <1>6, <2>2 DEF Release
    <3> QED BY <1>1, <3>1, QuietContext
  <2> QED BY <2>1, <2>2
<1>7. ASSUME NEW s \in Sessions, CloneLive(s) PROVE Context'
  <2>1. UNCHANGED <<context, tokens>> /\ pc \notin {"miss", "rollback"}
    BY <1>7 DEF CloneLive, cache
  <2> QED BY <1>1, <2>1, QuietContext
<1>8. ASSUME NEW f \in Sessions, NEW t \in Sessions, CloneParked(f, t) \/ CloneFile(f, t)
      PROVE  Context'
  <2>1. \/ LoseProcess
        \/ UNCHANGED <<context, tokens>> /\ pc \notin {"miss", "rollback"}
    BY <1>8 DEF CloneParked, CloneFile, cache
  <2> QED BY <1>1, <2>1, QuietContext, LostContext
<1>9. CASE Shutdown \/ AgeFiles
  <2>1. UNCHANGED <<context, tokens>> /\ pc \notin {"miss", "rollback"}
    BY <1>9 DEF Shutdown, AgeFiles, cache
  <2> QED BY <1>1, <2>1, QuietContext
<1>10. CASE Kill \/ Restart
    BY <1>10, LostContext DEF Kill, Restart
<1>11. CASE UNCHANGED vars
    BY <1>1, <1>11 DEF vars, context, cache, Context
<1> QED BY <1>4, <1>5, <1>6, <1>7, <1>8, <1>9, <1>10, <1>11 DEF Next
-----------------------------------------------------------------------------
(* The turn *)

(* The front of a sequence does not change when it grows. *)
LEMMA GrownPrefix ==
    ASSUME NEW s \in Texts, NEW b \in Texts
    PROVE  /\ s \o b \in Texts /\ Len(s \o b) = Len(s) + Len(b)
           /\ \A n \in 0..Len(s) : Prefix(s \o b, n) = Prefix(s, n)
           /\ \A q \in Texts : IsPrefix(q, s) => IsPrefix(q, s \o b)
<1>1. /\ s \in Seq(Vocabulary) /\ b \in Seq(Vocabulary)
      /\ Len(s) \in Nat /\ Len(b) \in Nat
    BY LenProperties DEF Texts
<1> DEFINE c == s \o b
<1>2. /\ c \in Seq(Vocabulary) /\ Len(c) = Len(s) + Len(b)
      /\ \A i \in 1..(Len(s) + Len(b)) : c[i] = IF i <= Len(s) THEN s[i]
                                                ELSE b[i - Len(s)]
    BY <1>1, ConcatProperties
<1> HIDE DEF c
<1>3. \A i \in 1..Len(s) : c[i] = s[i]
    BY <1>1, <1>2
<1>4. ASSUME NEW n \in 0..Len(s) PROVE Prefix(c, n) = Prefix(s, n)
  <2>1. n \in 0..Len(c) /\ \A i \in 1..n : c[i] = s[i]
    BY <1>1, <1>2, <1>3
  <2>2. /\ Prefix(c, n) \in Seq(Vocabulary) /\ Len(Prefix(c, n)) = n
        /\ \A i \in 1..n : Prefix(c, n)[i] = c[i]
    BY <1>2, <2>1, PrefixLemma
  <2>3. /\ Prefix(s, n) \in Seq(Vocabulary) /\ Len(Prefix(s, n)) = n
        /\ \A i \in 1..n : Prefix(s, n)[i] = s[i]
    BY <1>1, PrefixLemma
  <2>4. \A i \in 1..n : Prefix(c, n)[i] = Prefix(s, n)[i]
    BY <2>1, <2>2, <2>3
  <2> QED BY <2>2, <2>3, <2>4, SeqEqual
<1>5. ASSUME NEW q \in Texts, IsPrefix(q, s) PROVE IsPrefix(q, c)
  <2>1. q \in Seq(Vocabulary) /\ Len(q) \in Nat
    BY LenProperties DEF Texts
  <2>2. Len(q) <= Len(s) /\ \A i \in 1..Len(q) : q[i] = s[i]
    BY <2>1, <1>1, <1>5, IsPrefixLemma
  <2>3. Len(q) <= Len(c) /\ \A i \in 1..Len(q) : q[i] = c[i]
    BY <2>1, <2>2, <1>1, <1>2, <1>3
  <2> QED BY <2>1, <2>3, <1>2, IsPrefixLemma
<1> QED BY <1>2, <1>4, <1>5 DEF c, Texts

(* What the turn may go back to is not touched by what is decoded. *)
LEMMA DecodeKeepsCheckpoint ==
    ASSUME Context, NEW b \in Texts, DecodeOk(b) \/ DecodeFails(b),
           ckpt \in Nat, ckpt <= Len(prompt), ckpt <= Len(tokens),
           Prefix(prompt, ckpt) = Prefix(tokens, ckpt), UNCHANGED <<ckpt, prompt>>
    PROVE  /\ ckpt' <= Len(prompt') /\ ckpt' <= Len(tokens')
           /\ Prefix(prompt', ckpt') = Prefix(tokens', ckpt')
<1>1. tokens \in Texts /\ Len(tokens) \in Nat /\ Len(b) \in Nat
    BY LenProperties DEF Context, Texts
<1>2. CASE DecodeOk(b)
  <2>1. tokens' = tokens \o b
    BY <1>2 DEF DecodeOk
  <2>2. Len(tokens \o b) = Len(tokens) + Len(b)
        /\ Prefix(tokens \o b, ckpt) = Prefix(tokens, ckpt)
    BY <1>1, GrownPrefix
  <2> QED BY <2>1, <2>2, <1>1
<1>3. CASE DecodeFails(b)
  <2>1. tokens' = tokens
    BY <1>3 DEF DecodeFails
  <2> QED BY <2>1
<1> QED BY <1>2, <1>3

LEMMA TurnInTurning == CacheInv /\ (Turning \/ AbortTurn) => TurnInv'
<1> SUFFICES ASSUME CacheInv, Turning \/ AbortTurn PROVE TurnInv'
    OBVIOUS
<1>1. Context /\ prompt \in Texts /\ TurnInv /\ ckpt \in Nat /\ offset \in Nat
    BY CacheContext, PromptType DEF CacheInv, TypeOK
<1>2. Len(prompt) \in Nat /\ Len(tokens) \in Nat
    BY <1>1, LenProperties DEF Context, Texts
<1>3. CASE RejectPrompt \/ FinishTurn \/ Rollback
  <2>1. pc' = "idle"
    BY <1>3 DEF RejectPrompt, FinishTurn, Rollback, Return, Goto
  <2> QED BY <2>1 DEF TurnInv
<1>4. CASE ReusePrefix
  <2>1. PICK o \in TrimOutcomes(Checkpoint) :
            SetTo(o) /\ ckpt' = Reused(o) /\ offset' = Reused(o)
    BY <1>4 DEF ReusePrefix
  <2>2. pc' = "decode" /\ prompt' = prompt
    BY <1>4 DEF ReusePrefix, Goto
  <2>3. /\ Checkpoint \in 0..Len(tokens) /\ Checkpoint <= Len(prompt)
        /\ Prefix(prompt, Checkpoint) = Prefix(tokens, Checkpoint)
    BY <1>1, CheckpointType
  <2>4. /\ o.kept => tokens' = Prefix(tokens, Checkpoint)
        /\ ~o.kept => tokens' = <<>>
    BY <1>1, <1>2, <2>1, <2>3, TrimContext
  <2>5. tokens' = Prefix(prompt, offset') /\ offset' \in 0..Len(prompt)
    <3>1. CASE o.kept
        BY <3>1, <1>2, <2>1, <2>3, <2>4 DEF Reused
    <3>2. CASE ~o.kept
      <4>1. tokens' = <<>> /\ offset' = 0
        BY <3>2, <2>1, <2>4 DEF Reused
      <4>2. Prefix(prompt, 0) = <<>>
        BY SubSeqEmpty DEF Prefix
      <4> QED BY <4>1, <4>2, <1>2
    <3> QED BY <3>1, <3>2
  <2>6. ckpt' = offset' /\ Len(tokens') = offset'
    BY <1>1, <2>1, <2>5, PrefixLemma DEF Texts
  <2>7. Prefix(tokens', ckpt') = Prefix(prompt, ckpt')
    <3>1. Prefix(Prefix(prompt, offset'), offset') = Prefix(prompt, offset')
        BY <1>1, <2>5, PrefixOfPrefix DEF Texts
    <3> QED BY <3>1, <2>5, <2>6
  <2> QED BY <2>2, <2>5, <2>6, <2>7, <1>2 DEF TurnInv
<1>5. CASE DecodePrompt
  <2>1. /\ pc = "decode" /\ pc' \in {"decode", "rollback"}
        /\ prompt' = prompt /\ ckpt' = ckpt
        /\ \/ DecodeOk(Batch) /\ offset' = offset + Len(Batch)
           \/ DecodeFails(Batch) /\ pc' = "rollback"
    BY <1>5 DEF DecodePrompt, Goto
  <2>2. offset <= Len(prompt) /\ tokens = Prefix(prompt, offset)
    BY <1>1, <2>1 DEF TurnInv
  <2>3. /\ Batch \in Texts /\ offset + Len(Batch) <= Len(prompt)
        /\ Prefix(prompt, offset) \o Batch = Prefix(prompt, offset + Len(Batch))
    BY <1>1, <2>2, BatchLemma
  <2>4. /\ ckpt' <= Len(prompt') /\ ckpt' <= Len(tokens')
        /\ Prefix(prompt', ckpt') = Prefix(tokens', ckpt')
    BY <1>1, <2>1, <2>3, DecodeKeepsCheckpoint DEF TurnInv
  <2>5. pc' = "decode" => offset' <= Len(prompt') /\ tokens' = Prefix(prompt', offset')
    BY <2>1, <2>2, <2>3 DEF DecodeOk
  <2> QED BY <2>1, <2>4, <2>5 DEF TurnInv
<1>6. CASE PromptDecoded
  <2>1. /\ pc = "decode" /\ pc' = "sample" /\ offset = Len(prompt)
        /\ tokens' = tokens /\ prompt' = prompt /\ ckpt' = ckpt
    BY <1>6 DEF PromptDecoded, Goto, cache, turn
  <2>2. tokens = prompt
    BY <1>1, <2>1, SubSeqFull DEF TurnInv, Prefix, Texts
  <2>3. IsPrefix(prompt, tokens)
    BY <1>1, <2>2, PrefixSelf
  <2> QED BY <1>1, <2>1, <2>3 DEF TurnInv
<1>7. CASE SampleToken
  <2>1. PICK t \in Sampled : DecodeOk(<<t>>) \/ (DecodeFails(<<t>>) /\ pc' = "rollback")
    BY <1>7 DEF SampleToken, Goto
  <2>2. /\ pc = "sample" /\ pc' \in {"sample", "rollback"}
        /\ prompt' = prompt /\ ckpt' = ckpt
    BY <1>7 DEF SampleToken, Goto, turn
  <2>3. <<t>> \in Texts
    BY SingleToken
  <2>4. /\ ckpt' <= Len(prompt') /\ ckpt' <= Len(tokens')
        /\ Prefix(prompt', ckpt') = Prefix(tokens', ckpt')
    BY <1>1, <2>1, <2>2, <2>3, DecodeKeepsCheckpoint DEF TurnInv
  <2>5. pc' = "sample" => IsPrefix(prompt', tokens')
    <3>1. ASSUME pc' = "sample" PROVE tokens' = tokens \o <<t>>
        BY <3>1, <2>1 DEF DecodeOk
    <3>2. IsPrefix(prompt, tokens \o <<t>>)
        BY <1>1, <2>2, <2>3, GrownPrefix DEF TurnInv, Context
    <3> QED BY <3>1, <3>2, <2>2
  <2> QED BY <2>2, <2>4, <2>5 DEF TurnInv
<1>8. CASE FillContext \/ AbortTurn
  <2>1. /\ pc \in {"decode", "sample"} /\ pc' = "rollback"
        /\ tokens' = tokens /\ prompt' = prompt /\ ckpt' = ckpt
    BY <1>8 DEF FillContext, AbortTurn, Goto, cache, turn
  <2> QED BY <1>1, <2>1 DEF TurnInv
<1> QED BY <1>3, <1>4, <1>5, <1>6, <1>7, <1>8 DEF Turning

LEMMA TurnStep == CacheInv /\ [Next]_vars => TurnInv'
<1> SUFFICES ASSUME CacheInv, [Next]_vars PROVE TurnInv'
    OBVIOUS
<1>1. ASSUME pc' \notin {"decode", "sample", "rollback"} PROVE TurnInv'
    BY <1>1 DEF TurnInv
<1>2. CASE Parking
    BY <1>1, <1>2 DEF Parking, ParkNothing, ParkInMemory, ParkOnDisk, Store, SpillOk,
                SpillFails, KeepInMemory, SaveSnapOk, SaveSnapFails, WriteLive,
                AfterPark, Stored, Return, Goto
<1>3. CASE Restoring \/ CopyLive \/ Flushing
    BY <1>1, <1>3 DEF Restoring, RestoreFromMemory, MemoryRestoreFails,
                RestoreFromDisk, DiskRestoreFails, NothingParked, Miss, CopyLive,
                Flushing, StartFlush, FlushOne, FlushDone, Return, Goto
<1>4. CASE Worker \/ AbortTurn
    BY <1>2, <1>3, <1>4, TurnInTurning DEF Worker
<1>5. CASE UNCHANGED vars
    BY <1>5 DEF CacheInv, TurnInv, vars, cache, turn
<1>6. CASE \E s \in Ids, p \in Prompts : Turn(s, p)
    BY <1>1, <1>6 DEF Turn, Goto
<1>7. CASE \E s \in Sessions : Release(s) \/ CloneLive(s)
    BY <1>1, <1>7 DEF Release, CloneLive, Goto
<1>8. CASE \E f, t \in Sessions : CloneParked(f, t) \/ CloneFile(f, t)
    BY <1>1, <1>8 DEF CloneParked, CloneFile, Goto
<1>9. CASE Shutdown \/ Kill \/ Restart \/ AgeFiles
    BY <1>1, <1>9 DEF Shutdown, Kill, Restart, AgeFiles, Goto
<1> QED BY <1>4, <1>5, <1>6, <1>7, <1>8, <1>9 DEF Next
-----------------------------------------------------------------------------
(* RAM and files *)

ParkedGood(es) == es \in Seq(SoundEntries) /\ Unique(es)

FilesGood(fs) == fs \in Seq(SoundFiles) /\ Unique(fs)

OneCopy(es, fs) == \A x : ~(Has(es, x) /\ Has(fs, x))

Shelves == ParkedGood(parked) /\ FilesGood(files) /\ OneCopy(parked, files)

LEMMA CacheShelves == CacheInv => Shelves
<1> SUFFICES ASSUME CacheInv PROVE Shelves
    OBVIOUS
<1>1. OneCopy(parked, files)
    BY DEF CacheInv, OneParkedCopy, OneCopy, HasFile, Has
<1> QED BY <1>1, CacheStores DEF Stores, Shelves, ParkedGood, FilesGood

(* save and save_captured add one file at most. *)
LEMMA SaveLemma ==
    ASSUME FilesGood(files), NEW s \in Sessions, NEW ids \in Texts,
           Len(ids) <= MaxCtx, SaveOk(s, ids, ids)
    PROVE  FilesGood(files') /\ \A x : Has(files', x) => Has(files, x) \/ x = s
<1> DEFINE f == NewFile(s, ids, ids)
<1>1. f \in SoundFiles /\ f.id = s
    BY DEF NewFile, SoundFiles, FileEntries
<1> HIDE DEF f
<1>2. /\ Written(f) \in Seq(SoundFiles) /\ Unique(Written(f))
      /\ \A x : Has(Written(f), x) <=> Has(files, x) \/ x = s
    BY <1>1, HasInserted DEF Written, FilesGood
<1>3. files' = TrimDisk(Written(f))
    BY DEF SaveOk, f
<1> HIDE DEF SaveOk
<1> QED BY <1>2, <1>3, HasTrimmed DEF FilesGood

(* Leaving RAM, entering RAM. *)
LEMMA LeaveParked ==
    ASSUME Shelves, NEW s
    PROVE  /\ ParkedGood(Without(parked, s)) /\ OneCopy(Without(parked, s), files)
           /\ ~Has(Without(parked, s), s)
           /\ \A x : Has(Without(parked, s), x) <=> Has(parked, x) /\ x # s
BY HasWithout DEF Shelves, ParkedGood, OneCopy

LEMMA EnterParked ==
    ASSUME Shelves, NEW e \in SoundEntries
    PROVE  /\ ParkedGood(Inserted(parked, e))
           /\ \A x : Has(Inserted(parked, e), x) <=> Has(parked, x) \/ x = e.id
BY HasInserted DEF Shelves, ParkedGood

LEMMA LeaveFiles ==
    ASSUME Shelves, NEW s
    PROVE  /\ FilesGood(Without(files, s))
           /\ \A x : Has(Without(files, s), x) <=> Has(files, x) /\ x # s
BY HasWithout DEF Shelves, FilesGood

LEMMA TrimFiles ==
    ASSUME FilesGood(files)
    PROVE  FilesGood(TrimDisk(files)) /\ \A x : Has(TrimDisk(files), x) => Has(files, x)
BY HasTrimmed DEF FilesGood

LEMMA QuietShelves == Shelves /\ UNCHANGED <<parked, files>> => Shelves'
BY DEF Shelves, ParkedGood, FilesGood, OneCopy

LEMMA HeadParked ==
    ASSUME CacheInv, pc \in {"spill", "flushing"}, spilling # <<>>
    PROVE  /\ Len(spilling) \in Nat \ {0} /\ Head(spilling) = spilling[1]
           /\ InMemory(Head(spilling))
           /\ Entry(Head(spilling)) \in SoundEntries
           /\ Entry(Head(spilling)).id = Head(spilling)
<1>1. spilling \in Seq(Sessions)
    BY DEF CacheInv, TypeOK
<1>2. Len(spilling) \in Nat \ {0} /\ Head(spilling) = spilling[1]
    BY <1>1, EmptySeq
<1>3. 1 \in DOMAIN spilling
    BY <1>1, <1>2, LenProperties
<1>4. InMemory(spilling[1])
    BY <1>3 DEF CacheInv, SpillInv
<1> QED BY <1>2, <1>4, CacheStores, EntrySound

(* The live sequence, as it is parked. *)
LEMMA LiveSound ==
    ASSUME CacheInv, pc \notin {"miss", "rollback"}
    PROVE  cells = tokens /\ tokens \in Texts /\ Len(tokens) <= MaxCtx
BY CacheContext DEF Context

LEMMA SnapSound ==
    ASSUME CacheInv, pc \in Storing
    PROVE  /\ snap \in SoundEntries /\ snap.id \in Sessions
           /\ snap.tokens \in Texts /\ snap.state = snap.tokens
           /\ Len(snap.tokens) <= MaxCtx
<1>1. snap \in Entries /\ snap.state = snap.tokens /\ Len(snap.state) <= MaxCtx
    BY DEF CacheInv, LocalsInv, ParkedInv, SizeInv
<1> QED BY <1>1 DEF SoundEntries, Entries

LEMMA ShelvesInParking == CacheInv /\ Parking => Shelves'
<1> SUFFICES ASSUME CacheInv, Parking PROVE Shelves'
    OBVIOUS
<1>1. Shelves
    BY CacheShelves
<1>2. CASE ParkNothing \/ ParkInMemory \/ ParkOnDisk
    BY <1>1, <1>2, QuietShelves DEF ParkNothing, ParkInMemory, ParkOnDisk, cache
<1>3. CASE Store
  <2>1. files' = files /\ (parked' = parked \/ parked' = Without(parked, snap.id))
    BY <1>3 DEF Store
  <2> QED BY <1>1, <2>1, LeaveParked DEF Shelves
<1>4. CASE SpillOk
  <2> DEFINE h == Head(spilling)
  <2>1. pc = "spill" /\ spilling # <<>> /\ parked' = Without(parked, h)
    BY <1>4 DEF SpillOk
  <2>2. Entry(h) \in SoundEntries /\ Entry(h).id = h
    BY <2>1, HeadParked
  <2>3. SaveOk(h, Entry(h).tokens, Entry(h).tokens) /\ h \in Sessions
        /\ Entry(h).tokens \in Texts /\ Len(Entry(h).tokens) <= MaxCtx
    BY <1>4, <2>2 DEF SpillOk, SoundEntries, Entries
  <2>4. FilesGood(files') /\ \A x : Has(files', x) => Has(files, x) \/ x = h
    BY <1>1, <2>3, SaveLemma DEF Shelves
  <2> QED BY <1>1, <2>1, <2>4, LeaveParked DEF Shelves, OneCopy
<1>5. CASE SpillFails
  <2> DEFINE h == Head(spilling)
             p == Inserted(parked, Entry(h))
  <2>1. /\ pc = "spill" /\ spilling # <<>>
        /\ parked' = Without(p, snap.id) /\ files' = files
    BY <1>5 DEF SpillFails, AfterSpillFailure, SaveFails
  <2>2. InMemory(h) /\ Entry(h) \in SoundEntries /\ Entry(h).id = h
    BY <2>1, HeadParked
  <2>3. ParkedGood(p) /\ \A x : Has(p, x) <=> Has(parked, x)
    BY <1>1, <2>2, EnterParked DEF InMemory
  <2> HIDE DEF p
  <2>4. ParkedGood(parked') /\ \A x : Has(parked', x) => Has(p, x)
    BY <2>1, <2>3, HasWithout DEF ParkedGood
  <2> QED BY <1>1, <2>1, <2>3, <2>4 DEF Shelves, OneCopy
<1>6. CASE KeepInMemory
  <2>1. /\ pc = "spill" /\ parked' = Inserted(parked, snap)
        /\ files' = Without(files, snap.id)
    BY <1>6 DEF KeepInMemory, FilesBesideMemory
  <2>2. snap \in SoundEntries
    BY <2>1, SnapSound DEF Storing
  <2> QED BY <1>1, <2>1, <2>2, EnterParked, LeaveFiles DEF Shelves, OneCopy
<1>7. CASE SaveSnapOk
  <2>1. pc = "save" /\ SaveOk(snap.id, snap.tokens, snap.state) /\ parked' = parked
    BY <1>7 DEF SaveSnapOk, cache
  <2>2. /\ snap.id \in Sessions /\ snap.tokens \in Texts
        /\ snap.state = snap.tokens /\ Len(snap.tokens) <= MaxCtx
    BY <2>1, SnapSound DEF Storing
  <2>3. FilesGood(files') /\ \A x : Has(files', x) => Has(files, x) \/ x = snap.id
    BY <1>1, <2>1, <2>2, SaveLemma DEF Shelves
  <2>4. ~Has(parked, snap.id)
    BY <2>1 DEF CacheInv, LocalsInv, InMemory
  <2> QED BY <1>1, <2>1, <2>3, <2>4 DEF Shelves, OneCopy
<1>8. CASE SaveSnapFails
    BY <1>1, <1>8, QuietShelves DEF SaveSnapFails, SaveFails, cache
<1>9. CASE WriteLive
  <2>1. /\ pc = "write" /\ parked' = Without(parked, active)
        /\ SaveOk(active, tokens, cells) \/ files' = files
    BY <1>9 DEF WriteLive, SaveFails
  <2>2. active \in Sessions
    BY <2>1 DEF CacheInv, LocalsInv
  <2>3. cells = tokens /\ tokens \in Texts /\ Len(tokens) <= MaxCtx
    BY <2>1, LiveSound
  <2>4. FilesGood(files') /\ \A x : Has(files', x) => Has(files, x) \/ x = active
    BY <1>1, <2>1, <2>2, <2>3, SaveLemma DEF Shelves
  <2> QED BY <1>1, <2>1, <2>4, LeaveParked DEF Shelves, OneCopy
<1> QED BY <1>2, <1>3, <1>4, <1>5, <1>6, <1>7, <1>8, <1>9 DEF Parking

LEMMA ShelvesInFlushing == CacheInv /\ Flushing => Shelves'
<1> SUFFICES ASSUME CacheInv, Flushing PROVE Shelves'
    OBVIOUS
<1>1. Shelves
    BY CacheShelves
<1>2. CASE StartFlush
    BY <1>1, <1>2, QuietShelves DEF StartFlush, cache
<1>3. CASE FlushOne
  <2> DEFINE h == Head(spilling)
  <2>1. /\ pc = "flushing" /\ spilling # <<>>
        /\ \/ SaveOk(Entry(h).id, Entry(h).tokens, Entry(h).state)
              /\ parked' = Without(parked, Entry(h).id)
           \/ files' = files /\ parked' = Inserted(parked, Entry(h))
    BY <1>3 DEF FlushOne, SaveFails
  <2>2. InMemory(h) /\ Entry(h) \in SoundEntries /\ Entry(h).id = h
    BY <2>1, HeadParked
  <2>3. /\ h \in Sessions /\ Entry(h).tokens \in Texts
        /\ Entry(h).state = Entry(h).tokens /\ Len(Entry(h).tokens) <= MaxCtx
    BY <2>2 DEF SoundEntries, Entries
  <2>4. CASE SaveOk(h, Entry(h).tokens, Entry(h).tokens) /\ parked' = Without(parked, h)
    <3>1. FilesGood(files') /\ \A x : Has(files', x) => Has(files, x) \/ x = h
        BY <1>1, <2>3, <2>4, SaveLemma DEF Shelves
    <3> QED BY <1>1, <2>4, <3>1, LeaveParked DEF Shelves, OneCopy
  <2>5. CASE files' = files /\ parked' = Inserted(parked, Entry(h))
    BY <1>1, <2>2, <2>5, EnterParked DEF Shelves, OneCopy, InMemory
  <2> QED BY <2>1, <2>2, <2>3, <2>4, <2>5
<1>4. CASE FlushDone
  <2>1. parked' = parked /\ files' = TrimDisk(files)
    BY <1>4 DEF FlushDone, cache
  <2> QED BY <1>1, <2>1, TrimFiles DEF Shelves, OneCopy
<1> QED BY <1>2, <1>3, <1>4 DEF Flushing

LEMMA ShelvesInRestoring == CacheInv /\ Restoring => Shelves'
<1> SUFFICES ASSUME CacheInv, Restoring PROVE Shelves'
    OBVIOUS
<1>1. Shelves
    BY CacheShelves
<1>2. CASE RestoreFromMemory
  <2>1. parked' = Without(parked, target) /\ files' = files
    BY <1>2 DEF RestoreFromMemory
  <2> QED BY <1>1, <2>1, LeaveParked DEF Shelves
<1>3. CASE MemoryRestoreFails
  <2>1. /\ InMemory(target) /\ files' = files
        /\ parked' = Inserted(parked, Entry(target))
    BY <1>3 DEF MemoryRestoreFails
  <2>2. Entry(target) \in SoundEntries /\ Entry(target).id = target
    BY <2>1, CacheStores, EntrySound
  <2> QED BY <1>1, <2>1, <2>2, EnterParked DEF Shelves, OneCopy, InMemory
<1>4. CASE RestoreFromDisk \/ DiskRestoreFails \/ NothingParked \/ Miss
    BY <1>1, <1>4, QuietShelves
       DEF RestoreFromDisk, DiskRestoreFails, NothingParked, Miss
<1> QED BY <1>2, <1>3, <1>4 DEF Restoring

LEMMA WriteFile ==
    ASSUME FilesGood(files), NEW f \in SoundFiles
    PROVE  /\ FilesGood(Written(f)) /\ FilesGood(TrimDisk(Written(f)))
           /\ \A x : Has(Written(f), x) => Has(files, x) \/ x = f.id
           /\ \A x : Has(TrimDisk(Written(f)), x) => Has(files, x) \/ x = f.id
<1>1. /\ Written(f) \in Seq(SoundFiles) /\ Unique(Written(f))
      /\ \A x : Has(Written(f), x) <=> Has(files, x) \/ x = f.id
    BY HasInserted DEF Written, FilesGood
<1> QED BY <1>1, HasTrimmed DEF FilesGood

LEMMA EmptyShelf == ParkedGood(<<>>) /\ \A x : ~Has(<<>>, x)
BY EmptyStore DEF ParkedGood

(* A copy that was cut short is not whole, and claims nothing. *)
LEMMA ShelvesInCloneFile ==
    ASSUME CacheInv, NEW f \in Sessions, NEW t \in Sessions, CloneFile(f, t)
    PROVE  Shelves'
<1> DEFINE whole == [FileOf(f) EXCEPT !.id = t, !.old = FALSE]
           half  == [whole EXCEPT !.whole = FALSE, !.state = <<>>]
           cut   == {half, [half EXCEPT !.tokens = <<>>]}
<1>1. Shelves /\ Stores /\ HasFile(f) /\ ~Has(parked, t)
    BY CacheShelves, CacheStores DEF CloneFile, Fresh, InMemory
<1>2. FileOf(f) \in SoundFiles
    BY <1>1, FileSound
<1>3. whole \in SoundFiles /\ whole.id = t
    BY <1>2 DEF SoundFiles, FileEntries
<1>4. <<>> \in Texts /\ Len(<<>>) <= MaxCtx
    BY KvAssumption, EmptySeq DEF Texts
<1>5. half \in SoundFiles /\ half.id = t
    BY <1>3, <1>4 DEF SoundFiles, FileEntries
<1>6. [half EXCEPT !.tokens = <<>>] \in SoundFiles
      /\ [half EXCEPT !.tokens = <<>>].id = t
    BY <1>4, <1>5 DEF SoundFiles, FileEntries
<1>7. \/ files' = TrimDisk(Written(whole)) /\ parked' = parked
      \/ \E c \in cut : files' = Written(c) /\ (parked' = parked \/ parked' = <<>>)
    BY DEF CloneFile, LoseProcess, cache
<1> HIDE DEF whole, half
<1>8. \/ \E c \in SoundFiles : /\ c.id = t
                               /\ files' \in {Written(c), TrimDisk(Written(c))}
                               /\ parked' = parked \/ parked' = <<>>
    BY <1>3, <1>5, <1>6, <1>7
<1>9. FilesGood(files') /\ \A x : Has(files', x) => Has(files, x) \/ x = t
    BY <1>1, <1>8, WriteFile DEF Shelves
<1>10. ParkedGood(parked') /\ \A x : Has(parked', x) => Has(parked, x)
    BY <1>1, <1>8, EmptyShelf DEF Shelves
<1> QED BY <1>1, <1>9, <1>10 DEF Shelves, OneCopy

(* Only the ages change. *)
LEMMA ShelvesInAgeFiles == ASSUME CacheInv, AgeFiles PROVE Shelves'
<1>1. Shelves /\ parked' = parked
    BY CacheShelves DEF AgeFiles, cache
<1>2. PICK n \in DOMAIN files :
          files' = [i \in DOMAIN files |->
                        [files[i] EXCEPT !.old = files[i].old \/ i <= n]]
    BY DEF AgeFiles
<1>3. /\ files \in Seq(SoundFiles) /\ Len(files) \in Nat
      /\ DOMAIN files = 1..Len(files)
    BY <1>1, LenProperties DEF Shelves, FilesGood
<1>4. \A i \in 1..Len(files) : files[i] \in SoundFiles
    BY <1>3, ElementOfSeq
<1>5. ASSUME NEW i \in 1..Len(files)
      PROVE  files'[i] \in SoundFiles /\ files'[i].id = files[i].id
  <2>1. files[i] \in SoundFiles /\ (files[i].old \/ i <= n) \in BOOLEAN
    BY <1>4
  <2>2. files'[i] = [files[i] EXCEPT !.old = files[i].old \/ i <= n]
    BY <1>2, <1>3
  <2> QED BY <2>1, <2>2 DEF SoundFiles, FileEntries
<1>6. DOMAIN files' = 1..Len(files) /\ files' \in [1..Len(files) -> SoundFiles]
    BY <1>2, <1>3, <1>5
<1>7. files' \in Seq(SoundFiles)
    BY <1>3, <1>6, SeqDef
<1>8. Unique(files') /\ \A x : Has(files', x) => Has(files, x)
    BY <1>1, <1>3, <1>5, <1>6 DEF Shelves, FilesGood, Unique, Has
<1> QED BY <1>1, <1>7, <1>8 DEF Shelves, FilesGood, OneCopy

LEMMA ShelvesStep == CacheInv /\ [Next]_vars => Shelves'
<1> SUFFICES ASSUME CacheInv, [Next]_vars PROVE Shelves'
    OBVIOUS
<1>1. Shelves
    BY CacheShelves
<1>2. CASE Turning \/ AbortTurn
    BY <1>1, <1>2, QuietShelves
       DEF Turning, RejectPrompt, ReusePrefix, DecodePrompt, PromptDecoded,
           SampleToken, FinishTurn, FillContext, Rollback, AbortTurn, cache
<1>3. CASE CopyLive
  <2>1. /\ pc = "copy" /\ parked' = parked
        /\ SaveOk(target, tokens, cells) \/ files' = files
    BY <1>3 DEF CopyLive, SaveFails, cache
  <2>2. target \in Sessions /\ ~Has(parked, target)
    BY <2>1 DEF CacheInv, LocalsInv, InMemory
  <2>3. cells = tokens /\ tokens \in Texts /\ Len(tokens) <= MaxCtx
    BY <2>1, LiveSound
  <2>4. FilesGood(files') /\ \A x : Has(files', x) => Has(files, x) \/ x = target
    BY <1>1, <2>1, <2>2, <2>3, SaveLemma DEF Shelves
  <2> QED BY <1>1, <2>1, <2>2, <2>4 DEF Shelves, OneCopy
<1>4. CASE Worker \/ AbortTurn
    BY <1>2, <1>3, <1>4, ShelvesInParking, ShelvesInRestoring, ShelvesInFlushing
       DEF Worker
<1>5. CASE \E s \in Ids, p \in Prompts : Turn(s, p)
    BY <1>1, <1>5, QuietShelves DEF Turn, cache
<1>6. ASSUME NEW s \in Sessions, Release(s) PROVE Shelves'
  <2>1. parked' = Without(parked, s) /\ files' = Without(files, s)
    BY <1>6 DEF Release, ReleasedFiles
  <2> QED BY <1>1, <2>1, LeaveParked, LeaveFiles DEF Shelves, OneCopy
<1>7. CASE \E s \in Sessions : CloneLive(s)
    BY <1>1, <1>7, QuietShelves DEF CloneLive, cache
<1>8. ASSUME NEW f \in Sessions, NEW t \in Sessions, CloneParked(f, t)
      PROVE  Shelves'
    BY <1>1, <1>8, QuietShelves DEF CloneParked, cache
<1>9. CASE Shutdown
    BY <1>1, <1>9, QuietShelves DEF Shutdown, cache
<1>10. CASE Kill \/ Restart
  <2>1. parked' = <<>> /\ files' \in {files, TrimDisk(files)}
    BY <1>10 DEF Kill, Restart, LoseProcess
  <2>2. FilesGood(files')
    BY <1>1, <2>1, TrimFiles DEF Shelves
  <2> QED BY <2>1, <2>2, EmptyShelf DEF Shelves, OneCopy
<1>11. CASE UNCHANGED vars
    BY <1>1, <1>11, QuietShelves DEF vars, cache
<1> QED BY <1>4, <1>5, <1>6, <1>7, <1>8, <1>9, <1>10, <1>11,
           ShelvesInCloneFile, ShelvesInAgeFiles DEF Next
-----------------------------------------------------------------------------
(* The locals of parking and cloning *)

Snaps == SoundEntries \cup {NoSnap}

Locals == snap \in Snaps /\ LocalsInv

(* Nobody parks or clones. *)
LEMMA QuietLocals ==
    ASSUME CacheInv, snap' \in {snap, NoSnap},
           pc' \notin Storing \cup {"park", "write", "copy"}
    PROVE  Locals'
BY CacheStores DEF Stores, Locals, LocalsInv, Snaps, Storing

LEMMA SnapOfLive ==
    ASSUME CacheInv, pc \notin {"miss", "rollback"}, NEW s \in Sessions
    PROVE  [id |-> s, tokens |-> tokens, state |-> cells] \in SoundEntries
BY LiveSound DEF SoundEntries, Entries

LEMMA LocalsInParking == CacheInv /\ Parking => Locals'
<1> SUFFICES ASSUME CacheInv, Parking PROVE Locals'
    OBVIOUS
<1>1. LocalsInv /\ snap \in Snaps /\ Shelves
    BY CacheStores, CacheShelves DEF CacheInv, Stores, Snaps
<1>2. CASE ParkNothing
    BY <1>2, QuietLocals DEF ParkNothing, AfterPark, Goto, Storing, storing
<1>3. CASE ParkInMemory \/ ParkOnDisk
  <2>1. pc = "park" /\ back \notin Cloning /\ active \in Sessions
    BY <1>1, <1>3 DEF ParkInMemory, ParkOnDisk, NothingToPark, LocalsInv,
                      CacheInv, TypeOK, Ids
  <2>2. active' = active /\ back' = back
    BY <1>3 DEF ParkInMemory, ParkOnDisk, cache, storing
  <2>3. CASE ParkInMemory
    <3>1. pc' = "store" /\ snap' \in SoundEntries
        BY <2>1, <2>3, SnapOfLive DEF ParkInMemory, Capture, Goto
    <3> QED BY <2>1, <2>2, <3>1
            DEF Locals, LocalsInv, Snaps, Storing, Cloning, SoundEntries
  <2>4. CASE ParkOnDisk
    <3>1. pc' = "write" /\ snap' = snap
        BY <2>4 DEF ParkOnDisk, storing, Goto
    <3> QED BY <1>1, <2>1, <2>2, <3>1 DEF Locals, LocalsInv, Storing, Cloning
  <2> QED BY <1>3, <2>3, <2>4
<1>4. CASE Store
  <2>1. /\ pc = "store" /\ snap' = snap /\ back' = back /\ active' = active
        /\ target' = target
        /\ \/ pc' = "spill"
           \/ pc' = "save" /\ parked' = Without(parked, snap.id)
    BY <1>4 DEF Store, Goto, turn
  <2>2. ~Has(Without(parked, snap.id), snap.id)
    BY <1>1, LeaveParked
  <2> QED BY <1>1, <2>1, <2>2
          DEF Locals, LocalsInv, Snaps, Storing, Cloning, InMemory
<1>5. CASE SpillOk
  <2>1. /\ pc = "spill" /\ pc' = pc /\ snap' = snap /\ back' = back
        /\ active' = active /\ target' = target
    BY <1>5 DEF SpillOk, turn
  <2> QED BY <1>1, <2>1 DEF Locals, LocalsInv, Snaps, Storing, Cloning
<1>6. CASE SpillFails
  <2> DEFINE h == Head(spilling)
             p == Inserted(parked, Entry(h))
  <2>1. /\ pc = "spill" /\ spilling # <<>> /\ parked' = Without(p, snap.id)
        /\ pc' = "save" /\ snap' = snap /\ back' = back
        /\ active' = active /\ target' = target
    BY <1>6 DEF SpillFails, AfterSpillFailure, Goto, turn
  <2>2. ParkedGood(p)
    BY <1>1, <2>1, HeadParked, EnterParked
  <2> HIDE DEF p
  <2>3. ~Has(parked', snap.id)
    BY <2>1, <2>2, HasWithout DEF ParkedGood
  <2> QED BY <1>1, <2>1, <2>3
          DEF Locals, LocalsInv, Snaps, Storing, Cloning, InMemory
<1>7. CASE KeepInMemory \/ SaveSnapOk
  <2>1. snap' = NoSnap /\ pc' \in {"idle", "restore", "flush"}
    BY <1>7 DEF KeepInMemory, SaveSnapOk, Stored, AfterPark, Return,
                ForgetLocals, Goto
  <2> QED BY <2>1, QuietLocals DEF Storing
<1>8. CASE SaveSnapFails
  <2>1. /\ pc = "save" /\ snap' = NoSnap /\ active' = active /\ parked' = parked
        /\ \/ pc' = "idle"
           \/ /\ pc' = "copy" /\ back = "clone live" /\ target' = target
           \/ /\ pc' = "write" /\ back \notin Cloning /\ back' = back
    BY <1>8 DEF SaveSnapFails, Stored, Return, ForgetLocals, Goto, cache, turn,
                Cloning
  <2>2. /\ snap.id \in Sessions /\ ~InMemory(snap.id)
        /\ back = "clone live" => snap.id = target
        /\ back \notin Cloning => active \in Sessions
    BY <1>1, <2>1, SnapSound DEF LocalsInv, Storing
  <2> QED BY <2>1, <2>2
          DEF Locals, LocalsInv, Snaps, Storing, Cloning, InMemory
<1>9. CASE WriteLive
    BY <1>9, QuietLocals DEF WriteLive, AfterPark, Goto, Storing, storing
<1> QED BY <1>2, <1>3, <1>4, <1>5, <1>6, <1>7, <1>8, <1>9 DEF Parking

LEMMA LocalsStep == CacheInv /\ [Next]_vars => Locals'
<1> SUFFICES ASSUME CacheInv, [Next]_vars PROVE Locals'
    OBVIOUS
<1>1. LocalsInv /\ snap \in Snaps /\ Stores
    BY CacheStores DEF CacheInv, Stores, Snaps
<1>2. CASE Restoring
    BY <1>2, QuietLocals
       DEF Restoring, RestoreFromMemory, MemoryRestoreFails, RestoreFromDisk,
           DiskRestoreFails, NothingParked, Miss, Goto, Storing, storing
<1>3. CASE Turning \/ AbortTurn
    BY <1>3, QuietLocals
       DEF Turning, RejectPrompt, ReusePrefix, DecodePrompt, PromptDecoded,
           SampleToken, FinishTurn, FillContext, Rollback, AbortTurn, Return,
           ForgetLocals, Goto, Storing, storing
<1>4. CASE CopyLive \/ Flushing
    BY <1>4, QuietLocals
       DEF CopyLive, Flushing, StartFlush, FlushOne, FlushDone, Return,
           ForgetLocals, Goto, Storing, storing
<1>5. CASE Worker \/ AbortTurn
    BY <1>2, <1>3, <1>4, <1>5, LocalsInParking DEF Worker
<1>6. ASSUME NEW s \in Ids, NEW p \in Prompts, Turn(s, p) PROVE Locals'
  <2>1. back' = "turn" /\ pc' \in {"checkpoint", "park"} /\ snap' = snap
    BY <1>6 DEF Turn, Goto
  <2> QED BY <1>1, <2>1 DEF Locals, LocalsInv, Storing, Cloning
<1>7. ASSUME NEW s \in Sessions, Release(s) PROVE Locals'
    BY <1>7, QuietLocals DEF Release, Storing, storing
<1>8. ASSUME NEW t \in Sessions, CloneLive(t) PROVE Locals'
  <2>1. /\ pc = "idle" /\ ~InMemory(t) /\ back' = "clone live" /\ target' = t
        /\ parked' = parked
        /\ \/ pc' = "store" /\ snap' = [id |-> t, tokens |-> tokens, state |-> cells]
           \/ pc' = "copy" /\ snap' = snap
    BY <1>8 DEF CloneLive, Fresh, Capture, Goto, cache
  <2>2. [id |-> t, tokens |-> tokens, state |-> cells] \in SoundEntries
    BY <2>1, SnapOfLive
  <2>3. CASE pc' = "store"
    <3>1. snap' = [id |-> t, tokens |-> tokens, state |-> cells]
        BY <2>1, <2>3
    <3>2. snap' \in SoundEntries
        BY <2>2, <3>1
    <3>3. snap'.id = t
        BY <3>1
    <3>4. snap' \in Entries
        BY <3>2 DEF SoundEntries
    <3> QED BY <2>1, <2>3, <3>2, <3>3, <3>4
            DEF Locals, LocalsInv, Snaps, Storing, Cloning
  <2>4. CASE pc' = "copy"
    BY <1>1, <2>1, <2>4 DEF Locals, LocalsInv, Storing, Cloning, InMemory
  <2> QED BY <2>1, <2>3, <2>4
<1>9. ASSUME NEW f \in Sessions, NEW t \in Sessions, CloneParked(f, t)
      PROVE  Locals'
  <2>1. /\ InMemory(f) /\ snap' = [Entry(f) EXCEPT !.id = t]
        /\ back' = "clone" /\ pc' = "store"
    BY <1>9 DEF CloneParked, Goto
  <2>2. snap' \in SoundEntries
    BY <1>1, <2>1, EntrySound DEF SoundEntries, Entries
  <2> QED BY <2>1, <2>2 DEF Locals, LocalsInv, Snaps, Storing, Cloning, SoundEntries
<1>10. ASSUME NEW f \in Sessions, NEW t \in Sessions, CloneFile(f, t)
       PROVE  Locals'
    BY <1>10, QuietLocals DEF CloneFile, LoseProcess, ForgetLocals, Goto, Storing, storing
<1>11. CASE Shutdown
  <2>1. back' = "shutdown" /\ pc' = "park" /\ snap' = snap
    BY <1>11 DEF Shutdown, Goto
  <2> QED BY <1>1, <2>1 DEF Locals, LocalsInv, Storing, Cloning
<1>12. CASE Kill \/ Restart \/ AgeFiles
    BY <1>12, QuietLocals
       DEF Kill, Restart, AgeFiles, LoseProcess, ForgetLocals, Goto, Storing, storing
<1>13. CASE UNCHANGED vars
    BY <1>1, <1>13 DEF vars, cache, turn, storing, Locals, LocalsInv, InMemory, Has
<1> QED BY <1>5, <1>6, <1>7, <1>8, <1>9, <1>10, <1>11, <1>12, <1>13 DEF Next
-----------------------------------------------------------------------------
(* The sessions still to be spilled or flushed *)

Spilling == spilling \in Seq(Sessions) /\ SpillInv

LEMMA QuietSpilling ==
    ASSUME CacheInv, spilling' \in {spilling, <<>>}, pc' \notin {"spill", "flushing"}
    PROVE  Spilling'
BY EmptySeq DEF CacheInv, TypeOK, Spilling, SpillInv

(* Ids of entries in RAM, once each. *)
LEMMA IdsOf ==
    ASSUME NEW es \in Seq(SoundEntries), Unique(es), NEW n \in 0..Len(es)
    PROVE  LET ids == [i \in 1..n |-> es[i].id]
           IN  /\ ids \in Seq(Sessions) /\ DOMAIN ids = 1..n
               /\ \A i \in 1..n : Has(es, ids[i])
               /\ \A i, j \in 1..n : ids[i] = ids[j] => i = j
<1> DEFINE ids == [i \in 1..n |-> es[i].id]
<1>1. Len(es) \in Nat /\ DOMAIN es = 1..Len(es) /\ n \in Nat
    BY LenProperties
<1>2. \A i \in 1..n : i \in DOMAIN es /\ es[i] \in SoundEntries
    BY <1>1, ElementOfSeq
<1>3. \A i \in 1..n : es[i].id \in Sessions
    BY <1>2 DEF SoundEntries, Entries
<1>4. ids \in [1..n -> Sessions]
    BY <1>3
<1>5. ids \in Seq(Sessions)
    BY <1>1, <1>4, SeqDef
<1>6. \A i \in 1..n : ids[i] = es[i].id
    OBVIOUS
<1>7. \A i \in 1..n : Has(es, ids[i])
    BY <1>2, <1>6 DEF Has
<1>8. \A i, j \in 1..n : ids[i] = ids[j] => i = j
    BY <1>2, <1>6 DEF Unique
<1> QED BY <1>5, <1>7, <1>8

LEMMA AdmitLemma ==
    ASSUME Shelves, Admit.keep
    PROVE  Admit.spill \in 0..Len(Without(parked, snap.id))
<1> DEFINE others == Without(parked, snap.id)
           held == Sizes(others)
<1>1. others \in Seq(SoundEntries) /\ Len(others) \in Nat
    BY LeaveParked, LenProperties DEF ParkedGood
<1>2. Len(held) = Len(others)
    BY <1>1, LenProperties DEF Sizes
<1> HIDE DEF others, held
<1>3. Admit = PlanMemoryAdmit(held, ParkedBytes(snap), MemoryLimit)
    BY DEF Admit, held, others
<1> DEFINE incoming == ParkedBytes(snap)
           drop == DropCount(held, SumOf(held), MemoryLimit - incoming)
<1>4. drop \in 0..Len(others)
    BY <1>1, <1>2, DropCountLemma
<1> HIDE DEF incoming, drop
<1>5. Admit.spill = drop
  <2>1. ~(MemoryLimit = 0 \/ incoming = 0 \/ incoming > MemoryLimit)
    BY <1>3 DEF PlanMemoryAdmit, incoming
  <2> QED BY <1>3, <2>1 DEF PlanMemoryAdmit, incoming, drop
<1> QED BY <1>4, <1>5 DEF others

(* The head is done with, whatever is left stays where it is. *)
LEMMA TailLemma ==
    ASSUME CacheInv, pc \in {"spill", "flushing"}, spilling # <<>>
    PROVE  /\ Tail(spilling) \in Seq(Sessions)
           /\ \A i \in DOMAIN Tail(spilling) :
                  /\ InMemory(Tail(spilling)[i])
                  /\ Tail(spilling)[i] # Head(spilling)
                  /\ pc = "spill" => Tail(spilling)[i] # snap.id
           /\ \A i, j \in DOMAIN Tail(spilling) :
                  Tail(spilling)[i] = Tail(spilling)[j] => i = j
<1> DEFINE t == Tail(spilling)
<1>1. spilling \in Seq(Sessions) /\ SpillInv
    BY DEF CacheInv, TypeOK
<1>2. /\ Len(spilling) \in Nat \ {0} /\ DOMAIN spilling = 1..Len(spilling)
      /\ Head(spilling) = spilling[1]
    BY <1>1, HeadParked, LenProperties
<1>3. /\ t \in Seq(Sessions) /\ Len(t) = Len(spilling) - 1
      /\ \A i \in 1..Len(t) : t[i] = spilling[i + 1]
    BY <1>1, HeadTailProperties
<1>4. DOMAIN t = 1..(Len(spilling) - 1)
    BY <1>3, LenProperties
<1> HIDE DEF t
<1>5. \A i \in DOMAIN t : i + 1 \in DOMAIN spilling /\ i + 1 # 1 /\ t[i] = spilling[i + 1]
    BY <1>2, <1>3, <1>4
<1>6. \A i \in DOMAIN t : /\ InMemory(t[i]) /\ t[i] # Head(spilling)
                          /\ pc = "spill" => t[i] # snap.id
    BY <1>1, <1>2, <1>5 DEF SpillInv
<1>7. \A i, j \in DOMAIN t : t[i] = t[j] => i = j
  <2>1. \A i, j \in DOMAIN t : spilling[i + 1] = spilling[j + 1] => i + 1 = j + 1
    BY <1>1, <1>5 DEF SpillInv
  <2> QED BY <2>1, <1>4, <1>5
<1> QED BY <1>3, <1>6, <1>7 DEF t

LEMMA SpillingInParking == CacheInv /\ Parking => Spilling'
<1> SUFFICES ASSUME CacheInv, Parking PROVE Spilling'
    OBVIOUS
<1>1. Shelves
    BY CacheShelves
<1>2. CASE ParkNothing \/ ParkInMemory \/ ParkOnDisk \/ WriteLive
    BY <1>2, QuietSpilling
       DEF ParkNothing, ParkInMemory, ParkOnDisk, WriteLive, AfterPark, Goto, storing
<1>3. CASE Store
  <2> DEFINE others == Without(parked, snap.id)
  <2>1. CASE Admit.keep
    <3>1. /\ others \in Seq(SoundEntries) /\ Unique(others)
          /\ \A x : Has(others, x) <=> Has(parked, x) /\ x # snap.id
        BY <1>1, LeaveParked DEF ParkedGood
    <3>2. /\ spilling' = [i \in 1..Admit.spill |-> others[i].id]
          /\ pc' = "spill" /\ snap' = snap /\ parked' = parked
        BY <1>3, <2>1 DEF Store, SpilledIds, Goto
    <3>3. Admit.spill \in 0..Len(others)
        BY <1>1, <2>1, AdmitLemma
    <3> HIDE DEF others
    <3>4. /\ spilling' \in Seq(Sessions) /\ DOMAIN spilling' = 1..Admit.spill
          /\ \A i \in DOMAIN spilling' : Has(others, spilling'[i])
          /\ \A i, j \in DOMAIN spilling' : spilling'[i] = spilling'[j] => i = j
        BY <3>1, <3>2, <3>3, IdsOf
    <3> QED BY <3>1, <3>2, <3>4 DEF Spilling, SpillInv, InMemory
  <2>2. CASE ~Admit.keep
    BY <1>3, <2>2, QuietSpilling DEF Store, Goto
  <2> QED BY <2>1, <2>2
<1>4. CASE SpillOk
  <2>1. /\ pc = "spill" /\ pc' = pc /\ spilling # <<>> /\ snap' = snap
        /\ parked' = Without(parked, Head(spilling)) /\ spilling' = Tail(spilling)
    BY <1>4 DEF SpillOk
  <2>2. \A x : Has(parked', x) <=> Has(parked, x) /\ x # Head(spilling)
    BY <1>1, <2>1, LeaveParked
  <2> QED BY <2>1, <2>2, TailLemma DEF Spilling, SpillInv, InMemory
<1>5. CASE SpillFails
    BY <1>5, QuietSpilling DEF SpillFails, Goto
<1>6. CASE KeepInMemory \/ SaveSnapOk \/ SaveSnapFails
  <2>1. spilling' \in {spilling, <<>>} /\ pc' \notin {"spill", "flushing"}
    BY <1>6 DEF KeepInMemory, SaveSnapOk, SaveSnapFails, Stored, AfterPark, Return,
                ForgetLocals, Goto
  <2> QED BY <2>1, QuietSpilling
<1> QED BY <1>2, <1>3, <1>4, <1>5, <1>6 DEF Parking

LEMMA SpillingInFlushing == CacheInv /\ Flushing => Spilling'
<1> SUFFICES ASSUME CacheInv, Flushing PROVE Spilling'
    OBVIOUS
<1>1. Shelves
    BY CacheShelves
<1>2. CASE StartFlush
  <2>1. /\ parked \in Seq(SoundEntries) /\ Unique(parked)
        /\ Len(parked) \in Nat /\ DOMAIN parked = 1..Len(parked)
    BY <1>1, LenProperties DEF Shelves, ParkedGood
  <2>2. /\ spilling' = [i \in 1..Len(parked) |-> parked[i].id]
        /\ pc' = "flushing" /\ parked' = parked
    BY <1>2, <2>1 DEF StartFlush, Goto, cache
  <2>3. Len(parked) \in 0..Len(parked)
    BY <2>1
  <2>4. /\ spilling' \in Seq(Sessions) /\ DOMAIN spilling' = 1..Len(parked)
        /\ \A i \in DOMAIN spilling' : Has(parked, spilling'[i])
        /\ \A i, j \in DOMAIN spilling' : spilling'[i] = spilling'[j] => i = j
    BY <2>1, <2>2, <2>3, IdsOf
  <2> QED BY <2>2, <2>4 DEF Spilling, SpillInv, InMemory
<1>3. CASE FlushOne
  <2> DEFINE h == Head(spilling)
  <2>1. /\ pc = "flushing" /\ pc' = pc /\ spilling # <<>> /\ spilling' = Tail(spilling)
        /\ \/ parked' = Without(parked, Entry(h).id)
           \/ parked' = Inserted(parked, Entry(h))
    BY <1>3 DEF FlushOne
  <2>2. Entry(h) \in SoundEntries /\ Entry(h).id = h
    BY <2>1, HeadParked
  <2>3. \A x : Has(parked, x) /\ x # h => Has(parked', x)
    BY <1>1, <2>1, <2>2, LeaveParked, EnterParked
  <2> QED BY <2>1, <2>3, TailLemma DEF Spilling, SpillInv, InMemory
<1>4. CASE FlushDone
    BY <1>4, QuietSpilling DEF FlushDone, Goto, storing
<1> QED BY <1>2, <1>3, <1>4 DEF Flushing

LEMMA SpillingStep == CacheInv /\ [Next]_vars => Spilling'
<1> SUFFICES ASSUME CacheInv, [Next]_vars PROVE Spilling'
    OBVIOUS
<1>1. CASE Restoring \/ CopyLive
    BY <1>1, QuietSpilling
       DEF Restoring, RestoreFromMemory, MemoryRestoreFails, RestoreFromDisk,
           DiskRestoreFails, NothingParked, Miss, CopyLive, Return, ForgetLocals,
           Goto, storing
<1>2. CASE Turning \/ AbortTurn
    BY <1>2, QuietSpilling
       DEF Turning, RejectPrompt, ReusePrefix, DecodePrompt, PromptDecoded,
           SampleToken, FinishTurn, FillContext, Rollback, AbortTurn, Return,
           ForgetLocals, Goto, storing
<1>3. CASE Worker \/ AbortTurn
    BY <1>1, <1>2, <1>3, SpillingInParking, SpillingInFlushing DEF Worker
<1>4. CASE \E s \in Ids, p \in Prompts : Turn(s, p)
    BY <1>4, QuietSpilling DEF Turn, Goto
<1>5. CASE \E s \in Sessions : Release(s) \/ CloneLive(s)
    BY <1>5, QuietSpilling DEF Release, CloneLive, Goto, storing
<1>6. CASE \E f, t \in Sessions : CloneParked(f, t) \/ CloneFile(f, t)
    BY <1>6, QuietSpilling
       DEF CloneParked, CloneFile, LoseProcess, ForgetLocals, Goto, storing
<1>7. CASE Shutdown \/ Kill \/ Restart \/ AgeFiles
    BY <1>7, QuietSpilling
       DEF Shutdown, Kill, Restart, AgeFiles, LoseProcess, ForgetLocals, Goto, storing
<1>8. CASE UNCHANGED vars
    BY <1>8 DEF CacheInv, TypeOK, vars, cache, storing, Spilling, SpillInv,
                InMemory, Has
<1> QED BY <1>3, <1>4, <1>5, <1>6, <1>7, <1>8 DEF Next
-----------------------------------------------------------------------------
(* Where the call is, and what follows from the invariant *)

Scalars ==
    /\ pc \in Points /\ active \in Ids /\ target \in Ids
    /\ back \in {"none", "turn", "clone", "clone live", "shutdown"}
    /\ prompt \in Prompts \cup {<<>>} /\ ckpt \in Nat /\ offset \in Nat

(* A call that is over, and a process that is, leave no locals. *)
LEMMA ForgottenScalars ==
    ASSUME ForgetLocals, pc' \in Points, active' \in Ids
    PROVE  Scalars'
BY DEF ForgetLocals, Scalars, Ids

LEMMA LostScalars ==
    ASSUME LoseProcess, pc' \in Points
    PROVE  Scalars'
BY ForgottenScalars DEF LoseProcess, Ids

LEMMA ScalarsInParking == Scalars /\ Parking => Scalars'
<1> SUFFICES ASSUME Scalars, Parking PROVE Scalars'
    OBVIOUS
<1>1. CASE \/ ParkNothing \/ ParkInMemory \/ ParkOnDisk \/ Store \/ SpillOk
           \/ SpillFails \/ WriteLive
  <2>1. /\ UNCHANGED <<active, target, back, prompt, ckpt, offset>>
        /\ pc' \in Points
    BY <1>1 DEF ParkNothing, ParkInMemory, ParkOnDisk, Store, SpillOk, SpillFails,
                WriteLive, AfterPark, Goto, Scalars, Points, cache, turn, storing
  <2> QED BY <2>1 DEF Scalars
<1>2. CASE KeepInMemory \/ SaveSnapOk \/ SaveSnapFails
  <2>1. /\ active' = active /\ pc' \in Points
        /\ ForgetLocals \/ UNCHANGED <<target, back, prompt, ckpt, offset>>
    BY <1>2 DEF KeepInMemory, SaveSnapOk, SaveSnapFails, Stored, AfterPark, Return,
                Goto, Points, cache, turn
  <2> QED BY <2>1, ForgottenScalars DEF Scalars
<1> QED BY <1>1, <1>2 DEF Parking

LEMMA ScalarsInTurning ==
    CacheInv /\ Scalars /\ (Turning \/ AbortTurn) => Scalars'
<1> SUFFICES ASSUME CacheInv, Scalars, Turning \/ AbortTurn PROVE Scalars'
    OBVIOUS
<1>1. Context /\ prompt \in Texts
    BY CacheContext, PromptType
<1>2. CASE RejectPrompt \/ FinishTurn \/ Rollback
  <2>1. ForgetLocals /\ pc' \in Points /\ active' = active
    BY <1>2 DEF RejectPrompt, FinishTurn, Rollback, Return, Goto, Points, cache
  <2> QED BY <2>1, ForgottenScalars DEF Scalars
<1>3. CASE ReusePrefix
  <2>1. PICK o \in TrimOutcomes(Checkpoint) : ckpt' = Reused(o) /\ offset' = Reused(o)
    BY <1>3 DEF ReusePrefix
  <2>2. Reused(o) \in Nat
    BY <1>1, CheckpointType, LenProperties DEF Reused, Context, Texts
  <2>3. UNCHANGED <<active, target, back, prompt>> /\ pc' \in Points
    BY <1>3 DEF ReusePrefix, Goto, Points, storing
  <2> QED BY <2>1, <2>2, <2>3 DEF Scalars
<1>4. CASE DecodePrompt
  <2>1. /\ UNCHANGED <<active, target, back, prompt, ckpt>>
        /\ pc = "decode" /\ pc' \in {"decode", "rollback"}
        /\ offset' \in {offset, offset + Len(Batch)}
    BY <1>4 DEF DecodePrompt, Goto, storing
  <2>2. offset <= Len(prompt)
    BY <2>1 DEF CacheInv, TurnInv
  <2>3. Len(Batch) \in Nat
    BY <1>1, <2>2, BatchLemma DEF Scalars
  <2>4. offset' \in Nat
    <3> DEFINE k == Len(Batch)
    <3>1. offset \in Nat /\ k \in Nat /\ offset' \in {offset, offset + k}
        BY <2>1, <2>3 DEF Scalars
    <3> HIDE DEF k
    <3> QED BY <3>1
  <2>5. pc' \in Points
    BY <2>1 DEF Points
  <2> QED BY <2>1, <2>4, <2>5 DEF Scalars
<1>5. CASE PromptDecoded \/ SampleToken \/ FillContext \/ AbortTurn
  <2>1. /\ UNCHANGED <<active, target, back, prompt, ckpt, offset>>
        /\ pc' \in Points
    BY <1>5 DEF PromptDecoded, SampleToken, FillContext, AbortTurn, Goto, Points,
                Scalars, cache, turn, storing
  <2> QED BY <2>1 DEF Scalars
<1> QED BY <1>2, <1>3, <1>4, <1>5 DEF Turning

LEMMA ScalarsStep == CacheInv /\ [Next]_vars => Scalars'
<1> SUFFICES ASSUME CacheInv, [Next]_vars PROVE Scalars'
    OBVIOUS
<1>1. Scalars
    BY DEF CacheInv, TypeOK, Scalars
<1>2. CASE Restoring
  <2>1. /\ UNCHANGED <<target, back, prompt, ckpt, offset>>
        /\ active' \in {active, target} /\ pc' \in Points
    BY <1>2 DEF Restoring, RestoreFromMemory, MemoryRestoreFails, RestoreFromDisk,
                DiskRestoreFails, NothingParked, Miss, Goto, Points, turn, storing
  <2> QED BY <1>1, <2>1 DEF Scalars
<1>3. CASE CopyLive
  <2>1. ForgetLocals /\ pc' \in Points /\ active' = active
    BY <1>3 DEF CopyLive, Return, Goto, Points, cache
  <2> QED BY <1>1, <2>1, ForgottenScalars DEF Scalars
<1>4. CASE Flushing
  <2>1. /\ UNCHANGED <<active, target, back, prompt, ckpt, offset>>
        /\ pc' \in Points
    BY <1>1, <1>4 DEF Flushing, StartFlush, FlushOne, FlushDone, Goto, Points,
                Scalars, cache, turn, storing
  <2> QED BY <1>1, <2>1 DEF Scalars
<1>5. CASE Worker \/ AbortTurn
    BY <1>1, <1>2, <1>3, <1>4, <1>5, ScalarsInParking, ScalarsInTurning DEF Worker
<1>6. ASSUME NEW s \in Ids, NEW p \in Prompts, Turn(s, p) PROVE Scalars'
    BY <1>1, <1>6 DEF Turn, Goto, Points, Scalars, cache
<1>7. ASSUME NEW s \in Sessions, Release(s) \/ CloneLive(s) PROVE Scalars'
    BY <1>1, <1>7 DEF Release, CloneLive, Goto, Points, Scalars, Ids, cache, turn,
                      storing
<1>8. ASSUME NEW f \in Sessions, NEW t \in Sessions, CloneParked(f, t)
      PROVE  Scalars'
    BY <1>1, <1>8 DEF CloneParked, Goto, Points, Scalars, cache, turn
<1>9. ASSUME NEW f \in Sessions, NEW t \in Sessions, CloneFile(f, t)
      PROVE  Scalars'
  <2>1. \/ LoseProcess /\ pc' \in Points
        \/ UNCHANGED <<cache, pc, turn, storing>>
    BY <1>9 DEF CloneFile, Goto, Points
  <2> QED BY <1>1, <2>1, LostScalars DEF Scalars, cache, turn, storing
<1>10. CASE Shutdown
    BY <1>1, <1>10 DEF Shutdown, Goto, Points, Scalars, cache, turn
<1>11. CASE Kill \/ Restart
  <2>1. LoseProcess /\ pc' \in Points
    BY <1>11 DEF Kill, Restart, Goto, Points
  <2> QED BY <2>1, LostScalars
<1>12. CASE AgeFiles \/ UNCHANGED vars
  <2>1. UNCHANGED <<cache, pc, turn, storing>>
    BY <1>12 DEF AgeFiles, vars
  <2> QED BY <1>1, <2>1 DEF Scalars, cache, turn, storing
<1> QED BY <1>5, <1>6, <1>7, <1>8, <1>9, <1>10, <1>11, <1>12 DEF Next
-----------------------------------------------------------------------------
(* The parts make up the invariant. *)
LEMMA PartsMakeInv ==
    Context /\ TurnInv /\ Shelves /\ Locals /\ Spilling /\ Scalars => CacheInv
<1> SUFFICES ASSUME Context, TurnInv, Shelves, Locals, Spilling, Scalars
             PROVE  CacheInv
    OBVIOUS
<1>1. /\ parked \in Seq(SoundEntries) /\ DOMAIN parked = 1..Len(parked)
      /\ files \in Seq(SoundFiles) /\ DOMAIN files = 1..Len(files)
    BY LenProperties DEF Shelves, ParkedGood, FilesGood
<1>2. \A i \in 1..Len(parked) : parked[i] \in SoundEntries
    BY <1>1, ElementOfSeq
<1>3. \A i \in 1..Len(files) : files[i] \in SoundFiles
    BY <1>1, ElementOfSeq
<1>4. parked \in Seq(Entries) /\ files \in Seq(FileEntries)
  <2>1. parked \in Seq(Entries)
    BY <1>1, <1>2, SeqTyped DEF SoundEntries
  <2>2. files \in Seq(FileEntries)
    BY <1>1, <1>3, SeqTyped DEF SoundFiles
  <2> QED BY <2>1, <2>2
<1>5. snap \in Entries \cup {NoSnap}
    BY DEF Locals, Snaps, SoundEntries
<1>6. tail \in Nat
    BY LenProperties DEF Context, Texts
<1>7. TypeOK
    BY <1>4, <1>5, <1>6 DEF TypeOK, Context, Spilling, Scalars
<1>8. snap.state = snap.tokens /\ Len(snap.state) <= MaxCtx
  <2>1. CASE snap \in SoundEntries
    BY <2>1 DEF SoundEntries
  <2>2. CASE snap = NoSnap
    BY <2>2, KvAssumption, EmptySeq DEF NoSnap
  <2> QED BY <2>1, <2>2 DEF Locals, Snaps
<1>9. ParkedInv
    BY <1>1, <1>2, <1>3, <1>8
       DEF ParkedInv, ParkedMatchesState, SoundEntries, SoundFiles
<1>10. SizeInv
    BY <1>1, <1>2, <1>3, <1>8
       DEF SizeInv, ContextFits, Context, SoundEntries, SoundFiles
<1>11. OneParkedCopy
    BY DEF Shelves, OneCopy, OneParkedCopy, HasFile, Has
<1>12. MirrorInv
    BY DEF Context, MirrorInv, CacheMirrorsContext
<1> QED BY <1>7, <1>9, <1>10, <1>11, <1>12
        DEF CacheInv, UniqueInv, Shelves, ParkedGood, FilesGood, Locals, Spilling

LEMMA InitInv == Init => CacheInv
<1> SUFFICES ASSUME Init PROVE CacheInv
    OBVIOUS
<1>1. <<>> \in Texts /\ Len(<<>>) = 0 /\ 0 <= MaxCtx
    BY EmptySeq, KvAssumption DEF Texts
<1>2. Context
    BY <1>1, PrefixSelf DEF Init, Context
<1>3. Shelves
    BY EmptyStore DEF Init, Shelves, ParkedGood, FilesGood, OneCopy
<1>4. TurnInv /\ Locals
    BY DEF Init, TurnInv, Locals, LocalsInv, Snaps, Storing
<1>5. Spilling
    BY EmptySeq DEF Init, Spilling, SpillInv
<1>6. Scalars
    BY DEF Init, Scalars, Points, Ids
<1> QED BY <1>2, <1>3, <1>4, <1>5, <1>6, PartsMakeInv

LEMMA NextInv == CacheInv /\ [Next]_vars => CacheInv'
<1> SUFFICES ASSUME CacheInv, [Next]_vars PROVE CacheInv'
    OBVIOUS
<1>1. Context' /\ TurnInv' /\ Shelves'
    BY ContextStep, TurnStep, ShelvesStep
<1>2. Locals' /\ Spilling' /\ Scalars'
    BY LocalsStep, SpillingStep, ScalarsStep
<1>3. (Context /\ TurnInv /\ Shelves /\ Locals /\ Spilling /\ Scalars => CacheInv)'
    BY PartsMakeInv, PTL
<1> QED BY <1>1, <1>2, <1>3

(* The mirror of the context, the parked copies and the locals of the       *)
(* worker are what CacheInv says, the points where the mirror is broken     *)
(* included.                                                                *)
THEOREM CacheInvariant == Spec => []CacheInv
BY InitInv, NextInv, PTL DEF Spec

(* The variables keep their types. *)
THEOREM CacheTypes == Spec => []TypeOK
<1>1. CacheInv => TypeOK
    BY DEF CacheInv
<1> QED BY <1>1, CacheInvariant, PTL

(* active_tokens_ is what the context holds wherever the engine relies on   *)
(* it, whichever decode, trim or restore fails.                             *)
THEOREM MirrorIsTrue == Spec => []CacheMirrorsContext
<1>1. CacheInv => CacheMirrorsContext
    BY DEF CacheInv, MirrorInv
<1> QED BY <1>1, CacheInvariant, PTL

(* generate samples with the whole prompt in the context.                   *)
THEOREM SampledOnPrompt == Spec => []TurnSeesPrompt
<1>1. CacheInv => TurnSeesPrompt
    BY DEF CacheInv, MirrorInv, CacheMirrorsContext, TurnInv, TurnSeesPrompt
<1> QED BY <1>1, CacheInvariant, PTL

(* What is parked in RAM or in a whole file is the state after its tokens.  *)
THEOREM ParkedIsSound == Spec => []ParkedMatchesState
<1>1. CacheInv => ParkedMatchesState
    BY DEF CacheInv, ParkedInv
<1> QED BY <1>1, CacheInvariant, PTL

(* A session in RAM has no file, so unpark_session never hides one.         *)
THEOREM ParkedOnce == Spec => []OneParkedCopy
<1>1. CacheInv => OneParkedCopy
    BY DEF CacheInv
<1> QED BY <1>1, CacheInvariant, PTL

(* Neither decodes nor restores fill the context beyond its size.           *)
THEOREM FitsContext == Spec => []ContextFits
<1>1. CacheInv => ContextFits
    BY DEF CacheInv, SizeInv
<1> QED BY <1>1, CacheInvariant, PTL
-----------------------------------------------------------------------------
(* Where a turn starts to decode, and where it goes back. *)
LEMMA OnlyTurning ==
    ASSUME [Next]_vars, pc \in {"checkpoint", "rollback"}, pc' \in {"decode", "idle"}
    PROVE  Turning
<1>1. ~(Parking \/ Restoring \/ CopyLive \/ Flushing \/ AbortTurn)
    BY DEF Parking, ParkNothing, ParkInMemory, ParkOnDisk, Store, SpillOk, SpillFails,
           KeepInMemory, SaveSnapOk, SaveSnapFails, WriteLive, Restoring,
           RestoreFromMemory, MemoryRestoreFails, RestoreFromDisk, DiskRestoreFails,
           NothingParked, Miss, CopyLive, Flushing, StartFlush, FlushOne, FlushDone,
           AbortTurn
<1>2. ~(\/ \E s \in Ids, p \in Prompts : Turn(s, p)
        \/ \E s \in Sessions : Release(s) \/ CloneLive(s)
        \/ \E f, t \in Sessions : CloneParked(f, t) \/ CloneFile(f, t)
        \/ Shutdown \/ Kill \/ Restart \/ AgeFiles)
    BY DEF Turn, Release, CloneLive, CloneParked, CloneFile, Shutdown, Kill, Restart,
           AgeFiles, Goto
<1> QED BY <1>1, <1>2 DEF Next, Worker, vars

LEMMA OnlyReusePrefix ==
    ASSUME [Next]_vars, pc = "checkpoint", pc' = "decode"
    PROVE  ReusePrefix
BY OnlyTurning DEF Turning, RejectPrompt, DecodePrompt, PromptDecoded, SampleToken,
                   FinishTurn, FillContext, Rollback, Return, Goto

LEMMA OnlyRollback ==
    ASSUME [Next]_vars, pc = "rollback", pc' = "idle"
    PROVE  Rollback
BY OnlyTurning DEF Turning, RejectPrompt, ReusePrefix, DecodePrompt, PromptDecoded,
                   SampleToken, FinishTurn, FillContext

LEMMA StartsFromPrefix ==
    ASSUME CacheInv, ReusePrefix
    PROVE  IsPrefix(Prefix(prompt, ckpt)', tokens)
<1>1. Context /\ prompt \in Texts /\ tokens \in Texts
    BY CacheContext, PromptType DEF Context
<1>2. PICK o \in TrimOutcomes(Checkpoint) : ckpt' = Reused(o)
    BY DEF ReusePrefix
<1>3. prompt' = prompt
    BY DEF ReusePrefix
<1>4. CASE o.kept
  <2>1. ckpt' = Checkpoint
    BY <1>2, <1>4 DEF Reused
  <2>2. /\ Checkpoint \in 0..Len(tokens)
        /\ Prefix(prompt, Checkpoint) = Prefix(tokens, Checkpoint)
    BY <1>1, CheckpointType
  <2>3. IsPrefix(Prefix(tokens, Checkpoint), tokens)
    BY <1>1, <2>2, IsPrefixLemma DEF Texts
  <2> QED BY <1>3, <2>1, <2>2, <2>3
<1>5. CASE ~o.kept
  <2>1. ckpt' = 0
    BY <1>2, <1>5 DEF Reused
  <2>2. Prefix(prompt, 0) = <<>>
    BY SubSeqEmpty DEF Prefix
  <2>3. IsPrefix(<<>>, tokens)
    BY <1>1, PrefixSelf
  <2> QED BY <1>3, <2>1, <2>2, <2>3
<1> QED BY <1>4, <1>5

LEMMA GoesBackToPrefix ==
    ASSUME CacheInv, Rollback
    PROVE  IsPrefix(tokens', Prefix(prompt, ckpt))
<1>1. Context /\ prompt \in Texts /\ tokens \in Texts
    BY CacheContext, PromptType DEF Context
<1>2. /\ ckpt \in Nat /\ ckpt <= Len(prompt) /\ ckpt <= Len(tokens)
      /\ Prefix(prompt, ckpt) = Prefix(tokens, ckpt)
    BY DEF CacheInv, TypeOK, TurnInv, Rollback
<1>3. PICK o \in TrimOutcomes(ckpt) : SetTo(o)
    BY DEF Rollback, RollbackPoint
<1>4. Len(tokens) \in Nat /\ Len(prompt) \in Nat
    BY <1>1, LenProperties DEF Texts
<1>5. ckpt \in 0..Len(prompt)
    BY <1>2, <1>4
<1>6. Prefix(prompt, ckpt) \in Texts
    BY <1>1, <1>5, PrefixLemma DEF Texts
<1>7. tokens' = Prefix(tokens, ckpt) \/ tokens' = <<>>
  <2>1. (IF ckpt > Len(tokens) THEN Len(tokens) ELSE ckpt) = ckpt
    BY <1>2, <1>4
  <2> QED BY <1>1, <1>2, <1>3, <2>1, TrimContext
<1> QED BY <1>2, <1>6, <1>7, PrefixSelf

(* A turn that is stopped or fails leaves a prefix of what was cached       *)
(* before it: trim_kv_to goes back to the checkpoint, or to nothing.        *)
THEOREM FailureLeavesPrefix == Spec => FailedTurnLeavesPrefix
<1> DEFINE kept == Prefix(prompt, ckpt)
           A == /\ pc = "checkpoint" /\ pc' = "decode" => IsPrefix(kept', tokens)
                /\ pc = "rollback" /\ pc' = "idle" => IsPrefix(tokens', kept)
<1>1. CacheInv /\ [Next]_vars => [A]_vars
    BY OnlyReusePrefix, OnlyRollback, StartsFromPrefix, GoesBackToPrefix
<1> HIDE DEF A
<1>2. Spec => [][A]_vars
    BY <1>1, CacheInvariant, PTL DEF Spec
<1> QED BY <1>2 DEF FailedTurnLeavesPrefix, A
=============================================================================
