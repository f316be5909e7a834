------------------------------ MODULE KvParking -----------------------------
(* What parking keeps within bounds and what a shutdown leaves: RAM holds   *)
(* no more than its budget, the oldest files go first, and a shutdown       *)
(* without failures puts every session in a file.                           *)
EXTENDS KvOrigins

(* What the parked sessions take together.                                  *)
Room(es) == Exact(Sizes(es))

LEMMA ParkedBytesType == ASSUME NEW e \in SoundEntries PROVE ParkedBytes(e) \in Nat
<1>1. e.state \in Seq(Vocabulary) /\ e.tokens \in Seq(Vocabulary)
    BY DEF SoundEntries, Entries, Texts
<1> DEFINE m == Len(e.state)
           n == Len(e.tokens)
<1>2. m \in Nat /\ n \in Nat
    BY <1>1, LenProperties
<1>3. ParkedBytes(e) = m + n
    BY DEF ParkedBytes
<1> HIDE DEF m, n
<1> QED BY <1>2, <1>3

LEMMA SizesLemma ==
    ASSUME NEW es \in Seq(SoundEntries)
    PROVE  /\ Sizes(es) \in Seq(Nat) /\ Len(Sizes(es)) = Len(es)
           /\ Len(es) \in Nat /\ DOMAIN es = 1..Len(es)
           /\ \A i \in 1..Len(es) : /\ Sizes(es)[i] = ParkedBytes(es[i])
                                    /\ ParkedBytes(es[i]) \in Nat
<1>1. Len(es) \in Nat /\ DOMAIN es = 1..Len(es)
    BY LenProperties
<1>2. \A i \in 1..Len(es) : ParkedBytes(es[i]) \in Nat
    BY ElementOfSeq, ParkedBytesType
<1>3. Sizes(es) = [i \in 1..Len(es) |-> ParkedBytes(es[i])]
    BY <1>1 DEF Sizes
<1>4. Sizes(es) \in [1..Len(es) -> Nat]
    BY <1>2, <1>3
<1>5. Sizes(es) \in Seq(Nat)
    BY <1>1, <1>4, SeqDef
<1>6. Len(Sizes(es)) = Len(es)
    BY <1>1, <1>3, <1>5, LenProperties
<1> QED BY <1>1, <1>2, <1>3, <1>5, <1>6

LEMMA RoomType ==
    ASSUME NEW es \in Seq(SoundEntries)
    PROVE  Room(es) \in Nat
<1>1. Sizes(es) \in Seq(Nat) /\ 0 \in 0..Len(Sizes(es))
    BY SizesLemma
<1> QED BY <1>1, SumsGrow DEF Room

(* An entry takes what is found under its id. *)
LEMMA TakesAt ==
    ASSUME NEW es, ParkedGood(es), NEW i \in DOMAIN es
    PROVE  Takes(es, es[i].id) = ParkedBytes(es[i])
<1>1. Has(es, es[i].id)
    BY DEF Has
<1>2. IndexOf(es, es[i].id) \in DOMAIN es /\ es[IndexOf(es, es[i].id)].id = es[i].id
    BY <1>1 DEF Has, IndexOf
<1>3. IndexOf(es, es[i].id) = i
    BY <1>2 DEF ParkedGood, Unique
<1> QED BY <1>1, <1>3 DEF Takes

(* take gives back what the entry took. *)
LEMMA RoomWithout ==
    ASSUME NEW es, ParkedGood(es), NEW s
    PROVE  /\ Room(Without(es, s)) = Room(es) - Takes(es, s)
           /\ Room(Without(es, s)) \in Nat /\ Room(es) \in Nat /\ Takes(es, s) \in Nat
           /\ ParkedGood(Without(es, s))
<1> DEFINE w == Without(es, s)
           k == IndexOf(es, s)
<1>1. es \in Seq(SoundEntries) /\ w \in Seq(SoundEntries) /\ ParkedGood(w)
    BY WithoutLemma DEF ParkedGood
<1>2. Room(es) \in Nat /\ Room(w) \in Nat
    BY <1>1, RoomType
<1>3. CASE ~Has(es, s)
    BY <1>1, <1>2, <1>3 DEF Without, Takes
<1>4. CASE Has(es, s)
  <2>1. /\ k \in 1..Len(es) /\ Len(w) = Len(es) - 1 /\ Len(es) \in Nat
        /\ \A i \in 1..(Len(es) - 1) : w[i] = IF i < k THEN es[i] ELSE es[i + 1]
    BY <1>1, <1>4, ErasedLemma
  <2>2. /\ Sizes(w) \in Seq(Nat) /\ Sizes(es) \in Seq(Nat)
        /\ Len(Sizes(w)) = Len(Sizes(es)) - 1 /\ Len(Sizes(es)) = Len(es)
        /\ \A i \in 1..Len(es) : /\ Sizes(es)[i] = ParkedBytes(es[i])
                                 /\ ParkedBytes(es[i]) \in Nat
        /\ \A i \in 1..(Len(es) - 1) : Sizes(w)[i] = ParkedBytes(w[i])
    BY <1>1, <2>1, SizesLemma
  <2> HIDE DEF w, k
  <2>3. ASSUME NEW i \in 1..(Len(Sizes(es)) - 1)
        PROVE  Sizes(w)[i] = IF i < k THEN Sizes(es)[i] ELSE Sizes(es)[i + 1]
    <3>1. i \in 1..Len(es) /\ i + 1 \in 1..Len(es) /\ i \in 1..(Len(es) - 1)
        BY <2>1, <2>2
    <3> QED BY <2>1, <2>2, <3>1
  <2>4. k \in 1..Len(Sizes(es))
    BY <2>1, <2>2
  <2>5. Exact(Sizes(w)) = Exact(Sizes(es)) - Sizes(es)[k]
    BY <2>2, <2>3, <2>4, SumOfErased
  <2>6. Takes(es, s) = Sizes(es)[k] /\ Takes(es, s) \in Nat
    BY <1>4, <2>1, <2>2 DEF Takes, k
  <2> QED BY <1>1, <1>2, <2>5, <2>6 DEF Room, w
<1> QED BY <1>3, <1>4

(* insert gives back what the entry of the same id took, and takes its own. *)
LEMMA RoomInserted ==
    ASSUME NEW es, ParkedGood(es), NEW e \in SoundEntries
    PROVE  /\ Room(Inserted(es, e)) = Room(es) - Takes(es, e.id) + ParkedBytes(e)
           /\ ParkedBytes(e) \in Nat
           /\ ParkedGood(Inserted(es, e))
<1> DEFINE w == Without(es, e.id)
           a == Inserted(es, e)
<1>1. /\ w \in Seq(SoundEntries) /\ a \in Seq(SoundEntries) /\ ParkedGood(a)
      /\ Room(w) = Room(es) - Takes(es, e.id)
    BY RoomWithout, InsertedLemma DEF ParkedGood
<1>2. a = Append(w, e)
    BY DEF Inserted
<1>3. /\ Len(a) = Len(w) + 1 /\ Len(w) \in Nat
      /\ \A i \in 1..Len(w) : a[i] = w[i]
      /\ a[Len(w) + 1] = e
    BY <1>1, <1>2, AppendProperties, LenProperties
<1> HIDE DEF a, w
<1>4. ParkedBytes(e) \in Nat
    BY ParkedBytesType
<1>5. /\ Sizes(w) \in Seq(Nat) /\ Len(Sizes(w)) = Len(w)
      /\ Sizes(a) \in Seq(Nat) /\ Len(Sizes(a)) = Len(a)
      /\ \A i \in 1..Len(w) : Sizes(w)[i] = ParkedBytes(w[i])
      /\ \A i \in 1..Len(a) : Sizes(a)[i] = ParkedBytes(a[i])
    BY <1>1, SizesLemma
<1>6. Sizes(a) = Append(Sizes(w), ParkedBytes(e))
  <2> DEFINE z == Append(Sizes(w), ParkedBytes(e))
  <2>1. /\ z \in Seq(Nat) /\ Len(z) = Len(w) + 1
        /\ \A i \in 1..Len(w) : z[i] = Sizes(w)[i]
        /\ z[Len(w) + 1] = ParkedBytes(e)
    BY <1>4, <1>5, AppendProperties
  <2> HIDE DEF z
  <2>2. ASSUME NEW i \in 1..Len(z) PROVE Sizes(a)[i] = z[i]
    <3>1. CASE i \in 1..Len(w)
      <4>1. i \in 1..Len(a)
        BY <1>3, <2>1
      <4> QED BY <1>3, <1>5, <2>1, <3>1, <4>1
    <3>2. CASE i = Len(w) + 1
      <4>1. i \in 1..Len(a)
        BY <1>3, <2>1
      <4> QED BY <1>3, <1>5, <2>1, <3>2, <4>1
    <3> QED BY <1>3, <2>1, <3>1, <3>2
  <2>3. Len(Sizes(a)) = Len(z)
    BY <1>3, <1>5, <2>1
  <2>4. Sizes(a) = z
    BY <1>5, <2>1, <2>2, <2>3, SeqEqual
  <2> QED BY <2>4 DEF z
<1>7. Exact(Sizes(a)) = Exact(Sizes(w)) + ParkedBytes(e)
    BY <1>4, <1>5, <1>6, SumOfMore
<1> QED BY <1>1, <1>4, <1>7 DEF Room, a

(* What one session takes does not depend on the others. *)
LEMMA TakesWithout ==
    ASSUME NEW es, ParkedGood(es), NEW s, NEW t, s # t
    PROVE  Takes(Without(es, s), t) = Takes(es, t)
<1> DEFINE w == Without(es, s)
<1>1. /\ ParkedGood(w) /\ es \in Seq(SoundEntries)
      /\ \A x : Has(w, x) <=> Has(es, x) /\ x # s
    BY HasWithout DEF ParkedGood
<1>2. CASE ~Has(es, t)
    BY <1>1, <1>2 DEF Takes
<1>3. CASE Has(es, t)
  <2>1. IndexOf(es, t) \in DOMAIN es /\ es[IndexOf(es, t)].id = t
    BY <1>3 DEF Has, IndexOf
  <2>2. PICK i \in DOMAIN w : w[i] = es[IndexOf(es, t)]
    BY <1>1, <2>1, WithoutLemma
  <2>3. Takes(w, w[i].id) = ParkedBytes(w[i])
    BY <1>1, TakesAt
  <2> QED BY <1>3, <2>1, <2>2, <2>3 DEF Takes
<1> QED BY <1>2, <1>3
-----------------------------------------------------------------------------
(* The sessions to be spilled, by what they take *)

Claims(es, ids) == [i \in DOMAIN ids |-> Takes(es, ids[i])]

LEMMA ClaimsLemma ==
    ASSUME NEW es, ParkedGood(es), NEW S, NEW ids \in Seq(S)
    PROVE  /\ Claims(es, ids) \in Seq(Nat) /\ Len(Claims(es, ids)) = Len(ids)
           /\ Len(ids) \in Nat /\ DOMAIN ids = 1..Len(ids)
           /\ \A i \in 1..Len(ids) : /\ Claims(es, ids)[i] = Takes(es, ids[i])
                                     /\ Takes(es, ids[i]) \in Nat
<1>1. Len(ids) \in Nat /\ DOMAIN ids = 1..Len(ids)
    BY LenProperties
<1>2. \A s : Takes(es, s) \in Nat
    BY RoomWithout
<1>3. Claims(es, ids) = [i \in 1..Len(ids) |-> Takes(es, ids[i])]
    BY <1>1 DEF Claims
<1>4. Claims(es, ids) \in [1..Len(ids) -> Nat]
    BY <1>2, <1>3
<1>5. Claims(es, ids) \in Seq(Nat)
    BY <1>1, <1>4, SeqDef
<1>6. Len(Claims(es, ids)) = Len(ids)
    BY <1>1, <1>3, <1>5, LenProperties
<1> QED BY <1>1, <1>2, <1>3, <1>5, <1>6

(* The first one has been spilled. *)
LEMMA ClaimsOfTail ==
    ASSUME NEW es, ParkedGood(es), NEW S, NEW ids \in Seq(S), ids # <<>>,
           \A i \in DOMAIN Tail(ids) : Tail(ids)[i] # Head(ids)
    PROVE  Exact(Claims(Without(es, Head(ids)), Tail(ids)))
               = Exact(Claims(es, ids)) - Takes(es, Head(ids))
<1> DEFINE h == Head(ids)
           t == Tail(ids)
           w == Without(es, h)
           a == Claims(w, t)
           z == Claims(es, ids)
<1>1. /\ t \in Seq(S) /\ Len(t) = Len(ids) - 1 /\ Len(ids) \in Nat \ {0}
      /\ \A i \in 1..(Len(ids) - 1) : t[i] = ids[i + 1]
      /\ h = ids[1]
    BY HeadTailProperties, EmptySeq, LenProperties
<1>2. ParkedGood(w)
    BY RoomWithout
<1> HIDE DEF w, t
<1>3. /\ a \in Seq(Nat) /\ Len(a) = Len(t) /\ DOMAIN t = 1..Len(t)
      /\ \A i \in 1..Len(t) : a[i] = Takes(w, t[i])
  <2>1. t \in Seq(S)
    BY <1>1
  <2> QED BY <1>2, <2>1, ClaimsLemma
<1>4. /\ z \in Seq(Nat) /\ Len(z) = Len(ids)
      /\ \A i \in 1..Len(ids) : z[i] = Takes(es, ids[i])
    BY ClaimsLemma
<1>5. ASSUME NEW i \in 1..Len(t) PROVE Takes(w, t[i]) = Takes(es, t[i])
  <2>1. h # t[i]
    BY <1>3 DEF t
  <2> QED BY <2>1, TakesWithout DEF w
<1> HIDE DEF a, z, h
<1>6. ASSUME NEW i \in 1..(Len(z) - 1)
      PROVE  a[i] = IF i < 1 THEN z[i] ELSE z[i + 1]
  <2>1. i \in 1..Len(t) /\ i + 1 \in 1..Len(ids) /\ ~(i < 1) /\ i \in 1..(Len(ids) - 1)
    BY <1>1, <1>4
  <2> QED BY <1>1, <1>3, <1>4, <1>5, <2>1
<1>7. 1 \in 1..Len(z) /\ Len(a) = Len(z) - 1
    BY <1>1, <1>3, <1>4
<1>8. Exact(a) = Exact(z) - z[1]
    BY <1>3, <1>4, <1>6, <1>7, SumOfErased
<1>9. z[1] = Takes(es, h)
    BY <1>1, <1>4, <1>7
<1> QED BY <1>8, <1>9 DEF a, z, w, t, h

(* The plan chooses the first of those that are left. *)
LEMMA ClaimsOfFirst ==
    ASSUME NEW es, ParkedGood(es), NEW s, NEW n \in 0..Len(Without(es, s))
    PROVE  Exact(Claims(es, [i \in 1..n |-> Without(es, s)[i].id]))
               = Sums(Sizes(Without(es, s)))[n]
<1> DEFINE w == Without(es, s)
           ids == [i \in 1..n |-> w[i].id]
           a == Claims(es, ids)
           z == Sizes(w)
<1>1. /\ ParkedGood(w) /\ w \in Seq(SoundEntries) /\ Unique(w)
      /\ \A x : Has(w, x) => x # s
    BY HasWithout DEF ParkedGood
<1>2. /\ ids \in Seq(Sessions) /\ DOMAIN ids = 1..n /\ \A i \in 1..n : Has(w, ids[i])
    BY <1>1, IdsOf
<1>3. /\ z \in Seq(Nat) /\ Len(z) = Len(w) /\ DOMAIN w = 1..Len(w) /\ Len(w) \in Nat
      /\ \A i \in 1..Len(w) : z[i] = ParkedBytes(w[i])
    BY <1>1, SizesLemma
<1>6. \A i \in 1..n : ids[i] = w[i].id
    OBVIOUS
<1> HIDE DEF ids, w
<1>4. /\ a \in Seq(Nat) /\ Len(a) = Len(ids) /\ DOMAIN ids = 1..Len(ids) /\ Len(ids) \in Nat
      /\ \A i \in 1..Len(ids) : a[i] = Takes(es, ids[i])
    BY <1>2, ClaimsLemma
<1>5. n \in Nat /\ Len(ids) = n /\ n <= Len(z) /\ n <= Len(a)
    BY <1>2, <1>3, <1>4 DEF w
<1> HIDE DEF a, z
<1>7. ASSUME NEW i \in 1..n PROVE a[i] = z[i]
  <2>1. i \in DOMAIN w /\ i \in 1..Len(ids)
    BY <1>3, <1>5
  <2>2. Takes(w, w[i].id) = ParkedBytes(w[i])
    BY <1>1, <2>1, TakesAt
  <2>3. s # w[i].id
    BY <1>1, <1>2, <1>6
  <2>4. Takes(w, w[i].id) = Takes(es, w[i].id)
    BY <2>3, TakesWithout DEF w
  <2> QED BY <1>3, <1>4, <1>6, <2>1, <2>2, <2>4
<1>8. Sums(a)[n] = Sums(z)[n]
    BY <1>3, <1>4, <1>5, <1>7, SumsSame
<1> QED BY <1>4, <1>5, <1>8 DEF Exact, a, z, ids, w
-----------------------------------------------------------------------------
(* How RAM changes *)

(* A session leaves, or one that could not be spilled, flushed or restored  *)
(* goes back.                                                               *)
RamMoves ==
    \/ parked' = parked
    \/ \E s : parked' = Without(parked, s)
    \/ \E s : /\ InMemory(s)
              /\ \/ parked' = Inserted(parked, Entry(s))
                 \/ \E t : parked' = Without(Inserted(parked, Entry(s)), t)
    \/ parked' = <<>>

Moves ==
    \/ Store \/ SpillOk \/ KeepInMemory
    \/ pc' # "spill" /\ RamMoves
    \/ UNCHANGED vars

LEMMA MovesInParking == EngineInv /\ Parking => Moves
<1> SUFFICES ASSUME EngineInv, Parking PROVE Moves
    OBVIOUS
<1>1. CASE ParkNothing \/ ParkInMemory \/ ParkOnDisk \/ SaveSnapOk \/ SaveSnapFails
  <2>1. parked' = parked /\ pc' # "spill"
    BY <1>1 DEF ParkNothing, ParkInMemory, ParkOnDisk, SaveSnapOk, SaveSnapFails,
                Stored, Return, AfterPark, Goto, cache
  <2> QED BY <2>1 DEF Moves, RamMoves
<1>2. CASE SpillFails
  <2>1. /\ pc = "spill" /\ spilling # <<>> /\ pc' # "spill"
        /\ parked' = Without(Inserted(parked, Entry(Head(spilling))), snap.id)
    BY <1>2 DEF SpillFails, AfterSpillFailure, Goto
  <2>2. InMemory(Head(spilling))
    BY <2>1, HeadParked DEF EngineInv
  <2> QED BY <2>1, <2>2 DEF Moves, RamMoves
<1>3. CASE WriteLive
  <2>1. parked' = Without(parked, active) /\ pc' # "spill"
    BY <1>3 DEF WriteLive, AfterPark, Goto
  <2> QED BY <2>1 DEF Moves, RamMoves
<1> QED BY <1>1, <1>2, <1>3 DEF Parking, Moves

LEMMA MovesInRestoring == EngineInv /\ Restoring => Moves
<1> SUFFICES ASSUME EngineInv, Restoring PROVE Moves
    OBVIOUS
<1>1. pc' # "spill"
    BY DEF Restoring, RestoreFromMemory, MemoryRestoreFails, RestoreFromDisk,
           DiskRestoreFails, NothingParked, Miss, Goto
<1>2. CASE RestoreFromMemory
    BY <1>1, <1>2 DEF Moves, RamMoves, RestoreFromMemory
<1>3. CASE MemoryRestoreFails
    BY <1>1, <1>3 DEF Moves, RamMoves, MemoryRestoreFails
<1>4. CASE RestoreFromDisk \/ DiskRestoreFails \/ NothingParked \/ Miss
    BY <1>1, <1>4
       DEF Moves, RamMoves, RestoreFromDisk, DiskRestoreFails, NothingParked, Miss
<1> QED BY <1>2, <1>3, <1>4 DEF Restoring

LEMMA MovesInFlushing == EngineInv /\ Flushing => Moves
<1> SUFFICES ASSUME EngineInv, Flushing PROVE Moves
    OBVIOUS
<1>1. CASE StartFlush \/ FlushDone
  <2>1. parked' = parked /\ pc' # "spill"
    BY <1>1 DEF StartFlush, FlushDone, Goto, cache
  <2> QED BY <2>1 DEF Moves, RamMoves
<1>2. CASE FlushOne
  <2> DEFINE h == Head(spilling)
  <2>1. /\ pc = "flushing" /\ spilling # <<>> /\ pc' # "spill"
        /\ \/ parked' = Without(parked, Entry(h).id)
           \/ parked' = Inserted(parked, Entry(h))
    BY <1>2 DEF FlushOne
  <2>2. InMemory(h)
    BY <2>1, HeadParked DEF EngineInv
  <2> HIDE DEF h
  <2>3. CASE parked' = Without(parked, Entry(h).id)
    BY <2>1, <2>3 DEF Moves, RamMoves
  <2>4. CASE parked' = Inserted(parked, Entry(h))
    BY <2>1, <2>2, <2>4 DEF Moves, RamMoves
  <2> QED BY <2>1, <2>3, <2>4
<1> QED BY <1>1, <1>2 DEF Flushing

LEMMA MovesStep == EngineInv /\ [Next]_vars => Moves
<1> SUFFICES ASSUME EngineInv, [Next]_vars PROVE Moves
    OBVIOUS
<1>1. CASE Turning \/ AbortTurn \/ CopyLive
  <2>1. parked' = parked /\ pc' # "spill"
    BY <1>1 DEF Turning, RejectPrompt, ReusePrefix, DecodePrompt, PromptDecoded,
                SampleToken, FinishTurn, FillContext, Rollback, AbortTurn, CopyLive,
                Return, Goto, cache
  <2> QED BY <2>1 DEF Moves, RamMoves
<1>2. CASE Worker \/ AbortTurn
    BY <1>1, <1>2, MovesInParking, MovesInRestoring, MovesInFlushing DEF Worker
<1>3. CASE \E s \in Ids, p \in Prompts : Turn(s, p)
  <2>1. parked' = parked /\ pc' # "spill"
    BY <1>3 DEF Turn, Goto, cache
  <2> QED BY <2>1 DEF Moves, RamMoves
<1>4. ASSUME NEW s \in Sessions, Release(s) \/ CloneLive(s) PROVE Moves
  <2>1. pc' # "spill" /\ (parked' = Without(parked, s) \/ parked' = parked)
    BY <1>4 DEF Release, CloneLive, Goto, cache
  <2> QED BY <2>1 DEF Moves, RamMoves
<1>5. ASSUME NEW f \in Sessions, NEW t \in Sessions,
             CloneParked(f, t) \/ CloneFile(f, t)
      PROVE  Moves
  <2>1. pc' # "spill" /\ (parked' = <<>> \/ parked' = parked)
    BY <1>5 DEF CloneParked, CloneFile, LoseProcess, Goto, cache
  <2> QED BY <2>1 DEF Moves, RamMoves
<1>6. CASE Shutdown \/ Kill \/ Restart \/ AgeFiles
  <2>1. pc' # "spill" /\ (parked' = <<>> \/ parked' = parked)
    BY <1>6 DEF Shutdown, Kill, Restart, AgeFiles, LoseProcess, Goto, cache
  <2> QED BY <2>1 DEF Moves, RamMoves
<1>7. CASE UNCHANGED vars
    BY <1>7 DEF Moves
<1> QED BY <1>2, <1>3, <1>4, <1>5, <1>6, <1>7 DEF Next
-----------------------------------------------------------------------------
(* No step overruns the budget *)

LEMMA BudgetMeans ==
    BudgetInv <=>
        /\ Room(parked) <= MemoryLimit
        /\ pc = "spill" =>
               Room(parked) + ParkedBytes(snap)
                   <= MemoryLimit + Takes(parked, snap.id)
                          + Exact(Claims(parked, spilling))
BY DEF BudgetInv, Room, Claims

LEMMA BudgetMeansNext ==
    BudgetInv' <=>
        /\ Room(parked') <= MemoryLimit
        /\ pc' = "spill" =>
               Room(parked') + ParkedBytes(snap')
                   <= MemoryLimit + Takes(parked', snap'.id)
                          + Exact(Claims(parked', spilling'))
BY DEF BudgetInv, Room, Claims

(* Nothing to spill, and RAM holds no more than before. *)
LEMMA QuietBudget ==
    ASSUME BudgetInv, ParkedGood(parked), ParkedGood(parked'), pc' # "spill",
           Room(parked') <= Room(parked)
    PROVE  BudgetInv'
<1>1. Room(parked) <= MemoryLimit /\ Room(parked) \in Nat /\ Room(parked') \in Nat
    BY BudgetMeans, RoomType DEF ParkedGood
<1>2. MemoryLimit \in Nat
    BY KvAssumption, MaxBytesAssumption
<1>3. Room(parked') <= MemoryLimit
    BY <1>1, <1>2
<1> QED BY <1>3, BudgetMeansNext

LEMMA EmptyRoom == Room(<<>>) = 0
<1>1. Len(<<>>) = 0
    BY EmptySeq
<1>2. Sizes(<<>>) = <<>>
    BY <1>1 DEF Sizes
<1> QED BY <1>2, SumOfNone DEF Room

(* A session that goes back takes what it took. *)
LEMMA RoomBack ==
    ASSUME NEW es, ParkedGood(es), NEW s, Has(es, s)
    PROVE  /\ Room(Inserted(es, es[IndexOf(es, s)])) = Room(es)
           /\ ParkedGood(Inserted(es, es[IndexOf(es, s)]))
<1> DEFINE e == es[IndexOf(es, s)]
<1>1. es \in Seq(SoundEntries)
    BY DEF ParkedGood
<1>2. e \in SoundEntries /\ e.id = s
    BY <1>1, FoundLemma
<1>3. Takes(es, e.id) = ParkedBytes(e)
    BY <1>2 DEF Takes
<1> HIDE DEF e
<1>4. Room(Inserted(es, e)) = Room(es) - Takes(es, e.id) + ParkedBytes(e)
      /\ ParkedBytes(e) \in Nat /\ ParkedGood(Inserted(es, e))
    BY <1>2, RoomInserted
<1>5. Room(es) \in Nat
    BY <1>1, RoomType
<1>6. Room(Inserted(es, e)) = Room(es)
    BY <1>3, <1>4, <1>5
<1> QED BY <1>4, <1>6 DEF e

LEMMA BudgetInStore == EngineInv /\ BudgetInv /\ Store => BudgetInv'
<1> SUFFICES ASSUME EngineInv, BudgetInv, Store PROVE BudgetInv'
    OBVIOUS
<1> DEFINE others == Without(parked, snap.id)
           held == Sizes(others)
           n == Admit.spill
<1>1. /\ ParkedGood(parked) /\ pc \in Storing /\ snap' = snap
    BY CacheShelves DEF EngineInv, Shelves, Store, Storing
<1>2. /\ Room(others) = Room(parked) - Takes(parked, snap.id)
      /\ Room(others) \in Nat /\ Room(parked) \in Nat /\ Takes(parked, snap.id) \in Nat
      /\ ParkedGood(others) /\ others \in Seq(SoundEntries)
    BY <1>1, RoomWithout DEF ParkedGood
<1>3. CASE ~Admit.keep
  <2>1. parked' = others /\ pc' # "spill"
    BY <1>3 DEF Store, Goto
  <2>2. Room(parked') <= Room(parked)
    BY <1>2, <2>1
  <2> QED BY <1>1, <1>2, <2>1, <2>2, QuietBudget
<1>4. CASE Admit.keep
  <2>1. parked' = parked /\ spilling' = [i \in 1..n |-> others[i].id]
    BY <1>4 DEF Store, SpilledIds
  <2>2. Room(parked) <= MemoryLimit /\ MemoryLimit \in Nat /\ MaxBytes \in Nat
        /\ MemoryLimit <= MaxBytes
    BY BudgetMeans, KvAssumption, MaxBytesAssumption
  <2>3. ParkedBytes(snap) \in Nat
    BY <1>1, SnapSound, ParkedBytesType DEF EngineInv
  <2>4. held \in Seq(Nat) /\ Len(held) = Len(others)
    BY <1>2, SizesLemma
  <2>5. Exact(held) <= MaxBytes /\ Exact(held) = Room(others)
    <3>1. Room(others) <= MaxBytes
        BY <1>2, <2>2
    <3> QED BY <3>1 DEF Room
  <2>6. Admit = PlanMemoryAdmit(held, ParkedBytes(snap), MemoryLimit)
    BY DEF Admit
  <2> HIDE DEF held, others
  <2>7. /\ n \in 0..Len(held)
        /\ Exact(held) - Sums(held)[n] + ParkedBytes(snap) <= MemoryLimit
    BY <1>4, <2>2, <2>3, <2>4, <2>5, <2>6, AdmitPlan
  <2>8. Sums(held)[n] \in Nat
    BY <2>4, <2>7, SumsGrow
  <2>9. n \in 0..Len(others)
    BY <2>4, <2>7
  <2>10. Exact(Claims(parked, spilling')) = Sums(held)[n]
    <3> DEFINE ids == [i \in 1..n |-> Without(parked, snap.id)[i].id]
    <3>1. spilling' = ids
        BY <2>1 DEF others
    <3> HIDE DEF n
    <3>2. Exact(Claims(parked, ids)) = Sums(Sizes(Without(parked, snap.id)))[n]
        BY <1>1, <2>9, ClaimsOfFirst DEF others
    <3> HIDE DEF ids
    <3> QED BY <3>1, <3>2 DEF held, others
  <2> DEFINE b == ParkedBytes(snap)
             r == Room(parked)
             k == Takes(parked, snap.id)
             c == Sums(held)[n]
             o == Room(others)
  <2>11. /\ b \in Nat /\ r \in Nat /\ k \in Nat /\ c \in Nat /\ o \in Nat /\ o = r - k
         /\ o - c + b <= MemoryLimit
    BY <1>2, <2>3, <2>5, <2>7, <2>8
  <2> HIDE DEF b, r, k, c, o
  <2>12. r + b <= MemoryLimit + k + c
    BY <2>2, <2>11
  <2>13. Room(parked) + ParkedBytes(snap)
             <= MemoryLimit + Takes(parked, snap.id) + Exact(Claims(parked, spilling'))
    BY <2>10, <2>12 DEF b, r, k, c
  <2> QED BY <1>1, <2>1, <2>2, <2>13, BudgetMeansNext
<1> QED BY <1>3, <1>4

LEMMA BudgetInSpillOk == EngineInv /\ BudgetInv /\ SpillOk => BudgetInv'
<1> SUFFICES ASSUME EngineInv, BudgetInv, SpillOk PROVE BudgetInv'
    OBVIOUS
<1> DEFINE h == Head(spilling)
           w == Without(parked, h)
<1>1. /\ ParkedGood(parked) /\ pc = "spill" /\ spilling # <<>> /\ spilling \in Seq(Sessions)
      /\ pc' = pc /\ snap' = snap /\ parked' = w /\ spilling' = Tail(spilling)
      /\ pc \in Storing /\ CacheInv
    BY CacheShelves DEF EngineInv, CacheInv, TypeOK, Shelves, SpillOk, Storing
<1>2. /\ \A i \in DOMAIN Tail(spilling) : Tail(spilling)[i] # h
      /\ h # snap.id
  <2>1. 1 \in DOMAIN spilling /\ h = spilling[1]
    BY <1>1, HeadParked, LenProperties
  <2> QED BY <1>1, <2>1, TailLemma DEF CacheInv, SpillInv
<1>3. /\ Room(w) = Room(parked) - Takes(parked, h)
      /\ Room(w) \in Nat /\ Room(parked) \in Nat /\ Takes(parked, h) \in Nat
      /\ Takes(parked, snap.id) \in Nat
    BY <1>1, RoomWithout
<1>4. Takes(w, snap.id) = Takes(parked, snap.id)
    BY <1>1, <1>2, TakesWithout
<1>5. Exact(Claims(w, Tail(spilling))) = Exact(Claims(parked, spilling)) - Takes(parked, h)
    BY <1>1, <1>2, ClaimsOfTail
<1>6. Exact(Claims(parked, spilling)) \in Nat
  <2>1. Claims(parked, spilling) \in Seq(Nat) /\ Len(Claims(parked, spilling)) \in Nat
    BY <1>1, ClaimsLemma
  <2>2. 0 \in 0..Len(Claims(parked, spilling))
    BY <2>1
  <2> QED BY <2>1, <2>2, SumsGrow
<1>7. ParkedBytes(snap) \in Nat /\ MemoryLimit \in Nat
    BY <1>1, SnapSound, ParkedBytesType, KvAssumption, MaxBytesAssumption
<1>8. /\ Room(parked) <= MemoryLimit
      /\ Room(parked) + ParkedBytes(snap)
             <= MemoryLimit + Takes(parked, snap.id) + Exact(Claims(parked, spilling))
    BY <1>1, BudgetMeans
<1> DEFINE b == ParkedBytes(snap)
           r == Room(parked)
           k == Takes(parked, snap.id)
           c == Exact(Claims(parked, spilling))
           d == Takes(parked, h)
<1>9. /\ b \in Nat /\ r \in Nat /\ k \in Nat /\ c \in Nat /\ d \in Nat
      /\ r <= MemoryLimit /\ r + b <= MemoryLimit + k + c /\ Room(w) = r - d
      /\ Exact(Claims(w, Tail(spilling))) = c - d /\ Takes(w, snap.id) = k
    BY <1>3, <1>4, <1>5, <1>6, <1>7, <1>8
<1> HIDE DEF b, r, k, c, d, w, h
<1>10. r - d <= MemoryLimit /\ (r - d) + b <= MemoryLimit + k + (c - d)
    BY <1>7, <1>9
<1>11. /\ Room(w) <= MemoryLimit
       /\ Room(w) + ParkedBytes(snap)
              <= MemoryLimit + Takes(w, snap.id) + Exact(Claims(w, Tail(spilling)))
    BY <1>9, <1>10 DEF b
<1> QED BY <1>1, <1>11, BudgetMeansNext

(* The snapshot enters once everything planned is out. *)
LEMMA BudgetInKeep == EngineInv /\ BudgetInv /\ KeepInMemory => BudgetInv'
<1> SUFFICES ASSUME EngineInv, BudgetInv, KeepInMemory PROVE BudgetInv'
    OBVIOUS
<1>1. /\ ParkedGood(parked) /\ pc = "spill" /\ spilling = <<>> /\ pc' # "spill"
      /\ parked' = Inserted(parked, snap) /\ pc \in Storing /\ CacheInv
    BY CacheShelves DEF EngineInv, Shelves, KeepInMemory, Storing, Stored, Return,
                        Goto, AfterPark
<1>2. snap \in SoundEntries
    BY <1>1, SnapSound
<1>3. /\ Room(parked') = Room(parked) - Takes(parked, snap.id) + ParkedBytes(snap)
      /\ ParkedBytes(snap) \in Nat
    BY <1>1, <1>2, RoomInserted
<1>4. /\ Room(parked) \in Nat /\ Takes(parked, snap.id) \in Nat /\ MemoryLimit \in Nat
    BY <1>1, RoomWithout, KvAssumption, MaxBytesAssumption
<1>5. Exact(Claims(parked, spilling)) = 0
  <2>1. Claims(parked, <<>>) = <<>>
    BY EmptySeq DEF Claims
  <2> QED BY <1>1, <2>1, SumOfNone
<1>6. Room(parked) + ParkedBytes(snap) <= MemoryLimit + Takes(parked, snap.id) + 0
    BY <1>1, <1>5, BudgetMeans
<1>7. Room(parked') <= MemoryLimit
    BY <1>3, <1>4, <1>6
<1> QED BY <1>1, <1>7, BudgetMeansNext

LEMMA BudgetInRest ==
    ASSUME EngineInv, BudgetInv, pc' # "spill",
           \/ parked' = parked
           \/ \E s : parked' = Without(parked, s)
           \/ parked' = <<>>
    PROVE  BudgetInv'
<1>1. ParkedGood(parked)
    BY CacheShelves DEF EngineInv, Shelves
<1>2. Room(parked) \in Nat
    BY <1>1, RoomType DEF ParkedGood
<1>3. CASE parked' = parked
    BY <1>1, <1>2, <1>3, QuietBudget
<1>4. ASSUME NEW s, parked' = Without(parked, s) PROVE BudgetInv'
  <2>1. ParkedGood(parked') /\ Room(parked') <= Room(parked)
    BY <1>1, <1>4, RoomWithout
  <2> QED BY <1>1, <2>1, QuietBudget
<1>5. CASE parked' = <<>>
  <2>1. ParkedGood(parked') /\ Room(parked') <= Room(parked)
    BY <1>2, <1>5, EmptyShelf, EmptyRoom
  <2> QED BY <1>1, <2>1, QuietBudget
<1> QED BY <1>3, <1>4, <1>5

(* A session that could not be spilled, flushed or restored goes back.      *)
LEMMA BudgetInBack ==
    ASSUME EngineInv, BudgetInv, pc' # "spill", NEW s, InMemory(s),
           \/ parked' = Inserted(parked, Entry(s))
           \/ \E t : parked' = Without(Inserted(parked, Entry(s)), t)
    PROVE  BudgetInv'
<1> DEFINE p == Inserted(parked, Entry(s))
<1>1. ParkedGood(parked)
    BY CacheShelves DEF EngineInv, Shelves
<1>2. Room(p) = Room(parked) /\ ParkedGood(p)
    BY <1>1, RoomBack DEF InMemory, Entry
<1>3. Room(parked) \in Nat
    BY <1>1, RoomType DEF ParkedGood
<1> HIDE DEF p
<1>4. CASE parked' = p
    BY <1>1, <1>2, <1>3, <1>4, QuietBudget
<1>5. ASSUME NEW t, parked' = Without(p, t) PROVE BudgetInv'
  <2>1. /\ ParkedGood(parked') /\ Room(parked') = Room(p) - Takes(p, t)
        /\ Room(parked') \in Nat /\ Takes(p, t) \in Nat
    BY <1>2, <1>5, RoomWithout
  <2>2. Room(parked') <= Room(parked)
    BY <1>2, <1>3, <2>1
  <2> QED BY <1>1, <2>1, <2>2, QuietBudget
<1> QED BY <1>4, <1>5 DEF p

LEMMA BudgetStep == EngineInv /\ BudgetInv /\ [Next]_vars => BudgetInv'
<1> SUFFICES ASSUME EngineInv, BudgetInv, [Next]_vars PROVE BudgetInv'
    OBVIOUS
<1>1. CASE Store \/ SpillOk \/ KeepInMemory
    BY <1>1, BudgetInStore, BudgetInSpillOk, BudgetInKeep
<1>2. CASE pc' # "spill" /\ RamMoves
    BY <1>2, BudgetInRest, BudgetInBack DEF RamMoves
<1>3. CASE UNCHANGED vars
    BY <1>3, BudgetMeans, BudgetMeansNext DEF vars, cache, storing
<1> QED BY <1>1, <1>2, <1>3, MovesStep DEF Moves

(* The store of parked sessions, with what it takes at every control point. *)
THEOREM StoreInvariant == Spec => []StoreInv
<1>1. Init => StoreInv
  <2> SUFFICES ASSUME Init PROVE StoreInv
    OBVIOUS
  <2>1. EngineInv
    BY InitInv DEF Init, SnapInv, Storing, EngineInv
  <2>2. Room(parked) <= MemoryLimit
    BY EmptyRoom, KvAssumption DEF Init
  <2>3. BudgetInv
    BY <2>2, BudgetMeans DEF Init
  <2> QED BY <2>1, <2>3 DEF StoreInv
<1>2. StoreInv /\ [Next]_vars => StoreInv'
    BY BudgetStep, SnapStep, NextInv DEF StoreInv, EngineInv
<1> QED BY <1>1, <1>2, PTL DEF Spec

(* What is parked in RAM stays within session_memory_bytes, whichever spill, *)
(* flush or restore fails, and no session is parked there twice.             *)
THEOREM MemoryIsBounded == Spec => []MemoryWithinLimit
<1>1. StoreInv => MemoryWithinLimit
    BY DEF StoreInv, BudgetInv, EngineInv, CacheInv, UniqueInv, Unique, MemoryWithinLimit
<1> QED BY <1>1, StoreInvariant, PTL
-----------------------------------------------------------------------------
(* The files, oldest first *)

(* Erasing one file keeps the order of the others. *)
LEMMA OrderLemma ==
    ASSUME NEW fs \in Seq(SoundFiles), NEW s
    PROVE  \E at \in [1..Len(fs) -> Int] :
               /\ \A i \in 1..Len(fs) : fs[i].id # s =>
                      at[i] \in DOMAIN Without(fs, s) /\ Without(fs, s)[at[i]] = fs[i]
               /\ \A i, j \in 1..Len(fs) : i <= j => at[i] <= at[j]
<1> DEFINE w == Without(fs, s)
           k == IndexOf(fs, s)
<1>1. Len(fs) \in Nat /\ DOMAIN fs = 1..Len(fs)
    BY LenProperties
<1>2. CASE ~Has(fs, s)
  <2> DEFINE at == [i \in 1..Len(fs) |-> i]
  <2>1. at \in [1..Len(fs) -> Int] /\ w = fs
    BY <1>2 DEF Without
  <2> HIDE DEF w
  <2>2. /\ \A i \in 1..Len(fs) : at[i] \in DOMAIN w /\ w[at[i]] = fs[i]
        /\ \A i, j \in 1..Len(fs) : i <= j => at[i] <= at[j]
    BY <1>1, <2>1
  <2> HIDE DEF at
  <2> QED BY <2>1, <2>2 DEF w
<1>3. CASE Has(fs, s)
  <2> DEFINE at == [i \in 1..Len(fs) |-> IF i < k THEN i ELSE i - 1]
  <2>1. /\ k \in 1..Len(fs) /\ fs[k].id = s /\ DOMAIN w = 1..(Len(fs) - 1)
        /\ \A i \in 1..(Len(fs) - 1) : w[i] = IF i < k THEN fs[i] ELSE fs[i + 1]
    BY <1>3, ErasedLemma
  <2> HIDE DEF w, k
  <2>2. at \in [1..Len(fs) -> Int]
    OBVIOUS
  <2>3. ASSUME NEW i \in 1..Len(fs), fs[i].id # s
        PROVE  at[i] \in DOMAIN w /\ w[at[i]] = fs[i]
    <3>1. CASE i < k
        BY <1>1, <2>1, <3>1
    <3>2. CASE i > k
      <4>1. at[i] = i - 1 /\ i - 1 \in 1..(Len(fs) - 1) /\ ~(i - 1 < k)
            /\ (i - 1) + 1 = i
        BY <1>1, <2>1, <3>2
      <4> HIDE DEF at
      <4>2. w[i - 1] = fs[(i - 1) + 1]
        BY <2>1, <4>1
      <4> QED BY <2>1, <4>1, <4>2
    <3>3. i # k
        BY <2>1, <2>3
    <3> QED BY <2>1, <3>1, <3>2, <3>3
  <2>4. ASSUME NEW i \in 1..Len(fs), NEW j \in 1..Len(fs), i <= j
        PROVE  at[i] <= at[j]
    BY <2>1, <2>4
  <2> HIDE DEF at
  <2> QED BY <2>2, <2>3, <2>4 DEF w
<1> QED BY <1>2, <1>3

LEMMA ByAgeWithout ==
    ASSUME NEW fs \in Seq(SoundFiles), ByAge(fs), NEW s
    PROVE  ByAge(Without(fs, s))
<1> DEFINE w == Without(fs, s)
           k == IndexOf(fs, s)
<1>1. CASE ~Has(fs, s)
    BY <1>1 DEF Without
<1>2. CASE Has(fs, s)
  <2>1. /\ k \in 1..Len(fs) /\ DOMAIN w = 1..(Len(fs) - 1) /\ Len(fs) \in Nat
        /\ \A i \in 1..(Len(fs) - 1) : w[i] = IF i < k THEN fs[i] ELSE fs[i + 1]
        /\ DOMAIN fs = 1..Len(fs)
    BY <1>2, ErasedLemma, LenProperties
  <2> HIDE DEF w, k
  <2> DEFINE at(i) == IF i < k THEN i ELSE i + 1
  <2>2. ASSUME NEW i \in DOMAIN w, NEW j \in DOMAIN w, i < j, w[j].old
        PROVE  w[i].old
    <3>1. at(i) \in DOMAIN fs /\ at(j) \in DOMAIN fs /\ at(i) < at(j)
        BY <2>1, <2>2
    <3>2. w[i] = fs[at(i)] /\ w[j] = fs[at(j)]
        BY <2>1
    <3> QED BY <2>2, <3>1, <3>2 DEF ByAge
  <2> QED BY <2>2 DEF ByAge, w
<1> QED BY <1>1, <1>2

(* What is written is new. *)
LEMMA WrittenLast ==
    ASSUME FilesGood(files), NEW f \in SoundFiles
    PROVE  LET w == Without(files, f.id)
           IN  /\ w \in Seq(SoundFiles) /\ Len(w) \in Nat /\ DOMAIN w = 1..Len(w)
               /\ Written(f) \in Seq(SoundFiles) /\ Unique(Written(f))
               /\ Len(Written(f)) = Len(w) + 1 /\ DOMAIN Written(f) = 1..(Len(w) + 1)
               /\ \A i \in 1..Len(w) : Written(f)[i] = w[i]
               /\ Written(f)[Len(w) + 1] = f
<1> DEFINE w == Without(files, f.id)
<1>1. /\ w \in Seq(SoundFiles) /\ Len(w) \in Nat /\ DOMAIN w = 1..Len(w)
      /\ Written(f) \in Seq(SoundFiles) /\ Unique(Written(f))
    BY WithoutLemma, LenProperties, HasInserted DEF FilesGood, Written
<1>2. Written(f) = Append(w, f)
    BY DEF Written, Inserted
<1> HIDE DEF w
<1>3. /\ Len(Append(w, f)) = Len(w) + 1
      /\ \A i \in 1..Len(w) : Append(w, f)[i] = w[i]
      /\ Append(w, f)[Len(w) + 1] = f
    BY <1>1, AppendProperties
<1>4. DOMAIN Written(f) = 1..(Len(w) + 1)
    BY <1>1, <1>2, <1>3, LenProperties
<1> QED BY <1>1, <1>2, <1>3, <1>4 DEF w

LEMMA ByAgeWritten ==
    ASSUME FilesGood(files), ByAge(files), NEW f \in SoundFiles, ~f.old
    PROVE  ByAge(Written(f))
<1> DEFINE w == Without(files, f.id)
<1>1. /\ Len(w) \in Nat /\ DOMAIN w = 1..Len(w) /\ DOMAIN Written(f) = 1..(Len(w) + 1)
      /\ \A i \in 1..Len(w) : Written(f)[i] = w[i]
      /\ Written(f)[Len(w) + 1] = f
    BY WrittenLast
<1>2. ByAge(w)
    BY ByAgeWithout DEF FilesGood
<1> HIDE DEF w
<1>3. ASSUME NEW i \in DOMAIN Written(f), NEW j \in DOMAIN Written(f), i < j,
             Written(f)[j].old
      PROVE  Written(f)[i].old
  <2>1. j # Len(w) + 1
    BY <1>1, <1>3
  <2>2. i \in 1..Len(w) /\ j \in 1..Len(w)
    BY <1>1, <1>3, <2>1
  <2> QED BY <1>1, <1>2, <1>3, <2>2 DEF ByAge
<1> QED BY <1>3 DEF ByAge

(* Only old files go: by age the old ones are the first.                    *)
LEMMA TrimDropsOld ==
    ASSUME NEW fs \in Seq(SoundFiles), ByAge(fs)
    PROVE  \E n \in 0..Len(fs) : /\ TrimDisk(fs) = SubSeq(fs, n + 1, Len(fs))
                                 /\ \A i \in 1..n : fs[i].old
<1> DEFINE D == {i \in DOMAIN fs : fs[i].old}
<1>1. Len(fs) \in Nat /\ DOMAIN fs = 1..Len(fs)
    BY LenProperties
<1>2. PICK n \in 0..Len(fs) : /\ n <= Cardinality(D)
                              /\ TrimDisk(fs) = SubSeq(fs, n + 1, Len(fs))
    BY TrimIsSuffix
<1>3. ASSUME NEW i \in 1..n, ~fs[i].old PROVE FALSE
  <2>1. D \subseteq 1..(i - 1)
    <3> SUFFICES ASSUME NEW j \in D PROVE j \in 1..(i - 1)
        OBVIOUS
    <3>1. j \in DOMAIN fs /\ fs[j].old /\ i \in DOMAIN fs
        BY <1>1, <1>2
    <3>2. j # i /\ ~(i < j)
        BY <1>3, <3>1 DEF ByAge
    <3> QED BY <1>1, <3>1, <3>2
  <2> HIDE DEF D
  <2>2. i - 1 \in Nat /\ i \in Nat
    BY <1>2
  <2>3. IsFiniteSet(1..(i - 1)) /\ Cardinality(1..(i - 1)) = i - 1
    BY <2>2, FS_Interval
  <2>4. IsFiniteSet(D) /\ Cardinality(D) <= Cardinality(1..(i - 1))
        /\ Cardinality(D) \in Nat
    BY <2>1, <2>3, FS_Subset, FS_CardinalityType
  <2> QED BY <1>2, <2>2, <2>3, <2>4
<1> QED BY <1>2, <1>3

LEMMA ByAgeTrimmed ==
    ASSUME NEW fs \in Seq(SoundFiles), ByAge(fs)
    PROVE  ByAge(TrimDisk(fs))
<1>1. PICK n \in 0..Len(fs) : TrimDisk(fs) = SubSeq(fs, n + 1, Len(fs))
    BY TrimIsSuffix
<1> DEFINE t == SubSeq(fs, n + 1, Len(fs))
<1>2. /\ Len(fs) \in Nat /\ DOMAIN fs = 1..Len(fs) /\ DOMAIN t = 1..(Len(fs) - n)
      /\ \A i \in 1..(Len(fs) - n) : t[i] = fs[n + i]
    BY SuffixLemma, LenProperties
<1> HIDE DEF t
<1>3. ASSUME NEW i \in DOMAIN t, NEW j \in DOMAIN t, i < j, t[j].old
      PROVE  t[i].old
  <2>1. n + i \in DOMAIN fs /\ n + j \in DOMAIN fs /\ n + i < n + j
    BY <1>2, <1>3
  <2> QED BY <1>2, <1>3, <2>1 DEF ByAge
<1> QED BY <1>1, <1>3 DEF ByAge, t

(* How the directory changes: a file is written, the oldest expire, or one  *)
(* goes because its session was released or is in RAM again.                *)
Writes ==
    \E f \in SoundFiles :
        ~f.old /\ (files' = Written(f) \/ files' = TrimDisk(Written(f)))

Erases(s) == files' = Without(files, s)

FileMoves ==
    \/ files' = files \/ files' = TrimDisk(files) \/ Writes
    \/ Erases(snap.id)
    \/ \E s \in Sessions : Release(s) /\ Erases(s)
    \/ AgeFiles

LEMMA SaveWrites ==
    ASSUME NEW s \in Sessions, NEW ids \in Texts, Len(ids) <= MaxCtx,
           SaveOk(s, ids, ids)
    PROVE  Writes
<1> DEFINE f == NewFile(s, ids, ids)
<1>1. f \in SoundFiles /\ ~f.old /\ files' = TrimDisk(Written(f))
    BY DEF NewFile, SoundFiles, FileEntries, SaveOk
<1> QED BY <1>1 DEF Writes

LEMMA FileMovesInParking == EngineInv /\ Parking => FileMoves
<1> SUFFICES ASSUME EngineInv, Parking PROVE FileMoves
    OBVIOUS
<1>1. CacheInv /\ LocalsInv
    BY DEF EngineInv, CacheInv
<1>2. CASE ParkNothing \/ ParkInMemory \/ ParkOnDisk \/ Store \/ SpillFails \/ SaveSnapFails
    BY <1>2 DEF ParkNothing, ParkInMemory, ParkOnDisk, Store, SpillFails, SaveSnapFails,
                SaveFails, FileMoves
<1>3. CASE SpillOk
  <2> DEFINE h == Head(spilling)
  <2>1. Entry(h) \in SoundEntries /\ Entry(h).id = h
    BY <1>1, <1>3, HeadParked DEF SpillOk
  <2>2. SaveOk(h, Entry(h).tokens, Entry(h).tokens) /\ h \in Sessions
        /\ Entry(h).tokens \in Texts /\ Len(Entry(h).tokens) <= MaxCtx
    BY <1>3, <2>1 DEF SpillOk, SoundEntries, Entries
  <2> QED BY <2>2, SaveWrites DEF FileMoves
<1>4. CASE KeepInMemory
    BY <1>4 DEF KeepInMemory, FilesBesideMemory, FileMoves, Erases
<1>5. CASE SaveSnapOk
  <2>1. pc = "save" /\ SaveOk(snap.id, snap.tokens, snap.state)
    BY <1>5 DEF SaveSnapOk
  <2>2. /\ snap.id \in Sessions /\ snap.tokens \in Texts
        /\ snap.state = snap.tokens /\ Len(snap.tokens) <= MaxCtx
    BY <1>1, <2>1, SnapSound DEF Storing
  <2> QED BY <2>1, <2>2, SaveWrites DEF FileMoves
<1>6. CASE WriteLive
  <2>1. pc = "write" /\ (SaveOk(active, tokens, cells) \/ files' = files)
    BY <1>6 DEF WriteLive, SaveFails
  <2>2. active \in Sessions /\ cells = tokens /\ tokens \in Texts /\ Len(tokens) <= MaxCtx
    BY <1>1, <2>1, LiveSound DEF LocalsInv
  <2> QED BY <2>1, <2>2, SaveWrites DEF FileMoves
<1> QED BY <1>2, <1>3, <1>4, <1>5, <1>6 DEF Parking

LEMMA FileMovesInFlushing == EngineInv /\ (CopyLive \/ Flushing) => FileMoves
<1> SUFFICES ASSUME EngineInv, CopyLive \/ Flushing PROVE FileMoves
    OBVIOUS
<1>1. CacheInv /\ LocalsInv
    BY DEF EngineInv, CacheInv
<1>2. CASE StartFlush \/ FlushDone
    BY <1>2 DEF StartFlush, FlushDone, FileMoves
<1>3. CASE FlushOne
  <2> DEFINE h == Head(spilling)
  <2>1. /\ pc = "flushing" /\ spilling # <<>>
        /\ SaveOk(Entry(h).id, Entry(h).tokens, Entry(h).state) \/ files' = files
    BY <1>3 DEF FlushOne, SaveFails
  <2>2. Entry(h) \in SoundEntries
    BY <1>1, <2>1, HeadParked
  <2>3. Entry(h).id \in Sessions /\ Entry(h).tokens \in Texts
        /\ Entry(h).state = Entry(h).tokens /\ Len(Entry(h).tokens) <= MaxCtx
    BY <2>2 DEF SoundEntries, Entries
  <2> QED BY <2>1, <2>3, SaveWrites DEF FileMoves
<1>4. CASE CopyLive
  <2>1. pc = "copy" /\ (SaveOk(target, tokens, cells) \/ files' = files)
    BY <1>4 DEF CopyLive, SaveFails
  <2>2. target \in Sessions /\ cells = tokens /\ tokens \in Texts /\ Len(tokens) <= MaxCtx
    BY <1>1, <2>1, LiveSound DEF LocalsInv
  <2> QED BY <2>1, <2>2, SaveWrites DEF FileMoves
<1> QED BY <1>2, <1>3, <1>4 DEF Flushing

(* A copy that was cut short is new as well. *)
LEMMA FileMovesInCloneFile ==
    ASSUME EngineInv, NEW f \in Sessions, NEW t \in Sessions, CloneFile(f, t)
    PROVE  FileMoves
<1> DEFINE whole == [FileOf(f) EXCEPT !.id = t, !.old = FALSE]
           half  == [whole EXCEPT !.whole = FALSE, !.state = <<>>]
           cut   == {half, [half EXCEPT !.tokens = <<>>]}
<1>1. Stores /\ HasFile(f)
    BY CacheStores DEF EngineInv, CloneFile
<1>2. FileOf(f) \in SoundFiles
    BY <1>1, FileSound
<1>3. whole \in SoundFiles /\ ~whole.old
    BY <1>2 DEF SoundFiles, FileEntries
<1>4. <<>> \in Texts /\ Len(<<>>) <= MaxCtx
    BY KvAssumption, EmptySeq DEF Texts
<1>5. half \in SoundFiles /\ ~half.old
    BY <1>3, <1>4 DEF SoundFiles, FileEntries
<1>6. [half EXCEPT !.tokens = <<>>] \in SoundFiles
      /\ ~[half EXCEPT !.tokens = <<>>].old
    BY <1>4, <1>5 DEF SoundFiles, FileEntries
<1>7. files' = TrimDisk(Written(whole)) \/ \E c \in cut : files' = Written(c)
    BY DEF CloneFile
<1> HIDE DEF whole, half
<1> QED BY <1>3, <1>5, <1>6, <1>7 DEF FileMoves, Writes

LEMMA FileMovesStep == EngineInv /\ [Next]_vars => FileMoves
<1> SUFFICES ASSUME EngineInv, [Next]_vars PROVE FileMoves
    OBVIOUS
<1>1. CASE Restoring \/ Turning \/ AbortTurn
    BY <1>1 DEF Restoring, RestoreFromMemory, MemoryRestoreFails, RestoreFromDisk,
                DiskRestoreFails, NothingParked, Miss, Turning, RejectPrompt,
                ReusePrefix, DecodePrompt, PromptDecoded, SampleToken, FinishTurn,
                FillContext, Rollback, AbortTurn, FileMoves
<1>2. CASE Worker \/ AbortTurn
    BY <1>1, <1>2, FileMovesInParking, FileMovesInFlushing DEF Worker
<1>3. CASE \E s \in Ids, p \in Prompts : Turn(s, p)
    BY <1>3 DEF Turn, FileMoves
<1>4. ASSUME NEW s \in Sessions, Release(s) \/ CloneLive(s) PROVE FileMoves
  <2>1. CASE Release(s)
    <3>1. Erases(s)
        BY <2>1 DEF Release, ReleasedFiles, Erases
    <3> QED BY <2>1, <3>1 DEF FileMoves
  <2>2. CASE CloneLive(s)
    BY <2>2 DEF CloneLive, FileMoves
  <2> QED BY <1>4, <2>1, <2>2
<1>5. ASSUME NEW f \in Sessions, NEW t \in Sessions,
             CloneParked(f, t) \/ CloneFile(f, t)
      PROVE  FileMoves
  <2>1. CASE CloneParked(f, t)
    BY <2>1 DEF CloneParked, FileMoves
  <2> QED BY <1>5, <2>1, FileMovesInCloneFile
<1>6. CASE Shutdown \/ Kill \/ Restart \/ AgeFiles
    BY <1>6 DEF Shutdown, Kill, Restart, FileMoves
<1>7. CASE UNCHANGED vars
    BY <1>7 DEF vars, FileMoves
<1> QED BY <1>2, <1>3, <1>4, <1>5, <1>6, <1>7 DEF Next

LEMMA ByAgeStep == EngineInv /\ ByAge(files) /\ [Next]_vars => ByAge(files')
<1> SUFFICES ASSUME EngineInv, ByAge(files), [Next]_vars PROVE ByAge(files')
    OBVIOUS
<1>1. FilesGood(files) /\ files \in Seq(SoundFiles)
    BY CacheShelves DEF EngineInv, Shelves, FilesGood
<1>2. CASE Writes
  <2>1. PICK f \in SoundFiles :
            ~f.old /\ (files' = Written(f) \/ files' = TrimDisk(Written(f)))
    BY <1>2 DEF Writes
  <2>2. ByAge(Written(f)) /\ Written(f) \in Seq(SoundFiles)
    BY <1>1, <2>1, ByAgeWritten, WrittenLast
  <2> QED BY <2>1, <2>2, ByAgeTrimmed
<1>3. CASE files' = files \/ files' = TrimDisk(files)
    BY <1>1, <1>3, ByAgeTrimmed
<1>4. ASSUME NEW s, Erases(s) PROVE ByAge(files')
    BY <1>1, <1>4, ByAgeWithout DEF Erases
<1>5. CASE AgeFiles
  <2>1. PICK n \in DOMAIN files :
          files' = [i \in DOMAIN files |->
                        [files[i] EXCEPT !.old = files[i].old \/ i <= n]]
    BY <1>5 DEF AgeFiles
  <2>2. DOMAIN files = 1..Len(files) /\ Len(files) \in Nat /\ DOMAIN files' = DOMAIN files
    BY <1>1, <2>1, LenProperties
  <2>3. ASSUME NEW i \in DOMAIN files
        PROVE  files'[i].old <=> files[i].old \/ i <= n
    <3>1. files[i] \in FileEntries
        BY <1>1, <2>2, ElementOfSeq DEF SoundFiles
    <3>2. files'[i] = [files[i] EXCEPT !.old = files[i].old \/ i <= n]
        BY <2>1
    <3> QED BY <3>1, <3>2 DEF FileEntries
  <2>4. ASSUME NEW i \in DOMAIN files', NEW j \in DOMAIN files', i < j, files'[j].old
        PROVE  files'[i].old
    <3>1. CASE files[j].old
        BY <2>2, <2>3, <2>4, <3>1 DEF ByAge
    <3>2. CASE j <= n
        BY <2>2, <2>3, <2>4, <3>2
    <3> QED BY <2>2, <2>3, <2>4, <3>1, <3>2
  <2> QED BY <2>4 DEF ByAge
<1> QED BY <1>2, <1>3, <1>4, <1>5, FileMovesStep DEF FileMoves

(* What expired was old, and so did all that is older. *)
LEMMA Expired ==
    ASSUME NEW fs \in Seq(SoundFiles), Unique(fs), ByAge(fs), NEW i \in DOMAIN fs,
           ~Has(TrimDisk(fs), fs[i].id)
    PROVE  fs[i].old /\ \A q \in 1..i : ~Has(TrimDisk(fs), fs[q].id)
<1>1. PICK n \in 0..Len(fs) : /\ TrimDisk(fs) = SubSeq(fs, n + 1, Len(fs))
                              /\ \A k \in 1..n : fs[k].old
    BY TrimDropsOld
<1> DEFINE t == SubSeq(fs, n + 1, Len(fs))
<1>2. /\ Len(fs) \in Nat /\ DOMAIN fs = 1..Len(fs) /\ DOMAIN t = 1..(Len(fs) - n)
      /\ \A k \in 1..(Len(fs) - n) : t[k] = fs[n + k]
    BY SuffixLemma, LenProperties
<1> HIDE DEF t
<1>3. i <= n
  <2>1. CASE i > n
    <3>1. i - n \in DOMAIN t /\ n + (i - n) = i
        BY <1>2, <2>1
    <3>2. t[i - n] = fs[i]
        BY <1>2, <3>1
    <3> QED BY <1>1, <3>1, <3>2 DEF Has, t
  <2> QED BY <1>2, <2>1
<1>4. ASSUME NEW q \in 1..i, Has(t, fs[q].id) PROVE FALSE
  <2>1. PICK k \in DOMAIN t : t[k].id = fs[q].id
    BY <1>4 DEF Has
  <2>2. n + k \in DOMAIN fs /\ q \in DOMAIN fs /\ fs[n + k].id = fs[q].id /\ n + k # q
    BY <1>2, <1>3, <2>1
  <2> QED BY <2>2 DEF Unique
<1> QED BY <1>1, <1>2, <1>3, <1>4 DEF t

LEMMA GoneWithWrite ==
    ASSUME FilesGood(files), ByAge(files), NEW f \in SoundFiles, ~f.old,
           NEW i \in DOMAIN files, ~Has(TrimDisk(Written(f)), files[i].id)
    PROVE  /\ files[i].old
           /\ \A j \in 1..i :
                  \/ ~Has(TrimDisk(Written(f)), files[j].id)
                  \/ TrimDisk(Written(f))[Len(TrimDisk(Written(f)))].id = files[j].id
<1> DEFINE w == Without(files, f.id)
           a == Written(f)
           t == TrimDisk(a)
<1>1. /\ files \in Seq(SoundFiles) /\ Len(files) \in Nat /\ DOMAIN files = 1..Len(files)
    BY LenProperties DEF FilesGood
<1>2. /\ Len(w) \in Nat /\ DOMAIN w = 1..Len(w) /\ a \in Seq(SoundFiles) /\ Unique(a)
      /\ Len(a) = Len(w) + 1 /\ DOMAIN a = 1..(Len(w) + 1)
      /\ \A k \in 1..Len(w) : a[k] = w[k]
      /\ a[Len(w) + 1] = f /\ ByAge(a)
    BY WrittenLast, ByAgeWritten
<1>3. PICK at \in [1..Len(files) -> Int] :
          /\ \A k \in 1..Len(files) : files[k].id # f.id =>
                 at[k] \in DOMAIN w /\ w[at[k]] = files[k]
          /\ \A k, m \in 1..Len(files) : k <= m => at[k] <= at[m]
    BY <1>1, OrderLemma
<1>4. PICK n \in 0..Len(a) : /\ t = SubSeq(a, n + 1, Len(a))
                             /\ \A k \in 1..n : a[k].old
    BY <1>2, TrimDropsOld
<1>5. /\ Len(t) = Len(a) - n
      /\ \A k \in 1..(Len(a) - n) : t[k] = a[n + k]
      /\ DOMAIN t = 1..(Len(a) - n)
    BY <1>2, <1>4, SuffixLemma
<1>6. ASSUME NEW k \in DOMAIN a, ~Has(t, a[k].id)
      PROVE  a[k].old /\ \A q \in 1..k : ~Has(t, a[q].id)
    BY <1>2, <1>6, Expired
<1> HIDE DEF w, a, t
<1>7. t[Len(t)] = f /\ Has(t, f.id)
  <2>1. n # Len(a)
    BY <1>2, <1>4
  <2>2. Len(t) \in DOMAIN t /\ n + Len(t) = Len(a)
    BY <1>2, <1>4, <1>5, <2>1
  <2>3. t[Len(t)] = a[Len(a)]
    BY <1>5, <2>2
  <2> QED BY <1>2, <2>2, <2>3 DEF Has
<1>8. ~Has(t, files[i].id)
    BY DEF t, a
<1>9. files[i].id # f.id
    BY <1>7, <1>8
<1>10. at[i] \in DOMAIN a /\ a[at[i]] = files[i]
    BY <1>1, <1>2, <1>3, <1>9
<1>11. files[i].old /\ \A q \in 1..at[i] : ~Has(t, a[q].id)
    BY <1>6, <1>8, <1>10
<1>12. ASSUME NEW j \in 1..i
       PROVE  ~Has(t, files[j].id) \/ t[Len(t)].id = files[j].id
  <2>1. CASE files[j].id = f.id
    BY <1>7, <2>1
  <2>2. CASE files[j].id # f.id
    <3>1. j \in 1..Len(files) /\ i \in 1..Len(files) /\ j <= i
        BY <1>1
    <3>2. at[j] \in DOMAIN w /\ a[at[j]] = files[j] /\ at[j] <= at[i]
        BY <1>2, <1>3, <2>2, <3>1
    <3>3. at[j] \in 1..at[i]
        BY <1>2, <1>10, <3>2
    <3> QED BY <1>11, <3>2, <3>3
  <2> QED BY <2>1, <2>2
<1> QED BY <1>11, <1>12 DEF t, a

LEMMA ExpiryStep ==
    ASSUME EngineInv, ByAge(files), [Next]_vars,
           NEW i \in DOMAIN files, ~Has(files', files[i].id)
    PROVE  \/ Release(files[i].id) \/ snap.id = files[i].id
           \/ /\ files[i].old
              /\ \A j \in 1..i : \/ ~Has(files', files[j].id)
                                 \/ files'[Len(files')].id = files[j].id
<1>1. /\ FilesGood(files) /\ files \in Seq(SoundFiles) /\ Unique(files)
      /\ Has(files, files[i].id)
    BY CacheShelves DEF EngineInv, Shelves, FilesGood, Has
<1>2. CASE Writes
  <2>1. PICK f \in SoundFiles :
            ~f.old /\ (files' = Written(f) \/ files' = TrimDisk(Written(f)))
    BY <1>2 DEF Writes
  <2>2. Has(Written(f), files[i].id)
    BY <1>1, <2>1, HasInserted DEF Written
  <2>3. files' = TrimDisk(Written(f)) /\ ~Has(TrimDisk(Written(f)), files[i].id)
    BY <2>1, <2>2
  <2> QED BY <1>1, <2>1, <2>3, GoneWithWrite
<1>3. CASE files' = files
    BY <1>1, <1>3
<1>4. CASE files' = TrimDisk(files)
    BY <1>1, <1>4, Expired
<1>5. ASSUME NEW s, Erases(s) PROVE files[i].id = s
    BY <1>1, <1>5, HasWithout DEF Erases
<1>6. CASE AgeFiles
  <2>1. PICK n \in DOMAIN files :
          files' = [k \in DOMAIN files |->
                        [files[k] EXCEPT !.old = files[k].old \/ k <= n]]
    BY <1>6 DEF AgeFiles
  <2>2. files[i] \in FileEntries
    BY <1>1, ElementOfSeq, LenProperties DEF SoundFiles
  <2>3. i \in DOMAIN files' /\ files'[i].id = files[i].id
    BY <2>1, <2>2 DEF FileEntries
  <2> QED BY <2>3 DEF Has
<1> QED BY <1>2, <1>3, <1>4, <1>5, <1>6, FileMovesStep DEF FileMoves

THEOREM AgeInvariant == Spec => [](EngineInv /\ ByAge(files))
<1>1. Init => EngineInv /\ ByAge(files)
    BY InitInv DEF Init, SnapInv, Storing, EngineInv, ByAge
<1>2. EngineInv /\ ByAge(files) /\ [Next]_vars => (EngineInv /\ ByAge(files))'
  <2>1. ASSUME ByAge(files') PROVE ByAge(files)'
    BY <2>1 DEF ByAge
  <2> QED BY <2>1, ByAgeStep, SnapStep, NextInv DEF EngineInv
<1> QED BY <1>1, <1>2, PTL DEF Spec

(* A session loses its file only when it is released, when RAM takes it     *)
(* over, or by age, and then no older file outlives it.                     *)
THEOREM ExpiryIsByAge == Spec => FilesExpireByAge
<1> DEFINE A == LET Gone(f) == \A j \in DOMAIN files' : files'[j].id # f.id
                    Rewritten(f) == files'[Len(files')].id = f.id
                IN  \A i \in DOMAIN files :
                        Gone(files[i]) =>
                            \/ Release(files[i].id) \/ snap.id = files[i].id
                            \/ files[i].old /\ \A j \in 1..i :
                                   Gone(files[j]) \/ Rewritten(files[j])
<1>1. EngineInv /\ ByAge(files) /\ [Next]_vars => [A]_vars
    BY ExpiryStep DEF Has
<1> HIDE DEF A
<1>2. Spec => [][A]_vars
    BY <1>1, AgeInvariant, PTL DEF Spec
<1> QED BY <1>2 DEF FilesExpireByAge, A
-----------------------------------------------------------------------------
(* A shutdown without failures *)

(* The conversation is in a whole file that no trim takes away. *)
OnFresh(fs, s, c) ==
    \E i \in DOMAIN fs : /\ fs[i].id = s /\ fs[i].whole
                         /\ ~fs[i].old /\ fs[i].tokens = c

LEMMA FreshOfTrimmed ==
    ASSUME NEW fs \in Seq(SoundFiles), ByAge(fs), NEW s, NEW c, OnFresh(fs, s, c)
    PROVE  OnFresh(TrimDisk(fs), s, c)
<1>1. PICK n \in 0..Len(fs) : /\ TrimDisk(fs) = SubSeq(fs, n + 1, Len(fs))
                              /\ \A k \in 1..n : fs[k].old
    BY TrimDropsOld
<1> DEFINE t == SubSeq(fs, n + 1, Len(fs))
<1>2. /\ Len(fs) \in Nat /\ DOMAIN fs = 1..Len(fs) /\ DOMAIN t = 1..(Len(fs) - n)
      /\ \A k \in 1..(Len(fs) - n) : t[k] = fs[n + k]
    BY SuffixLemma, LenProperties
<1>3. PICK i \in DOMAIN fs : /\ fs[i].id = s /\ fs[i].whole
                             /\ ~fs[i].old /\ fs[i].tokens = c
    BY DEF OnFresh
<1> HIDE DEF t
<1>4. i - n \in DOMAIN t /\ n + (i - n) = i
    BY <1>1, <1>2, <1>3
<1>5. t[i - n] = fs[i]
    BY <1>2, <1>4
<1> QED BY <1>1, <1>3, <1>4, <1>5 DEF OnFresh, t

(* save puts the conversation in such a file, and leaves the others.        *)
LEMMA SaveIsFresh ==
    ASSUME FilesGood(files), ByAge(files), NEW s \in Sessions, NEW ids \in Texts,
           Len(ids) <= MaxCtx, SaveOk(s, ids, ids)
    PROVE  /\ OnFresh(files', s, ids)
           /\ \A x, c : x # s /\ OnFresh(files, x, c) => OnFresh(files', x, c)
<1> DEFINE f == NewFile(s, ids, ids)
           w == Without(files, s)
           a == Written(f)
<1>1. f \in SoundFiles /\ f.id = s /\ f.tokens = ids /\ f.whole /\ ~f.old
    BY DEF NewFile, SoundFiles, FileEntries
<1>2. files' = TrimDisk(a)
    BY DEF SaveOk
<1> HIDE DEF f
<1>3. /\ Len(w) \in Nat /\ DOMAIN w = 1..Len(w) /\ a \in Seq(SoundFiles)
      /\ DOMAIN a = 1..(Len(w) + 1)
      /\ \A k \in 1..Len(w) : a[k] = w[k]
      /\ a[Len(w) + 1] = f /\ ByAge(a)
    BY <1>1, WrittenLast, ByAgeWritten
<1>4. OnFresh(a, s, ids)
  <2> HIDE DEF a, w
  <2> QED BY <1>1, <1>3 DEF OnFresh
<1>5. ASSUME NEW x, NEW c, x # s, OnFresh(files, x, c) PROVE OnFresh(a, x, c)
  <2>1. PICK j \in DOMAIN files : /\ files[j].id = x /\ files[j].whole
                                  /\ ~files[j].old /\ files[j].tokens = c
    BY <1>5 DEF OnFresh
  <2>2. PICK i \in DOMAIN w : w[i] = files[j]
    BY <1>5, <2>1, WithoutLemma DEF FilesGood
  <2> HIDE DEF a, w
  <2>3. i \in DOMAIN a /\ a[i] = files[j]
    BY <1>3, <2>2
  <2> QED BY <2>1, <2>3 DEF OnFresh
<1> QED BY <1>2, <1>3, <1>4, <1>5, FreshOfTrimmed

LEMMA LiveSavedMeans ==
    LiveSaved <=> InRam(parked, active, tokens) \/ OnFresh(files, active, tokens)
BY DEF LiveSaved, InRam, OnFresh

LEMMA LiveSavedNext ==
    LiveSaved' <=> InRam(parked', active', tokens') \/ OnFresh(files', active', tokens')
BY DEF LiveSaved, InRam, OnFresh

(* Nothing without tokens is parked. *)
NonEmpty(es) == \A i \in DOMAIN es : es[i].tokens # <<>>

LEMMA NonEmptyMoves ==
    ASSUME NEW es \in Seq(SoundEntries), NonEmpty(es)
    PROVE  /\ \A s : NonEmpty(Without(es, s))
           /\ \A e \in SoundEntries : e.tokens # <<>> => NonEmpty(Inserted(es, e))
<1>1. ASSUME NEW s PROVE NonEmpty(Without(es, s))
  <2>1. Among(Without(es, s), es)
    BY WithoutLemma
  <2> QED BY <2>1 DEF Among, NonEmpty
<1>2. ASSUME NEW e \in SoundEntries, e.tokens # <<>> PROVE NonEmpty(Inserted(es, e))
  <2>1. \A i \in DOMAIN Inserted(es, e) :
            \/ Inserted(es, e)[i] = e
            \/ \E j \in DOMAIN es : Inserted(es, e)[i] = es[j]
    BY InsertedLemma
  <2> QED BY <1>2, <2>1 DEF NonEmpty
<1> QED BY <1>1, <1>2

LEMMA ParkedNonEmptyStep ==
    ASSUME EngineInv, ParkedNonEmpty, [Next]_vars
    PROVE  NonEmpty(parked')
<1>1. /\ ParkedGood(parked) /\ parked \in Seq(SoundEntries) /\ CacheInv /\ Stores
      /\ NonEmpty(parked)
    BY CacheShelves, CacheStores DEF EngineInv, Shelves, ParkedGood, ParkedNonEmpty,
                                     NonEmpty
<1>2. CASE Store \/ SpillOk
  <2>1. parked' = parked \/ \E s : parked' = Without(parked, s)
    BY <1>2 DEF Store, SpillOk
  <2> QED BY <1>1, <2>1, NonEmptyMoves
<1>3. CASE KeepInMemory
  <2>1. pc \in Storing /\ parked' = Inserted(parked, snap)
    BY <1>3 DEF KeepInMemory, Storing
  <2>2. snap \in SoundEntries /\ snap.tokens # <<>>
    BY <1>1, <2>1, SnapSound DEF ParkedNonEmpty
  <2> QED BY <1>1, <2>1, <2>2, NonEmptyMoves
<1>4. ASSUME NEW s, InMemory(s)
      PROVE  /\ NonEmpty(Inserted(parked, Entry(s)))
             /\ Inserted(parked, Entry(s)) \in Seq(SoundEntries)
  <2>1. Entry(s) \in SoundEntries
    BY <1>1, <1>4, EntrySound
  <2>2. IndexOf(parked, s) \in DOMAIN parked
    BY <1>4 DEF InMemory, Has, IndexOf
  <2>3. Entry(s).tokens # <<>>
    BY <1>1, <2>2 DEF NonEmpty, Entry
  <2> QED BY <1>1, <2>1, <2>3, NonEmptyMoves, InsertedLemma
<1>5. CASE RamMoves
  <2>1. NonEmpty(<<>>)
    BY EmptySeq DEF NonEmpty
  <2> QED BY <1>1, <1>4, <1>5, <2>1, NonEmptyMoves DEF RamMoves
<1>6. CASE UNCHANGED vars
    BY <1>1, <1>6 DEF vars, cache
<1> QED BY <1>2, <1>3, <1>5, <1>6, MovesStep DEF Moves

(* What is being stored: at a shutdown, the live session as it is. *)
SnapOfCall ==
    pc \in Storing => /\ snap.tokens # <<>>
                      /\ back = "shutdown" => snap.id = active /\ snap.tokens = tokens

LEMMA SnapOfCallStep ==
    ASSUME EngineInv, ParkedNonEmpty, SnapOfCall, [Next]_vars
    PROVE  SnapOfCall'
<1>1. ASSUME pc' \notin Storing PROVE SnapOfCall'
    BY <1>1 DEF SnapOfCall
<1>2. CASE ParkNothing \/ ParkOnDisk \/ WriteLive \/ KeepInMemory \/ SaveSnapOk
           \/ SaveSnapFails
  <2>1. pc' \notin Storing
    BY <1>2 DEF ParkNothing, ParkOnDisk, WriteLive, KeepInMemory, SaveSnapOk,
                SaveSnapFails, Stored, Return, AfterPark, Goto, Storing
  <2> QED BY <1>1, <2>1
<1>3. CASE ParkInMemory
  <2>1. /\ snap' = [id |-> active, tokens |-> tokens, state |-> cells]
        /\ active' = active /\ tokens' = tokens /\ tokens # <<>>
    BY <1>3 DEF ParkInMemory, Capture, NothingToPark, cache
  <2>2. snap'.id = active' /\ snap'.tokens = tokens' /\ tokens' # <<>>
    BY <2>1
  <2> QED BY <2>2 DEF SnapOfCall
<1>4. CASE Store \/ SpillOk \/ SpillFails
  <2>1. pc \in Storing /\ UNCHANGED <<snap, back, active, tokens>>
    BY <1>4 DEF Store, SpillOk, SpillFails, Storing
  <2> QED BY <2>1 DEF SnapOfCall
<1>5. CASE Parking
    BY <1>2, <1>3, <1>4, <1>5 DEF Parking
<1>6. CASE Restoring \/ CopyLive \/ Flushing
  <2>1. pc' \notin Storing
    BY <1>6 DEF Restoring, RestoreFromMemory, MemoryRestoreFails, RestoreFromDisk,
           DiskRestoreFails, NothingParked, Miss, CopyLive, Flushing, StartFlush,
           FlushOne, FlushDone, Return, Goto, Storing
  <2> QED BY <1>1, <2>1
<1>7. CASE Turning \/ AbortTurn
  <2>1. pc' \notin Storing
    BY <1>7 DEF Turning, RejectPrompt, ReusePrefix, DecodePrompt, PromptDecoded,
           SampleToken, FinishTurn, FillContext, Rollback, AbortTurn, Return,
           Goto, Storing
  <2> QED BY <1>1, <2>1
<1>8. CASE \E s \in Ids, p \in Prompts : Turn(s, p)
    BY <1>1, <1>8 DEF Turn, Goto, Storing
<1>9. CASE \E s \in Sessions : Release(s)
    BY <1>1, <1>9 DEF Release, Storing
<1>10. ASSUME NEW t \in Sessions, CloneLive(t) PROVE SnapOfCall'
  <2>1. CASE pc' = "store"
    <3>1. /\ snap' = [id |-> t, tokens |-> tokens, state |-> cells]
          /\ tokens # <<>> /\ back' # "shutdown"
        BY <1>10, <2>1 DEF CloneLive, Capture, Goto
    <3>2. snap'.tokens # <<>>
        BY <3>1
    <3> QED BY <3>1, <3>2 DEF SnapOfCall
  <2>2. CASE pc' # "store"
    BY <1>1, <1>10, <2>2 DEF CloneLive, Goto, Storing
  <2> QED BY <2>1, <2>2
<1>11. ASSUME NEW f \in Sessions, NEW t \in Sessions, CloneParked(f, t)
       PROVE  SnapOfCall'
  <2>1. InMemory(f) /\ snap' = [Entry(f) EXCEPT !.id = t] /\ back' = "clone"
    BY <1>11 DEF CloneParked
  <2>2. Entry(f) \in SoundEntries /\ IndexOf(parked, f) \in DOMAIN parked
    BY <2>1, CacheStores, EntrySound DEF EngineInv, InMemory, Has, IndexOf
  <2>3. snap'.tokens = Entry(f).tokens /\ Entry(f).tokens # <<>>
    BY <2>1, <2>2 DEF SoundEntries, Entries, Entry, ParkedNonEmpty
  <2> QED BY <2>1, <2>3 DEF SnapOfCall
<1>12. CASE \E f, t \in Sessions : CloneFile(f, t)
    BY <1>1, <1>12 DEF CloneFile, Goto, Storing
<1>13. CASE Shutdown \/ Kill \/ Restart \/ AgeFiles
    BY <1>1, <1>13 DEF Shutdown, Kill, Restart, AgeFiles, Goto, Storing
<1>14. CASE UNCHANGED vars
    BY <1>14 DEF vars, cache, storing, SnapOfCall
<1> QED BY <1>5, <1>6, <1>7, <1>8, <1>9, <1>10, <1>11, <1>12, <1>13, <1>14
        DEF Next, Worker

LEMMA ReachesFlush ==
    ASSUME [Next]_vars, pc' \in {"flush", "flushing", "off"}
    PROVE  \/ /\ pc' = "flush"
              /\ \/ ParkNothing
                 \/ (KeepInMemory \/ SaveSnapOk) /\ back = "shutdown"
                 \/ WriteLive
           \/ pc' = "flushing" /\ (StartFlush \/ FlushOne)
           \/ pc' = "off" /\ (FlushDone \/ (AgeFiles /\ pc = "off"))
           \/ UNCHANGED vars
<1>1. CASE Parking
  <2>1. pc' # "flushing" /\ pc' # "off"
    BY <1>1 DEF Parking, ParkNothing, ParkInMemory, ParkOnDisk, Store, SpillOk,
                SpillFails, KeepInMemory, SaveSnapOk, SaveSnapFails, WriteLive,
                Stored, Return, AfterPark, Goto
  <2>2. ~(ParkInMemory \/ ParkOnDisk \/ Store \/ SpillOk \/ SpillFails \/ SaveSnapFails)
    BY DEF ParkInMemory, ParkOnDisk, Store, SpillOk, SpillFails, SaveSnapFails,
           Stored, Return, Goto
  <2>3. ASSUME KeepInMemory \/ SaveSnapOk PROVE back = "shutdown"
    BY <2>3 DEF KeepInMemory, SaveSnapOk, Stored, Return, AfterPark, Goto
  <2> QED BY <1>1, <2>1, <2>2, <2>3 DEF Parking
<1>2. CASE Restoring \/ Turning \/ AbortTurn \/ CopyLive
    BY <1>2 DEF Restoring, RestoreFromMemory, MemoryRestoreFails, RestoreFromDisk,
           DiskRestoreFails, NothingParked, Miss, Turning, RejectPrompt, ReusePrefix,
           DecodePrompt, PromptDecoded, SampleToken, FinishTurn, FillContext, Rollback,
           AbortTurn, CopyLive, Return, Goto
<1>3. CASE Flushing
  <2>1. FlushOne => pc' = "flushing"
    BY DEF FlushOne
  <2>2. StartFlush => pc' = "flushing"
    BY DEF StartFlush, Goto
  <2>3. FlushDone => pc' = "off"
    BY DEF FlushDone, Goto
  <2> QED BY <1>3, <2>1, <2>2, <2>3 DEF Flushing
<1>4. CASE \E s \in Ids, p \in Prompts : Turn(s, p)
    BY <1>4 DEF Turn, Goto
<1>5. CASE \E s \in Sessions : Release(s) \/ CloneLive(s)
    BY <1>5 DEF Release, CloneLive, Goto
<1>6. CASE \E f, t \in Sessions : CloneParked(f, t) \/ CloneFile(f, t)
    BY <1>6 DEF CloneParked, CloneFile, Goto
<1>7. CASE Shutdown \/ Kill \/ Restart
    BY <1>7 DEF Shutdown, Kill, Restart, Goto
<1>8. CASE AgeFiles
    BY <1>8 DEF AgeFiles
<1> QED BY <1>1, <1>2, <1>3, <1>4, <1>5, <1>6, <1>7, <1>8 DEF Next, Worker

FlushLive ==
    pc \in {"flush", "flushing"} /\ active \in Sessions /\ tokens # <<>> => LiveSaved

FlushList ==
    pc = "flushing" => \A i \in DOMAIN parked : \E j \in DOMAIN spilling :
                           spilling[j] = parked[i].id

(* Nothing fails, so the flush saves what it takes out of RAM.              *)
LEMMA FlushSaves ==
    ASSUME ~Faults, EngineInv, ParkedNonEmpty, FlushOne
    PROVE  LET h == Head(spilling)
           IN  /\ pc = "flushing" /\ spilling # <<>>
               /\ InMemory(h) /\ Entry(h) \in SoundEntries /\ h \in Sessions
               /\ SaveOk(h, Entry(h).tokens, Entry(h).tokens)
               /\ Entry(h).tokens \in Texts /\ Len(Entry(h).tokens) <= MaxCtx
               /\ parked' = Without(parked, h) /\ spilling' = Tail(spilling)
<1> DEFINE h == Head(spilling)
<1>1. pc = "flushing" /\ spilling # <<>> /\ spilling' = Tail(spilling)
    BY DEF FlushOne
<1>2. InMemory(h) /\ Entry(h) \in SoundEntries /\ Entry(h).id = h
    BY <1>1, HeadParked DEF EngineInv
<1>3. h \in Sessions /\ Entry(h).tokens \in Texts
      /\ Entry(h).state = Entry(h).tokens /\ Len(Entry(h).tokens) <= MaxCtx
    BY <1>2 DEF SoundEntries, Entries
<1>4. IndexOf(parked, h) \in DOMAIN parked
    BY <1>2 DEF InMemory, Has, IndexOf
<1>5. Entry(h).tokens # <<>>
    BY <1>4 DEF ParkedNonEmpty, Entry
<1>6. ~SaveFails(Entry(h).tokens)
    BY <1>5 DEF SaveFails
<1>7. SaveOk(h, Entry(h).tokens, Entry(h).tokens) /\ parked' = Without(parked, h)
    BY <1>2, <1>3, <1>6 DEF FlushOne
<1> QED BY <1>1, <1>2, <1>3, <1>7

LEMMA FlushLiveStep ==
    ASSUME ~Faults, EngineInv, ByAge(files), ParkedNonEmpty, SnapOfCall, FlushLive,
           [Next]_vars, pc' \in {"flush", "flushing"},
           active' \in Sessions, tokens' # <<>>
    PROVE  LiveSaved'
<1>1. /\ CacheInv /\ LocalsInv /\ Shelves /\ FilesGood(files) /\ files \in Seq(SoundFiles)
      /\ ParkedGood(parked) /\ parked \in Seq(SoundEntries)
    BY CacheShelves DEF EngineInv, CacheInv, Shelves, FilesGood, ParkedGood
<1>2. CASE ParkNothing
    BY <1>2, KvAssumption DEF ParkNothing, NothingToPark, cache
<1>3. CASE KeepInMemory /\ back = "shutdown"
  <2>1. /\ pc \in Storing /\ parked' = Inserted(parked, snap)
        /\ active' = active /\ tokens' = tokens
    BY <1>3 DEF KeepInMemory, Storing
  <2>2. snap \in SoundEntries /\ snap.id = active /\ snap.tokens = tokens
    BY <1>1, <1>3, <2>1, SnapSound DEF SnapOfCall
  <2>3. InRam(parked', active, tokens)
    BY <1>1, <2>1, <2>2, IsInserted DEF InRam
  <2> QED BY <2>1, <2>3, LiveSavedNext
<1>4. CASE SaveSnapOk /\ back = "shutdown"
  <2>1. /\ pc \in Storing /\ SaveOk(snap.id, snap.tokens, snap.state)
        /\ active' = active /\ tokens' = tokens
    BY <1>4 DEF SaveSnapOk, Storing, cache
  <2>2. /\ snap.id \in Sessions /\ snap.tokens \in Texts /\ snap.state = snap.tokens
        /\ Len(snap.tokens) <= MaxCtx /\ snap.id = active /\ snap.tokens = tokens
    BY <1>1, <1>4, <2>1, SnapSound DEF SnapOfCall
  <2>3. OnFresh(files', active, tokens)
    BY <1>1, <2>1, <2>2, SaveIsFresh
  <2> QED BY <2>1, <2>3, LiveSavedNext
<1>5. CASE WriteLive
  <2>1. /\ pc = "write" /\ active' = active /\ tokens' = tokens
        /\ SaveOk(active, tokens, cells)
    BY <1>5 DEF WriteLive, SaveFails
  <2>2. cells = tokens /\ tokens \in Texts /\ Len(tokens) <= MaxCtx
    BY <1>1, <2>1, LiveSound
  <2>3. OnFresh(files', active, tokens)
    BY <1>1, <2>1, <2>2, SaveIsFresh
  <2> QED BY <2>1, <2>3, LiveSavedNext
<1>6. CASE StartFlush
  <2>1. pc = "flush" /\ UNCHANGED <<active, tokens, parked, files>>
    BY <1>6 DEF StartFlush, cache
  <2>2. LiveSaved
    BY <2>1 DEF FlushLive
  <2> QED BY <2>1, <2>2, LiveSavedMeans, LiveSavedNext
<1>7. CASE FlushOne
  <2> DEFINE h == Head(spilling)
  <2>1. /\ pc = "flushing" /\ InMemory(h) /\ Entry(h) \in SoundEntries /\ h \in Sessions
        /\ SaveOk(h, Entry(h).tokens, Entry(h).tokens)
        /\ Entry(h).tokens \in Texts /\ Len(Entry(h).tokens) <= MaxCtx
        /\ parked' = Without(parked, h)
    BY <1>7, FlushSaves
  <2>2. active' = active /\ tokens' = tokens
    BY <1>7 DEF FlushOne
  <2> HIDE DEF h
  <2>3. /\ OnFresh(files', h, Entry(h).tokens)
        /\ \A x, c : x # h /\ OnFresh(files, x, c) => OnFresh(files', x, c)
    BY <1>1, <2>1, SaveIsFresh
  <2>4. LiveSaved
    BY <2>1, <2>2 DEF FlushLive
  <2>5. CASE InRam(parked, active, tokens)
    <3>1. CASE active = h
      <4>1. Entry(h).tokens = tokens
        BY <1>1, <2>1, <2>5, <3>1, OnlyEntry
      <4> QED BY <2>2, <2>3, <3>1, <4>1, LiveSavedNext
    <3>2. CASE active # h
      <4>1. InRam(parked', active, tokens)
        BY <1>1, <2>1, <2>5, <3>2, RamKeeps
      <4> QED BY <2>2, <4>1, LiveSavedNext
    <3> QED BY <3>1, <3>2
  <2>6. CASE OnFresh(files, active, tokens)
    <3>1. active # h
        BY <1>1, <2>1, <2>6 DEF OnFresh, Shelves, OneCopy, InMemory, Has
    <3> QED BY <2>2, <2>3, <2>6, <3>1, LiveSavedNext
  <2> QED BY <2>4, <2>5, <2>6, LiveSavedMeans
<1>8. CASE UNCHANGED vars
  <2>1. UNCHANGED <<pc, active, tokens, parked, files>>
    BY <1>8 DEF vars, cache
  <2>2. LiveSaved
    BY <2>1 DEF FlushLive
  <2> QED BY <2>1, <2>2, LiveSavedMeans, LiveSavedNext
<1> QED BY <1>2, <1>3, <1>4, <1>5, <1>6, <1>7, <1>8, ReachesFlush

LEMMA FlushListStep ==
    ASSUME ~Faults, EngineInv, ParkedNonEmpty, FlushList, [Next]_vars, pc' = "flushing",
           NEW i \in DOMAIN parked'
    PROVE  \E j \in DOMAIN spilling' : spilling'[j] = parked'[i].id
<1>1. /\ CacheInv /\ ParkedGood(parked) /\ parked \in Seq(SoundEntries)
      /\ spilling \in Seq(Sessions)
    BY CacheShelves DEF EngineInv, CacheInv, TypeOK, Shelves, ParkedGood
<1>2. CASE StartFlush
    BY <1>2 DEF StartFlush, cache
<1>3. CASE FlushOne
  <2> DEFINE h == Head(spilling)
  <2>1. /\ pc = "flushing" /\ spilling # <<>>
        /\ parked' = Without(parked, h) /\ spilling' = Tail(spilling)
    BY <1>3, FlushSaves
  <2>2. Among(Without(parked, h), parked) /\ ~Has(Without(parked, h), h)
    BY <1>1, WithoutLemma DEF ParkedGood
  <2>3. PICK k \in DOMAIN parked : parked'[i] = parked[k]
    BY <2>1, <2>2 DEF Among
  <2>4. parked[k].id # h
    BY <2>1, <2>2, <2>3 DEF Has
  <2>5. PICK j \in DOMAIN spilling : spilling[j] = parked[k].id
    BY <2>1 DEF FlushList
  <2>6. /\ Len(spilling) \in Nat \ {0} /\ h = spilling[1] /\ DOMAIN spilling = 1..Len(spilling)
        /\ Tail(spilling) \in Seq(Sessions) /\ Len(Tail(spilling)) = Len(spilling) - 1
        /\ \A m \in 1..(Len(spilling) - 1) : Tail(spilling)[m] = spilling[m + 1]
    BY <1>1, <2>1, HeadTailProperties, EmptySeq, LenProperties
  <2>7. DOMAIN Tail(spilling) = 1..(Len(spilling) - 1)
    BY <2>6, LenProperties
  <2> HIDE DEF h
  <2>8. j # 1
    BY <2>4, <2>5, <2>6
  <2>9. j - 1 \in DOMAIN Tail(spilling) /\ (j - 1) + 1 = j
    BY <2>6, <2>7, <2>8
  <2>10. Tail(spilling)[j - 1] = spilling[j]
    BY <2>6, <2>7, <2>9
  <2> QED BY <2>1, <2>3, <2>5, <2>9, <2>10
<1>4. CASE UNCHANGED vars
    BY <1>4 DEF vars, cache, storing, FlushList
<1> QED BY <1>2, <1>3, <1>4, ReachesFlush

LEMMA CopiesMean ==
    ASSUME NEW s
    PROVE  /\ \A c : c \in Copies(s) <=> InRam(parked, s, c) \/ OnDisk(files, s, c)
           /\ \A c : c \in Copies(s)' <=> InRam(parked', s, c) \/ OnDisk(files', s, c)
BY DEF Copies, InRam, OnDisk

LEMMA OffStep ==
    ASSUME EngineInv, ByAge(files), FlushLive, FlushList, ShutdownSavesAll,
           [Next]_vars, pc' = "off"
    PROVE  /\ parked' = <<>>
           /\ active' \in Sessions /\ tokens' # <<>> =>
                  \A c : OnDisk(files', active', c) <=> c = tokens'
<1>1. /\ CacheInv /\ FilesGood(files) /\ files \in Seq(SoundFiles) /\ FilesGood(files')
      /\ parked \in Seq(SoundEntries) /\ DOMAIN files = 1..Len(files)
    BY CacheShelves, ShelvesStep, LenProperties
       DEF EngineInv, CacheInv, Shelves, FilesGood, ParkedGood
<1>2. CASE FlushDone
  <2>1. /\ pc = "flushing" /\ spilling = <<>> /\ files' = TrimDisk(files)
        /\ UNCHANGED <<active, tokens, parked>>
    BY <1>2 DEF FlushDone, cache
  <2>2. parked = <<>>
    <3>1. DOMAIN spilling = {}
        BY <2>1
    <3>2. DOMAIN parked = {}
        BY <2>1, <3>1 DEF FlushList
    <3>3. Len(parked) = 0
        BY <1>1, <3>2, LenProperties
    <3> QED BY <1>1, <3>3, EmptySeq
  <2>3. ASSUME active \in Sessions, tokens # <<>> PROVE OnFresh(files, active, tokens)
    <3>1. LiveSaved
        BY <2>1, <2>3 DEF FlushLive
    <3>2. ~InRam(parked, active, tokens)
        BY <2>2, EmptySeq DEF InRam
    <3> QED BY <3>1, <3>2, LiveSavedMeans
  <2>4. ASSUME active \in Sessions, tokens # <<>>
        PROVE  \A c : OnDisk(files', active, c) <=> c = tokens
    <3>1. OnFresh(files', active, tokens)
        BY <1>1, <2>1, <2>3, <2>4, FreshOfTrimmed
    <3>2. \A c : OnDisk(files', active, c) => c = tokens
        BY <1>1, <3>1 DEF OnFresh, OnDisk, FilesGood, Unique
    <3>3. OnDisk(files', active, tokens)
        BY <3>1 DEF OnFresh, OnDisk
    <3> QED BY <3>2, <3>3
  <2> QED BY <2>1, <2>2, <2>4
<1>3. ASSUME pc = "off", UNCHANGED <<active, tokens, parked>>,
             \A x, c : OnDisk(files', x, c) <=> OnDisk(files, x, c)
      PROVE  /\ parked' = <<>>
             /\ active' \in Sessions /\ tokens' # <<>> =>
                    \A c : OnDisk(files', active', c) <=> c = tokens'
  <2>1. parked = <<>>
    BY <1>3 DEF ShutdownSavesAll
  <2>2. \A c : ~InRam(parked, active, c)
    BY <2>1, EmptySeq DEF InRam
  <2>3. ASSUME active \in Sessions, tokens # <<>>
        PROVE  \A c : OnDisk(files, active, c) <=> c = tokens
    <3>1. Copies(active) = {tokens}
        BY <1>3, <2>3 DEF ShutdownSavesAll
    <3> QED BY <2>2, <3>1, CopiesMean
  <2> QED BY <1>3, <2>1, <2>3
<1>4. CASE AgeFiles /\ pc = "off"
  <2>1. PICK n \in DOMAIN files :
          files' = [k \in DOMAIN files |->
                        [files[k] EXCEPT !.old = files[k].old \/ k <= n]]
    BY <1>4 DEF AgeFiles
  <2>2. ASSUME NEW k \in DOMAIN files
        PROVE  /\ files'[k].id = files[k].id /\ files'[k].whole = files[k].whole
               /\ files'[k].tokens = files[k].tokens
    <3>1. files[k] \in FileEntries
        BY <1>1, ElementOfSeq DEF SoundFiles
    <3>2. files'[k] = [files[k] EXCEPT !.old = files[k].old \/ k <= n]
        BY <2>1
    <3> QED BY <3>1, <3>2 DEF FileEntries
  <2>3. DOMAIN files' = DOMAIN files
    BY <2>1
  <2>4. \A x, c : OnDisk(files', x, c) <=> OnDisk(files, x, c)
    BY <2>2, <2>3 DEF OnDisk
  <2>5. UNCHANGED <<active, tokens, parked>>
    BY <1>4 DEF AgeFiles, cache
  <2> QED BY <1>3, <1>4, <2>4, <2>5
<1>5. CASE UNCHANGED vars
  <2>1. UNCHANGED <<pc, active, tokens, parked, files>>
    BY <1>5 DEF vars, cache
  <2>2. \A x, c : OnDisk(files', x, c) <=> OnDisk(files, x, c)
    BY <2>1
  <2> QED BY <1>3, <2>1, <2>2
<1> QED BY <1>2, <1>4, <1>5, ReachesFlush

(* What the flush may count on, when nothing fails. *)
LEMMA ShutdownMeans ==
    ShutdownInv <=> /\ ByAge(files) /\ ParkedNonEmpty /\ FlushLive /\ FlushList
                    /\ SnapOfCall /\ ShutdownSavesAll
BY DEF ShutdownInv, FlushLive, FlushList, SnapOfCall, ParkedNonEmpty

LEMMA ShutdownStep ==
    ASSUME ~Faults, EngineInv, ShutdownInv, [Next]_vars
    PROVE  ShutdownInv'
<1>1. /\ ByAge(files) /\ ParkedNonEmpty /\ FlushLive /\ FlushList
      /\ SnapOfCall /\ ShutdownSavesAll
    BY ShutdownMeans
<1>2. ByAge(files)'
  <2>1. ByAge(files')
    BY <1>1, ByAgeStep
  <2> QED BY <2>1 DEF ByAge
<1>3. SnapOfCall'
    BY <1>1, SnapOfCallStep
<1>4. ParkedNonEmpty'
    BY <1>1, <1>3, ParkedNonEmptyStep DEF NonEmpty, ParkedNonEmpty, SnapOfCall
<1>5. FlushLive'
    BY <1>1, FlushLiveStep DEF FlushLive
<1>6. FlushList'
    BY <1>1, FlushListStep DEF FlushList
<1>7. ShutdownSavesAll'
  <2> SUFFICES ASSUME pc' = "off"
               PROVE  /\ parked' = <<>>
                      /\ active' \in Sessions /\ tokens' # <<>> =>
                             Copies(active)' = {tokens'}
    BY DEF ShutdownSavesAll
  <2>1. /\ parked' = <<>>
        /\ active' \in Sessions /\ tokens' # <<>> =>
               \A c : OnDisk(files', active', c) <=> c = tokens'
    BY <1>1, OffStep
  <2>2. \A c : ~InRam(parked', active', c)
    BY <2>1, EmptySeq DEF InRam
  <2>3. \A c : c \in Copies(active)' <=>
                   InRam(parked', active', c) \/ OnDisk(files', active', c)
    BY DEF Copies, InRam, OnDisk
  <2> QED BY <2>1, <2>2, <2>3
<1>8. (ShutdownInv <=> /\ ByAge(files) /\ ParkedNonEmpty /\ FlushLive /\ FlushList
                       /\ SnapOfCall /\ ShutdownSavesAll)'
    BY ShutdownMeans, PTL
<1> QED BY <1>2, <1>3, <1>4, <1>5, <1>6, <1>7, <1>8

(* After a shutdown in which no call fails nothing is left in RAM and the    *)
(* live session is in a whole file with all its tokens, whichever sessions   *)
(* RAM had taken before, and no matter how little the directory may hold.    *)
THEOREM ShutdownIsSafe == ~Faults => (Spec => []ShutdownSavesAll)
<1> SUFFICES ASSUME ~Faults PROVE Spec => []ShutdownSavesAll
    OBVIOUS
<1>1. Init => EngineInv /\ ShutdownInv
    BY InitInv DEF Init, SnapInv, Storing, EngineInv, ByAge, ParkedNonEmpty,
                   ShutdownInv, ShutdownSavesAll
<1>2. EngineInv /\ ShutdownInv /\ [Next]_vars => (EngineInv /\ ShutdownInv)'
    BY ShutdownStep, SnapStep, NextInv DEF EngineInv
<1>3. ShutdownInv => ShutdownSavesAll
    BY DEF ShutdownInv
<1> QED BY <1>1, <1>2, <1>3, PTL DEF Spec
=============================================================================
