----------------------------- MODULE KvOrigins ------------------------------
(* Where the conversations of a session come from and where they go: the    *)
(* engine implements SessionCache, a release is final, and the work for one *)
(* session loses no other.                                                  *)
EXTENDS KvProofs

(* A conversation in RAM, and one in a whole file. *)
InRam(es, s, c) == \E i \in DOMAIN es : es[i].id = s /\ es[i].tokens = c

OnDisk(fs, s, c) ==
    \E i \in DOMAIN fs : fs[i].id = s /\ fs[i].whole /\ fs[i].tokens = c

(* Where a session's conversation can be. *)
HeldAs(s, c) ==
    \/ InRam(parked, s, c)
    \/ OnDisk(files, s, c)
    \/ active = s /\ c = tokens
    \/ snap.id = s /\ c = snap.tokens
    \/ pc = "copy" /\ target = s /\ c = tokens

(* Held and HeldAs say the same. *)
LEMMA HeldLemma ==
    ASSUME NEW s, NEW c
    PROVE  (c \in Held(s) <=> HeldAs(s, c)) /\ (c \in Held(s)' <=> HeldAs(s, c)')
<1>1. c \in Held(s) <=> HeldAs(s, c)
  <2>1. c \in Copies(s) <=> InRam(parked, s, c) \/ OnDisk(files, s, c)
    BY DEF Copies, InRam, OnDisk
  <2> QED BY <2>1 DEF Held, HeldAs
<1>2. c \in Held(s)' <=> HeldAs(s, c)'
  <2>1. c \in Copies(s)' <=> InRam(parked', s, c) \/ OnDisk(files', s, c)
    BY DEF Copies, InRam, OnDisk
  <2> QED BY <2>1 DEF Held, HeldAs, InRam, OnDisk
<1> QED BY <1>1, <1>2

(* Sessions only lose conversations, but for what grows at one of them. *)
Grown(c, s) ==
    \/ \E h \in Held(s) \ {<<>>} : IsPrefix(c, h)
    \/ \E h \in Held(s) \cup {<<>>} : IsPrefix(h, c) /\ Len(c) <= Len(h) + BatchSize

Grows(a) ==
    \A s \in Ids : \A c : HeldAs(s, c)' /\ c # <<>> =>
        HeldAs(s, c) \/ (s = a /\ Grown(c, s))

Loses == \A s \in Ids : \A c : HeldAs(s, c)' /\ c # <<>> => HeldAs(s, c)

Copied(f, t) ==
    \A s \in Ids : \A c : HeldAs(s, c)' /\ c # <<>> =>
        HeldAs(s, c) \/ (s = t /\ HeldAs(f, c))

(* Either is a step of SessionCache. *)
LEMMA CacheStep ==
    ASSUME \/ \E a \in Ids : Grows(a)
           \/ pc \in {"idle", "off", "killed"} /\ \E f, t \in Ids : Copied(f, t)
    PROVE  Cache!CacheNext
<1> DEFINE H(s) == Held(s) \ {<<>>}
           held == [s \in Ids |-> H(s)]
           busy == pc \notin {"idle", "off", "killed"}
<1>1. \A s \in Ids : held[s] = H(s) /\ held'[s] = H(s)'
    OBVIOUS
<1>2. ASSUME NEW a \in Ids, Grows(a) PROVE Cache!Evolve(a)
  <2>1. ASSUME NEW s \in Ids, NEW c \in held'[s] \ held[s]
        PROVE  s = a /\ Cache!Reachable(c, s)
    <3>1. HeldAs(s, c)' /\ ~HeldAs(s, c) /\ c # <<>>
        BY <1>1, <2>1, HeldLemma
    <3>2. s = a /\ Grown(c, s)
        BY <1>2, <3>1 DEF Grows
    <3> QED BY <3>2, <1>1 DEF Grown, Cache!Reachable, IsPrefix, Cache!IsPrefix
  <2> QED BY <2>1, <1>1 DEF Cache!Evolve, Cache!OnlyLoses
<1>3. ASSUME NEW f \in Ids, NEW t \in Ids, Copied(f, t), ~busy
      PROVE  Cache!Clone(f, t)
  <2>1. ASSUME NEW s \in Ids, NEW c \in held'[s] \ held[s]
        PROVE  s = t /\ c \in held[f]
    <3>1. HeldAs(s, c)' /\ ~HeldAs(s, c) /\ c # <<>>
        BY <1>1, <2>1, HeldLemma
    <3>2. s = t /\ HeldAs(f, c)
        BY <1>3, <3>1 DEF Copied
    <3> QED BY <3>1, <3>2, <1>1, HeldLemma
  <2> QED BY <2>1, <1>1, <1>3 DEF Cache!Clone, Cache!OnlyLoses
<1> QED BY <1>2, <1>3 DEF Cache!CacheNext
-----------------------------------------------------------------------------
(* What leaves and what enters RAM and the directory. *)
LEMMA RamLoses ==
    ASSUME NEW es, ParkedGood(es), NEW s, NEW x, NEW c,
           InRam(Without(es, s), x, c)
    PROVE  InRam(es, x, c) /\ x # s
<1>1. Among(Without(es, s), es) /\ ~Has(Without(es, s), s)
    BY WithoutLemma DEF ParkedGood
<1> QED BY <1>1 DEF Among, InRam, Has

LEMMA RamGains ==
    ASSUME Shelves, NEW e \in SoundEntries, NEW x, NEW c,
           InRam(Inserted(parked, e), x, c)
    PROVE  InRam(parked, x, c) \/ (x = e.id /\ c = e.tokens)
<1>1. \A i \in DOMAIN Inserted(parked, e) :
          \/ Inserted(parked, e)[i] = e
          \/ \E j \in DOMAIN parked : Inserted(parked, e)[i] = parked[j]
    BY InsertedLemma DEF Shelves, ParkedGood
<1> QED BY <1>1 DEF InRam

LEMMA EntryHeld == ASSUME NEW s, InMemory(s) PROVE InRam(parked, s, Entry(s).tokens)
BY DEF InMemory, Has, IndexOf, Entry, InRam

LEMMA FileHeld ==
    ASSUME NEW s, HasFile(s), FileOf(s).whole
    PROVE  OnDisk(files, s, FileOf(s).tokens)
BY DEF HasFile, Has, IndexOf, FileOf, OnDisk

LEMMA DiskLoses ==
    ASSUME NEW fs \in Seq(SoundFiles)
    PROVE  /\ \A s, x, c : OnDisk(Without(fs, s), x, c) => OnDisk(fs, x, c)
           /\ \A x, c : OnDisk(TrimDisk(fs), x, c) => OnDisk(fs, x, c)
<1>1. ASSUME NEW s PROVE \A x, c : OnDisk(Without(fs, s), x, c) => OnDisk(fs, x, c)
  <2>1. Among(Without(fs, s), fs)
    BY WithoutLemma
  <2> QED BY <2>1 DEF Among, OnDisk
<1>2. Among(TrimDisk(fs), fs)
    BY TrimDiskLemma
<1>3. \A x, c : OnDisk(TrimDisk(fs), x, c) => OnDisk(fs, x, c)
    BY <1>2 DEF Among, OnDisk
<1> QED BY <1>1, <1>3

LEMMA DiskGains ==
    ASSUME FilesGood(files), NEW f \in SoundFiles, NEW x, NEW c,
           OnDisk(Written(f), x, c) \/ OnDisk(TrimDisk(Written(f)), x, c)
    PROVE  OnDisk(files, x, c) \/ (f.whole /\ x = f.id /\ c = f.tokens)
<1>1. /\ Inserted(files, f) \in Seq(SoundFiles)
      /\ \A i \in DOMAIN Inserted(files, f) :
             \/ Inserted(files, f)[i] = f
             \/ \E j \in DOMAIN files : Inserted(files, f)[i] = files[j]
    BY InsertedLemma DEF FilesGood
<1>2. OnDisk(Inserted(files, f), x, c)
    BY <1>1, DiskLoses DEF Written
<1> QED BY <1>1, <1>2 DEF OnDisk

LEMMA SaveGains ==
    ASSUME FilesGood(files), NEW s \in Sessions, NEW ids \in Texts,
           Len(ids) <= MaxCtx, SaveOk(s, ids, ids), NEW x, NEW c,
           OnDisk(files', x, c)
    PROVE  OnDisk(files, x, c) \/ (x = s /\ c = ids)
<1> DEFINE f == NewFile(s, ids, ids)
<1>1. f \in SoundFiles /\ f.id = s /\ f.tokens = ids
    BY DEF NewFile, SoundFiles, FileEntries
<1>2. files' = TrimDisk(Written(f))
    BY DEF SaveOk
<1> HIDE DEF f
<1> QED BY <1>1, <1>2, DiskGains

(* Nothing moves but the locals of the call. *)
LEMMA NothingMoves ==
    ASSUME UNCHANGED <<parked, files, active>>, tokens' \in {tokens, <<>>},
           snap' \in {snap, NoSnap}, pc' # "copy"
    PROVE  Loses
BY DEF Loses, HeldAs, InRam, OnDisk, NoSnap
-----------------------------------------------------------------------------
(* The snapshot *)

LEMMA QuietSnap ==
    ASSUME SnapInv, pc' \notin Storing,
           snap' = NoSnap \/ (snap' = snap /\ pc \notin Storing)
    PROVE  SnapInv'
BY DEF SnapInv

LEMMA SnapInParking == EngineInv /\ Parking => SnapInv'
<1> SUFFICES ASSUME EngineInv, Parking PROVE SnapInv'
    OBVIOUS
<1>1. SnapInv /\ LocalsInv
    BY DEF EngineInv, CacheInv
<1>2. CASE ParkNothing \/ ParkOnDisk \/ WriteLive
  <2>1. snap' = snap /\ pc \notin Storing /\ pc' \notin Storing
    BY <1>2 DEF ParkNothing, ParkOnDisk, WriteLive, AfterPark, Goto, Storing, storing
  <2> QED BY <1>1, <2>1, QuietSnap
<1>3. CASE ParkInMemory
  <2>1. pc = "park" /\ pc' = "store" /\ back' = back
    BY <1>3 DEF ParkInMemory, Goto
  <2> QED BY <1>1, <2>1 DEF SnapInv, LocalsInv, Storing, Cloning
<1>4. CASE Store \/ SpillOk \/ SpillFails
  <2>1. /\ pc \in Storing /\ pc' \in Storing
        /\ snap' = snap /\ back' = back /\ tokens' = tokens
    BY <1>4 DEF Store, SpillOk, SpillFails, Goto, Storing
  <2> QED BY <1>1, <2>1 DEF SnapInv
<1>5. CASE KeepInMemory \/ SaveSnapOk \/ SaveSnapFails
  <2>1. snap' = NoSnap /\ pc' \notin Storing
    BY <1>5 DEF KeepInMemory, SaveSnapOk, SaveSnapFails, Stored, AfterPark, Return,
                ForgetLocals, Goto, Storing
  <2> QED BY <1>1, <2>1, QuietSnap
<1> QED BY <1>2, <1>3, <1>4, <1>5 DEF Parking

LEMMA SnapStep == EngineInv /\ [Next]_vars => SnapInv'
<1> SUFFICES ASSUME EngineInv, [Next]_vars PROVE SnapInv'
    OBVIOUS
<1>1. SnapInv
    BY DEF EngineInv
<1>2. CASE Restoring
    BY <1>1, <1>2, QuietSnap
       DEF Restoring, RestoreFromMemory, MemoryRestoreFails, RestoreFromDisk,
           DiskRestoreFails, NothingParked, Miss, Goto, Storing, storing
<1>3. CASE Turning \/ AbortTurn
    BY <1>1, <1>3, QuietSnap
       DEF Turning, RejectPrompt, ReusePrefix, DecodePrompt, PromptDecoded,
           SampleToken, FinishTurn, FillContext, Rollback, AbortTurn, Return,
           ForgetLocals, Goto, Storing, storing
<1>4. CASE CopyLive \/ Flushing
    BY <1>1, <1>4, QuietSnap
       DEF CopyLive, Flushing, StartFlush, FlushOne, FlushDone, Return,
           ForgetLocals, Goto, Storing, storing
<1>5. CASE Worker \/ AbortTurn
    BY <1>2, <1>3, <1>4, <1>5, SnapInParking DEF Worker
<1>6. CASE \E s \in Ids, p \in Prompts : Turn(s, p)
    BY <1>1, <1>6, QuietSnap DEF Turn, Goto, Storing
<1>7. CASE \E s \in Sessions : Release(s)
    BY <1>1, <1>7, QuietSnap DEF Release, Storing, storing
<1>8. ASSUME NEW t \in Sessions, CloneLive(t) PROVE SnapInv'
  <2>1. CASE pc' = "store"
    <3>1. snap' = [id |-> t, tokens |-> tokens, state |-> cells] /\ tokens' = tokens
        BY <1>8, <2>1 DEF CloneLive, Capture, Goto, cache
    <3> QED BY <2>1, <3>1 DEF SnapInv, Storing
  <2>2. CASE pc' # "store"
    BY <1>1, <1>8, <2>2, QuietSnap DEF CloneLive, Goto, Storing
  <2> QED BY <2>1, <2>2
<1>9. CASE \E f, t \in Sessions : CloneParked(f, t)
  <2>1. pc' \in Storing /\ back' = "clone"
    BY <1>9 DEF CloneParked, Goto, Storing
  <2> QED BY <2>1 DEF SnapInv
<1>10. CASE \E f, t \in Sessions : CloneFile(f, t)
    BY <1>1, <1>10, QuietSnap
       DEF CloneFile, LoseProcess, ForgetLocals, Goto, Storing, storing
<1>11. CASE Shutdown \/ Kill \/ Restart \/ AgeFiles
    BY <1>1, <1>11, QuietSnap
       DEF Shutdown, Kill, Restart, AgeFiles, LoseProcess, ForgetLocals, Goto,
           Storing, storing
<1>12. CASE UNCHANGED vars
    BY <1>1, <1>12 DEF SnapInv, vars, cache, storing
<1> QED BY <1>5, <1>6, <1>7, <1>8, <1>9, <1>10, <1>11, <1>12 DEF Next

(* CacheInv, with what is known of the snapshot. *)
THEOREM EngineInvariant == Spec => []EngineInv
<1>1. Init => EngineInv
  <2>1. Init => SnapInv
    BY DEF Init, SnapInv, Storing
  <2> QED BY <2>1, InitInv DEF EngineInv
<1>2. EngineInv /\ [Next]_vars => EngineInv'
    BY SnapStep, NextInv DEF EngineInv
<1> QED BY <1>1, <1>2, PTL DEF Spec
-----------------------------------------------------------------------------
(* Where every conversation comes from, action by action *)

LEMMA LosesInParking == EngineInv /\ Parking => Loses
<1> SUFFICES ASSUME EngineInv, Parking PROVE Loses
    OBVIOUS
<1>1. CacheInv /\ Shelves /\ SnapInv /\ LocalsInv
    BY CacheShelves DEF EngineInv, CacheInv
<1>2. ParkedGood(parked) /\ FilesGood(files) /\ files \in Seq(SoundFiles)
    BY <1>1 DEF Shelves, FilesGood
<1>3. CASE ParkNothing \/ ParkOnDisk
    BY <1>3, NothingMoves
       DEF ParkNothing, ParkOnDisk, AfterPark, Goto, cache, storing
<1>4. CASE ParkInMemory
  <2>1. /\ UNCHANGED <<parked, files, active, tokens>> /\ pc' = "store"
        /\ snap' = [id |-> active, tokens |-> tokens, state |-> cells]
    BY <1>4 DEF ParkInMemory, Capture, Goto, cache
  <2> QED BY <2>1 DEF Loses, HeldAs, InRam, OnDisk
<1>5. CASE Store
  <2>1. /\ UNCHANGED <<files, active, tokens, snap>> /\ pc' # "copy"
        /\ parked' = parked \/ parked' = Without(parked, snap.id)
    BY <1>5 DEF Store, Goto
  <2>2. \A x, c : InRam(parked', x, c) => InRam(parked, x, c)
    BY <1>2, <2>1, RamLoses
  <2> QED BY <2>1, <2>2 DEF Loses, HeldAs, OnDisk
<1>6. CASE SpillOk
  <2> DEFINE h == Head(spilling)
  <2>1. /\ pc = "spill" /\ spilling # <<>> /\ parked' = Without(parked, h)
        /\ UNCHANGED <<active, tokens, snap, pc>>
    BY <1>6 DEF SpillOk
  <2>2. InMemory(h) /\ Entry(h) \in SoundEntries /\ Entry(h).id = h
    BY <1>1, <2>1, HeadParked
  <2>3. SaveOk(h, Entry(h).tokens, Entry(h).tokens) /\ h \in Sessions
        /\ Entry(h).tokens \in Texts /\ Len(Entry(h).tokens) <= MaxCtx
    BY <1>6, <2>2 DEF SpillOk, SoundEntries, Entries
  <2>4. \A x, c : OnDisk(files', x, c) =>
            OnDisk(files, x, c) \/ (x = h /\ c = Entry(h).tokens)
    BY <1>2, <2>3, SaveGains
  <2>5. InRam(parked, h, Entry(h).tokens)
    BY <2>2, EntryHeld
  <2>6. \A x, c : InRam(parked', x, c) => InRam(parked, x, c)
    BY <1>2, <2>1, RamLoses
  <2> QED BY <2>1, <2>4, <2>5, <2>6 DEF Loses, HeldAs
<1>7. CASE SpillFails
  <2> DEFINE h == Head(spilling)
             p == Inserted(parked, Entry(h))
  <2>1. /\ pc = "spill" /\ spilling # <<>> /\ pc' = "save"
        /\ parked' = Without(p, snap.id)
        /\ UNCHANGED <<active, tokens, snap, files>>
    BY <1>7 DEF SpillFails, AfterSpillFailure, SaveFails, Goto
  <2>2. InMemory(h) /\ Entry(h) \in SoundEntries /\ Entry(h).id = h
    BY <1>1, <2>1, HeadParked
  <2>3. InRam(parked, h, Entry(h).tokens)
    BY <2>2, EntryHeld
  <2>4. ParkedGood(p)
    BY <1>1, <2>2, EnterParked
  <2>5. \A x, c : InRam(p, x, c) => InRam(parked, x, c)
    BY <1>1, <2>2, <2>3, RamGains
  <2> HIDE DEF p
  <2>6. \A x, c : InRam(parked', x, c) => InRam(p, x, c)
    BY <2>1, <2>4, RamLoses
  <2> QED BY <2>1, <2>5, <2>6 DEF Loses, HeldAs, OnDisk
<1>8. CASE KeepInMemory
  <2>1. /\ pc = "spill" /\ parked' = Inserted(parked, snap)
        /\ files' = Without(files, snap.id) /\ snap' = NoSnap
        /\ pc' # "copy" /\ UNCHANGED <<active, tokens>>
    BY <1>8 DEF KeepInMemory, FilesBesideMemory, Stored, AfterPark, Return,
                ForgetLocals, Goto
  <2>2. snap \in SoundEntries
    BY <1>1, <2>1, SnapSound DEF Storing
  <2>3. \A x, c : InRam(parked', x, c) =>
            InRam(parked, x, c) \/ (x = snap.id /\ c = snap.tokens)
    BY <1>1, <2>1, <2>2, RamGains
  <2>4. \A x, c : OnDisk(files', x, c) => OnDisk(files, x, c)
    BY <1>2, <2>1, DiskLoses
  <2> QED BY <2>1, <2>3, <2>4 DEF Loses, HeldAs, NoSnap
<1>9. CASE SaveSnapOk
  <2>1. /\ pc = "save" /\ SaveOk(snap.id, snap.tokens, snap.state)
        /\ snap' = NoSnap /\ pc' # "copy" /\ UNCHANGED <<parked, active, tokens>>
    BY <1>9 DEF SaveSnapOk, Stored, AfterPark, Return, ForgetLocals, Goto, cache
  <2>2. /\ snap.id \in Sessions /\ snap.tokens \in Texts
        /\ snap.state = snap.tokens /\ Len(snap.tokens) <= MaxCtx
    BY <1>1, <2>1, SnapSound DEF Storing
  <2>3. \A x, c : OnDisk(files', x, c) =>
            OnDisk(files, x, c) \/ (x = snap.id /\ c = snap.tokens)
    BY <1>2, <2>1, <2>2, SaveGains
  <2> QED BY <2>1, <2>3 DEF Loses, HeldAs, NoSnap, InRam
<1>10. CASE SaveSnapFails
  <2>1. /\ pc = "save" /\ UNCHANGED <<parked, files, active, tokens>>
        /\ snap' = NoSnap
        /\ pc' = "copy" => back = "clone live" /\ target' = target
    BY <1>10 DEF SaveSnapFails, SaveFails, Stored, AfterPark, Return, ForgetLocals,
                 Goto, cache, turn
  <2>2. back = "clone live" => snap.id = target /\ snap.tokens = tokens
    BY <1>1, <2>1 DEF LocalsInv, SnapInv, Storing
  <2> QED BY <2>1, <2>2 DEF Loses, HeldAs, NoSnap, InRam, OnDisk
<1>11. CASE WriteLive
  <2>1. /\ pc = "write" /\ parked' = Without(parked, active)
        /\ SaveOk(active, tokens, cells) \/ files' = files
        /\ UNCHANGED <<active, tokens, snap>> /\ pc' # "copy"
    BY <1>11 DEF WriteLive, SaveFails, AfterPark, Goto, storing
  <2>2. active \in Sessions
    BY <1>1, <2>1 DEF CacheInv, LocalsInv
  <2>3. cells = tokens /\ tokens \in Texts /\ Len(tokens) <= MaxCtx
    BY <1>1, <2>1, LiveSound
  <2>4. \A x, c : OnDisk(files', x, c) =>
            OnDisk(files, x, c) \/ (x = active /\ c = tokens)
    BY <1>2, <2>1, <2>2, <2>3, SaveGains
  <2>5. \A x, c : InRam(parked', x, c) => InRam(parked, x, c)
    BY <1>2, <2>1, RamLoses
  <2> QED BY <2>1, <2>4, <2>5 DEF Loses, HeldAs
<1> QED BY <1>3, <1>4, <1>5, <1>6, <1>7, <1>8, <1>9, <1>10, <1>11 DEF Parking

LEMMA LosesInRestoring == EngineInv /\ Restoring => Loses
<1> SUFFICES ASSUME EngineInv, Restoring PROVE Loses
    OBVIOUS
<1>1. CacheInv /\ Shelves /\ Stores /\ Context
    BY CacheShelves, CacheStores, CacheContext DEF EngineInv
<1>2. ParkedGood(parked)
    BY <1>1 DEF Shelves
<1>3. CASE RestoreFromMemory
  <2>1. /\ InMemory(target) /\ active' = target /\ tokens' = Entry(target).tokens
        /\ parked' = Without(parked, target) /\ UNCHANGED <<files, snap>>
        /\ pc' # "copy"
    BY <1>3 DEF RestoreFromMemory, Goto, storing
  <2>2. InRam(parked, target, tokens')
    BY <2>1, EntryHeld
  <2>3. \A x, c : InRam(parked', x, c) => InRam(parked, x, c)
    BY <1>2, <2>1, RamLoses
  <2> QED BY <2>1, <2>2, <2>3 DEF Loses, HeldAs, OnDisk
<1>4. CASE MemoryRestoreFails
  <2>1. /\ InMemory(target) /\ active' = target /\ tokens' = <<>>
        /\ parked' = Inserted(parked, Entry(target)) /\ UNCHANGED <<files, snap>>
        /\ pc' # "copy"
    BY <1>4 DEF MemoryRestoreFails, RestoreFails, Goto, storing
  <2>2. Entry(target) \in SoundEntries /\ Entry(target).id = target
    BY <1>1, <2>1, EntrySound
  <2>3. InRam(parked, target, Entry(target).tokens)
    BY <2>1, EntryHeld
  <2>4. \A x, c : InRam(parked', x, c) => InRam(parked, x, c)
    BY <1>1, <2>1, <2>2, <2>3, RamGains
  <2> QED BY <2>1, <2>4 DEF Loses, HeldAs, OnDisk
<1>5. CASE RestoreFromDisk
  <2>1. /\ HasFile(target) /\ FileOf(target).whole
        /\ active' = target /\ tokens' = FileOf(target).tokens
        /\ UNCHANGED <<parked, files, snap>> /\ pc' # "copy"
    BY <1>5 DEF RestoreFromDisk, Loadable, Goto, storing
  <2>2. OnDisk(files, target, tokens')
    BY <2>1, FileHeld
  <2> QED BY <2>1, <2>2 DEF Loses, HeldAs, OnDisk, InRam
<1>6. CASE DiskRestoreFails \/ NothingParked
  <2>1. tokens' = <<>> /\ UNCHANGED <<parked, files, snap>> /\ pc' # "copy"
    BY <1>6 DEF DiskRestoreFails, NothingParked, RestoreFails, Goto, storing
  <2> QED BY <2>1 DEF Loses, HeldAs, OnDisk, InRam
<1>7. CASE Miss
  <2>1. PICK o \in TrimOutcomes(0) : SetTo(o)
    BY <1>7 DEF Miss
  <2>2. (IF 0 > Len(tokens) THEN Len(tokens) ELSE 0) = 0
    BY <1>1, LenProperties DEF Context, Texts
  <2>3. tokens' = Prefix(tokens, 0) \/ tokens' = <<>>
    BY <1>1, <2>1, <2>2, TrimContext
  <2>4. tokens' = <<>>
    BY <2>3, SubSeqEmpty DEF Prefix
  <2>5. UNCHANGED <<parked, files, active, snap>> /\ pc' # "copy"
    BY <1>7 DEF Miss, Goto, storing
  <2> QED BY <2>4, <2>5, NothingMoves
<1> QED BY <1>3, <1>4, <1>5, <1>6, <1>7 DEF Restoring

LEMMA LosesInFlushing == EngineInv /\ (CopyLive \/ Flushing) => Loses
<1> SUFFICES ASSUME EngineInv, CopyLive \/ Flushing PROVE Loses
    OBVIOUS
<1>1. CacheInv /\ Shelves /\ LocalsInv
    BY CacheShelves DEF EngineInv, CacheInv
<1>2. ParkedGood(parked) /\ FilesGood(files) /\ files \in Seq(SoundFiles)
    BY <1>1 DEF Shelves, FilesGood
<1>3. CASE CopyLive
  <2>1. /\ pc = "copy" /\ UNCHANGED <<parked, active, tokens>>
        /\ SaveOk(target, tokens, cells) \/ files' = files
        /\ snap' = NoSnap /\ pc' # "copy"
    BY <1>3 DEF CopyLive, SaveFails, Return, ForgetLocals, Goto, cache
  <2>2. target \in Sessions
    BY <1>1, <2>1 DEF LocalsInv
  <2>3. cells = tokens /\ tokens \in Texts /\ Len(tokens) <= MaxCtx
    BY <1>1, <2>1, LiveSound
  <2>4. \A x, c : OnDisk(files', x, c) =>
            OnDisk(files, x, c) \/ (x = target /\ c = tokens)
    BY <1>2, <2>1, <2>2, <2>3, SaveGains
  <2> QED BY <2>1, <2>4 DEF Loses, HeldAs, NoSnap, InRam
<1>4. CASE StartFlush
    BY <1>4, NothingMoves DEF StartFlush, Goto, cache
<1>5. CASE FlushOne
  <2> DEFINE h == Head(spilling)
  <2>1. /\ pc = "flushing" /\ spilling # <<>> /\ UNCHANGED <<active, tokens, snap, pc>>
        /\ \/ /\ SaveOk(Entry(h).id, Entry(h).tokens, Entry(h).state)
              /\ parked' = Without(parked, Entry(h).id)
           \/ files' = files /\ parked' = Inserted(parked, Entry(h))
    BY <1>5 DEF FlushOne, SaveFails
  <2>2. InMemory(h) /\ Entry(h) \in SoundEntries /\ Entry(h).id = h
    BY <1>1, <2>1, HeadParked
  <2>3. /\ h \in Sessions /\ Entry(h).tokens \in Texts
        /\ Entry(h).state = Entry(h).tokens /\ Len(Entry(h).tokens) <= MaxCtx
    BY <2>2 DEF SoundEntries, Entries
  <2>4. InRam(parked, h, Entry(h).tokens)
    BY <2>2, EntryHeld
  <2>5. \A x, c : OnDisk(files', x, c) =>
            OnDisk(files, x, c) \/ (x = h /\ c = Entry(h).tokens)
    BY <1>2, <2>1, <2>2, <2>3, SaveGains
  <2>6. \A x, c : InRam(parked', x, c) => InRam(parked, x, c)
    <3>1. CASE parked' = Without(parked, h)
        BY <1>2, <3>1, RamLoses
    <3>2. CASE parked' = Inserted(parked, Entry(h))
        BY <1>1, <2>2, <2>4, <3>2, RamGains
    <3> QED BY <2>1, <2>2, <3>1, <3>2
  <2> QED BY <2>1, <2>4, <2>5, <2>6 DEF Loses, HeldAs
<1>6. CASE FlushDone
  <2>1. /\ files' = TrimDisk(files) /\ UNCHANGED <<parked, active, tokens, snap>>
        /\ pc' # "copy"
    BY <1>6 DEF FlushDone, Goto, cache, storing
  <2>2. \A x, c : OnDisk(files', x, c) => OnDisk(files, x, c)
    BY <1>2, <2>1, DiskLoses
  <2> QED BY <2>1, <2>2 DEF Loses, HeldAs, InRam
<1> QED BY <1>3, <1>4, <1>5, <1>6 DEF Flushing

(* The live session is the only one that gets a conversation of its own. *)
LEMMA LiveGrows ==
    ASSUME UNCHANGED <<parked, files, active, snap>>, pc' # "copy",
           tokens' # <<>> /\ tokens' # tokens => Grown(tokens', active)
    PROVE  Grows(active)
BY DEF Grows, HeldAs, InRam, OnDisk

LEMMA LiveHeld == tokens \in Held(active)
BY DEF Held

(* A prefix of what is live. *)
LEMMA CutBack ==
    ASSUME tokens \in Texts, NEW n \in 0..Len(tokens), Prefix(tokens, n) # <<>>
    PROVE  Grown(Prefix(tokens, n), active)
<1>1. IsPrefix(Prefix(tokens, n), tokens) /\ Len(Prefix(tokens, n)) = n
    BY IsPrefixLemma, PrefixLemma DEF Texts
<1>2. tokens # <<>>
  <2>1. CASE tokens = <<>>
    <3>1. n = 0
        BY <2>1, EmptySeq
    <3> QED BY <3>1, SubSeqEmpty DEF Prefix
  <2> QED BY <2>1
<1> QED BY <1>1, <1>2, LiveHeld DEF Grown

(* A batch behind what is live. *)
LEMMA GoOn ==
    ASSUME tokens \in Texts, NEW b \in Texts, Len(b) <= BatchSize
    PROVE  Grown(tokens \o b, active)
<1>1. IsPrefix(tokens, tokens \o b) /\ Len(tokens \o b) = Len(tokens) + Len(b)
    BY GrownPrefix, PrefixSelf
<1>2. Len(tokens) \in Nat /\ Len(b) \in Nat
    BY LenProperties DEF Texts
<1>3. Len(tokens \o b) <= Len(tokens) + BatchSize
    BY <1>1, <1>2, KvAssumption
<1> QED BY <1>1, <1>3, LiveHeld DEF Grown

LEMMA BatchFits ==
    ASSUME prompt \in Texts, offset \in Nat, offset <= Len(prompt)
    PROVE  Len(Batch) <= BatchSize
<1> DEFINE left == Len(prompt) - offset
           k == IF left < BatchSize THEN left ELSE BatchSize
<1>1. prompt \in Seq(Vocabulary) /\ Len(prompt) \in Nat
    BY LenProperties DEF Texts
<1>2. offset \in 0..Len(prompt) /\ k \in 0..(Len(prompt) - offset) /\ k <= BatchSize
    BY <1>1, KvAssumption
<1>3. Batch = SubSeq(prompt, offset + 1, offset + k)
    BY DEF Batch
<1> HIDE DEF k
<1>4. Len(Batch) = k
    BY <1>1, <1>2, <1>3, ExtendPrefix
<1> QED BY <1>2, <1>4

LEMMA GrowsInTurning == EngineInv /\ (Turning \/ AbortTurn) => Grows(active) \/ Loses
<1> SUFFICES ASSUME EngineInv, Turning \/ AbortTurn PROVE Grows(active) \/ Loses
    OBVIOUS
<1>1. CacheInv /\ Context /\ prompt \in Texts /\ tokens \in Texts /\ SnapInv
    BY CacheContext, PromptType DEF EngineInv, Context
<1>2. Len(tokens) \in Nat
    BY <1>1, LenProperties DEF Texts
<1>3. CASE RejectPrompt \/ PromptDecoded \/ FinishTurn \/ FillContext \/ AbortTurn
    BY <1>3, NothingMoves
       DEF RejectPrompt, PromptDecoded, FinishTurn, FillContext, AbortTurn, Return,
           ForgetLocals, Goto, cache, storing
<1>4. ASSUME NEW n \in 0..Len(tokens), NEW o \in TrimOutcomes(n), SetTo(o),
             UNCHANGED <<parked, files, active, snap>>, pc' # "copy"
      PROVE  Grows(active)
  <2>1. n \in Nat /\ (IF n > Len(tokens) THEN Len(tokens) ELSE n) = n
    BY <1>2
  <2>2. tokens' = Prefix(tokens, n) \/ tokens' = <<>>
    BY <1>1, <1>4, <2>1, TrimContext
  <2> QED BY <1>1, <1>4, <2>2, CutBack, LiveGrows
<1>5. ASSUME NEW b \in Texts, Len(b) <= BatchSize, DecodeOk(b) \/ DecodeFails(b),
             UNCHANGED <<parked, files, active, snap>>, pc' # "copy"
      PROVE  Grows(active)
  <2>1. tokens' = tokens \o b \/ tokens' = tokens
    BY <1>5 DEF DecodeOk, DecodeFails
  <2> QED BY <1>1, <1>5, <2>1, GoOn, LiveGrows
<1>6. CASE ReusePrefix
  <2>1. /\ UNCHANGED <<parked, files, active, snap>> /\ pc' # "copy"
        /\ \E o \in TrimOutcomes(Checkpoint) : SetTo(o)
    BY <1>6 DEF ReusePrefix, Goto, storing
  <2>2. Checkpoint \in 0..Len(tokens)
    BY <1>1, CheckpointType
  <2> QED BY <1>4, <2>1, <2>2
<1>7. CASE Rollback
  <2>1. /\ UNCHANGED <<parked, files, active>> /\ pc = "rollback" /\ pc' # "copy"
        /\ snap' = NoSnap /\ \E o \in TrimOutcomes(ckpt) : SetTo(o)
    BY <1>7 DEF Rollback, RollbackPoint, Return, ForgetLocals, Goto
  <2>2. snap' = snap
    BY <1>1, <2>1 DEF SnapInv, Storing
  <2>3. ckpt \in Nat /\ ckpt <= Len(tokens)
    BY <1>1, <2>1 DEF CacheInv, TypeOK, TurnInv
  <2>4. ckpt \in 0..Len(tokens)
    BY <1>2, <2>3
  <2> QED BY <1>4, <2>1, <2>2, <2>4
<1>8. CASE DecodePrompt
  <2>1. /\ UNCHANGED <<parked, files, active, snap>> /\ pc = "decode" /\ pc' # "copy"
        /\ DecodeOk(Batch) \/ DecodeFails(Batch)
    BY <1>8 DEF DecodePrompt, Goto, storing
  <2>2. offset \in Nat /\ offset <= Len(prompt)
    BY <1>1, <2>1 DEF CacheInv, TypeOK, TurnInv
  <2>3. Batch \in Texts /\ Len(Batch) <= BatchSize
    BY <1>1, <2>2, BatchLemma, BatchFits
  <2> QED BY <1>5, <2>1, <2>3
<1>9. CASE SampleToken
  <2>1. PICK t \in Sampled : DecodeOk(<<t>>) \/ DecodeFails(<<t>>)
    BY <1>9 DEF SampleToken
  <2>2. UNCHANGED <<parked, files, active, snap>> /\ pc' # "copy"
    BY <1>9 DEF SampleToken, Goto, storing
  <2>3. <<t>> \in Texts /\ Len(<<t>>) <= BatchSize
    BY SingleToken, KvAssumption
  <2> QED BY <1>5, <2>1, <2>2, <2>3
<1> QED BY <1>3, <1>6, <1>7, <1>8, <1>9 DEF Turning

(* Only a call that asks for it copies a conversation to another session.   *)
LEMMA CopiedByCloneLive ==
    ASSUME NEW t \in Sessions, CloneLive(t)
    PROVE  Copied(active, t)
<1>1. /\ UNCHANGED <<parked, files, active, tokens>>
      /\ target' = t
      /\ \/ snap' = [id |-> t, tokens |-> tokens, state |-> cells] /\ pc' = "store"
         \/ snap' = snap
    BY DEF CloneLive, Capture, Goto, cache
<1> QED BY <1>1 DEF Copied, HeldAs, InRam, OnDisk

LEMMA CopiedByCloneParked ==
    ASSUME EngineInv, NEW f \in Sessions, NEW t \in Sessions, CloneParked(f, t)
    PROVE  Copied(f, t)
<1>1. /\ InMemory(f) /\ snap' = [Entry(f) EXCEPT !.id = t] /\ pc' # "copy"
      /\ UNCHANGED <<parked, files, active, tokens>>
    BY DEF CloneParked, Goto, cache
<1>2. Entry(f) \in SoundEntries
    BY <1>1, CacheStores, EntrySound DEF EngineInv
<1>3. snap'.id = t /\ snap'.tokens = Entry(f).tokens
    BY <1>1, <1>2 DEF SoundEntries, Entries
<1>4. InRam(parked, f, Entry(f).tokens)
    BY <1>1, EntryHeld
<1> QED BY <1>1, <1>3, <1>4 DEF Copied, HeldAs, InRam, OnDisk

LEMMA LostProcess ==
    ASSUME LoseProcess, pc' # "copy",
           \A x, c : OnDisk(files', x, c) => OnDisk(files, x, c)
    PROVE  Loses
BY DEF LoseProcess, ForgetLocals, Loses, HeldAs, InRam, NoSnap

(* A copy that was cut short is no conversation. *)
LEMMA CopiedByCloneFile ==
    ASSUME EngineInv, NEW f \in Sessions, NEW t \in Sessions, CloneFile(f, t)
    PROVE  Copied(f, t)
<1> DEFINE whole == [FileOf(f) EXCEPT !.id = t, !.old = FALSE]
           half  == [whole EXCEPT !.whole = FALSE, !.state = <<>>]
           cut   == {half, [half EXCEPT !.tokens = <<>>]}
<1>1. FilesGood(files) /\ Stores /\ HasFile(f)
    BY CacheShelves, CacheStores DEF EngineInv, Shelves, CloneFile
<1>2. FileOf(f) \in SoundFiles
    BY <1>1, FileSound
<1>3. /\ whole \in SoundFiles /\ whole.id = t
      /\ whole.whole = FileOf(f).whole /\ whole.tokens = FileOf(f).tokens
    BY <1>2 DEF SoundFiles, FileEntries
<1>4. <<>> \in Texts /\ Len(<<>>) <= MaxCtx
    BY KvAssumption, EmptySeq DEF Texts
<1>5. half \in SoundFiles /\ ~half.whole
    BY <1>3, <1>4 DEF SoundFiles, FileEntries
<1>6. [half EXCEPT !.tokens = <<>>] \in SoundFiles /\ ~[half EXCEPT !.tokens = <<>>].whole
    BY <1>4, <1>5 DEF SoundFiles, FileEntries
<1>7. /\ \/ files' = TrimDisk(Written(whole))
         \/ \E c \in cut : files' = Written(c)
      /\ \/ UNCHANGED <<context, cache, pc, turn, storing>>
         \/ LoseProcess /\ pc' = "killed"
      /\ pc = "idle"
    BY DEF CloneFile, Goto
<1> HIDE DEF whole, half
<1>8. \A x, c : OnDisk(files', x, c) =>
          OnDisk(files, x, c) \/ (FileOf(f).whole /\ x = t /\ c = FileOf(f).tokens)
    BY <1>1, <1>3, <1>5, <1>6, <1>7, DiskGains
<1>9. FileOf(f).whole => OnDisk(files, f, FileOf(f).tokens)
    BY <1>1, FileHeld
<1>10. CASE UNCHANGED <<context, cache, pc, turn, storing>>
    BY <1>8, <1>9, <1>7, <1>10 DEF cache, turn, storing, Copied, HeldAs, InRam
<1>11. CASE LoseProcess /\ pc' = "killed"
    BY <1>8, <1>9, <1>11
       DEF LoseProcess, ForgetLocals, Copied, HeldAs, InRam, NoSnap
<1> QED BY <1>7, <1>10, <1>11

LEMMA LosesInRelease ==
    ASSUME EngineInv, NEW s \in Sessions, Release(s)
    PROVE  Loses
<1>1. /\ Shelves /\ Context /\ ParkedGood(parked) /\ files \in Seq(SoundFiles)
    BY CacheShelves, CacheContext DEF EngineInv, Shelves, FilesGood
<1>2. /\ parked' = Without(parked, s) /\ files' = Without(files, s)
      /\ UNCHANGED <<active, snap>> /\ pc' # "copy"
    BY DEF Release, ReleasedFiles, storing
<1>3. tokens' = tokens \/ tokens' = <<>>
  <2>1. CASE s = active
    <3>1. PICK o \in TrimOutcomes(0) : SetTo(o)
        BY <2>1 DEF Release
    <3>2. (IF 0 > Len(tokens) THEN Len(tokens) ELSE 0) = 0
        BY <1>1, LenProperties DEF Context, Texts
    <3>3. tokens' = Prefix(tokens, 0) \/ tokens' = <<>>
        BY <1>1, <3>1, <3>2, TrimContext
    <3> QED BY <3>3, SubSeqEmpty DEF Prefix
  <2>2. CASE s # active
    BY <2>2 DEF Release
  <2> QED BY <2>1, <2>2
<1>4. \A x, c : InRam(parked', x, c) => InRam(parked, x, c)
    BY <1>1, <1>2, RamLoses
<1>5. \A x, c : OnDisk(files', x, c) => OnDisk(files, x, c)
    BY <1>1, <1>2, DiskLoses
<1> QED BY <1>2, <1>3, <1>4, <1>5 DEF Loses, HeldAs

LEMMA LosesInAgeFiles ==
    ASSUME EngineInv, AgeFiles
    PROVE  Loses
<1>1. files \in Seq(SoundFiles) /\ UNCHANGED <<cache, pc, turn, storing>>
    BY CacheShelves DEF EngineInv, Shelves, FilesGood, AgeFiles
<1>2. PICK n \in DOMAIN files :
          files' = [i \in DOMAIN files |->
                        [files[i] EXCEPT !.old = files[i].old \/ i <= n]]
    BY DEF AgeFiles
<1>3. DOMAIN files = 1..Len(files)
    BY <1>1, LenProperties
<1>4. ASSUME NEW i \in DOMAIN files
      PROVE  /\ files'[i].id = files[i].id /\ files'[i].whole = files[i].whole
             /\ files'[i].tokens = files[i].tokens
  <2>1. files[i] \in FileEntries
    BY <1>1, <1>3, ElementOfSeq DEF SoundFiles
  <2>2. files'[i] = [files[i] EXCEPT !.old = files[i].old \/ i <= n]
    BY <1>2
  <2> QED BY <2>1, <2>2 DEF FileEntries
<1>5. DOMAIN files' = DOMAIN files
    BY <1>2
<1>6. \A x, c : OnDisk(files', x, c) => OnDisk(files, x, c)
    BY <1>4, <1>5 DEF OnDisk
<1> QED BY <1>1, <1>6 DEF cache, turn, storing, Loses, HeldAs, InRam

LEMMA CacheNextStep ==
    ASSUME EngineInv, [Next]_vars
    PROVE  Cache!CacheNext
<1>1. Sessions \subseteq Ids /\ NoSession \in Ids /\ active \in Ids
    BY DEF Ids, EngineInv, CacheInv, TypeOK
<1>2. ASSUME Loses PROVE Cache!CacheNext
  <2>1. Grows(NoSession)
    BY <1>2 DEF Loses, Grows
  <2> QED BY <1>1, <2>1, CacheStep
<1>3. ASSUME NEW f \in Ids, NEW t \in Ids, Copied(f, t), pc = "idle"
      PROVE  Cache!CacheNext
    BY <1>3, CacheStep
<1>4. CASE Worker \/ AbortTurn
    BY <1>1, <1>2, <1>4, LosesInParking, LosesInRestoring, LosesInFlushing,
       GrowsInTurning, CacheStep DEF Worker
<1>5. CASE \E s \in Ids, p \in Prompts : Turn(s, p)
  <2>1. UNCHANGED <<parked, files, active, tokens, snap>> /\ pc' # "copy"
    BY <1>5 DEF Turn, Goto, cache
  <2> QED BY <1>2, <2>1, NothingMoves
<1>6. CASE \E s \in Sessions : Release(s)
    BY <1>2, <1>6, LosesInRelease
<1>7. CASE \E t \in Sessions : CloneLive(t)
  <2>1. pc = "idle"
    BY <1>7 DEF CloneLive
  <2> QED BY <1>1, <1>3, <1>7, <2>1, CopiedByCloneLive
<1>8. ASSUME NEW f \in Sessions, NEW t \in Sessions, CloneParked(f, t) \/ CloneFile(f, t)
      PROVE  Cache!CacheNext
  <2>1. pc = "idle"
    BY <1>8 DEF CloneParked, CloneFile
  <2> QED BY <1>1, <1>3, <1>8, <2>1, CopiedByCloneParked, CopiedByCloneFile
<1>9. CASE Shutdown
  <2>1. UNCHANGED <<parked, files, active, tokens, snap>> /\ pc' # "copy"
    BY <1>9 DEF Shutdown, Goto, cache
  <2> QED BY <1>2, <2>1, NothingMoves
<1>10. CASE Kill \/ Restart
  <2>1. LoseProcess /\ pc' # "copy" /\ files' \in {files, TrimDisk(files)}
    BY <1>10 DEF Kill, Restart, Goto
  <2>2. files \in Seq(SoundFiles)
    BY CacheShelves DEF EngineInv, Shelves, FilesGood
  <2>3. \A x, c : OnDisk(files', x, c) => OnDisk(files, x, c)
    BY <2>1, <2>2, DiskLoses
  <2> QED BY <1>2, <2>1, <2>3, LostProcess
<1>11. CASE AgeFiles
    BY <1>2, <1>11, LosesInAgeFiles
<1>12. CASE UNCHANGED vars
    BY <1>2, <1>12 DEF vars, cache, turn, storing, Loses, HeldAs, InRam, OnDisk
<1> QED BY <1>4, <1>5, <1>6, <1>7, <1>8, <1>9, <1>10, <1>11, <1>12 DEF Next

LEMMA CacheStart == Init => Cache!CacheInit
<1> SUFFICES ASSUME Init PROVE Cache!CacheInit
    OBVIOUS
<1>1. \A s \in Ids : Held(s) \subseteq {<<>>}
    BY DEF Init, Held, Copies, NoSnap
<1>2. \A s \in Ids : Held(s) \ {<<>>} = {}
    BY <1>1
<1> QED BY <1>2 DEF Init, Cache!CacheInit

(* Every session resumes with what it decoded itself, cut back at most, or  *)
(* with what a clone asked for, whichever call fails and whenever the       *)
(* process is killed: the engine implements SessionCache.                   *)
THEOREM OwnConversations == Spec => KeepsOwnConversations
<1>1. Init => Cache!CacheInit
    BY CacheStart
<1>2. EngineInv /\ [Next]_vars => [Cache!CacheNext]_(Cache!vars)
    BY CacheNextStep
<1> QED BY <1>1, <1>2, EngineInvariant, PTL DEF Spec, KeepsOwnConversations, Cache!CacheSpec

LEMMA ReleasedAll ==
    ASSUME EngineInv, NEW s \in Sessions, Release(s)
    PROVE  Held(s)' \subseteq {<<>>}
<1>1. /\ ParkedGood(parked) /\ files \in Seq(SoundFiles) /\ Unique(files) /\ Context
    BY CacheShelves, CacheContext DEF EngineInv, Shelves, FilesGood
<1>2. /\ parked' = Without(parked, s) /\ files' = Without(files, s)
      /\ active' = active /\ snap' = snap /\ pc = "idle" /\ pc' = "idle"
    BY DEF Release, ReleasedFiles, storing
<1>3. \A c : ~InRam(parked', s, c)
    BY <1>1, <1>2, RamLoses
<1>4. \A c : ~OnDisk(files', s, c)
  <2>1. ~Has(files', s)
    BY <1>1, <1>2, WithoutLemma
  <2> QED BY <2>1 DEF Has, OnDisk
<1>5. snap'.id # s
    BY <1>2, KvAssumption DEF EngineInv, SnapInv, Storing, NoSnap
<1>6. ASSUME active = s PROVE tokens' = <<>>
  <2>1. PICK o \in TrimOutcomes(0) : SetTo(o)
    BY <1>6 DEF Release
  <2>2. (IF 0 > Len(tokens) THEN Len(tokens) ELSE 0) = 0
    BY <1>1, LenProperties DEF Context, Texts
  <2>3. tokens' = Prefix(tokens, 0) \/ tokens' = <<>>
    BY <1>1, <2>1, <2>2, TrimContext
  <2> QED BY <2>3, SubSeqEmpty DEF Prefix
<1>7. ASSUME NEW c \in Held(s)' PROVE c = <<>>
  <2>1. HeldAs(s, c)'
    BY <1>7, HeldLemma
  <2> QED BY <2>1, <1>2, <1>3, <1>4, <1>5, <1>6 DEF HeldAs, InRam, OnDisk
<1> QED BY <1>7

(* release_session leaves nothing behind: not in RAM, not in a file, not in *)
(* the context, and not in a snapshot on its way to one of them.            *)
THEOREM ReleaseIsFinal == Spec => ReleaseForgets
<1> DEFINE A == \A s \in Sessions : Release(s) => Held(s)' \subseteq {<<>>}
<1>1. EngineInv /\ [Next]_vars => [A]_vars
    BY ReleasedAll
<1> HIDE DEF A
<1>2. Spec => [][A]_vars
    BY <1>1, EngineInvariant, PTL DEF Spec
<1> QED BY <1>2 DEF ReleaseForgets, A
-----------------------------------------------------------------------------
(* What stays parked, when no file expires *)

Kept(s) ==
    \A c : InRam(parked, s, c) \/ OnDisk(files, s, c) =>
               InRam(parked', s, c) \/ OnDisk(files', s, c)

LEMMA RamKeeps ==
    ASSUME NEW es, ParkedGood(es), NEW x, NEW c, InRam(es, x, c)
    PROVE  /\ \A s : x # s => InRam(Without(es, s), x, c)
           /\ \A e \in SoundEntries : x # e.id => InRam(Inserted(es, e), x, c)
<1>1. es \in Seq(SoundEntries)
    BY DEF ParkedGood
<1>2. ASSUME NEW s, x # s PROVE InRam(Without(es, s), x, c)
    BY <1>1, <1>2, WithoutLemma DEF InRam
<1>3. ASSUME NEW e \in SoundEntries, x # e.id PROVE InRam(Inserted(es, e), x, c)
  <2>1. InRam(Without(es, e.id), x, c)
    BY <1>2, <1>3
  <2>2. Without(es, e.id) \in Seq(SoundEntries)
    BY <1>1, WithoutLemma
  <2> DEFINE w == Without(es, e.id)
  <2>3. /\ DOMAIN w = 1..Len(w) /\ Len(w) \in Nat
        /\ DOMAIN Append(w, e) = 1..(Len(w) + 1)
        /\ \A i \in 1..Len(w) : Append(w, e)[i] = w[i]
    BY <2>2, AppendProperties, LenProperties
  <2> QED BY <2>1, <2>3 DEF InRam, Inserted
<1> QED BY <1>2, <1>3

(* What is inserted is there. *)
LEMMA IsInserted ==
    ASSUME NEW E, NEW es \in Seq(E), NEW e \in E
    PROVE  \E i \in DOMAIN Inserted(es, e) : Inserted(es, e)[i] = e
<1> DEFINE w == Without(es, e.id)
<1>1. w \in Seq(E)
    BY WithoutLemma
<1>2. /\ Len(w) \in Nat /\ DOMAIN Append(w, e) = 1..(Len(w) + 1)
      /\ Append(w, e)[Len(w) + 1] = e
    BY <1>1, AppendProperties, LenProperties
<1> QED BY <1>2 DEF Inserted

LEMMA DiskKeeps ==
    ASSUME FilesGood(files), NEW x, NEW c, OnDisk(files, x, c)
    PROVE  /\ \A s : x # s => OnDisk(Without(files, s), x, c)
           /\ \A f \in SoundFiles : x # f.id => OnDisk(Written(f), x, c)
<1>1. files \in Seq(SoundFiles)
    BY DEF FilesGood
<1>2. ASSUME NEW s, x # s PROVE OnDisk(Without(files, s), x, c)
  <2>1. PICK j \in DOMAIN files :
            files[j].id = x /\ files[j].whole /\ files[j].tokens = c
    BY DEF OnDisk
  <2>2. PICK i \in DOMAIN Without(files, s) : Without(files, s)[i] = files[j]
    BY <1>1, <1>2, <2>1, WithoutLemma
  <2> QED BY <2>1, <2>2 DEF OnDisk
<1>3. ASSUME NEW f \in SoundFiles, x # f.id PROVE OnDisk(Written(f), x, c)
  <2>1. OnDisk(Without(files, f.id), x, c)
    BY <1>2, <1>3
  <2> DEFINE w == Without(files, f.id)
  <2>2. w \in Seq(SoundFiles)
    BY <1>1, WithoutLemma
  <2>3. /\ DOMAIN w = 1..Len(w) /\ Len(w) \in Nat
        /\ DOMAIN Append(w, f) = 1..(Len(w) + 1)
        /\ \A i \in 1..Len(w) : Append(w, f)[i] = w[i]
    BY <2>2, AppendProperties, LenProperties
  <2> QED BY <2>1, <2>3 DEF OnDisk, Written, Inserted
<1> QED BY <1>2, <1>3

LEMMA SaveKeeps ==
    ASSUME ~DiskGc, FilesGood(files), NEW s \in Sessions, NEW ids \in Texts,
           Len(ids) <= MaxCtx, SaveOk(s, ids, ids)
    PROVE  /\ OnDisk(files', s, ids)
           /\ \A x, c : x # s /\ OnDisk(files, x, c) => OnDisk(files', x, c)
<1> DEFINE f == NewFile(s, ids, ids)
<1>1. f \in SoundFiles /\ f.id = s /\ f.tokens = ids /\ f.whole
    BY DEF NewFile, SoundFiles, FileEntries
<1>2. files' = Written(f)
    BY DEF SaveOk, TrimDisk
<1> HIDE DEF f
<1>3. OnDisk(Written(f), s, ids)
    BY <1>1, IsInserted DEF OnDisk, Written, FilesGood
<1> QED BY <1>1, <1>2, <1>3, DiskKeeps

(* What is found under an id in RAM is all there is of the session. *)
LEMMA OnlyEntry ==
    ASSUME Shelves, NEW s, InMemory(s)
    PROVE  /\ \A c : InRam(parked, s, c) => c = Entry(s).tokens
           /\ \A c : ~OnDisk(files, s, c)
<1>1. IndexOf(parked, s) \in DOMAIN parked /\ parked[IndexOf(parked, s)].id = s
    BY DEF InMemory, Has, IndexOf
<1>2. Unique(parked) /\ ~Has(files, s)
    BY DEF Shelves, ParkedGood, OneCopy, InMemory
<1> QED BY <1>1, <1>2 DEF Unique, InRam, OnDisk, Has, Entry

(* A session moves from RAM to a file, or stays. *)
LEMMA SpillKeeps ==
    ASSUME ~DiskGc, Shelves, NEW h, InMemory(h),
           Entry(h) \in SoundEntries, Entry(h).id = h,
           \/ /\ SaveOk(h, Entry(h).tokens, Entry(h).state)
              /\ parked' = Without(parked, h)
           \/ files' = files /\ parked' = Inserted(parked, Entry(h))
    PROVE  \A s : Kept(s)
<1>1. ParkedGood(parked) /\ FilesGood(files) /\ parked \in Seq(SoundEntries)
    BY DEF Shelves, ParkedGood
<1>2. /\ h \in Sessions /\ Entry(h).tokens \in Texts
      /\ Entry(h).state = Entry(h).tokens /\ Len(Entry(h).tokens) <= MaxCtx
    BY DEF SoundEntries, Entries
<1>3. \A c : ~OnDisk(files, h, c) /\ (InRam(parked, h, c) => c = Entry(h).tokens)
    BY OnlyEntry
<1>4. CASE SaveOk(h, Entry(h).tokens, Entry(h).state) /\ parked' = Without(parked, h)
  <2>1. /\ OnDisk(files', h, Entry(h).tokens)
        /\ \A x, c : x # h /\ OnDisk(files, x, c) => OnDisk(files', x, c)
    BY <1>1, <1>2, <1>4, SaveKeeps
  <2>2. \A x, c : x # h /\ InRam(parked, x, c) => InRam(parked', x, c)
    BY <1>1, <1>4, RamKeeps
  <2> QED BY <1>3, <2>1, <2>2 DEF Kept
<1>5. CASE files' = files /\ parked' = Inserted(parked, Entry(h))
  <2>1. \A x, c : x # h /\ InRam(parked, x, c) => InRam(parked', x, c)
    BY <1>1, <1>5, RamKeeps
  <2>2. InRam(parked', h, Entry(h).tokens)
    BY <1>1, <1>5, IsInserted DEF InRam
  <2> QED BY <1>3, <1>5, <2>1, <2>2 DEF Kept
<1> QED BY <1>4, <1>5

(* A call of the worker writes about its own sessions only. *)
Mine == {active, target, snap.id}

KeepsOthers == \A s \in Sessions \ Mine : Kept(s)

LEMMA NothingLost == ASSUME UNCHANGED <<parked, files>> PROVE KeepsOthers
BY DEF KeepsOthers, Kept, InRam, OnDisk

LEMMA OthersInParking == ~DiskGc /\ EngineInv /\ Parking => KeepsOthers
<1> SUFFICES ASSUME ~DiskGc, EngineInv, Parking PROVE KeepsOthers
    OBVIOUS
<1>1. /\ CacheInv /\ Shelves /\ LocalsInv /\ ParkedGood(parked) /\ FilesGood(files)
    BY CacheShelves DEF EngineInv, CacheInv, Shelves
<1>2. CASE ParkNothing \/ ParkInMemory \/ ParkOnDisk \/ SaveSnapFails
    BY <1>2, NothingLost
       DEF ParkNothing, ParkInMemory, ParkOnDisk, SaveSnapFails, SaveFails, cache
<1>3. CASE Store
  <2>1. files' = files /\ (parked' = parked \/ parked' = Without(parked, snap.id))
    BY <1>3 DEF Store
  <2>2. \A x, c : x # snap.id /\ InRam(parked, x, c) => InRam(parked', x, c)
    BY <1>1, <2>1, RamKeeps
  <2> QED BY <2>1, <2>2 DEF KeepsOthers, Mine, Kept
<1>4. CASE SpillOk
  <2> DEFINE h == Head(spilling)
  <2>1. pc = "spill" /\ spilling # <<>> /\ parked' = Without(parked, h)
        /\ SaveOk(Entry(h).id, Entry(h).tokens, Entry(h).state)
    BY <1>4 DEF SpillOk
  <2>2. InMemory(h) /\ Entry(h) \in SoundEntries /\ Entry(h).id = h
    BY <1>1, <2>1, HeadParked
  <2>3. SaveOk(h, Entry(h).tokens, Entry(h).state)
    BY <2>1, <2>2
  <2>4. \A s : Kept(s)
    BY <1>1, <2>1, <2>2, <2>3, SpillKeeps
  <2> QED BY <2>4 DEF KeepsOthers
<1>5. CASE SpillFails
  <2> DEFINE h == Head(spilling)
             p == Inserted(parked, Entry(h))
  <2>1. /\ pc = "spill" /\ spilling # <<>>
        /\ parked' = Without(p, snap.id) /\ files' = files
    BY <1>5 DEF SpillFails, AfterSpillFailure, SaveFails
  <2>2. InMemory(h) /\ Entry(h) \in SoundEntries /\ Entry(h).id = h
    BY <1>1, <2>1, HeadParked
  <2>3. ParkedGood(p)
    BY <1>1, <2>2, EnterParked
  <2>4. InRam(p, h, Entry(h).tokens)
    BY <1>1, <2>2, IsInserted DEF InRam, ParkedGood
  <2>5. \A c : InRam(parked, h, c) => c = Entry(h).tokens
    BY <1>1, <2>2, OnlyEntry
  <2>6. \A x, c : x # h /\ InRam(parked, x, c) => InRam(p, x, c)
    BY <1>1, <2>2, RamKeeps
  <2> HIDE DEF p
  <2>7. \A x, c : x # snap.id /\ InRam(p, x, c) => InRam(parked', x, c)
    BY <2>1, <2>3, RamKeeps
  <2>8. \A x, c : x # snap.id /\ InRam(parked, x, c) => InRam(parked', x, c)
    BY <2>4, <2>5, <2>6, <2>7
  <2> QED BY <2>1, <2>8 DEF KeepsOthers, Mine, Kept
<1>6. CASE KeepInMemory
  <2>1. pc = "spill" /\ parked' = Inserted(parked, snap)
        /\ files' = Without(files, snap.id)
    BY <1>6 DEF KeepInMemory, FilesBesideMemory
  <2>2. snap \in SoundEntries
    BY <1>1, <2>1, SnapSound DEF Storing
  <2>3. \A x, c : x # snap.id /\ InRam(parked, x, c) => InRam(parked', x, c)
    BY <1>1, <2>1, <2>2, RamKeeps
  <2>4. \A x, c : x # snap.id /\ OnDisk(files, x, c) => OnDisk(files', x, c)
    BY <1>1, <2>1, DiskKeeps
  <2> QED BY <2>3, <2>4 DEF KeepsOthers, Mine, Kept
<1>7. CASE SaveSnapOk
  <2>1. pc = "save" /\ SaveOk(snap.id, snap.tokens, snap.state) /\ parked' = parked
    BY <1>7 DEF SaveSnapOk, cache
  <2>2. /\ snap.id \in Sessions /\ snap.tokens \in Texts
        /\ snap.state = snap.tokens /\ Len(snap.tokens) <= MaxCtx
    BY <1>1, <2>1, SnapSound DEF Storing
  <2>3. \A x, c : x # snap.id /\ OnDisk(files, x, c) => OnDisk(files', x, c)
    BY <1>1, <2>1, <2>2, SaveKeeps
  <2> QED BY <2>1, <2>3 DEF KeepsOthers, Mine, Kept
<1>8. CASE WriteLive
  <2>1. /\ pc = "write" /\ parked' = Without(parked, active)
        /\ SaveOk(active, tokens, cells) \/ files' = files
    BY <1>8 DEF WriteLive, SaveFails
  <2>2. active \in Sessions
    BY <1>1, <2>1 DEF LocalsInv
  <2>3. cells = tokens /\ tokens \in Texts /\ Len(tokens) <= MaxCtx
    BY <1>1, <2>1, LiveSound
  <2>4. \A x, c : x # active /\ OnDisk(files, x, c) => OnDisk(files', x, c)
    BY <1>1, <2>1, <2>2, <2>3, SaveKeeps
  <2>5. \A x, c : x # active /\ InRam(parked, x, c) => InRam(parked', x, c)
    BY <1>1, <2>1, RamKeeps
  <2> QED BY <2>4, <2>5 DEF KeepsOthers, Mine, Kept
<1> QED BY <1>2, <1>3, <1>4, <1>5, <1>6, <1>7, <1>8 DEF Parking

LEMMA OthersInRest ==
    ~DiskGc /\ EngineInv /\ (Restoring \/ Flushing \/ CopyLive) => KeepsOthers
<1> SUFFICES ASSUME ~DiskGc, EngineInv, Restoring \/ Flushing \/ CopyLive
             PROVE  KeepsOthers
    OBVIOUS
<1>1. /\ CacheInv /\ Shelves /\ LocalsInv /\ ParkedGood(parked) /\ FilesGood(files)
      /\ Stores
    BY CacheShelves, CacheStores DEF EngineInv, CacheInv, Shelves
<1>2. CASE RestoreFromDisk \/ DiskRestoreFails \/ NothingParked \/ Miss \/ StartFlush
    BY <1>2, NothingLost
       DEF RestoreFromDisk, DiskRestoreFails, NothingParked, Miss, StartFlush, cache
<1>3. CASE RestoreFromMemory \/ MemoryRestoreFails
  <2>1. /\ InMemory(target) /\ files' = files
        /\ \/ parked' = Without(parked, target)
           \/ parked' = Inserted(parked, Entry(target))
    BY <1>3 DEF RestoreFromMemory, MemoryRestoreFails
  <2>2. Entry(target) \in SoundEntries /\ Entry(target).id = target
    BY <1>1, <2>1, EntrySound
  <2>3. \A x, c : x # target /\ InRam(parked, x, c) => InRam(parked', x, c)
    BY <1>1, <2>1, <2>2, RamKeeps
  <2> QED BY <2>1, <2>3 DEF KeepsOthers, Mine, Kept
<1>4. CASE FlushOne
  <2> DEFINE h == Head(spilling)
  <2>1. /\ pc = "flushing" /\ spilling # <<>>
        /\ \/ /\ SaveOk(Entry(h).id, Entry(h).tokens, Entry(h).state)
              /\ parked' = Without(parked, Entry(h).id)
           \/ files' = files /\ parked' = Inserted(parked, Entry(h))
    BY <1>4 DEF FlushOne, SaveFails
  <2>2. InMemory(h) /\ Entry(h) \in SoundEntries /\ Entry(h).id = h
    BY <1>1, <2>1, HeadParked
  <2>3. \/ /\ SaveOk(h, Entry(h).tokens, Entry(h).state)
           /\ parked' = Without(parked, h)
        \/ files' = files /\ parked' = Inserted(parked, Entry(h))
    BY <2>1, <2>2
  <2>4. \A s : Kept(s)
    BY <1>1, <2>2, <2>3, SpillKeeps
  <2> QED BY <2>4 DEF KeepsOthers
<1>5. CASE FlushDone
  <2>1. parked' = parked /\ files' = files
    BY <1>5 DEF FlushDone, TrimDisk, cache
  <2> QED BY <2>1, NothingLost
<1>6. CASE CopyLive
  <2>1. /\ pc = "copy" /\ parked' = parked
        /\ SaveOk(target, tokens, cells) \/ files' = files
    BY <1>6 DEF CopyLive, SaveFails, cache
  <2>2. target \in Sessions
    BY <1>1, <2>1 DEF LocalsInv
  <2>3. cells = tokens /\ tokens \in Texts /\ Len(tokens) <= MaxCtx
    BY <1>1, <2>1, LiveSound
  <2>4. \A x, c : x # target /\ OnDisk(files, x, c) => OnDisk(files', x, c)
    BY <1>1, <2>1, <2>2, <2>3, SaveKeeps
  <2> QED BY <2>1, <2>4 DEF KeepsOthers, Mine, Kept
<1> QED BY <1>2, <1>3, <1>4, <1>5, <1>6 DEF Restoring, Flushing

LEMMA OthersStep ==
    ASSUME ~DiskGc, EngineInv, Next,
           pc \notin {"idle", "off", "killed"}, pc' # "killed"
    PROVE  KeepsOthers
<1>1. ~(\/ \E s \in Ids, p \in Prompts : Turn(s, p)
        \/ \E s \in Sessions : Release(s) \/ CloneLive(s)
        \/ \E f, t \in Sessions : CloneParked(f, t) \/ CloneFile(f, t)
        \/ Shutdown \/ Kill \/ Restart \/ AgeFiles)
    BY DEF Turn, Release, CloneLive, CloneParked, CloneFile, Shutdown, Kill, Restart,
           AgeFiles, Goto
<1>2. CASE Turning \/ AbortTurn
    BY <1>2, NothingLost
       DEF Turning, RejectPrompt, ReusePrefix, DecodePrompt, PromptDecoded,
           SampleToken, FinishTurn, FillContext, Rollback, AbortTurn, cache
<1> QED BY <1>1, <1>2, OthersInParking, OthersInRest DEF Next, Worker

(* Where files do not expire, parking, resuming, cloning and flushing one   *)
(* session loses no other, whichever spill, save or restore fails.          *)
THEOREM OthersAreSafe == ~DiskGc => (Spec => OthersStayParked)
<1> SUFFICES ASSUME ~DiskGc PROVE Spec => OthersStayParked
    OBVIOUS
<1> DEFINE A == pc \notin {"idle", "off", "killed"} /\ pc' # "killed" =>
                    \A s \in Sessions \ {active, target, snap.id} :
                        Copies(s) \subseteq Copies(s)'
<1>1. ASSUME NEW s, Kept(s) PROVE Copies(s) \subseteq Copies(s)'
    BY <1>1 DEF Kept, Copies, InRam, OnDisk
<1>2. EngineInv /\ [Next]_vars => [A]_vars
    BY <1>1, OthersStep DEF KeepsOthers, Mine
<1> HIDE DEF A
<1>3. Spec => [][A]_vars
    BY <1>2, EngineInvariant, PTL DEF Spec
<1> QED BY <1>3 DEF OthersStayParked, A
=============================================================================
