------------------------------ MODULE KvEngine ------------------------------
(* LlamaEngine's cache of conversations (src/src/server/llm: llm_engine.cpp, *)
(* kv_trim.cpp, session_park.cpp, session_kv_store.cpp).  One worker thread *)
(* turns one session live in the context of llama.cpp, parks the others in  *)
(* RAM or in files, and keeps in active_tokens_ what it believes the        *)
(* context to hold.  llama.cpp and the file system may fail at every call,  *)
(* and the process may be killed between any two steps.                     *)
(*                                                                          *)
(* message_ends_ is left out: PlansCheck shows that it has no influence     *)
(* on what is reused.  used_bytes_ is only logged.                          *)
EXTENDS KvPlans, FiniteSets

CONSTANTS
    Sessions,       \* ids with a valid file name
    NoSession,      \* the empty id: the anonymous session
    Prompts,        \* the tokenized prompts of clients
    Vocabulary,     \* the tokens they are made of
    Sampled,        \* bound: those the model may sample
    MaxCtx,         \* n_ctx
    BatchSize,      \* n_batch
    MemoryLimit,    \* session_memory_bytes, 0 when RAM parking is off
    DiskGc,         \* whether session_disk_max_age_days >= 0 (then >= 1)
    DiskLimit,      \* session_disk_max_bytes
    Hybrid,         \* whether the model has a recurrent part
    Faults,         \* bound: whether calls to llama.cpp and files may fail
    Kills           \* bound: whether the process may be killed

ASSUME KvAssumption ==
    /\ NoSession \notin Sessions
    /\ Sampled \subseteq Vocabulary
    /\ Prompts \subseteq Seq(Vocabulary) \ {<<>>}
    /\ MaxCtx \in Nat \ {0} /\ BatchSize \in Nat \ {0}
    /\ MemoryLimit \in 0..MaxBytes /\ DiskLimit \in 0..MaxBytes
    /\ {DiskGc, Hybrid, Faults, Kills} \subseteq BOOLEAN

VARIABLES
    (* sequence 0 of the llama context: the tokens whose cells are stored,  *)
    (* the last position plus one, and whether the logits at hand were      *)
    (* computed for the last of the cells                                   *)
    cells, tail, fresh,
    (* LlamaEngine; parked is SessionMemory::entries_, oldest first *)
    active, tokens, parked,
    (* the session directory, oldest modification first *)
    files,
    (* where the worker is, and the locals of the calls it is in *)
    pc, back, target, prompt, ckpt, offset, snap, spilling

context == <<cells, tail, fresh>>
cache   == <<active, tokens, parked>>
turn    == <<target, prompt, ckpt, offset>>
storing == <<back, snap, spilling>>
vars    == <<context, cache, files, pc, turn, storing>>

Ids == Sessions \cup {NoSession}

NoSnap == [id |-> NoSession, tokens |-> <<>>, state |-> <<>>]

Init ==
    /\ cells = <<>> /\ tail = 0 /\ fresh = FALSE
    /\ active = NoSession /\ tokens = <<>> /\ parked = <<>>
    /\ pc = "idle" /\ back = "none"
    /\ target = NoSession /\ prompt = <<>> /\ ckpt = 0 /\ offset = 0
    /\ snap = NoSnap /\ spilling = <<>>
    /\ files = <<>>

Goto(p) == pc' = p

(* The call at hand is over and its locals are gone. *)
ForgetLocals ==
    /\ back' = "none"
    /\ target' = NoSession /\ prompt' = <<>> /\ ckpt' = 0 /\ offset' = 0
    /\ snap' = NoSnap /\ spilling' = <<>>

Return == Goto("idle") /\ ForgetLocals

(* Nothing in the process survives its end. *)
LoseProcess ==
    /\ cells' = <<>> /\ tail' = 0 /\ fresh' = FALSE
    /\ active' = NoSession /\ tokens' = <<>> /\ parked' = <<>>
    /\ ForgetLocals

-----------------------------------------------------------------------------
(* SessionMemory *)

Has(entries, s) == \E i \in DOMAIN entries : entries[i].id = s

IndexOf(entries, s) == CHOOSE i \in DOMAIN entries : entries[i].id = s

InMemory(s) == Has(parked, s)

Entry(s) == parked[IndexOf(parked, s)]

Without(entries, s) ==
    IF Has(entries, s) THEN RemoveAt(entries, IndexOf(entries, s)) ELSE entries

(* Moves the id to the newest end. *)
Inserted(entries, e) == Append(Without(entries, e.id), e)

(* The state grows with the tokens: both are counted in tokens.             *)
ParkedBytes(e) == Len(e.state) + Len(e.tokens)

Sizes(entries) == [i \in DOMAIN entries |-> ParkedBytes(entries[i])]

-----------------------------------------------------------------------------
(* SessionKvStore.  A file that is not whole was cut by a failed copy.      *)

HasFile(s) == Has(files, s)

FileOf(s) == files[IndexOf(files, s)]

NewFile(s, ids, state) ==
    [id |-> s, tokens |-> ids, state |-> state, whole |-> TRUE, old |-> FALSE]

Written(f) == Inserted(files, f)

(* The oldest files that are over the age go while all are over the limit.  *)
(* Ages follow the order of the files, so the old ones come first.          *)
TrimDisk_AnyAge(fs) ==
    LET total == SumOf(Sizes(fs))
    IN  IF DiskGc
        THEN SubSeq(fs, DropCount(Sizes(fs), total, DiskLimit) + 1, Len(fs))
        ELSE fs

TrimDisk(fs) ==
    LET total == SumOf(Sizes(fs))
        old   == Cardinality({i \in DOMAIN fs : fs[i].old})
        n     == DropCount(Sizes(SubSeq(fs, 1, old)), total, DiskLimit)
    IN  IF DiskGc /\ total > DiskLimit THEN SubSeq(fs, n + 1, Len(fs)) ELSE fs

(* save, or save_captured, and the trim that follows each disk write: to a  *)
(* temporary name first, so a failure leaves the previous file.             *)
SaveOk(s, ids, state) ==
    /\ ids # <<>>
    /\ files' = TrimDisk(Written(NewFile(s, ids, state)))

SaveFails(ids) == (ids = <<>> \/ Faults) /\ UNCHANGED files

-----------------------------------------------------------------------------
(* The llama context, and trim_kv_to *)

(* llama_memory_seq_rm from position n on.  A recurrent part cannot go back *)
(* to an earlier position: it refuses, or its tail stays behind.            *)
SeqRmOutcomes(n) ==
    LET removed(t) == [ok |-> TRUE, cells |-> Prefix(cells, n), tail |-> t]
    IN  IF n = 0 \/ ~Hybrid
        THEN {removed(n)}
        ELSE {removed(t) : t \in 0..n}
                 \cup {[ok |-> FALSE, cells |-> cells, tail |-> tail]}

Cleared == [kept |-> FALSE, tokens |-> <<>>, cells |-> <<>>, tail |-> 0]

(* Keep the first n tokens, or none: a tail that does not sit on the last   *)
(* kept token means that cells and tokens have parted.                      *)
TrimOutcomes_TrustsSeqRm(n) ==
    LET m == IF n > Len(tokens) THEN Len(tokens) ELSE n
        same == [kept |-> TRUE, tokens |-> tokens, cells |-> cells,
                 tail |-> tail]
        dropped(o) == [kept |-> TRUE, tokens |-> Prefix(tokens, m),
                       cells |-> o.cells, tail |-> o.tail]
    IN  IF m = Len(tokens)
        THEN {IF KvTailMatches(m, tail - 1) THEN same ELSE Cleared}
        ELSE {IF o.ok THEN dropped(o) ELSE Cleared : o \in SeqRmOutcomes(m)}

TrimOutcomes_NoTailTest(n) ==
    LET m == IF n > Len(tokens) THEN Len(tokens) ELSE n
        same == [kept |-> TRUE, tokens |-> tokens, cells |-> cells,
                 tail |-> tail]
        dropped(o) == [kept |-> TRUE, tokens |-> Prefix(tokens, m),
                       cells |-> o.cells, tail |-> o.tail]
    IN  IF m = Len(tokens)
        THEN {same}
        ELSE {IF o.ok /\ KvTailMatches(m, o.tail - 1) THEN dropped(o) ELSE Cleared
                  : o \in SeqRmOutcomes(m)}

TrimOutcomes(n) ==
    LET m == IF n > Len(tokens) THEN Len(tokens) ELSE n
        same == [kept |-> TRUE, tokens |-> tokens, cells |-> cells,
                 tail |-> tail]
        dropped(o) == [kept |-> TRUE, tokens |-> Prefix(tokens, m),
                       cells |-> o.cells, tail |-> o.tail]
    IN  IF m = Len(tokens)
        THEN {IF KvTailMatches(m, tail - 1) THEN same ELSE Cleared}
        ELSE {IF o.ok /\ KvTailMatches(m, o.tail - 1) THEN dropped(o) ELSE Cleared
                  : o \in SeqRmOutcomes(m)}

SetTo(o) == /\ tokens' = o.tokens /\ cells' = o.cells /\ tail' = o.tail
            /\ fresh' = (fresh /\ o.cells = cells)

(* llama_decode: on success the batch is stored and its last logits can be  *)
(* sampled; on failure some of it may be stored.                            *)
DecodeOk(batch) ==
    /\ cells' = cells \o batch /\ tail' = tail + Len(batch)
    /\ tokens' = tokens \o batch
    /\ fresh' = TRUE

DecodeFails(batch) ==
    /\ Faults
    /\ \E k \in 0..Len(batch) : /\ cells' = cells \o Prefix(batch, k)
                                /\ tail' = tail + k
    /\ fresh' = FALSE
    /\ UNCHANGED tokens

(* Restoring a state that is rejected may leave part of it. *)
RestoreFails(state) ==
    /\ \E k \in 0..Len(state) : cells' = Prefix(state, k) /\ tail' = k
    /\ tokens' = <<>> /\ fresh' = FALSE

-----------------------------------------------------------------------------
(* Parking the live session: park_active_session, store_snapshot and        *)
(* write_live_to_disk.  back says who called.                               *)

AfterPark_WithoutFlush == IF back = "shutdown" THEN "off" ELSE "restore"

AfterPark == IF back = "shutdown" THEN "flush" ELSE "restore"

NothingToPark == active = NoSession \/ tokens = <<>>

ParkNothing ==
    /\ pc = "park" /\ NothingToPark
    /\ Goto(AfterPark)
    /\ UNCHANGED <<context, cache, files, turn, storing>>

(* capture_live_sequence *)
Capture_ForTheNext(id) ==
    snap' = [id |-> target, tokens |-> tokens, state |-> cells]

Capture(id) == snap' = [id |-> id, tokens |-> tokens, state |-> cells]

ParkInMemory ==
    /\ pc = "park" /\ ~NothingToPark /\ MemoryLimit > 0
    /\ Capture(active)
    /\ Goto("store")
    /\ UNCHANGED <<context, cache, files, turn, back, spilling>>

ParkOnDisk ==
    /\ pc = "park" /\ ~NothingToPark
    /\ MemoryLimit = 0 \/ Faults
    /\ Goto("write")
    /\ UNCHANGED <<context, cache, files, turn, storing>>

(* The session parked before under the same id does not count.              *)
Admit == PlanMemoryAdmit(Sizes(Without(parked, snap.id)), ParkedBytes(snap),
                         MemoryLimit)

SpilledIds(n) ==
    LET others == Without(parked, snap.id) IN [i \in 1..n |-> others[i].id]

Store ==
    /\ pc = "store"
    /\ IF Admit.keep
       THEN /\ spilling' = SpilledIds(Admit.spill)
            /\ Goto("spill")
            /\ UNCHANGED parked
       ELSE /\ parked' = Without(parked, snap.id)
            /\ Goto("save")
            /\ UNCHANGED spilling
    /\ UNCHANGED <<context, active, tokens, files, turn, back, snap>>

SpillOk ==
    /\ pc = "spill" /\ spilling # <<>>
    /\ LET e == Entry(Head(spilling)) IN SaveOk(e.id, e.tokens, e.state)
    /\ parked' = Without(parked, Head(spilling))
    /\ spilling' = Tail(spilling)
    /\ UNCHANGED <<context, active, tokens, pc, turn, back, snap>>

(* The spilled session goes back, and the new one to disk instead.          *)
AfterSpillFailure_Dropped == Without(Without(parked, Head(spilling)), snap.id)

AfterSpillFailure ==
    Without(Inserted(parked, Entry(Head(spilling))), snap.id)

SpillFails ==
    /\ pc = "spill" /\ spilling # <<>>
    /\ SaveFails(Entry(Head(spilling)).tokens)
    /\ parked' = AfterSpillFailure
    /\ spilling' = <<>>
    /\ Goto("save")
    /\ UNCHANGED <<context, active, tokens, turn, back, snap>>

(* store_snapshot returns.  Without success the live sequence is streamed   *)
(* to disk, except that a clone of a parked session just fails.             *)
Stored(ok) ==
    IF back = "clone" \/ (back = "clone live" /\ ok)
    THEN Return
    ELSE /\ Goto(IF back = "clone live" THEN "copy"
                 ELSE IF ok THEN AfterPark ELSE "write")
         /\ snap' = NoSnap
         /\ UNCHANGED <<turn, back, spilling>>

(* The parked copy replaces a file of the same session.                     *)
FilesBesideMemory_Kept == files

FilesBesideMemory == Without(files, snap.id)

KeepInMemory ==
    /\ pc = "spill" /\ spilling = <<>>
    /\ parked' = Inserted(parked, snap)
    /\ files' = FilesBesideMemory
    /\ Stored(TRUE)
    /\ UNCHANGED <<context, active, tokens>>

SaveSnapOk ==
    /\ pc = "save"
    /\ SaveOk(snap.id, snap.tokens, snap.state)
    /\ Stored(TRUE)
    /\ UNCHANGED <<context, cache>>

SaveSnapFails ==
    /\ pc = "save"
    /\ SaveFails(snap.tokens)
    /\ Stored(FALSE)
    /\ UNCHANGED <<context, cache>>

WriteLive ==
    /\ pc = "write"
    /\ parked' = Without(parked, active)
    /\ SaveOk(active, tokens, cells) \/ SaveFails(tokens)
    /\ Goto(AfterPark)
    /\ UNCHANGED <<context, active, tokens, turn, storing>>

Parking == \/ ParkNothing \/ ParkInMemory \/ ParkOnDisk \/ Store \/ SpillOk
           \/ SpillFails \/ KeepInMemory \/ SaveSnapOk \/ SaveSnapFails
           \/ WriteLive

-----------------------------------------------------------------------------
(* The rest of activate_session: unpark_session, memory before disk *)

RestoreFromMemory ==
    /\ pc = "restore" /\ InMemory(target)
    /\ active' = target
    /\ cells' = Entry(target).state /\ tail' = Len(Entry(target).state)
    /\ tokens' = Entry(target).tokens /\ fresh' = FALSE
    /\ parked' = Without(parked, target)
    /\ Goto("checkpoint")
    /\ UNCHANGED <<files, turn, storing>>

MemoryRestoreFails ==
    /\ pc = "restore" /\ InMemory(target) /\ Faults
    /\ active' = target
    /\ RestoreFails(Entry(target).state)
    /\ parked' = Inserted(parked, Entry(target))
    /\ Goto("miss")
    /\ UNCHANGED <<files, turn, storing>>

(* A file counts when its header can be read, and loads when it is whole.   *)
Loadable(s) == HasFile(s) /\ FileOf(s).tokens # <<>>

RestoreFromDisk ==
    /\ pc = "restore" /\ ~InMemory(target)
    /\ Loadable(target) /\ FileOf(target).whole
    /\ active' = target
    /\ cells' = FileOf(target).state /\ tail' = Len(FileOf(target).state)
    /\ tokens' = FileOf(target).tokens /\ fresh' = FALSE
    /\ Goto("checkpoint")
    /\ UNCHANGED <<parked, files, turn, storing>>

DiskRestoreFails ==
    /\ pc = "restore" /\ ~InMemory(target) /\ Loadable(target)
    /\ ~FileOf(target).whole \/ Faults
    /\ active' = target
    /\ RestoreFails(FileOf(target).state)
    /\ Goto("miss")
    /\ UNCHANGED <<parked, files, turn, storing>>

(* active_tokens_ is cleared; the cells of the session before are not yet.  *)
NothingParked ==
    /\ pc = "restore" /\ ~InMemory(target) /\ ~Loadable(target)
    /\ active' = target
    /\ tokens' = <<>>
    /\ Goto("miss")
    /\ UNCHANGED <<context, parked, files, turn, storing>>

Miss ==
    /\ pc = "miss"
    /\ \E o \in TrimOutcomes(0) : SetTo(o)
    /\ Goto("checkpoint")
    /\ UNCHANGED <<active, parked, files, turn, storing>>

Restoring == \/ RestoreFromMemory \/ MemoryRestoreFails \/ RestoreFromDisk
             \/ DiskRestoreFails \/ NothingParked \/ Miss

-----------------------------------------------------------------------------
(* A turn: chat, generate_tokens, decode_tokens *)

Turn(s, p) ==
    /\ pc = "idle"
    /\ target' = s /\ prompt' = p /\ back' = "turn"
    /\ Goto(IF s = active THEN "checkpoint" ELSE "park")
    /\ UNCHANGED <<context, cache, files, ckpt, offset, snap, spilling>>

(* The template does not render, or the prompt fills the context.           *)
RejectPrompt ==
    /\ pc = "checkpoint"
    /\ Faults \/ Len(prompt) >= MaxCtx
    /\ Return
    /\ UNCHANGED <<context, cache, files>>

Checkpoint == CheckpointFromOffsets(tokens, prompt, <<>>)

Reused_KeptOrNot(o) == Checkpoint

Reused(o) == IF o.kept THEN Checkpoint ELSE 0

ReusePrefix ==
    /\ pc = "checkpoint" /\ Len(prompt) < MaxCtx
    /\ \E o \in TrimOutcomes(Checkpoint) :
           SetTo(o) /\ ckpt' = Reused(o) /\ offset' = Reused(o)
    /\ Goto("decode")
    /\ UNCHANGED <<active, parked, files, target, prompt, storing>>

Batch_StopsShort ==
    LET left == Len(prompt) - offset - 1
    IN  SubSeq(prompt, offset + 1,
               offset + IF left < BatchSize THEN left ELSE BatchSize)

Batch ==
    LET left == Len(prompt) - offset
    IN  SubSeq(prompt, offset + 1,
               offset + IF left < BatchSize THEN left ELSE BatchSize)

DecodePrompt ==
    /\ pc = "decode" /\ offset < Len(prompt)
    /\ Len(tokens) + Len(Batch) <= MaxCtx
    /\ \/ /\ DecodeOk(Batch)
          /\ offset' = offset + Len(Batch)
          /\ UNCHANGED pc
       \/ /\ DecodeFails(Batch)
          /\ Goto("rollback")
          /\ UNCHANGED offset
    /\ UNCHANGED <<active, parked, files, target, prompt, ckpt, storing>>

PromptDecoded ==
    /\ pc = "decode" /\ offset = Len(prompt)
    /\ Goto("sample")
    /\ UNCHANGED <<context, cache, files, turn, storing>>

RoomForToken_OneMore == Len(tokens) <= MaxCtx

RoomForToken == Len(tokens) < MaxCtx

(* One token is sampled, its piece accepted, and the token decoded.         *)
SampleToken ==
    /\ pc = "sample" /\ RoomForToken
    /\ \E t \in Sampled :
           \/ DecodeOk(<<t>>) /\ UNCHANGED pc
           \/ DecodeFails(<<t>>) /\ Goto("rollback")
    /\ UNCHANGED <<active, parked, files, turn, storing>>

(* End of generation, or max_tokens. *)
FinishTurn ==
    /\ pc = "sample"
    /\ Return
    /\ UNCHANGED <<context, cache, files>>

(* Generation reaches the end of the context. *)
FillContext ==
    /\ pc = "sample" /\ ~RoomForToken
    /\ Goto("rollback")
    /\ UNCHANGED <<context, cache, files, turn, storing>>

(* should_stop, a refused piece, an exception. *)
AbortTurn ==
    /\ pc \in {"decode", "sample"}
    /\ Goto("rollback")
    /\ UNCHANGED <<context, cache, files, turn, storing>>

RollbackPoint_KeepsPrompt == Len(prompt)

RollbackPoint == ckpt

Rollback ==
    /\ pc = "rollback"
    /\ \E o \in TrimOutcomes(RollbackPoint) : SetTo(o)
    /\ Return
    /\ UNCHANGED <<active, parked, files>>

Turning == \/ RejectPrompt \/ ReusePrefix \/ DecodePrompt \/ PromptDecoded
           \/ SampleToken \/ FinishTurn \/ FillContext \/ Rollback

-----------------------------------------------------------------------------
(* Calls about sessions *)

ReleasedFiles_NotWhenLive(s) == IF s = active THEN files ELSE Without(files, s)

ReleasedFiles(s) == Without(files, s)

Release(s) ==
    /\ pc = "idle"
    /\ parked' = Without(parked, s)
    /\ files' = ReleasedFiles(s)
    /\ IF s = active THEN \E o \in TrimOutcomes(0) : SetTo(o)
                     ELSE UNCHANGED <<tokens, context>>
    /\ UNCHANGED <<active, pc, turn, storing>>

(* Sessions clones onto the id of a session it has just made, so t is       *)
(* neither live nor in RAM; a file of it may be left from another process.  *)
Fresh(t) == t # active /\ ~InMemory(t)

CloneLive(t) ==
    /\ pc = "idle" /\ Fresh(t) /\ active # NoSession /\ tokens # <<>>
    /\ target' = t /\ back' = "clone live"
    /\ \/ /\ MemoryLimit > 0
          /\ Capture(t)
          /\ Goto("store")
       \/ /\ MemoryLimit = 0 \/ Faults
          /\ Goto("copy")
          /\ UNCHANGED snap
    /\ UNCHANGED <<context, cache, files, prompt, ckpt, offset, spilling>>

CopyLive ==
    /\ pc = "copy"
    /\ SaveOk(target, tokens, cells) \/ SaveFails(tokens)
    /\ Return
    /\ UNCHANGED <<context, cache>>

CloneParked(f, t) ==
    /\ pc = "idle" /\ Fresh(t) /\ f # active /\ f # t /\ InMemory(f)
    /\ snap' = [Entry(f) EXCEPT !.id = t]
    /\ back' = "clone"
    /\ Goto("store")
    /\ UNCHANGED <<context, cache, files, turn, spilling>>

(* copy_file writes in place: an error, or a kill, leaves what it wrote.    *)
CloneFile(f, t) ==
    /\ pc = "idle" /\ Fresh(t) /\ f # active /\ f # t /\ ~InMemory(f)
    /\ HasFile(f)
    /\ LET whole == [FileOf(f) EXCEPT !.id = t, !.old = FALSE]
           half  == [whole EXCEPT !.whole = FALSE, !.state = <<>>]
           cut   == {half, [half EXCEPT !.tokens = <<>>]}
       IN  \/ /\ files' = TrimDisk(Written(whole))
              /\ UNCHANGED <<context, cache, pc, turn, storing>>
           \/ /\ Faults /\ \E c \in cut : files' = Written(c)
              /\ UNCHANGED <<context, cache, pc, turn, storing>>
           \/ /\ Kills /\ \E c \in cut : files' = Written(c)
              /\ LoseProcess /\ Goto("killed")

-----------------------------------------------------------------------------
(* The end of the worker, and of the process *)

Shutdown ==
    /\ pc = "idle"
    /\ back' = "shutdown"
    /\ Goto("park")
    /\ UNCHANGED <<context, cache, files, turn, snap, spilling>>

StartFlush ==
    /\ pc = "flush"
    /\ spilling' = [i \in DOMAIN parked |-> parked[i].id]
    /\ Goto("flushing")
    /\ UNCHANGED <<context, cache, files, turn, back, snap>>

FlushOne ==
    /\ pc = "flushing" /\ spilling # <<>>
    /\ LET e == Entry(Head(spilling))
       IN  \/ /\ SaveOk(e.id, e.tokens, e.state)
              /\ parked' = Without(parked, e.id)
           \/ /\ SaveFails(e.tokens)
              /\ parked' = Inserted(parked, e)
    /\ spilling' = Tail(spilling)
    /\ UNCHANGED <<context, active, tokens, pc, turn, back, snap>>

FlushDone ==
    /\ pc = "flushing" /\ spilling = <<>>
    /\ files' = TrimDisk(files)
    /\ Goto("off")
    /\ UNCHANGED <<context, cache, turn, storing>>

Flushing == StartFlush \/ FlushOne \/ FlushDone

Kill ==
    /\ Kills /\ pc \notin {"off", "killed"}
    /\ LoseProcess
    /\ Goto("killed")
    /\ UNCHANGED files

(* create trims the directory before the model is loaded. *)
Restart ==
    /\ pc \in {"off", "killed"}
    /\ LoseProcess
    /\ Goto("idle")
    /\ files' = TrimDisk(files)

(* Days pass between turns. *)
AgeFiles ==
    /\ pc \in {"idle", "off", "killed"} /\ DiskGc
    /\ \E n \in DOMAIN files :
           files' = [i \in DOMAIN files |->
                         [files[i] EXCEPT !.old = files[i].old \/ i <= n]]
    /\ UNCHANGED <<context, cache, pc, turn, storing>>

Worker == Parking \/ Restoring \/ Turning \/ CopyLive \/ Flushing

Next ==
    \/ Worker \/ AbortTurn
    \/ \E s \in Ids, p \in Prompts : Turn(s, p)
    \/ \E s \in Sessions : Release(s) \/ CloneLive(s)
    \/ \E f, t \in Sessions : CloneParked(f, t) \/ CloneFile(f, t)
    \/ Shutdown \/ Kill \/ Restart \/ AgeFiles

Spec == Init /\ [][Next]_vars

FairSpec == Spec /\ WF_vars(Worker)

-----------------------------------------------------------------------------
(* Properties *)

Points == {"idle", "park", "store", "spill", "save", "write", "restore",
           "miss", "checkpoint", "decode", "sample", "rollback", "copy",
           "flush", "flushing", "off", "killed"}

Texts == Seq(Vocabulary)

Entries == [id : Sessions, tokens : Texts, state : Texts]

FileEntries == [id : Sessions, tokens : Texts, state : Texts,
                whole : BOOLEAN, old : BOOLEAN]

(* Types of the variables. *)
TypeOK ==
    /\ cells \in Texts /\ tail \in Nat /\ fresh \in BOOLEAN
    /\ active \in Ids /\ tokens \in Texts /\ parked \in Seq(Entries)
    /\ files \in Seq(FileEntries)
    /\ pc \in Points
    /\ back \in {"none", "turn", "clone", "clone live", "shutdown"}
    /\ target \in Ids /\ prompt \in Prompts \cup {<<>>}
    /\ ckpt \in Nat /\ offset \in Nat
    /\ snap \in Entries \cup {NoSnap} /\ spilling \in Seq(Sessions)

(* active_tokens_ is what the context holds, with every position filled, at *)
(* every point where the engine relies on it: after failed decodes, refused *)
(* or half-done trims and rejected restores, a next prompt is never matched *)
(* against cells that are not there.                                        *)
CacheMirrorsContext ==
    pc \notin {"miss", "rollback"} =>
        cells = tokens /\ tail = Len(cells)

(* The model samples with the whole prompt in its context, no matter how    *)
(* much of it was reused, cleared or decoded again.                         *)
TurnSeesPrompt == pc = "sample" => IsPrefix(prompt, cells)

(* What generate promises: the prompt is evaluated, reused prefix or not,   *)
(* and the first sampled token continues it.                                *)
SamplesPrompt == pc = "sample" => fresh

(* A parked session, in RAM or in a whole file, can be resumed as it is:    *)
(* its state is the state after its tokens.                                 *)
ParkedMatchesState ==
    /\ \A i \in DOMAIN parked : parked[i].state = parked[i].tokens
    /\ \A i \in DOMAIN files : files[i].whole => files[i].state = files[i].tokens

(* Parked sessions stay within the budget, whichever way a spill or a       *)
(* restore fails, and no session is parked twice.                           *)
MemoryWithinLimit ==
    /\ Exact(Sizes(parked)) <= MemoryLimit
    /\ \A i, j \in DOMAIN parked : parked[i].id = parked[j].id => i = j

(* A session in RAM has no file: what memory hides from unpark_session is   *)
(* never a second, different copy.                                          *)
OneParkedCopy ==
    \A i \in DOMAIN parked : ~HasFile(parked[i].id)

(* No call ever fills the context beyond its size. *)
ContextFits == Len(cells) <= MaxCtx

(* A turn that fails leaves a prefix of what was cached before it, and      *)
(* nothing of the turn: it starts from a prefix, and goes back to it.       *)
FailedTurnLeavesPrefix ==
    [][LET kept == Prefix(prompt, ckpt)
       IN  /\ pc = "checkpoint" /\ pc' = "decode" => IsPrefix(kept', tokens)
           /\ pc = "rollback" /\ pc' = "idle" => IsPrefix(tokens', kept)]_vars

Copies(s) ==
    {parked[i].tokens : i \in {j \in DOMAIN parked : parked[j].id = s}}
        \cup {files[i].tokens : i \in {j \in DOMAIN files :
                                         files[j].id = s /\ files[j].whole}}

(* While one session is parked, resumed or cloned, no other parked session  *)
(* is lost, whichever spill or flush fails.                                 *)
OthersStayParked ==
    [][pc \notin {"idle", "off", "killed"} /\ pc' # "killed" =>
           \A s \in Sessions \ {active, target, snap.id} :
               Copies(s) \subseteq Copies(s)']_vars

(* A session loses its file only when it is released, when RAM takes it     *)
(* over, or by age, and no older file outlives one that went by age.        *)
FilesExpireByAge ==
    [][LET Gone(f) == \A j \in DOMAIN files' : files'[j].id # f.id
           Rewritten(f) == files'[Len(files')].id = f.id
       IN  \A i \in DOMAIN files :
               Gone(files[i]) =>
                   \/ Release(files[i].id) \/ snap.id = files[i].id
                   \/ files[i].old /\ \A j \in 1..i :
                                          Gone(files[j]) \/ Rewritten(files[j])]_vars

(* After a shutdown without failures every session is in a whole file, the  *)
(* live one with all its tokens.                                            *)
ShutdownSavesAll ==
    pc = "off" =>
        /\ parked = <<>>
        /\ active \in Sessions /\ tokens # <<>> => Copies(active) = {tokens}

Held(s) ==
    Copies(s) \cup (IF active = s THEN {tokens} ELSE {})
              \cup (IF snap.id = s THEN {snap.tokens} ELSE {})
              \cup (IF pc = "copy" /\ target = s THEN {tokens} ELSE {})

(* After release_session nothing of the session can be resumed. *)
ReleaseForgets == [][\A s \in Sessions : Release(s) => Held(s)' \subseteq {<<>>}]_vars

(* The engine gives every session its own conversation, or a clone's: see   *)
(* SessionCache.                                                            *)
Cache == INSTANCE SessionCache WITH
             held <- [s \in Ids |-> Held(s) \ {<<>>}],
             busy <- pc \notin {"idle", "off", "killed"},
             MaxBatch <- BatchSize
KeepsOwnConversations == Cache!CacheSpec

(* Every call of the worker comes to an end. *)
CallsReturn ==
    pc \notin {"idle", "off", "killed"} ~> pc \in {"idle", "off", "killed"}
=============================================================================
