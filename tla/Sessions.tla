------------------------------ MODULE Sessions ------------------------------
(* Server-side chat sessions: Session and Sessions (sessions.cpp) and their *)
(* files (session_disk.cpp), both in src/src/server/sessions.               *)
(*                                                                          *)
(* Sessions::mutex_ guards the table and the files, Session::mutex_ one     *)
(* conversation, and no lock is held from one public method to the next: a  *)
(* step is one critical section.  Any number of threads call in; the worker *)
(* of Jobs calls back when a generation ends; main loads the files first.   *)
EXTENDS Integers, FiniteSets, SessionPlans

CONSTANTS
    Callers,        \* threads that call Sessions
    MaxSessions,    \* kMaxSessions
    CacheLimit,     \* cache_limit_, in files; 0 is no limit
    MaxId,          \* bound: sessions ever created
    MaxJobs,        \* bound: generations ever claimed
    MaxClock,       \* bound: seconds of the wall clock
    MaxCrashes,     \* bound: kills of the process
    Asks,           \* bound: the client work an answer asks for
    Posts,          \* bound: the kinds of messages that clients post
    Brings,         \* bound: whether they begin a session with tool results
    CompressTools,  \* compress_tools_, the same for all sessions
    DiskFails,      \* whether writing a record may fail
    Parks           \* whether the engine has a directory for KV files

ASSUME SessionsAssumption ==
    /\ {"worker", "main"} \cap Callers = {}
    /\ {MaxSessions, CacheLimit, MaxId, MaxJobs, MaxClock, MaxCrashes} \subseteq Nat
    /\ Asks \subseteq {"tools", "question"}
    /\ Posts \subseteq {"user", "results", "assistant"}
    /\ Brings \subseteq BOOLEAN
    /\ {CompressTools, DiskFails, Parks} \subseteq BOOLEAN

Ids == 1..MaxId         \* the clock hands them out in order; 0 is no session
Threads == Callers \cup {"worker", "main"}
Never == -1             \* the modification time of a file that is not there

VARIABLES
    table,      \* the ids in sessions_
    sess,       \* the Session objects, removed ones too: a thread may hold one
    disk,       \* <id>.json, and when it was written
    kv,         \* when <id>.kv was written
    jobs,       \* the tasks, in the order they were made
    releases,   \* pending_session_releases_ and pending_session_clones_ of Jobs
    clones,
    thread,     \* the control point and the locals of every thread
    clock, newest, crashes,     \* newest: the last id the clock has handed out
    (* histories: the last record not written for want of a disk; what a    *)
    (* turn began from; sessions somebody posted to during a limit check    *)
    unsaved, turn, touched

store == <<disk, kv>>
pending == <<jobs, releases, clones>>
bounds == <<clock, newest, crashes>>
history == <<unsaved, turn, touched>>
vars == <<table, sess, store, pending, thread, bounds, history>>

-----------------------------------------------------------------------------
(* Session *)

NewSession(msgs) ==
    [state |-> "Idle", wait |-> {}, job |-> 0, msgs |-> msgs,
     armed |-> FALSE, backState |-> "Idle", backWait |-> {},
     updated |-> clock, expired |-> FALSE]

Active(s) == s.job # 0 \/ s.state = "Generating"

IsGcIdle_NotGenerating(s) == ~Active(s)

IsGcIdle(s) == ~Active(s) /\ s.state \notin {"AwaitingTools", "AwaitingQuestion"}

MarkUpdated(s) == [s EXCEPT !.updated = clock, !.expired = FALSE]

ArmRollback(s) ==
    [s EXCEPT !.armed = TRUE, !.backState = s.state, !.backWait = s.wait]

ClearPending(s, state) == [s EXCEPT !.wait = {}, !.state = state]

(* A message is a text in the user's name, tool results in full, which are  *)
(* in the user's name too, or a text in any other role.                     *)
Kinds == {"user", "results", "assistant"}

(* The role of a message is for the client to say, and results may be short *)
(* as they are.                                                             *)
Posted(call) == IF call = "message" THEN {"user", "assistant"} ELSE {"user", "results"}

InUsersName(msgs) == msgs # <<>> /\ Last(msgs) \in {"user", "results"}

(* shrink_stored_tool_results. *)
Shortened(msgs) ==
    [n \in DOMAIN msgs |-> IF msgs[n] = "results" THEN "user" ELSE msgs[n]]

(* A turn that is over needs its results no more. *)
Stored(s, call) ==
    IF CompressTools /\ call = "message" /\ s.state = "Idle"
    THEN Shortened(s.msgs) ELSE s.msgs

(* accept_user_message and accept_tool_results. *)
Accept_Unarmed(s, call, m) ==
    MarkUpdated([ClearPending(s, "Idle") EXCEPT !.msgs = Append(Stored(s, call), m)])

Accept(s, call, m) ==
    MarkUpdated([ClearPending(ArmRollback(s), "Idle") EXCEPT
                    !.msgs = Append(Stored(s, call), m)])

AwaitsTools(s) == s.state = "AwaitingTools" \/ "tools" \in s.wait

BeginGeneration(s, k) ==
    [ClearPending(s, "Generating") EXCEPT !.job = k, !.expired = FALSE]

RollbackLastTurn_KeepWait(s) ==
    IF s.armed /\ InUsersName(s.msgs)
    THEN [ClearPending(s, s.backState) EXCEPT !.msgs = Front(s.msgs)]
    ELSE ClearPending(s, "Idle")

RollbackLastTurn(s) ==
    IF s.armed /\ InUsersName(s.msgs)
    THEN [s EXCEPT !.msgs = Front(s.msgs), !.wait = s.backWait,
                   !.state = s.backState]
    ELSE ClearPending(s, "Idle")

(* What is restored is read only while armed, so it is forgotten with it.   *)
DisarmRollback(s) ==
    [s EXCEPT !.armed = FALSE, !.backState = "Idle", !.backWait = {}]

(* How a generation ends: asks are the client work in the answer.           *)
Done(text, asks) == [end |-> "Done", text |-> text, asks |-> asks]
Ended(end) == [end |-> end, text |-> FALSE, asks |-> {}]
Answers == {Done(FALSE, {})} \cup
           {Done(TRUE, asks) : asks \in SUBSET Asks}

TakeAnswer(s, o) ==
    [s EXCEPT !.msgs = IF o.text THEN Append(@, "assistant") ELSE @,
              !.wait = o.asks,
              !.state = IF "tools" \in o.asks THEN "AwaitingTools"
                        ELSE IF "question" \in o.asks THEN "AwaitingQuestion"
                        ELSE "Idle"]

CompleteJob(s, k, o) ==
    LET base == MarkUpdated([s EXCEPT !.job = 0])
    IN  IF s.job # k THEN s          \* a stale task
        ELSE DisarmRollback(CASE o.end = "Full" -> RollbackLastTurn(base)
                              [] o.end = "Done" -> TakeAnswer(base, o)
                              [] OTHER -> ClearPending(base, "Idle"))

RecordOf(s) ==
    [state |-> IF s.job # 0 THEN "Generating" ELSE s.state,
     wait |-> s.wait, msgs |-> s.msgs, updated |-> s.updated]

Restore_Waitless(rec) ==
    [NewSession(rec.msgs) EXCEPT !.updated = rec.updated]

Restore(rec) ==
    LET fresh == [NewSession(rec.msgs) EXCEPT !.updated = rec.updated]
    IN  IF rec.state = "Generating" THEN fresh
        ELSE [fresh EXCEPT !.state = rec.state, !.wait = rec.wait]

-----------------------------------------------------------------------------
(* Threads and their locals: the call being made, the session it is about   *)
(* (also the one that enforce_cache_limit keeps), the task and outcome that *)
(* complete_job is given, and what a limit check has gathered.              *)
NoPlan == [sessions |-> {}, orphans |-> {}, over |-> FALSE]

Resting == [pc |-> "idle", call |-> "none", id |-> 0, key |-> 0,
            outcome |-> Ended("none"), held |-> {}, refs |-> {},
            plan |-> NoPlan, victim |-> 0]

At(t, pc) == thread[t].pc = pc
Move(t, r) == thread' = [thread EXCEPT ![t] = r]
Goto(t, pc) == Move(t, [thread[t] EXCEPT !.pc = pc])
Return(t) == Move(t, Resting)
Calling(t, call, id, pc) ==
    Move(t, [Resting EXCEPT !.call = call, !.id = id, !.pc = pc])

Loaded == At("main", "idle")
MayCall(t) == t \in Callers /\ At(t, "idle") /\ Loaded

(* What follows the save of a call. *)
AfterSave(call) ==
    CASE call \in {"message", "results"} -> "begin"
      [] call = "snapshot" -> "clone"
      [] OTHER -> "idle"

(* The locals of the save are dead by then. *)
Continue(t) ==
    LET pc == AfterSave(thread[t].call)
    IN  IF pc = "idle" THEN Return(t)
        ELSE Move(t, [Resting EXCEPT !.pc = pc, !.call = thread[t].call,
                                     !.id = thread[t].id, !.key = thread[t].key])

(* What a client sees of a session. *)
Conversation(s) == [state |-> s.state, wait |-> s.wait, msgs |-> s.msgs]

NoTurn == [posts |-> 0, from |-> Conversation(NewSession(<<>>))]

NoFile == [written |-> Never]
HasFile(id) == disk[id].written # Never
RecordFile(id) == [written |-> clock, rec |-> RecordOf(sess[id])]

Init ==
    /\ clock = 0 /\ newest = 0 /\ crashes = 0
    /\ table = {} /\ sess = [i \in Ids |-> NewSession(<<>>)]
    /\ disk = [i \in Ids |-> NoFile] /\ kv = [i \in Ids |-> Never]
    /\ jobs = <<>> /\ releases = {} /\ clones = {}
    /\ thread = [t \in Threads |-> IF t = "main" THEN [Resting EXCEPT !.pc = "load"]
                                   ELSE Resting]
    /\ unsaved = {}
    /\ turn = [i \in Ids |-> NoTurn]
    /\ touched = [t \in Threads |-> {}]

(* complete_job; what the turn began from is of no more use.                *)
HearOf(i, k, o) ==
    /\ sess' = [sess EXCEPT ![i] = CompleteJob(@, k, o)]
    /\ turn' = IF sess[i].job = k THEN [turn EXCEPT ![i] = NoTurn] ELSE turn

-----------------------------------------------------------------------------
(* Requests *)

LimitPoints == {"read", "drop", "cancelVictim", "release"}

PostedBy(others) ==
    {thread[u].id : u \in {v \in others : thread[v].call \in {"message", "results"}}}

NotePost(id) ==
    touched' = [t \in Threads |-> IF thread[t].pc \in LimitPoints
                                  THEN touched[t] \cup {id} ELSE touched[t]]

(* post_message, post_tool_results: get, then the session on its own. *)
CallPost(t, id, call) ==
    /\ MayCall(t) /\ id \in table
    /\ Len(jobs) + Cardinality({u \in Callers : ~At(u, "idle")}) < MaxJobs
    /\ call = "results" => AwaitsTools(sess[id])
    /\ Calling(t, call, id, "accept")
    /\ NotePost(id)
    /\ UNCHANGED <<table, sess, store, pending, bounds, unsaved, turn>>

AcceptPost(t) ==
    LET id == thread[t].id
        s  == sess[id]
    IN  /\ At(t, "accept")
        /\ IF Active(s) \/ (thread[t].call = "results" /\ ~AwaitsTools(s))
           THEN Return(t) /\ UNCHANGED <<sess, turn>>       \* Busy, BadRequest
           ELSE /\ \E m \in Posts \cap Posted(thread[t].call) :
                      sess' = [sess EXCEPT ![id] = Accept(s, thread[t].call, m)]
                /\ turn' = [turn EXCEPT ![id].posts = @ + 1,
                                        ![id].from = IF turn[id].posts = 0
                                                     THEN Conversation(s) ELSE @]
                /\ Goto(t, "save")
        /\ UNCHANGED <<table, store, pending, bounds, unsaved, touched>>

(* begin_generation: the second test for a generation in flight. *)
Claim_Unchecked(t) ==
    LET id == thread[t].id
        k  == Len(jobs) + 1
    IN  /\ jobs' = Append(jobs, [session |-> id, phase |-> "made", cancel |-> FALSE])
        /\ sess' = [sess EXCEPT ![id] = BeginGeneration(sess[id], k)]
        /\ Move(t, [thread[t] EXCEPT !.pc = "enqueue", !.key = k])

Claim(t) ==
    LET id == thread[t].id
        k  == Len(jobs) + 1
    IN  IF Active(sess[id])
        THEN Return(t) /\ UNCHANGED <<jobs, sess>>          \* Busy
        ELSE /\ jobs' = Append(jobs, [session |-> id, phase |-> "made",
                                      cancel |-> FALSE])
             /\ sess' = [sess EXCEPT ![id] = BeginGeneration(sess[id], k)]
             /\ Move(t, [thread[t] EXCEPT !.pc = "enqueue", !.key = k])

Begin(t) ==
    /\ At(t, "begin")
    /\ Claim(t)
    /\ UNCHANGED <<table, store, releases, clones, bounds, history>>

Enqueue(t) ==
    /\ At(t, "enqueue")
    /\ jobs' = [jobs EXCEPT ![thread[t].key].phase = "queued"]
    /\ Return(t)
    /\ UNCHANGED <<table, sess, store, releases, clones, bounds, history>>

(* unsafe_gc, under mutex_: what it collects leaves with its file. *)
Collected == {i \in table : IsGcIdle(sess[i]) /\ sess[i].expired}

WithoutFiles(ids) == [i \in Ids |-> IF i \in ids THEN NoFile ELSE disk[i]]

(* create and snapshot make the object first.  sub_agent's child starts     *)
(* from the messages of its parent and from nothing else of it.             *)
NewObject(t, id, msgs) ==
    /\ newest < MaxId
    /\ newest' = newest + 1
    /\ sess' = [sess EXCEPT ![newest + 1] = NewSession(msgs)]
    /\ Move(t, [Resting EXCEPT !.pc = "insert", !.id = newest + 1, !.key = id,
                               !.call = IF id = 0 THEN "create" ELSE "snapshot"])

(* A client may bring a conversation along. *)
CallCreate(t) ==
    /\ MayCall(t)
    /\ \E full \in Brings : NewObject(t, 0, IF full THEN <<"results">> ELSE <<>>)
    /\ UNCHANGED <<table, store, pending, clock, crashes, history>>

CallSnapshot(t, parent) ==
    /\ MayCall(t) /\ parent \in table /\ newest < MaxId
    /\ Calling(t, "snapshot", parent, "peek")
    /\ UNCHANGED <<table, sess, store, pending, bounds, history>>

Peek(t) ==
    /\ At(t, "peek")
    /\ IF sess[thread[t].id].job # 0 THEN Return(t) ELSE Goto(t, "capture")
    /\ UNCHANGED <<table, sess, store, pending, bounds, history>>

Capture(t) ==
    /\ At(t, "capture")
    /\ NewObject(t, thread[t].id, sess[thread[t].id].msgs)
    /\ UNCHANGED <<table, store, pending, clock, crashes, history>>

Insert(t) ==
    LET kept == table \ Collected
        full == Cardinality(kept) >= MaxSessions
    IN  /\ At(t, "insert")
        /\ table' = IF full THEN kept ELSE kept \cup {thread[t].id}
        /\ disk' = WithoutFiles(Collected)
        /\ releases' = releases \cup Collected
        /\ unsaved' = unsaved \ Collected
        /\ IF full THEN Return(t) ELSE Goto(t, "save")          \* Busy
        /\ UNCHANGED <<sess, kv, jobs, clones, bounds, turn, touched>>

AskClone(t) ==
    /\ At(t, "clone")
    /\ clones' = clones \cup {<<thread[t].key, thread[t].id>>}
    /\ Return(t)
    /\ UNCHANGED <<table, sess, store, jobs, releases, bounds, history>>

CallGc(t) ==
    /\ MayCall(t) /\ Collected # {}
    /\ table' = table \ Collected
    /\ disk' = WithoutFiles(Collected)
    /\ releases' = releases \cup Collected
    /\ unsaved' = unsaved \ Collected
    /\ UNCHANGED <<sess, kv, jobs, clones, thread, bounds, turn, touched>>

(* note_resume. *)
CallResume(t, id) ==
    /\ MayCall(t) /\ id \in table
    /\ Calling(t, "resume", id, "touch")
    /\ UNCHANGED <<table, sess, store, pending, bounds, history>>

Touch(t) ==
    /\ At(t, "touch")
    /\ sess' = [sess EXCEPT ![thread[t].id] = MarkUpdated(@)]
    /\ Goto(t, "save")
    /\ UNCHANGED <<table, store, pending, bounds, history>>

CallDestroy(t, id) ==
    /\ MayCall(t) /\ id \in table
    /\ table' = table \ {id}
    /\ disk' = WithoutFiles({id})
    /\ unsaved' = unsaved \ {id}
    /\ Move(t, [Resting EXCEPT !.pc = "cancelVictim", !.call = "destroy",
                               !.id = id, !.victim = id])
    /\ UNCHANGED <<sess, kv, pending, bounds, turn, touched>>

-----------------------------------------------------------------------------
(* Saving, and the limit on the size of the directory *)

SaveRecord_Removed(t) ==
    LET id == thread[t].id
    IN  /\ disk' = [disk EXCEPT ![id] = RecordFile(id)]
        /\ unsaved' = unsaved \ {id}
        /\ IF CacheLimit > 0 THEN Goto(t, "hold") ELSE Continue(t)

SaveRecord(t) ==
    LET id == thread[t].id
    IN  \/ /\ id \notin table
           /\ Continue(t)
           /\ UNCHANGED <<disk, unsaved>>
        \/ /\ id \in table /\ DiskFails
           /\ unsaved' = unsaved \cup {id}
           /\ Continue(t)
           /\ UNCHANGED disk
        \/ /\ id \in table
           /\ disk' = [disk EXCEPT ![id] = RecordFile(id)]
           /\ unsaved' = unsaved \ {id}
           /\ IF CacheLimit > 0 THEN Goto(t, "hold") ELSE Continue(t)

Save(t) ==
    /\ At(t, "save")
    /\ SaveRecord(t)
    /\ UNCHANGED <<table, sess, kv, pending, bounds, turn, touched>>

(* enforce_cache_limit: the sessions of this moment, then a look at one     *)
(* after the other.                                                         *)
Hold(t) ==
    /\ At(t, "hold")
    /\ Move(t, [thread[t] EXCEPT !.pc = "read", !.held = table])
    /\ touched' = [touched EXCEPT ![t] = PostedBy(Threads \ {t})]
    /\ UNCHANGED <<table, sess, store, pending, bounds, unsaved, turn>>

Pinned(t, i) == i = thread[t].id \/ ~IsGcIdle(sess[i])

(* The time and the state are read under two locks; the time alone decides  *)
(* nothing.  On the worker the engine's active session is pinned too: the   *)
(* one of the task that just ended, or another one if its run failed early. *)
ReadRef(t) ==
    /\ At(t, "read")
    /\ \E i \in thread[t].held,
          active \in IF t = "worker" THEN {thread[t].id} \cup thread[t].held ELSE {0} :
         Move(t, [thread[t] EXCEPT
                    !.held = @ \ {i},
                    !.refs = @ \cup {Ref(i, sess[i].updated,
                                         Pinned(t, i) \/ i = active)}])
    /\ UNCHANGED <<table, sess, store, pending, bounds, history>>

Files(id) == (IF HasFile(id) THEN 1 ELSE 0) + (IF kv[id] # Never THEN 1 ELSE 0)

DiskRows ==
    {Row(i, Files(i), HasFile(i),
         IF kv[i] > disk[i].written THEN kv[i] ELSE disk[i].written) :
         i \in {j \in Ids : Files(j) > 0}}

MakePlan(t) ==
    /\ At(t, "read") /\ thread[t].held = {}
    /\ Move(t, [thread[t] EXCEPT
                  !.pc = "drop", !.refs = {},
                  !.plan = PlanSessionCache(DiskRows, thread[t].refs, CacheLimit)])
    /\ UNCHANGED <<table, sess, store, pending, bounds, history>>

DropSession(t) ==
    /\ At(t, "drop")
    /\ \E c \in thread[t].plan.sessions :
         /\ NextInLine(c, thread[t].plan.sessions)
         /\ table' = table \ {c.id}
         /\ disk' = WithoutFiles({c.id})
         /\ unsaved' = unsaved \ {c.id}
         /\ Move(t, [thread[t] EXCEPT !.pc = IF c.id \in table THEN "cancelVictim"
                                             ELSE "release",
                                      !.victim = c.id,
                                      !.plan.sessions = @ \ {c}])
    /\ UNCHANGED <<sess, kv, pending, bounds, turn, touched>>

DropOrphan(t) ==
    /\ At(t, "drop") /\ thread[t].plan.sessions = {}
    /\ \E c \in thread[t].plan.orphans :
         /\ NextInLine(c, thread[t].plan.orphans)
         /\ Move(t, [thread[t] EXCEPT !.pc = "release", !.victim = c.id,
                                      !.plan.orphans = @ \ {c}])
    /\ UNCHANGED <<table, sess, store, pending, bounds, history>>

LimitDone(t) ==
    /\ At(t, "drop") /\ thread[t].plan.sessions = {} /\ thread[t].plan.orphans = {}
    /\ Continue(t)
    /\ touched' = [touched EXCEPT ![t] = {}]
    /\ UNCHANGED <<table, sess, store, pending, bounds, unsaved, turn>>

(* Jobs::cancel as a session sees it.  A task that is still queued ends at  *)
(* once and its session hears of it on this thread, a running one is only   *)
(* told; a task that was made but not handed over yet is not found.         *)
EndedTask == [session |-> 0, phase |-> "ended", cancel |-> FALSE]

Failed == Ended("Failed")

CancelTask(k) ==
    jobs' = [jobs EXCEPT ![k] = CASE @.phase = "queued"  -> EndedTask
                                  [] @.phase = "running" -> [@ EXCEPT !.cancel = TRUE]
                                  [] OTHER -> @]

(* The session that is told is out of the table: its own save is skipped.   *)
CancelVictim(t) ==
    LET i == thread[t].victim
        k == sess[i].job
    IN  /\ At(t, "cancelVictim")
        /\ IF k = 0
           THEN UNCHANGED <<jobs, sess, turn>>
           ELSE /\ CancelTask(k)
                /\ IF jobs[k].phase = "queued"
                   THEN HearOf(i, k, Failed)
                   ELSE UNCHANGED <<sess, turn>>
        /\ Goto(t, "release")
        /\ UNCHANGED <<table, store, releases, clones, bounds, unsaved, touched>>

(* On the worker the engine drops the KV at once, else on a later turn.     *)
ReleaseVictim(t) ==
    LET i == thread[t].victim
    IN  /\ At(t, "release")
        /\ IF t = "worker"
           THEN kv' = [kv EXCEPT ![i] = Never] /\ UNCHANGED releases
           ELSE releases' = releases \cup {i} /\ UNCHANGED kv
        /\ IF thread[t].call = "destroy" THEN Return(t)
           ELSE Move(t, [thread[t] EXCEPT !.pc = "drop", !.victim = 0])
        /\ UNCHANGED <<table, sess, disk, jobs, clones, bounds, history>>

-----------------------------------------------------------------------------
(* Generations *)

(* A client cancels a generation it has the key of. *)
CallCancel_Silent(t, k) ==
    /\ MayCall(t)
    /\ jobs[k].phase \in {"queued", "running"} /\ ~jobs[k].cancel
    /\ CancelTask(k)
    /\ UNCHANGED <<thread, table, sess, store, releases, clones, bounds, history>>

CallCancel(t, k) ==
    /\ MayCall(t)
    /\ jobs[k].phase = "queued" \/ (jobs[k].phase = "running" /\ ~jobs[k].cancel)
    /\ CancelTask(k)
    /\ IF jobs[k].phase = "queued"
       THEN Move(t, [Resting EXCEPT !.pc = "complete", !.call = "finished",
                                    !.id = jobs[k].session, !.key = k,
                                    !.outcome = Failed])
       ELSE UNCHANGED thread
    /\ UNCHANGED <<table, sess, store, releases, clones, bounds, history>>

(* The worker applies the pending clones, then the releases.  A clone has   *)
(* what its parent has, if the engine could copy it.                        *)
SessionOps ==
    /\ At("worker", "idle") /\ (releases # {} \/ clones # {})
    /\ \E copied \in SUBSET {c \in clones : kv[c[1]] # Never} :
         kv' = [i \in Ids |-> IF i \in releases THEN Never
                              ELSE IF \E c \in copied : c[2] = i THEN clock
                              ELSE kv[i]]
    /\ releases' = {} /\ clones' = {}
    /\ UNCHANGED <<table, sess, disk, jobs, thread, bounds, history>>

StartJob(k) ==
    /\ At("worker", "idle") /\ releases = {} /\ clones = {}
    /\ jobs[k].phase = "queued"
    /\ \A j \in DOMAIN jobs : jobs[j].phase = "queued" => k <= j
    /\ jobs' = [jobs EXCEPT ![k].phase = "running"]
    /\ Move("worker", [Resting EXCEPT !.pc = "run", !.call = "finished",
                                      !.id = jobs[k].session, !.key = k])
    /\ UNCHANGED <<table, sess, store, releases, clones, bounds, history>>

(* The engine parks the session it leaves, on disk or not.  A cancel ends a *)
(* generation unless the engine gave up first; one after the worker's last  *)
(* look at it finds a task that is as good as ended.                        *)
EndJob(o, park) ==
    LET id == thread["worker"].id
        k  == thread["worker"].key
    IN  /\ At("worker", "run")
        /\ jobs[k].cancel => o \in {Failed, Ended("Full")}
        /\ park => Parks
        /\ jobs' = [jobs EXCEPT ![k] = EndedTask]
        /\ kv' = IF park THEN [kv EXCEPT ![id] = clock] ELSE kv
        /\ Move("worker", [thread["worker"] EXCEPT !.pc = "complete", !.outcome = o])
        /\ UNCHANGED <<table, sess, disk, releases, clones, bounds, history>>

(* on_job_finished, on the thread that ended the task. *)
Finished(t) ==
    LET l == thread[t]
    IN  /\ At(t, "complete")
        /\ HearOf(l.id, l.key, l.outcome)
        /\ Move(t, [Resting EXCEPT !.pc = "save", !.call = l.call, !.id = l.id])
        /\ UNCHANGED <<table, store, pending, bounds, unsaved, touched>>

-----------------------------------------------------------------------------
(* The process *)

(* load: the newest records first, then one limit check that keeps none.    *)
Restored ==
    LET saved == {i \in Ids : HasFile(i)}
    IN  {i \in saved : Cardinality({j \in saved : j > i}) < MaxSessions}

Load ==
    /\ At("main", "load")
    /\ table' = Restored
    /\ sess' = [i \in Ids |-> IF i \in Restored THEN Restore(disk[i].rec) ELSE sess[i]]
    /\ turn' = [i \in Ids |-> NoTurn]
    /\ Goto("main", IF CacheLimit > 0 THEN "hold" ELSE "idle")
    /\ UNCHANGED <<store, pending, bounds, unsaved, touched>>

(* The process is killed: the files stay. *)
Crash ==
    /\ crashes < MaxCrashes
    /\ crashes' = crashes + 1
    /\ table' = {} /\ sess' = [i \in Ids |-> NewSession(<<>>)]
    /\ jobs' = [k \in DOMAIN jobs |-> EndedTask]
    /\ releases' = {} /\ clones' = {}
    /\ thread' = [t \in Threads |-> IF t = "main" THEN [Resting EXCEPT !.pc = "load"]
                                    ELSE Resting]
    /\ unsaved' = {}
    /\ turn' = [i \in Ids |-> NoTurn]
    /\ touched' = [t \in Threads |-> {}]
    /\ UNCHANGED <<store, clock, newest>>

Tick ==
    /\ clock < MaxClock
    /\ clock' = clock + 1
    /\ UNCHANGED <<table, sess, store, pending, thread, newest, crashes, history>>

(* Ten minutes without a call on the session; a generation may take longer. *)
Expire(i) ==
    /\ i \in table /\ ~sess[i].expired
    /\ \A t \in Threads \ {"worker"} : thread[t].id # i
    /\ sess' = [sess EXCEPT ![i].expired = TRUE]
    /\ UNCHANGED <<table, store, pending, thread, bounds, history>>

-----------------------------------------------------------------------------
Request(t) ==
    \/ CallCreate(t) \/ CallGc(t)
    \/ \E i \in Ids : \/ \E call \in {"message", "results"} : CallPost(t, i, call)
                      \/ CallSnapshot(t, i) \/ CallResume(t, i) \/ CallDestroy(t, i)
    \/ \E k \in DOMAIN jobs : CallCancel(t, k)

Step(t) ==
    \/ AcceptPost(t) \/ Begin(t) \/ Enqueue(t)
    \/ Peek(t) \/ Capture(t) \/ Insert(t) \/ AskClone(t) \/ Touch(t)
    \/ Save(t) \/ Hold(t) \/ ReadRef(t) \/ MakePlan(t)
    \/ DropSession(t) \/ DropOrphan(t) \/ LimitDone(t)
    \/ CancelVictim(t) \/ ReleaseVictim(t) \/ Finished(t)

WorkerStep ==
    \/ SessionOps
    \/ \E k \in DOMAIN jobs : StartJob(k)
    \/ \E o \in Answers \cup {Ended("Full"), Failed}, park \in BOOLEAN : EndJob(o, park)

Next ==
    \/ \E t \in Callers : Request(t)
    \/ \E t \in Threads : Step(t)
    \/ WorkerStep \/ Load \/ Crash \/ Tick
    \/ \E i \in Ids : Expire(i)

(* A thread that has begun something, and the worker and main, run on.      *)
Advance(t) == Step(t) \/ (t = "worker" /\ WorkerStep) \/ (t = "main" /\ Load)

Fairness == \A t \in Threads : WF_vars(Advance(t))

Spec == Init /\ [][Next]_vars /\ Fairness

-----------------------------------------------------------------------------
(* Properties *)

Conversations ==
    [state : {"Idle", "Generating", "AwaitingTools", "AwaitingQuestion"},
     wait : SUBSET {"tools", "question"}, msgs : Seq(Kinds)]

(* The state says what the client is waited for, and that a task runs.      *)
Coherent(s) ==
    /\ s.state = "AwaitingTools" <=> "tools" \in s.wait
    /\ s.state = "AwaitingQuestion" <=> s.wait = {"question"}
    /\ s.state = "Generating" <=> s.job # 0

TypeOK ==
    /\ table \subseteq Ids
    /\ \A i \in Ids : Conversation(sess[i]) \in Conversations /\ Coherent(sess[i])
    /\ \A i \in Ids : sess[i].job \in 0..Len(jobs) /\ disk[i].written \in -1..MaxClock
    /\ kv \in [Ids -> -1..MaxClock]
    /\ jobs \in Seq([session : Ids \cup {0}, cancel : BOOLEAN,
                     phase : {"made", "queued", "running", "ended"}])
    /\ releases \subseteq Ids /\ clones \subseteq Ids \X Ids

(* "Same lock as save_session, so a job that finishes during delete cannot  *)
(* write the file back" (sessions.cpp, destroy): whatever a thread was      *)
(* doing with a session when it was destroyed, collected or dropped, its    *)
(* record never comes back.                                                 *)
RemovedStaysRemoved ==
    ~At("main", "load") => \A i \in Ids : HasFile(i) => i \in table

(* A session nobody is about to save is on disk as it stands, unless the    *)
(* disk refused its last record: a restart gives the client the turn it     *)
(* saw, with the work it was asked for.                                     *)
Saving(i) == \E t \in Threads : thread[t].id = i /\ At(t, "save")

Durable ==
    \A i \in table \ unsaved :
        ~Saving(i) =>
            /\ HasFile(i)
            /\ disk[i].rec.msgs = sess[i].msgs
            /\ disk[i].rec.updated = sess[i].updated
            /\ sess[i].job = 0 =>
                   Conversation(Restore(disk[i].rec)) = Conversation(sess[i])

(* However two posts interleave, a session that can be reached has at most  *)
(* one generation that is not over, the one it is registered for.           *)
OneGeneration ==
    \A i \in table, k \in DOMAIN jobs :
        jobs[k].session = i /\ jobs[k].phase # "ended" => sess[i].job = k

(* What a turn that does not fit the context window leaves of a             *)
(* conversation, its last post taken off.                                   *)
Remains(from) ==
    [from EXCEPT !.msgs = IF CompressTools /\ from.state = "Idle"
                          THEN Shortened(@) ELSE @]

(* "So a context-full failure can remove that message and put the session   *)
(* back" (sessions.hpp): when one post in the user's name alone led to the  *)
(* turn, the session has the messages from before that post, in order, and  *)
(* waits for the client work it waited for.  What the code does not put     *)
(* back are tool results in full that a message after a finished turn has   *)
(* shortened, those and no others; a message in another role stays.         *)
FullContextRestores ==
    [][\A t \in Threads :
          LET l == thread[t] IN
          (/\ At(t, "complete") /\ l.outcome.end = "Full"
           /\ sess[l.id].job = l.key /\ turn[l.id].posts = 1
           /\ InUsersName(sess[l.id].msgs)
           /\ thread'[t].pc = "save")
             => Conversation(sess'[l.id]) = Remains(turn[l.id].from)]_vars

(* A session that generates, or that waits for tool results or an answer,   *)
(* is only ever lost to a destroy, to the end of the process, or to a limit *)
(* check that had looked at it before somebody posted to it.  The session a *)
(* limit check runs for never goes by that check, idle or not.              *)
WaitingIsKept ==
    [][\A i \in table \ table' :
          /\ sess[i].state # "Idle" =>
                \/ crashes' # crashes
                \/ \E t \in Callers : thread'[t].call = "destroy" /\ thread'[t].id = i
                \/ \E t \in Threads : thread'[t].victim = i /\ i \in touched[t]
          /\ \A t \in Threads :
                At(t, "drop") /\ thread'[t].victim = i => i # thread[t].id]_vars

(* A generation that a session is registered for comes to an end, and the   *)
(* session hears of it, or leaves the table.                                *)
TurnSettles ==
    \A i \in Ids : (i \in table /\ sess[i].job # 0) ~> (sess[i].job = 0 \/ i \notin table)
=============================================================================
