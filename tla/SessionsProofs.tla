--------------------------- MODULE SessionsProofs ---------------------------
(* IInv of SessionsInv is inductive, and what follows from it for any       *)
(* number of callers, sessions and tasks.                                   *)
EXTENDS SessionsInv, FiniteSetTheorems, SequenceTheorems, TLAPS

(* What the operators on a session do to its task, and to its shape.        *)
LEMMA SessionOpLemma ==
    ASSUME NEW s, DOMAIN s = SessionFields, NEW k, NEW o, NEW call, NEW m
    PROVE  /\ DOMAIN Accept(s, call, m) = DOMAIN s /\ Accept(s, call, m).job = s.job
           /\ DOMAIN MarkUpdated(s) = DOMAIN s /\ MarkUpdated(s).job = s.job
           /\ DOMAIN BeginGeneration(s, k) = DOMAIN s
           /\ BeginGeneration(s, k).job = k
           /\ DOMAIN CompleteJob(s, k, o) = DOMAIN s
           /\ CompleteJob(s, k, o).job = IF s.job = k THEN 0 ELSE s.job
<1> USE DEF SessionFields, MarkUpdated, ClearPending
<1>1. DOMAIN Accept(s, call, m) = DOMAIN s /\ Accept(s, call, m).job = s.job
    BY DEF Accept, ArmRollback
<1>2. /\ DOMAIN MarkUpdated(s) = DOMAIN s /\ MarkUpdated(s).job = s.job
      /\ DOMAIN BeginGeneration(s, k) = DOMAIN s
      /\ BeginGeneration(s, k).job = k
    BY DEF BeginGeneration
<1>3. CASE s.job # k
    BY <1>1, <1>2, <1>3 DEF CompleteJob
<1>4. CASE s.job = k
  <2> DEFINE base == MarkUpdated([s EXCEPT !.job = 0])
  <2>1. DOMAIN base = DOMAIN s /\ base.job = 0
    OBVIOUS
  <2> HIDE DEF base
  <2>2. \A r : DOMAIN r = DOMAIN s /\ r.job = 0 =>
                 DOMAIN DisarmRollback(r) = DOMAIN s /\ DisarmRollback(r).job = 0
    BY DEF DisarmRollback
  <2>3. DOMAIN RollbackLastTurn(base) = DOMAIN s /\ RollbackLastTurn(base).job = 0
    BY <2>1 DEF RollbackLastTurn
  <2>4. DOMAIN TakeAnswer(base, o) = DOMAIN s /\ TakeAnswer(base, o).job = 0
    BY <2>1 DEF TakeAnswer
  <2>5. DOMAIN ClearPending(base, "Idle") = DOMAIN s
        /\ ClearPending(base, "Idle").job = 0
    BY <2>1
  <2>6. CompleteJob(s, k, o) = DisarmRollback(
            CASE o.end = "Full" -> RollbackLastTurn(base)
              [] o.end = "Done" -> TakeAnswer(base, o)
              [] OTHER -> ClearPending(base, "Idle"))
    BY <1>4 DEF CompleteJob, base
  <2>7. CASE o.end = "Full"
    BY <2>2, <2>3, <2>6, <2>7, <1>1, <1>2, <1>4
  <2>8. CASE o.end = "Done"
    BY <2>2, <2>4, <2>6, <2>8, <1>1, <1>2, <1>4
  <2>9. CASE o.end \notin {"Full", "Done"}
    BY <2>2, <2>5, <2>6, <2>9, <1>1, <1>2, <1>4
  <2> QED BY <2>7, <2>8, <2>9
<1> QED BY <1>3, <1>4

(* A step of thread t moves nobody else.  After a plain one it has neither  *)
(* a task nor a new session in hand.                                        *)
Moved(t, r) ==
    /\ DOMAIN thread' = Threads
    /\ \A u \in Threads : DOMAIN thread'[u] = ThreadFields
    /\ thread'[t] = r
    /\ \A u \in Threads \ {t} : thread'[u] = thread[u]

InHand == {"load", "enqueue", "run", "complete", "insert"}

Plain(t) ==
    /\ Moved(t, thread'[t])
    /\ thread'[t].pc \notin InHand
    /\ thread'[t].id \in 0..newest

(* Move gives thread t its new locals and no other thread.                  *)
LEMMA MoveLemma ==
    ASSUME Framed, NEW t \in Threads, NEW r, DOMAIN r = ThreadFields, Move(t, r)
    PROVE  Moved(t, r)
BY DEF Framed, Move, Moved

(* The locals of a thread between two calls.                                *)
LEMMA RestingLemma ==
    /\ DOMAIN Resting = ThreadFields
    /\ Resting.pc = "idle" /\ Resting.id = 0 /\ Resting.call = "none"
BY DEF Resting, ThreadFields

(* Goto changes the control point alone.                                    *)
LEMMA GotoLemma ==
    ASSUME IInv, NEW t \in Threads, NEW pc, Goto(t, pc)
    PROVE  /\ Moved(t, thread'[t])
           /\ thread'[t].pc = pc /\ thread'[t].id = thread[t].id
           /\ thread'[t].key = thread[t].key
<1> DEFINE r == [thread[t] EXCEPT !.pc = pc]
<1>1. /\ DOMAIN r = ThreadFields /\ r.pc = pc
      /\ r.id = thread[t].id /\ r.key = thread[t].key
    BY DEF IInv, Framed, ThreadFields
<1>2. Move(t, r)
    BY DEF Goto
<1> HIDE DEF r
<1>3. Moved(t, r)
    BY <1>1, <1>2, MoveLemma DEF IInv
<1> QED BY <1>1, <1>3 DEF Moved

(* A thread that returns rests.                                             *)
LEMMA ReturnLemma ==
    ASSUME IInv, NEW t \in Threads, Return(t)
    PROVE  Moved(t, thread'[t]) /\ thread'[t].pc = "idle" /\ thread'[t].id = 0
<1>1. Moved(t, Resting)
    BY RestingLemma, MoveLemma DEF IInv, Return
<1> QED BY <1>1, RestingLemma DEF Moved

(* A call begins at its control point, about its session.                   *)
LEMMA CallingLemma ==
    ASSUME IInv, NEW t \in Threads, NEW call, NEW id, NEW pc,
           Calling(t, call, id, pc)
    PROVE  Moved(t, thread'[t]) /\ thread'[t].pc = pc /\ thread'[t].id = id
<1> DEFINE r == [Resting EXCEPT !.call = call, !.id = id, !.pc = pc]
<1>1. DOMAIN r = ThreadFields /\ r.pc = pc /\ r.id = id
    BY RestingLemma DEF ThreadFields
<1>2. Move(t, r)
    BY DEF Calling
<1> HIDE DEF r
<1>3. Moved(t, r)
    BY <1>1, <1>2, MoveLemma DEF IInv
<1> QED BY <1>1, <1>3 DEF Moved

(* What follows a save. *)
LEMMA ContinueLemma ==
    ASSUME IInv, NEW t \in Threads, Continue(t)
    PROVE  /\ Moved(t, thread'[t])
           /\ thread'[t].pc \in {"begin", "clone", "idle"}
           /\ thread'[t].id \in {0, thread[t].id}
<1> DEFINE pc == AfterSave(thread[t].call)
           r == [Resting EXCEPT !.pc = pc, !.call = thread[t].call,
                                !.id = thread[t].id, !.key = thread[t].key]
<1>1. pc \in {"begin", "clone", "idle"}
    BY DEF AfterSave
<1>2. CASE pc = "idle"
    BY <1>2, ReturnLemma DEF Continue
<1>3. CASE pc # "idle"
  <2>1. DOMAIN r = ThreadFields /\ r.pc = pc /\ r.id = thread[t].id
    BY RestingLemma DEF ThreadFields
  <2>2. Move(t, r)
    BY <1>3 DEF Continue
  <2> HIDE DEF r
  <2>3. Moved(t, r)
    BY <2>1, <2>2, MoveLemma DEF IInv
  <2> QED BY <1>1, <2>1, <2>3 DEF Moved
<1> QED BY <1>2, <1>3

(* While main loads, nobody else takes a step in a call or a new call.      *)
LEMMA NotLoading ==
    ASSUME IInv, NEW t \in Threads, ~At(t, "idle") \/ MayCall(t), ~At(t, "load")
    PROVE  \A u \in Threads : ~At(u, "load")
<1>1. CASE ~At(t, "idle")
    BY <1>1 DEF IInv, LoadInv, At
<1>2. CASE MayCall(t)
    BY <1>2 DEF IInv, LoadInv, MayCall, Loaded, At
<1> QED BY <1>1, <1>2

(* What a step of thread t inside a call, or a new call, does to the        *)
(* threads, when no task is in its hand afterwards.                         *)
Waits(t) ==
    \/ AcceptPost(t) \/ Peek(t) \/ AskClone(t) \/ Touch(t) \/ Hold(t)
    \/ ReadRef(t) \/ MakePlan(t) \/ DropOrphan(t) \/ LimitDone(t)
    \/ ReleaseVictim(t) \/ Finished(t)
    \/ \E i \in Ids : \/ \E call \in {"message", "results"} : CallPost(t, i, call)
                      \/ CallSnapshot(t, i) \/ CallResume(t, i)

Makes(t) == CallCreate(t) \/ Capture(t)

Shelves(t) ==
    \/ Insert(t) \/ Save(t) \/ DropSession(t)
    \/ \E i \in Ids : CallDestroy(t, i)

(* Every step of Next is in one of the groups, or named here.               *)
LEMMA NextCases ==
    ASSUME Next
    PROVE  \/ \E t \in Threads : \/ Waits(t) \/ Makes(t) \/ Shelves(t)
                                \/ Begin(t) \/ Enqueue(t) \/ CancelVictim(t)
           \/ \E t \in Callers : \/ CallGc(t)
                                \/ \E k \in DOMAIN jobs : CallCancel(t, k)
           \/ SessionOps \/ \E k \in DOMAIN jobs : StartJob(k)
           \/ \E o \in Answers \cup {Ended("Full"), Failed}, park \in BOOLEAN :
                  EndJob(o, park)
           \/ Load \/ Crash \/ Tick \/ \E i \in Ids : Expire(i)
BY DEF Next, Request, Step, WorkerStep, Waits, Makes, Shelves, Threads

(* A thread that takes such a step is in a call, or may begin one.          *)
LEMMA BusyLemma ==
    ASSUME IInv, NEW t \in Threads,
           Waits(t) \/ Makes(t) \/ Shelves(t) \/ Begin(t) \/ Enqueue(t)
               \/ CancelVictim(t) \/ CallGc(t) \/ \E k \in DOMAIN jobs : CallCancel(t, k)
    PROVE  /\ \A u \in Threads : ~At(u, "load")
           /\ ~At(t, "run")
           /\ At(t, "enqueue") => Enqueue(t)
<1>1. ~At(t, "idle") \/ MayCall(t)
    BY DEF Waits, Makes, Shelves, Begin, Enqueue, CancelVictim, CallGc, CallCancel,
           AcceptPost, Peek, AskClone, Touch, Hold, ReadRef, MakePlan, DropOrphan,
           LimitDone, ReleaseVictim, Finished, CallPost, CallSnapshot, CallResume,
           CallCreate, Capture, Insert, Save, DropSession, CallDestroy, At
<1>2. ~At(t, "load") /\ ~At(t, "run") /\ (At(t, "enqueue") => Enqueue(t))
    BY DEF Waits, Makes, Shelves, Begin, Enqueue, CancelVictim, CallGc, CallCancel,
           AcceptPost, Peek, AskClone, Touch, Hold, ReadRef, MakePlan, DropOrphan,
           LimitDone, ReleaseVictim, Finished, CallPost, CallSnapshot, CallResume,
           CallCreate, Capture, Insert, Save, DropSession, CallDestroy, MayCall, At
<1> QED BY <1>1, <1>2, NotLoading

(* A session lets go of its task only when it is over.                      *)
TasksKept ==
    /\ DOMAIN sess' = Ids
    /\ \A i \in Ids :
         /\ DOMAIN sess'[i] = SessionFields
         /\ \/ sess'[i].job = sess[i].job
            \/ sess[i].job \in DOMAIN jobs' => jobs'[sess[i].job].phase = "ended"

(* A session that hears of the end of its task lets go of it.               *)
LEMMA HearLemma ==
    ASSUME IInv, NEW i, NEW k, NEW o, HearOf(i, k, o),
           k \in DOMAIN jobs' => jobs'[k].phase = "ended"
    PROVE  TasksKept
<1>1. sess' = [sess EXCEPT ![i] = CompleteJob(@, k, o)]
    BY DEF HearOf
<1>2. CASE i \in Ids
  <2>1. /\ DOMAIN CompleteJob(sess[i], k, o) = SessionFields
        /\ CompleteJob(sess[i], k, o).job = IF sess[i].job = k THEN 0 ELSE sess[i].job
    <3>1. DOMAIN sess[i] = SessionFields
      BY <1>2 DEF IInv, Framed
    <3> QED BY <3>1, SessionOpLemma
  <2> QED BY <1>1, <1>2, <2>1 DEF TasksKept, IInv, Framed
<1>3. CASE i \notin Ids
    BY <1>1, <1>3 DEF TasksKept, IInv, Framed
<1> QED BY <1>2, <1>3

(* A step is plain by the new control point and session.                    *)
LEMMA PlainCases ==
    ASSUME NEW t \in Threads, Moved(t, thread'[t]), thread'[t].pc \notin InHand,
           thread'[t].id \in 0..newest
    PROVE  Plain(t)
BY DEF Plain

(* Most steps are plain and leave table, records and tasks.                 *)
LEMMA WaitsThread ==
    ASSUME IInv, NEW t \in Threads, Waits(t)
    PROVE  Plain(t) /\ UNCHANGED <<table, disk, jobs, newest>>
<1> USE DEF InHand
<1>1. UNCHANGED <<table, disk, jobs, newest>>
    BY DEF Waits, AcceptPost, Peek, AskClone, Touch, Hold, ReadRef, MakePlan,
           DropOrphan, LimitDone, ReleaseVictim, Finished, CallPost, CallSnapshot,
           CallResume, store, pending, bounds, history
<1>2. /\ thread[t].id \in 0..newest /\ 0 \in 0..newest
      /\ \A i \in table : i \in 0..newest
    BY <1>1 DEF IInv, Known, Ids
<1>3. ASSUME Goto(t, "save") \/ Goto(t, "capture") \/ Goto(t, "drop") \/ Return(t)
             \/ Continue(t)
      PROVE  Plain(t)
    BY <1>2, <1>3, GotoLemma, ReturnLemma, ContinueLemma, PlainCases
<1>4. CASE AcceptPost(t) \/ Peek(t) \/ AskClone(t) \/ Touch(t) \/ LimitDone(t)
    BY <1>1, <1>3, <1>4 DEF AcceptPost, Peek, AskClone, Touch, LimitDone
<1>5. ASSUME NEW r, DOMAIN r = ThreadFields, r.pc \notin InHand, r.id \in 0..newest,
             Move(t, r)
      PROVE  Plain(t)
  <2>1. Moved(t, r)
    BY <1>5, MoveLemma DEF IInv
  <2> QED BY <1>5, <2>1 DEF Plain, Moved
<1>6. ASSUME NEW r, DOMAIN r = ThreadFields, r.pc = thread[t].pc,
             thread[t].pc \notin InHand, r.id = thread[t].id, Move(t, r)
      PROVE  Plain(t)
    BY <1>2, <1>5, <1>6
<1>7. DOMAIN thread[t] = ThreadFields
    BY DEF IInv, Framed
<1>8. CASE Hold(t)
  <2> DEFINE r == [thread[t] EXCEPT !.pc = "read", !.held = table]
  <2>1. DOMAIN r = ThreadFields /\ r.pc = "read" /\ r.id = thread[t].id
    BY <1>7 DEF ThreadFields
  <2>2. Move(t, r)
    BY <1>8 DEF Hold
  <2> HIDE DEF r
  <2> QED BY <1>1, <1>2, <1>5, <2>1, <2>2
<1>9. CASE ReadRef(t)
  <2>1. PICK i, b : Move(t, [thread[t] EXCEPT
                       !.held = @ \ {i},
                       !.refs = @ \cup {Ref(i, sess[i].updated, b)}])
    BY <1>9 DEF ReadRef
  <2> DEFINE r == [thread[t] EXCEPT !.held = @ \ {i},
                       !.refs = @ \cup {Ref(i, sess[i].updated, b)}]
  <2>2. DOMAIN r = ThreadFields /\ r.pc = thread[t].pc /\ r.id = thread[t].id
    BY <1>7 DEF ThreadFields
  <2>3. thread[t].pc \notin InHand
    BY <1>9 DEF ReadRef, At
  <2>4. Move(t, r)
    BY <2>1
  <2> HIDE DEF r
  <2> QED BY <1>1, <1>6, <2>2, <2>3, <2>4
<1>10. CASE MakePlan(t)
  <2> DEFINE plan == PlanSessionCache(DiskRows, thread[t].refs, CacheLimit)
             r == [thread[t] EXCEPT !.pc = "drop", !.refs = {}, !.plan = plan]
  <2>1. Move(t, r)
    BY <1>10 DEF MakePlan
  <2> HIDE DEF plan
  <2>2. DOMAIN r = ThreadFields /\ r.pc = "drop" /\ r.id = thread[t].id
    BY <1>7 DEF ThreadFields
  <2> HIDE DEF r
  <2> QED BY <1>1, <1>2, <1>5, <2>1, <2>2
<1>11. CASE DropOrphan(t)
  <2>0. PICK c : Move(t, [thread[t] EXCEPT !.pc = "release", !.victim = c.id,
                                           !.plan.orphans = @ \ {c}])
    BY <1>11 DEF DropOrphan
  <2> DEFINE r == [thread[t] EXCEPT !.pc = "release", !.victim = c.id,
                                    !.plan.orphans = @ \ {c}]
  <2>1. Move(t, r)
    BY <2>0
  <2>2. DOMAIN r = ThreadFields /\ r.pc = "release" /\ r.id = thread[t].id
    BY <1>7 DEF ThreadFields
  <2> HIDE DEF r
  <2> QED BY <1>1, <1>2, <1>5, <2>1, <2>2
<1>12. CASE ReleaseVictim(t)
  <2>1. CASE thread[t].call = "destroy"
    BY <1>1, <1>3, <1>12, <2>1 DEF ReleaseVictim
  <2>2. CASE thread[t].call # "destroy"
    <3> DEFINE r == [thread[t] EXCEPT !.pc = "drop", !.victim = 0]
    <3>1. Move(t, r)
      BY <1>12, <2>2 DEF ReleaseVictim
    <3>2. DOMAIN r = ThreadFields /\ r.pc = "drop" /\ r.id = thread[t].id
      BY <1>7 DEF ThreadFields
    <3> HIDE DEF r
    <3> QED BY <1>1, <1>2, <1>5, <3>1, <3>2
  <2> QED BY <2>1, <2>2
<1>13. CASE Finished(t)
  <2> DEFINE l == thread[t]
             r == [Resting EXCEPT !.pc = "save", !.call = l.call, !.id = l.id]
  <2>1. Move(t, r)
    BY <1>13 DEF Finished
  <2>2. DOMAIN r = ThreadFields /\ r.pc = "save" /\ r.id = l.id
    BY RestingLemma DEF ThreadFields
  <2> HIDE DEF r
  <2> QED BY <1>1, <1>2, <1>5, <2>1, <2>2
<1>14. ASSUME NEW i \in table, NEW call, NEW pc, pc \notin InHand,
             Calling(t, call, i, pc)
       PROVE  Plain(t)
    BY <1>2, <1>14, CallingLemma, PlainCases
<1>15. CASE \E i \in Ids : \/ \E call \in {"message", "results"} : CallPost(t, i, call)
                           \/ CallSnapshot(t, i) \/ CallResume(t, i)
  <2>1. PICK i \in Ids : \/ \E call \in {"message", "results"} : CallPost(t, i, call)
                         \/ CallSnapshot(t, i) \/ CallResume(t, i)
    BY <1>15
  <2>2. i \in table /\ \/ \E call : Calling(t, call, i, "accept")
                       \/ Calling(t, "snapshot", i, "peek")
                       \/ Calling(t, "resume", i, "touch")
    BY <2>1 DEF CallPost, CallSnapshot, CallResume
  <2> QED BY <1>1, <1>14, <2>2
<1> QED BY <1>4, <1>8, <1>9, <1>10, <1>11, <1>12, <1>13, <1>15 DEF Waits

(* They take no task from a session unless it is over.                      *)
LEMMA WaitsTasks ==
    ASSUME IInv, NEW t \in Threads, Waits(t)
    PROVE  TasksKept
<1>1. CASE UNCHANGED sess
    BY <1>1 DEF TasksKept, IInv, Framed
<1>2. jobs' = jobs
    BY WaitsThread
<1>3. CASE AcceptPost(t) \/ Touch(t)
  <2>1. PICK i, s : /\ sess' = [sess EXCEPT ![i] = s]
                    /\ \/ \E call, m : s = Accept(sess[i], call, m)
                       \/ s = MarkUpdated(sess[i])
                    \/ sess' = sess
    BY <1>3 DEF AcceptPost, Touch
  <2>2. CASE i \in Ids /\ sess' # sess
    <3>1. DOMAIN sess[i] = SessionFields
      BY <2>2 DEF IInv, Framed
    <3>2. DOMAIN s = SessionFields /\ s.job = sess[i].job
      BY <2>1, <2>2, <3>1, SessionOpLemma
    <3> QED BY <2>1, <2>2, <3>2 DEF TasksKept, IInv, Framed
  <2>3. CASE i \notin Ids \/ sess' = sess
    BY <2>1, <2>3 DEF TasksKept, IInv, Framed
  <2> QED BY <2>2, <2>3
<1>4. CASE Finished(t)
    BY <1>2, <1>4, HearLemma DEF Finished, IInv, TaskInv
<1>5. CASE ~(AcceptPost(t) \/ Touch(t) \/ Finished(t))
  <2>1. UNCHANGED sess
    BY <1>5 DEF Waits, Peek, AskClone, Hold, ReadRef, MakePlan, DropOrphan,
           LimitDone, ReleaseVictim, CallPost, CallSnapshot, CallResume
  <2> QED BY <1>1, <2>1
<1> QED BY <1>3, <1>4, <1>5

(* A plain step that leaves the tasks alone keeps who holds them.           *)
LEMMA PlainTasks ==
    ASSUME IInv, NEW t \in Threads, Plain(t), jobs' = jobs
    PROVE  TaskInv'
<1>1. ~At(t, "enqueue")' /\ ~At(t, "run")' /\ ~At(t, "complete")'
    BY DEF Plain, InHand, At
<1>2. \A u \in Threads \ {t} : thread'[u] = thread[u]
    BY DEF Plain, Moved
<1> QED BY <1>1, <1>2 DEF IInv, TaskInv, At

(* Sessions that keep to their tasks have one each.                         *)
LEMMA KeptTasks ==
    ASSUME IInv, TasksKept, jobs' = jobs
    PROVE  OneTask'
BY DEF IInv, OneTask, TasksKept

(* A sequence over a set is one over any larger set.                        *)
LEMMA SeqLemma ==
    ASSUME NEW S, NEW T, S \subseteq T, NEW s \in Seq(S)
    PROVE  s \in Seq(T) /\ \A k \in DOMAIN s : s[k] \in S
<1>1. \A k \in 1..Len(s) : s[k] \in S
    BY ElementOfSeq
<1>2. s = [k \in 1..Len(s) |-> s[k]] /\ Len(s) \in Nat /\ DOMAIN s = 1..Len(s)
    OBVIOUS
<1> QED BY <1>1, <1>2

(* A step while nobody loads: what is left to show.                         *)
Steady(t) ==
    /\ Moved(t, thread'[t])
    /\ thread'[t].pc \notin {"load", "insert"}
    /\ thread'[t].id \in 0..newest

(* Shape, ids, loading and files after such a step.                         *)
LEMMA SteadyLemma ==
    ASSUME IInv, NEW t \in Threads, Steady(t), newest' = newest,
           \A u \in Threads : ~At(u, "load"),
           table' \subseteq table \cup {thread[t].id}, table' \subseteq Ids,
           \A i \in Ids : HasFile(i)' => i \in table',
           DOMAIN disk' = Ids,
           DOMAIN sess' = Ids, \A i \in Ids : DOMAIN sess'[i] = SessionFields,
           jobs' \in Seq([session : 0..newest, cancel : BOOLEAN,
                         phase : {"made", "queued", "running", "ended"}])
    PROVE  Framed' /\ Known' /\ LoadInv' /\ RemovedStaysRemoved'
<1>1. \A u \in Threads : ~At(u, "load")'
    BY DEF Steady, Moved, At
<1>2. newest \in Nat /\ newest <= MaxId
    BY SessionsAssumption DEF IInv, Known
<1>3. 0..newest \subseteq Nat
    BY <1>2
<1> DEFINE Phases == {"made", "queued", "running", "ended"}
           KnownTask == [session : 0..newest, cancel : BOOLEAN, phase : Phases]
           Task == [session : Nat, cancel : BOOLEAN, phase : Phases]
<1>4. jobs' \in Seq(Task) /\ \A k \in DOMAIN jobs' : jobs'[k] \in KnownTask
  <2>1. KnownTask \subseteq Task /\ jobs' \in Seq(KnownTask)
    BY <1>3
  <2> HIDE DEF KnownTask, Task
  <2> QED BY <2>1, SeqLemma
<1>5. Framed'
    BY <1>4 DEF Framed, Steady, Moved
<1>6. \A k \in DOMAIN jobs' : jobs'[k].session <= newest'
    BY <1>2, <1>4
<1>7. \A u \in Threads : /\ thread'[u].id \in 0..newest'
                         /\ At(u, "insert")' => thread'[u].id # 0
    BY DEF Steady, Moved, At, IInv, Known
<1>8. \A i \in table' \cup Saved' : i <= newest'
  <2>1. Saved' \subseteq table'
    BY DEF Saved
  <2>2. \A i \in table' : i <= newest'
    BY DEF IInv, Known
  <2> QED BY <2>1, <2>2
<1>9. Known'
    BY <1>6, <1>7, <1>8 DEF Known, IInv
<1>10. LoadInv'
    BY <1>1 DEF LoadInv, Threads
<1>11. RemovedStaysRemoved'
    BY DEF RemovedStaysRemoved
<1> QED BY <1>5, <1>9, <1>10, <1>11

(* The tasks as they are.                                                   *)
LEMMA JobsLemma ==
    ASSUME IInv
    PROVE  /\ jobs \in Seq([session : 0..newest, cancel : BOOLEAN,
                            phase : {"made", "queued", "running", "ended"}])
           /\ DOMAIN jobs = 1..Len(jobs) /\ Len(jobs) \in Nat
           /\ \A k \in DOMAIN jobs : jobs[k].session \in 0..newest
<1> DEFINE Phases == {"made", "queued", "running", "ended"}
           Task == [session : Nat, cancel : BOOLEAN, phase : Phases]
           KnownTask == [session : 0..newest, cancel : BOOLEAN, phase : Phases]
<1>1. jobs \in Seq(Task)
    BY DEF IInv, Framed
<1> HIDE DEF Task
<1>2. /\ \A k \in DOMAIN jobs : jobs[k] \in Task
      /\ DOMAIN jobs = 1..Len(jobs) /\ Len(jobs) \in Nat
      /\ jobs = [k \in 1..Len(jobs) |-> jobs[k]]
    BY <1>1, SeqLemma
<1>3. \A k \in DOMAIN jobs : jobs[k] \in KnownTask
    BY <1>2 DEF IInv, Known, Task
<1>4. \A k \in DOMAIN jobs : jobs[k].session \in 0..newest
    BY <1>3
<1> HIDE DEF KnownTask
<1>5. jobs \in Seq(KnownTask)
    BY <1>2, <1>3
<1> QED BY <1>2, <1>4, <1>5 DEF KnownTask

(* The plain steps keep the invariant.                                      *)
LEMMA WaitsInv ==
    ASSUME IInv, NEW t \in Threads, Waits(t)
    PROVE  IInv'
<1>1. Plain(t) /\ UNCHANGED <<table, disk, jobs, newest>>
    BY WaitsThread
<1>2. \A u \in Threads : ~At(u, "load")
    BY BusyLemma
<1>3. TasksKept
    BY WaitsTasks
<1>4. \A i \in Ids : HasFile(i)' => i \in table'
    BY <1>1, <1>2 DEF IInv, TableInv, RemovedStaysRemoved, HasFile, Threads
<1>5. Framed' /\ Known' /\ LoadInv' /\ RemovedStaysRemoved'
    BY <1>1, <1>2, <1>3, <1>4, JobsLemma, SteadyLemma DEF Plain, Steady, InHand, TasksKept, IInv, Framed, Known
<1>6. TaskInv' /\ OneTask'
    BY <1>1, <1>3, PlainTasks, KeptTasks
<1>7. TableInv'
    BY <1>1, <1>5 DEF TableInv, IInv
<1> QED BY <1>5, <1>6, <1>7 DEF IInv

(* A new session is made, which nobody knows yet.                           *)
LEMMA MakesInv ==
    ASSUME IInv, NEW t \in Threads, Makes(t)
    PROVE  IInv'
<1>1. PICK parent, msgs : NewObject(t, parent, msgs)
    BY DEF Makes, CallCreate, Capture
<1>2. UNCHANGED <<table, disk, jobs>>
    BY DEF Makes, CallCreate, Capture, store, pending
<1>3. \A u \in Threads : ~At(u, "load")
    BY BusyLemma
<1>4. /\ newest \in Nat /\ newest' = newest + 1 /\ newest' <= MaxId /\ newest' # 0
      /\ newest' \in Ids
    BY <1>1, SessionsAssumption DEF NewObject, IInv, Known, Ids
<1>5. Moved(t, thread'[t]) /\ thread'[t].pc = "insert" /\ thread'[t].id = newest'
  <2> DEFINE r == [Resting EXCEPT !.pc = "insert", !.id = newest + 1, !.key = parent,
                       !.call = IF parent = 0 THEN "create" ELSE "snapshot"]
  <2>1. Move(t, r)
    BY <1>1 DEF NewObject
  <2>2. DOMAIN r = ThreadFields /\ r.pc = "insert" /\ r.id = newest + 1
    BY RestingLemma DEF ThreadFields
  <2> HIDE DEF r
  <2>3. Moved(t, r)
    BY <2>1, <2>2, MoveLemma DEF IInv
  <2> QED BY <1>4, <2>2, <2>3 DEF Moved
<1>6. /\ DOMAIN sess' = Ids
      /\ \A i \in Ids : DOMAIN sess'[i] = SessionFields
      /\ \A i \in Ids \ {newest'} : sess'[i] = sess[i]
  <2>1. sess' = [sess EXCEPT ![newest'] = NewSession(msgs)]
    BY <1>1, <1>4 DEF NewObject
  <2>2. DOMAIN NewSession(msgs) = SessionFields
    BY DEF NewSession, SessionFields
  <2> QED BY <2>1, <2>2 DEF IInv, Framed
<1>7. Framed'
    BY <1>2, <1>5, <1>6 DEF IInv, Framed, Moved
<1>8. Known'
  <2>1. \A u \in Threads : /\ thread'[u].id \in 0..newest'
                           /\ At(u, "insert")' => thread'[u].id # 0
    BY <1>4, <1>5 DEF Moved, At, IInv, Known
  <2>2. \A k \in DOMAIN jobs : jobs[k].session <= newest + 1
    <3>1. \A k \in DOMAIN jobs : jobs[k].session \in 0..newest
      BY JobsLemma
    <3> QED BY <1>4, <3>1 DEF IInv, Known
  <2>3. Saved' = Saved /\ table' = table
    BY <1>2 DEF Saved, HasFile
  <2>4. \A i \in table \cup Saved : i <= newest + 1
    BY <1>4 DEF IInv, Known, Saved, Ids
  <2> QED BY <1>2, <1>4, <2>1, <2>2, <2>3, <2>4 DEF IInv, Known
<1>9. LoadInv'
    BY <1>3, <1>5 DEF LoadInv, Moved, At, Threads
<1>10. TableInv'
    BY <1>2, <1>3 DEF IInv, TableInv, RemovedStaysRemoved, HasFile, At, Threads
<1>11. TaskInv'
  <2>1. ~At(t, "enqueue")' /\ ~At(t, "run")' /\ ~At(t, "complete")'
    BY <1>5 DEF At
  <2>2. \A u \in Threads \ {t} : thread'[u] = thread[u]
    BY <1>5 DEF Moved
  <2> QED BY <1>2, <2>1, <2>2 DEF IInv, TaskInv, At
<1>12. OneTask'
  <2>1. \A k \in DOMAIN jobs : jobs[k].session # newest'
    <3>1. \A k \in DOMAIN jobs : jobs[k].session \in 0..newest
      BY JobsLemma
    <3> QED BY <1>4, <3>1 DEF IInv, Known
  <2> QED BY <1>2, <1>6, <2>1 DEF IInv, OneTask
<1> QED BY <1>7, <1>8, <1>9, <1>10, <1>11, <1>12 DEF IInv

(* The table is finite, and has no more sessions when some leave.           *)
LEMMA TableLemma ==
    ASSUME IInv, NEW S, S \subseteq table
    PROVE  /\ IsFiniteSet(S) /\ Cardinality(S) \in Nat
           /\ Cardinality(S) <= MaxSessions
<1>1. IsFiniteSet(table)
  <2>1. MaxId \in Int /\ 1 \in Int
    BY SessionsAssumption
  <2>2. IsFiniteSet(1..MaxId)
    BY <2>1, FS_Interval
  <2> QED BY <2>2, FS_Subset DEF IInv, Known, Ids
<1>2. IsFiniteSet(S) /\ Cardinality(S) <= Cardinality(table)
    BY <1>1, FS_Subset
<1>3. Cardinality(S) \in Nat /\ Cardinality(table) \in Nat
    BY <1>1, <1>2, FS_CardinalityType
<1>4. MaxSessions \in Nat /\ Cardinality(table) <= MaxSessions
    BY SessionsAssumption DEF IInv, TableInv
<1> QED BY <1>2, <1>3, <1>4

(* What a step on the table and the files leaves.                           *)
ShelvesKept(t) ==
    /\ table' \subseteq table \cup {thread[t].id} /\ table' \subseteq Ids
    /\ Cardinality(table') <= MaxSessions
    /\ \A i \in Ids : HasFile(i)' => i \in table'
    /\ DOMAIN disk' = Ids

(* The steps on the table and the files keep the invariant.                 *)
LEMMA ShelvesInv ==
    ASSUME IInv, NEW t \in Threads, Shelves(t)
    PROVE  IInv'
<1>1. UNCHANGED <<sess, jobs, newest>>
    BY DEF Shelves, Insert, Save, DropSession, CallDestroy, bounds, pending, history
<1>2. \A u \in Threads : ~At(u, "load")
    BY BusyLemma
<1>3. \A i \in Ids : HasFile(i) => i \in table
    BY <1>2 DEF IInv, TableInv, RemovedStaysRemoved, Threads
<1>4. /\ thread[t].id \in 0..newest /\ 0 \in 0..newest
      /\ table \subseteq Ids /\ DOMAIN disk = Ids /\ DOMAIN thread[t] = ThreadFields
    BY DEF IInv, Known, Framed
<1>5. ASSUME NEW S, table' = table \ S, disk' = WithoutFiles(S)
      PROVE  ShelvesKept(t)
  <2>1. \A i \in Ids : HasFile(i)' => i \in table'
    BY <1>3, <1>5 DEF HasFile, WithoutFiles, NoFile
  <2> QED BY <1>4, <1>5, <2>1, TableLemma DEF ShelvesKept, WithoutFiles
<1>6. ASSUME Goto(t, "save") \/ Goto(t, "hold") \/ Return(t) \/ Continue(t)
      PROVE  Plain(t)
    BY <1>4, <1>6, GotoLemma, ReturnLemma, ContinueLemma, PlainCases DEF InHand
<1>7. ASSUME Insert(t) PROVE Plain(t) /\ ShelvesKept(t)
  <2> DEFINE kept == table \ Collected
             full == Cardinality(kept) >= MaxSessions
             id == thread[t].id
  <2>1. id \in Ids
    BY <1>4, <1>7, SessionsAssumption DEF Insert, IInv, Known, At, Ids
  <2>2. \A i \in Ids : HasFile(i)' => i \in kept
    BY <1>3, <1>7 DEF Insert, HasFile, WithoutFiles, NoFile
  <2>3. table' = IF full THEN kept ELSE kept \cup {id}
    BY <1>7 DEF Insert
  <2>4. Cardinality(table') <= MaxSessions
    <3>1. /\ IsFiniteSet(kept) /\ Cardinality(kept) \in Nat
          /\ Cardinality(kept) <= MaxSessions
      BY TableLemma
    <3>2. MaxSessions \in Nat
      BY SessionsAssumption
    <3>3. \/ Cardinality(kept \cup {id}) = Cardinality(kept)
          \/ Cardinality(kept \cup {id}) = Cardinality(kept) + 1
      BY <3>1, FS_AddElement
    <3> QED BY <2>3, <3>1, <3>2, <3>3
  <2>5. ShelvesKept(t)
    BY <1>4, <1>7, <2>1, <2>2, <2>3, <2>4 DEF ShelvesKept, Insert, WithoutFiles
  <2>6. Plain(t)
    BY <1>6, <1>7 DEF Insert
  <2> QED BY <2>5, <2>6
<1>8. ASSUME Save(t) PROVE Plain(t) /\ ShelvesKept(t)
  <2>1. table' = table /\ SaveRecord(t)
    BY <1>8 DEF Save
  <2>2. Plain(t)
    BY <1>6, <2>1 DEF SaveRecord
  <2>3. \/ disk' = disk
        \/ /\ thread[t].id \in table
           /\ disk' = [disk EXCEPT ![thread[t].id] = RecordFile(thread[t].id)]
    BY <2>1 DEF SaveRecord
  <2>4. \A i \in Ids : HasFile(i)' => i \in table'
    BY <1>3, <1>4, <2>1, <2>3 DEF HasFile
  <2>5. ShelvesKept(t)
    BY <1>4, <2>1, <2>3, <2>4, TableLemma DEF ShelvesKept
  <2> QED BY <2>2, <2>5
<1>9. ASSUME DropSession(t) PROVE Plain(t) /\ ShelvesKept(t)
  <2>0. PICK c : /\ table' = table \ {c.id} /\ disk' = WithoutFiles({c.id})
                 /\ Move(t, [thread[t] EXCEPT
                               !.pc = IF c.id \in table THEN "cancelVictim"
                                      ELSE "release",
                               !.victim = c.id, !.plan.sessions = @ \ {c}])
    BY <1>9 DEF DropSession
  <2> DEFINE r == [thread[t] EXCEPT !.pc = IF c.id \in table THEN "cancelVictim"
                                          ELSE "release",
                                   !.victim = c.id, !.plan.sessions = @ \ {c}]
  <2>1. Move(t, r)
    BY <2>0
  <2>2. /\ DOMAIN r = ThreadFields /\ r.pc \in {"cancelVictim", "release"}
        /\ r.id = thread[t].id
    BY <1>4 DEF ThreadFields
  <2> HIDE DEF r
  <2>3. Moved(t, r)
    BY <2>1, <2>2, MoveLemma DEF IInv
  <2>4. Plain(t)
    BY <1>4, <2>2, <2>3 DEF Plain, Moved, InHand
  <2>5. ShelvesKept(t)
    BY <1>5, <2>0
  <2> QED BY <2>4, <2>5
<1>10. ASSUME \E i \in Ids : CallDestroy(t, i) PROVE Plain(t) /\ ShelvesKept(t)
  <2>1. PICK i \in table : CallDestroy(t, i)
    BY <1>10 DEF CallDestroy
  <2> DEFINE r == [Resting EXCEPT !.pc = "cancelVictim", !.call = "destroy",
                                 !.id = i, !.victim = i]
  <2>2. Move(t, r)
    BY <2>1 DEF CallDestroy
  <2>3. DOMAIN r = ThreadFields /\ r.pc = "cancelVictim" /\ r.id = i
    BY RestingLemma DEF ThreadFields
  <2> HIDE DEF r
  <2>4. Moved(t, r)
    BY <2>2, <2>3, MoveLemma DEF IInv
  <2>5. i \in 0..newest
    BY DEF IInv, Known, Ids
  <2>6. Plain(t)
    BY <2>3, <2>4, <2>5 DEF Plain, Moved, InHand
  <2>7. ShelvesKept(t)
    BY <1>5, <2>1 DEF CallDestroy
  <2> QED BY <2>6, <2>7
<1>11. Plain(t) /\ ShelvesKept(t)
    BY <1>7, <1>8, <1>9, <1>10 DEF Shelves
<1>12. Framed' /\ Known' /\ LoadInv' /\ RemovedStaysRemoved'
    BY <1>1, <1>2, <1>11, JobsLemma, SteadyLemma DEF Plain, Steady, InHand, ShelvesKept, IInv, Framed
<1>13. TaskInv'
    BY <1>1, <1>11, PlainTasks
<1>14. OneTask'
    BY <1>1 DEF IInv, OneTask
<1>15. TableInv'
    BY <1>11, <1>12 DEF TableInv, ShelvesKept
<1> QED BY <1>12, <1>13, <1>14, <1>15 DEF IInv

(* A task is replaced, or added.                                            *)
KnownTasks == [session : 0..newest, cancel : BOOLEAN,
               phase : {"made", "queued", "running", "ended"}]

(* Replacing one task leaves a sequence of tasks.                           *)
LEMMA SetTask ==
    ASSUME IInv, NEW k \in DOMAIN jobs, NEW r \in KnownTasks
    PROVE  /\ [jobs EXCEPT ![k] = r] \in Seq(KnownTasks)
           /\ DOMAIN [jobs EXCEPT ![k] = r] = DOMAIN jobs
<1>1. jobs \in Seq(KnownTasks)
    BY JobsLemma DEF KnownTasks
<1> QED BY <1>1

(* What the steps make of a task is a task.                                 *)
LEMMA TaskTypes ==
    ASSUME IInv, NEW k \in DOMAIN jobs
    PROVE  /\ jobs[k] \in KnownTasks
           /\ EndedTask \in KnownTasks
           /\ \A phase \in {"made", "queued", "running", "ended"} :
                [jobs[k] EXCEPT !.phase = phase] \in KnownTasks
           /\ [jobs[k] EXCEPT !.cancel = TRUE] \in KnownTasks
<1>1. jobs \in Seq(KnownTasks)
    BY JobsLemma DEF KnownTasks
<1>2. jobs[k] \in KnownTasks
    BY <1>1, SeqLemma
<1>3. 0 \in 0..newest
    BY DEF IInv, Known
<1> QED BY <1>2, <1>3 DEF KnownTasks, EndedTask

(* The table and the files are as they were.                                *)
LEMMA ShelvedLemma ==
    ASSUME IInv, \A u \in Threads : ~At(u, "load"), UNCHANGED <<table, disk>>
    PROVE  /\ \A i \in Ids : HasFile(i)' => i \in table'
           /\ DOMAIN disk' = Ids /\ table' \subseteq Ids
           /\ RemovedStaysRemoved' => TableInv'
BY DEF IInv, TableInv, RemovedStaysRemoved, HasFile, Framed, Known, Threads

(* begin_generation *)
LEMMA BeginInv ==
    ASSUME IInv, NEW t \in Threads, Begin(t)
    PROVE  IInv'
<1> DEFINE id == thread[t].id
           k == Len(jobs) + 1
           task == [session |-> id, phase |-> "made", cancel |-> FALSE]
<1>1. \A u \in Threads : ~At(u, "load")
    BY BusyLemma
<1>2. UNCHANGED <<table, disk, newest>>
    BY DEF Begin, store, bounds
<1>3. id \in 0..newest /\ 0 \in 0..newest /\ newest \in 0..MaxId
    BY DEF IInv, Known
<1>4. CASE Active(sess[id])
  <2>1. Return(t) /\ UNCHANGED <<jobs, sess>>
    BY <1>4 DEF Begin, Claim
  <2>2. Plain(t)
    BY <1>3, <2>1, ReturnLemma, PlainCases DEF InHand
  <2>3. Framed' /\ Known' /\ LoadInv' /\ RemovedStaysRemoved'
    BY <1>1, <1>2, <2>1, <2>2, JobsLemma, ShelvedLemma, SteadyLemma
       DEF Plain, Steady, InHand, IInv, Framed
  <2>4. TaskInv' /\ OneTask'
    BY <2>1, <2>2, PlainTasks DEF IInv, OneTask
  <2> QED BY <1>1, <1>2, <2>3, <2>4, ShelvedLemma DEF IInv
<1>5. CASE ~Active(sess[id])
  <2>1. /\ jobs' = Append(jobs, task)
        /\ sess' = [sess EXCEPT ![id] = BeginGeneration(sess[id], k)]
        /\ Move(t, [thread[t] EXCEPT !.pc = "enqueue", !.key = k])
    BY <1>5 DEF Begin, Claim
  <2>2. /\ Moved(t, thread'[t]) /\ thread'[t].pc = "enqueue"
        /\ thread'[t].key = k /\ thread'[t].id = id
    <3> DEFINE r == [thread[t] EXCEPT !.pc = "enqueue", !.key = k]
    <3>1. DOMAIN r = ThreadFields /\ r.pc = "enqueue" /\ r.key = k /\ r.id = id
      BY DEF IInv, Framed, ThreadFields
    <3>2. Move(t, r)
      BY <2>1
    <3> HIDE DEF r
    <3>3. Moved(t, r)
      BY <3>1, <3>2, MoveLemma DEF IInv
    <3> QED BY <3>1, <3>3 DEF Moved
  <2>3. jobs \in Seq(KnownTasks) /\ task \in KnownTasks
    BY <1>3, JobsLemma DEF KnownTasks
  <2>4. /\ jobs' \in Seq(KnownTasks)
        /\ DOMAIN jobs' = 1..k /\ DOMAIN jobs = 1..Len(jobs) /\ Len(jobs) \in Nat
        /\ jobs'[k] = task /\ \A j \in DOMAIN jobs : jobs'[j] = jobs[j]
    <3> HIDE DEF task
    <3> QED BY <2>1, <2>3, AppendProperties
  <2>5. /\ DOMAIN sess' = Ids
        /\ \A i \in Ids : DOMAIN sess'[i] = SessionFields
        /\ id \in Ids => sess'[id].job = k
        /\ \A i \in Ids \ {id} : sess'[i] = sess[i]
    <3>1. CASE id \in Ids
      <4>1. DOMAIN sess[id] = SessionFields
        BY <3>1 DEF IInv, Framed
      <4>2. /\ DOMAIN BeginGeneration(sess[id], k) = SessionFields
            /\ BeginGeneration(sess[id], k).job = k
        BY <4>1, SessionOpLemma
      <4> QED BY <2>1, <3>1, <4>2 DEF IInv, Framed
    <3>2. CASE id \notin Ids
      BY <2>1, <3>2 DEF IInv, Framed
    <3> QED BY <3>1, <3>2
  <2>6. Framed' /\ Known' /\ LoadInv' /\ RemovedStaysRemoved'
    BY <1>1, <1>2, <1>3, <2>2, <2>4, <2>5, ShelvedLemma, SteadyLemma
       DEF Steady, KnownTasks
  <2>7. TaskInv'
    <3>1. \A u \in Threads \ {t} : thread'[u] = thread[u]
      BY <2>2 DEF Moved
    <3>2. \A u \in Threads :
            /\ At(u, "enqueue")' => /\ thread'[u].key \in DOMAIN jobs'
                                    /\ jobs'[thread'[u].key].phase = "made"
                                    /\ u # t => thread'[u].key # k
            /\ At(u, "run")' => /\ u = "worker"
                                /\ thread'[u].key \in DOMAIN jobs'
                                /\ jobs'[thread'[u].key].phase = "running"
            /\ At(u, "complete")' => /\ thread'[u].key \in DOMAIN jobs'
                                     /\ jobs'[thread'[u].key].phase = "ended"
      <4> TAKE u \in Threads
      <4>1. CASE u = t
        BY <2>2, <2>4, <4>1 DEF At
      <4>2. CASE u # t
        BY <2>4, <3>1, <4>2 DEF At, IInv, TaskInv
      <4> QED BY <4>1, <4>2
    <3>3. \A u, v \in Threads :
            At(u, "enqueue")' /\ At(v, "enqueue")' /\ thread'[u].key = thread'[v].key
                => u = v
      BY <2>2, <3>1, <3>2 DEF At, IInv, TaskInv
    <3> QED BY <3>2, <3>3 DEF TaskInv
  <2>8. OneTask'
    <3> SUFFICES ASSUME NEW i \in Ids, NEW j \in DOMAIN jobs',
                        jobs'[j].session = i, jobs'[j].phase # "ended"
                 PROVE  sess'[i].job = j
        BY DEF OneTask
    <3>1. CASE j = k
      BY <2>4, <2>5, <3>1
    <3>2. CASE j # k
      <4>1. j \in DOMAIN jobs /\ jobs'[j] = jobs[j]
        BY <2>4, <3>2
      <4>2. sess[i].job = j /\ j # 0
        BY <2>4, <4>1 DEF IInv, OneTask
      <4>3. i # id
        BY <1>5, <4>2 DEF Active
      <4> QED BY <2>5, <4>2, <4>3
    <3> QED BY <3>1, <3>2
  <2> QED BY <1>1, <1>2, <2>6, <2>7, <2>8, ShelvedLemma DEF IInv
<1> QED BY <1>4, <1>5

(* Tasks only come nearer to their end.                                     *)
Advances ==
    /\ jobs' \in Seq(KnownTasks)
    /\ DOMAIN jobs' = DOMAIN jobs
    /\ \A j \in DOMAIN jobs :
         jobs'[j].phase # "ended" =>
             jobs'[j].session = jobs[j].session /\ jobs[j].phase # "ended"

(* Tasks that only advance stay the tasks of their sessions.                *)
LEMMA AdvanceLemma ==
    ASSUME IInv, Advances, TasksKept
    PROVE  OneTask'
BY DEF IInv, OneTask, Advances, TasksKept

(* A task that is replaced by a later phase of it advances.                 *)
LEMMA ReplaceLemma ==
    ASSUME IInv, NEW k \in DOMAIN jobs, NEW r \in KnownTasks,
           jobs' = [jobs EXCEPT ![k] = r],
           r.phase # "ended" => r.session = jobs[k].session /\ jobs[k].phase # "ended"
    PROVE  /\ Advances
           /\ jobs'[k] = r
           /\ \A j \in DOMAIN jobs \ {k} : jobs'[j] = jobs[j]
<1>1. jobs' \in Seq(KnownTasks) /\ DOMAIN jobs' = DOMAIN jobs
    BY SetTask
<1>2. jobs'[k] = r /\ \A j \in DOMAIN jobs \ {k} : jobs'[j] = jobs[j]
    OBVIOUS
<1> QED BY <1>1, <1>2 DEF Advances

(* What is left to show when tasks advance and the table is as it was.      *)
LEMMA AdvanceInv ==
    ASSUME IInv, NEW t \in Threads, Steady(t), Advances, TasksKept, TaskInv',
           \A u \in Threads : ~At(u, "load"), UNCHANGED <<table, disk, newest>>
    PROVE  IInv'
<1>1. Framed' /\ Known' /\ LoadInv' /\ RemovedStaysRemoved'
    BY ShelvedLemma, SteadyLemma DEF Advances, KnownTasks, TasksKept
<1> QED BY <1>1, ShelvedLemma, AdvanceLemma DEF IInv

(* Sessions that are untouched keep their tasks.                            *)
LEMMA SameSessions ==
    ASSUME IInv, UNCHANGED sess
    PROVE  TasksKept
BY DEF TasksKept, IInv, Framed

(* Enqueue hands over the task that its thread made.                        *)
LEMMA EnqueueInv ==
    ASSUME IInv, NEW t \in Threads, Enqueue(t)
    PROVE  IInv'
<1> DEFINE k == thread[t].key
           r == [jobs[k] EXCEPT !.phase = "queued"]
<1>1. \A u \in Threads : ~At(u, "load")
    BY BusyLemma
<1>2. UNCHANGED <<table, disk, newest, sess>> /\ Return(t) /\ At(t, "enqueue")
    BY DEF Enqueue, store, bounds
<1>3. k \in DOMAIN jobs /\ jobs[k].phase = "made"
    BY <1>2 DEF IInv, TaskInv
<1>4. jobs' = [jobs EXCEPT ![k] = r]
    BY DEF Enqueue
<1>5. r \in KnownTasks /\ r.phase = "queued" /\ r.session = jobs[k].session
  <2>1. jobs[k] \in KnownTasks /\ r \in KnownTasks
    BY <1>3, TaskTypes
  <2> QED BY <2>1 DEF KnownTasks
<1> HIDE DEF r
<1>6. Advances /\ \A j \in DOMAIN jobs \ {k} : jobs'[j] = jobs[j]
    BY <1>3, <1>4, <1>5, ReplaceLemma
<1>7. Moved(t, thread'[t]) /\ thread'[t].pc = "idle" /\ thread'[t].id = 0
    BY <1>2, ReturnLemma
<1>8. Steady(t)
    BY <1>7 DEF Steady, IInv, Known
<1>9. TaskInv'
  <2>1. ~At(t, "enqueue")' /\ ~At(t, "run")' /\ ~At(t, "complete")'
    BY <1>7 DEF At
  <2>2. \A u \in Threads \ {t} : thread'[u] = thread[u]
    BY <1>7 DEF Moved
  <2>3. \A u \in Threads \ {t} :
          At(u, "enqueue") \/ At(u, "run") \/ At(u, "complete") => thread[u].key # k
    BY <1>2, <1>3 DEF IInv, TaskInv
  <2>4. DOMAIN jobs' = DOMAIN jobs
    BY <1>6 DEF Advances
  <2> QED BY <1>6, <2>1, <2>2, <2>3, <2>4 DEF IInv, TaskInv, At
<1> QED BY <1>1, <1>2, <1>6, <1>8, <1>9, AdvanceInv, SameSessions

(* Jobs::cancel ends a queued task and leaves the phase of any other.       *)
LEMMA CancelLemma ==
    ASSUME IInv, NEW k, CancelTask(k)
    PROVE  /\ Advances
           /\ \A j \in DOMAIN jobs : jobs[j].phase # "queued" =>
                                        jobs'[j].phase = jobs[j].phase
           /\ k \in DOMAIN jobs /\ jobs[k].phase = "queued" =>
                  jobs'[k].phase = "ended"
<1>1. CASE k \in DOMAIN jobs
  <2> DEFINE r == CASE jobs[k].phase = "queued" -> EndedTask
                    [] jobs[k].phase = "running" -> [jobs[k] EXCEPT !.cancel = TRUE]
                    [] OTHER -> jobs[k]
  <2>1. jobs' = [jobs EXCEPT ![k] = r]
    BY DEF CancelTask
  <2>2. /\ jobs[k] \in KnownTasks /\ EndedTask \in KnownTasks
        /\ [jobs[k] EXCEPT !.cancel = TRUE] \in KnownTasks
        /\ EndedTask.phase = "ended"
    BY <1>1, TaskTypes DEF EndedTask
  <2>3. /\ r \in KnownTasks
        /\ r.phase = IF jobs[k].phase = "queued" THEN "ended" ELSE jobs[k].phase
        /\ jobs[k].phase # "queued" => r.session = jobs[k].session
    <3>1. CASE jobs[k].phase = "queued"
      BY <2>2, <3>1
    <3>2. CASE jobs[k].phase = "running"
      BY <2>2, <3>2 DEF KnownTasks
    <3>3. CASE jobs[k].phase \notin {"queued", "running"}
      BY <2>2, <3>3
    <3> QED BY <3>1, <3>2, <3>3
  <2> HIDE DEF r
  <2>4. /\ Advances /\ jobs'[k] = r
        /\ \A j \in DOMAIN jobs \ {k} : jobs'[j] = jobs[j]
    BY <1>1, <2>1, <2>3, ReplaceLemma
  <2> QED BY <2>3, <2>4
<1>2. CASE k \notin DOMAIN jobs
  <2>1. jobs' = jobs
    BY <1>2 DEF CancelTask, IInv, Framed
  <2> QED BY <1>2, <2>1, JobsLemma DEF Advances, KnownTasks
<1> QED BY <1>1, <1>2

(* Nobody else holds a queued task.                                         *)
LEMMA CancelTasks ==
    ASSUME IInv, NEW t \in Threads, Moved(t, thread'[t]),
           DOMAIN jobs' = DOMAIN jobs,
           \A j \in DOMAIN jobs : jobs[j].phase # "queued" =>
                                     jobs'[j].phase = jobs[j].phase,
           thread'[t].pc \notin {"enqueue", "run"},
           thread'[t].pc = "complete" => /\ thread'[t].key \in DOMAIN jobs
                                         /\ jobs'[thread'[t].key].phase = "ended"
    PROVE  TaskInv'
<1>1. \A u \in Threads \ {t} : thread'[u] = thread[u]
    BY DEF Moved
<1> QED BY <1>1 DEF IInv, TaskInv, At

(* Limit check and destroy cancel the task of what they removed.            *)
LEMMA CancelVictimInv ==
    ASSUME IInv, NEW t \in Threads, CancelVictim(t)
    PROVE  IInv'
<1> DEFINE i == thread[t].victim
           k == sess[i].job
<1>1. \A u \in Threads : ~At(u, "load")
    BY BusyLemma
<1>2. UNCHANGED <<table, disk, newest>> /\ Goto(t, "release")
    BY DEF CancelVictim, store, bounds
<1>3. /\ Moved(t, thread'[t]) /\ thread'[t].pc = "release"
      /\ thread'[t].id = thread[t].id
    BY <1>2, GotoLemma
<1>4. Steady(t)
    BY <1>3 DEF Steady, IInv, Known
<1>5. /\ Advances /\ TasksKept
      /\ \A j \in DOMAIN jobs : jobs[j].phase # "queued" =>
                                    jobs'[j].phase = jobs[j].phase
  <2>1. CASE k = 0
    <3>1. UNCHANGED <<jobs, sess>>
      BY <2>1 DEF CancelVictim
    <3> QED BY <3>1, JobsLemma, SameSessions DEF Advances, KnownTasks
  <2>2. CASE k # 0
    <3>1. CancelTask(k)
      BY <2>2 DEF CancelVictim
    <3>2. CASE jobs[k].phase = "queued"
      <4>1. HearOf(i, k, Failed)
        BY <2>2, <3>2 DEF CancelVictim
      <4>2. k \in DOMAIN jobs' => jobs'[k].phase = "ended"
        BY <3>1, <3>2, CancelLemma DEF Advances
      <4> QED BY <3>1, <4>1, <4>2, CancelLemma, HearLemma
    <3>3. CASE jobs[k].phase # "queued"
      <4>1. UNCHANGED sess
        BY <2>2, <3>3 DEF CancelVictim
      <4> QED BY <3>1, <4>1, CancelLemma, SameSessions
    <3> QED BY <3>2, <3>3
  <2> QED BY <2>1, <2>2
<1>6. TaskInv'
    BY <1>3, <1>5, CancelTasks DEF Advances
<1> QED BY <1>1, <1>2, <1>4, <1>5, <1>6, AdvanceInv

(* A cancel by a client ends a queued task on its own thread.               *)
LEMMA CallCancelInv ==
    ASSUME IInv, NEW t \in Threads, NEW k \in DOMAIN jobs, CallCancel(t, k)
    PROVE  IInv'
<1>1. \A u \in Threads : ~At(u, "load")
    BY BusyLemma
<1>2. UNCHANGED <<table, disk, newest, sess>> /\ CancelTask(k)
    BY DEF CallCancel, store, bounds
<1>3. /\ Advances
      /\ \A j \in DOMAIN jobs : jobs[j].phase # "queued" =>
                                    jobs'[j].phase = jobs[j].phase
    BY <1>2, CancelLemma
<1>4. CASE jobs[k].phase = "queued"
  <2> DEFINE r == [Resting EXCEPT !.pc = "complete", !.call = "finished",
                                 !.id = jobs[k].session, !.key = k,
                                 !.outcome = Failed]
  <2>1. Move(t, r)
    BY <1>4 DEF CallCancel
  <2>2. /\ DOMAIN r = ThreadFields /\ r.pc = "complete"
        /\ r.id = jobs[k].session /\ r.key = k
    BY RestingLemma DEF ThreadFields
  <2> HIDE DEF r
  <2>3. Moved(t, r)
    BY <2>1, <2>2, MoveLemma DEF IInv
  <2>4. /\ Moved(t, thread'[t]) /\ thread'[t].pc = "complete"
        /\ thread'[t].key = k /\ thread'[t].id \in 0..newest
    BY <2>2, <2>3, JobsLemma DEF Moved
  <2>5. jobs'[k].phase = "ended"
    BY <1>2, <1>4, CancelLemma
  <2>6. TaskInv'
    BY <1>3, <2>4, <2>5, CancelTasks DEF Advances
  <2>7. Steady(t)
    BY <2>4 DEF Steady
  <2> QED BY <1>1, <1>2, <1>3, <2>6, <2>7, AdvanceInv, SameSessions
<1>5. CASE jobs[k].phase # "queued"
  <2>1. thread' = thread /\ At(t, "idle")
    BY <1>5 DEF CallCancel, MayCall
  <2>2. Moved(t, thread'[t]) /\ thread'[t].pc = "idle" /\ thread'[t].id \in 0..newest
    BY <2>1 DEF Moved, At, IInv, Framed, Known
  <2>3. TaskInv'
    BY <1>3, <2>2, CancelTasks DEF Advances
  <2>4. Steady(t)
    BY <2>2 DEF Steady
  <2> QED BY <1>1, <1>2, <1>3, <2>3, <2>4, AdvanceInv, SameSessions
<1> QED BY <1>4, <1>5

(* A collection takes sessions out with their files.                        *)
LEMMA CallGcInv ==
    ASSUME IInv, NEW t \in Threads, CallGc(t)
    PROVE  IInv'
<1>1. \A u \in Threads : ~At(u, "load")
    BY BusyLemma
<1>2. /\ UNCHANGED <<sess, jobs, newest, thread>> /\ At(t, "idle")
      /\ table' = table \ Collected /\ disk' = WithoutFiles(Collected)
    BY DEF CallGc, MayCall, bounds
<1>3. \A i \in Ids : HasFile(i)' => i \in table'
    BY <1>1, <1>2 DEF HasFile, WithoutFiles, NoFile, IInv, TableInv,
                      RemovedStaysRemoved, Threads
<1>4. Plain(t)
    BY <1>2 DEF Plain, Moved, InHand, At, IInv, Framed, Known
<1>5. /\ table' \subseteq Ids /\ Cardinality(table') <= MaxSessions
      /\ DOMAIN disk' = Ids
    BY <1>2, TableLemma DEF IInv, Known, WithoutFiles
<1>6. Framed' /\ Known' /\ LoadInv' /\ RemovedStaysRemoved'
    BY <1>1, <1>2, <1>3, <1>4, <1>5, JobsLemma, SteadyLemma
       DEF Plain, Steady, InHand, IInv, Framed
<1>7. TaskInv' /\ OneTask'
    BY <1>2, <1>4, PlainTasks DEF IInv, OneTask
<1> QED BY <1>5, <1>6, <1>7 DEF IInv, TableInv

(* The worker takes the first queued task.                                  *)
LEMMA StartJobInv ==
    ASSUME IInv, NEW k \in DOMAIN jobs, StartJob(k)
    PROVE  IInv'
<1> DEFINE r == [jobs[k] EXCEPT !.phase = "running"]
           l == [Resting EXCEPT !.pc = "run", !.call = "finished",
                                !.id = jobs[k].session, !.key = k]
<1>1. "worker" \in Threads /\ "main" \in Threads
    BY DEF Threads
<1>2. /\ UNCHANGED <<table, disk, newest, sess>> /\ jobs[k].phase = "queued"
      /\ jobs' = [jobs EXCEPT ![k] = r] /\ Move("worker", l)
    BY DEF StartJob, store, bounds
<1>3. \A u \in Threads : ~At(u, "load")
    BY <1>1, <1>2 DEF IInv, LoadInv
<1>4. jobs[k] \in KnownTasks /\ r \in KnownTasks
    BY TaskTypes
<1>5. r.phase = "running" /\ r.session = jobs[k].session
    BY <1>4 DEF KnownTasks
<1> HIDE DEF r
<1>6. /\ Advances /\ jobs'[k].phase = "running"
      /\ \A j \in DOMAIN jobs \ {k} : jobs'[j] = jobs[j]
    BY <1>2, <1>4, <1>5, ReplaceLemma
<1>7. DOMAIN l = ThreadFields /\ l.pc = "run" /\ l.id = jobs[k].session /\ l.key = k
    BY RestingLemma DEF ThreadFields
<1> HIDE DEF l
<1>8. Moved("worker", l)
    BY <1>1, <1>2, <1>7, MoveLemma DEF IInv
<1>9. Steady("worker")
    BY <1>7, <1>8, JobsLemma DEF Steady, Moved
<1>10. TaskInv'
  <2>1. \A u \in Threads \ {"worker"} : thread'[u] = thread[u]
    BY <1>8 DEF Moved
  <2>2. \A u \in Threads :
          At(u, "enqueue") \/ At(u, "run") \/ At(u, "complete") => thread[u].key # k
    BY <1>2 DEF IInv, TaskInv
  <2>3. thread'["worker"].pc = "run" /\ thread'["worker"].key = k
    BY <1>7, <1>8 DEF Moved
  <2>4. DOMAIN jobs' = DOMAIN jobs
    BY <1>6 DEF Advances
  <2> QED BY <1>1, <1>6, <2>1, <2>2, <2>3, <2>4 DEF IInv, TaskInv, At
<1> QED BY <1>1, <1>2, <1>3, <1>6, <1>9, <1>10, AdvanceInv, SameSessions

(* The worker ends the task that it runs.                                   *)
LEMMA EndJobInv ==
    ASSUME IInv, NEW o, NEW park, EndJob(o, park)
    PROVE  IInv'
<1> DEFINE k == thread["worker"].key
           l == [thread["worker"] EXCEPT !.pc = "complete", !.outcome = o]
<1>1. "worker" \in Threads /\ "main" \in Threads
    BY DEF Threads
<1>2. /\ UNCHANGED <<table, disk, newest, sess>> /\ At("worker", "run")
      /\ jobs' = [jobs EXCEPT ![k] = EndedTask] /\ Move("worker", l)
    BY DEF EndJob, bounds
<1>3. \A u \in Threads : ~At(u, "load")
    BY <1>1, <1>2, SessionsAssumption DEF IInv, LoadInv, At
<1>4. k \in DOMAIN jobs /\ jobs[k].phase = "running"
    BY <1>1, <1>2 DEF IInv, TaskInv
<1>5. EndedTask \in KnownTasks /\ EndedTask.phase = "ended"
    BY <1>4, TaskTypes DEF EndedTask
<1>6. /\ Advances /\ jobs'[k].phase = "ended"
      /\ \A j \in DOMAIN jobs \ {k} : jobs'[j] = jobs[j]
    BY <1>2, <1>4, <1>5, ReplaceLemma
<1>7. /\ DOMAIN l = ThreadFields /\ l.pc = "complete" /\ l.key = k
      /\ l.id = thread["worker"].id
    BY <1>1 DEF IInv, Framed, ThreadFields
<1> HIDE DEF l
<1>8. Moved("worker", l)
    BY <1>1, <1>2, <1>7, MoveLemma DEF IInv
<1>9. Steady("worker")
    BY <1>1, <1>7, <1>8 DEF Steady, Moved, IInv, Known
<1>10. TaskInv'
  <2>1. \A u \in Threads \ {"worker"} : thread'[u] = thread[u]
    BY <1>8 DEF Moved
  <2>2. \A u \in Threads \ {"worker"} :
          At(u, "enqueue") \/ At(u, "run") \/ At(u, "complete") => thread[u].key # k
    BY <1>4 DEF IInv, TaskInv
  <2>3. thread'["worker"].pc = "complete" /\ thread'["worker"].key = k
    BY <1>7, <1>8 DEF Moved
  <2>4. DOMAIN jobs' = DOMAIN jobs
    BY <1>6 DEF Advances
  <2> QED BY <1>1, <1>4, <1>6, <2>1, <2>2, <2>3, <2>4 DEF IInv, TaskInv, At
<1> QED BY <1>1, <1>2, <1>3, <1>6, <1>9, <1>10, AdvanceInv, SameSessions

(* Steps that move no thread.                                               *)
LEMMA QuietInv ==
    ASSUME IInv, SessionOps \/ Tick \/ \E i \in Ids : Expire(i)
    PROVE  IInv'
<1>1. UNCHANGED <<table, disk, jobs, newest>>
    BY DEF SessionOps, Tick, Expire, store, pending, bounds
<1>2. /\ DOMAIN sess' = Ids
      /\ \A i \in Ids : DOMAIN sess'[i] = SessionFields /\ sess'[i].job = sess[i].job
  <2>1. CASE SessionOps \/ Tick
    BY <2>1 DEF SessionOps, Tick, IInv, Framed
  <2>2. CASE \E i \in Ids : Expire(i)
    BY <2>2 DEF Expire, IInv, Framed, SessionFields
  <2> QED BY <2>1, <2>2
<1>3. /\ thread' = thread
      /\ releases' \in {releases, {}} /\ clones' \in {clones, {}}
    BY DEF SessionOps, Tick, Expire, pending
<1>4. Saved' = Saved /\ RemovedStaysRemoved' = RemovedStaysRemoved
    BY <1>1, <1>3 DEF Saved, HasFile, RemovedStaysRemoved, At
<1> QED BY <1>1, <1>2, <1>3, <1>4
    DEF IInv, Framed, Known, LoadInv, TableInv, TaskInv, OneTask, At

(* What is saved fits the table, whether main is loading or not.            *)
LEMMA SavedLemma ==
    ASSUME IInv
    PROVE  /\ IsFiniteSet(Saved) /\ Cardinality(Saved) \in Nat
           /\ Cardinality(Saved) <= MaxSessions
<1>1. IsFiniteSet(Ids)
  <2>1. MaxId \in Int /\ 1 \in Int
    BY SessionsAssumption
  <2> QED BY <2>1, FS_Interval DEF Ids
<1>2. IsFiniteSet(Saved) /\ Cardinality(Saved) \in Nat
    BY <1>1, FS_Subset, FS_CardinalityType DEF Saved
<1>3. CASE At("main", "load")
    BY <1>2, <1>3 DEF IInv, LoadInv
<1>4. CASE ~At("main", "load")
  <2>1. Saved \subseteq table
    BY <1>4 DEF Saved, IInv, TableInv, RemovedStaysRemoved
  <2> QED BY <1>2, <2>1, TableLemma
<1> QED BY <1>2, <1>3, <1>4

(* The load finds room for every file.                                      *)
LEMMA LoadStep ==
    ASSUME IInv, Load
    PROVE  IInv'
<1>1. "main" \in Threads /\ "main" # "worker"
    BY DEF Threads
<1>2. /\ At("main", "load") /\ table' = Restored
      /\ UNCHANGED <<disk, jobs, newest>>
      /\ sess' = [i \in Ids |-> IF i \in Restored THEN Restore(disk[i].rec) ELSE sess[i]]
    BY DEF Load, store, pending, bounds
<1>3. Restored = Saved
  <2>1. ASSUME NEW i \in Saved
        PROVE  Cardinality({j \in Saved : j > i}) < MaxSessions
    <3> DEFINE later == {j \in Saved : j > i}
    <3>1. later \subseteq Saved \ {i}
      BY <2>1 DEF Saved, Ids
    <3>2. IsFiniteSet(Saved \ {i}) /\ Cardinality(Saved \ {i}) = Cardinality(Saved) - 1
      BY <2>1, SavedLemma, FS_RemoveElement
    <3>3. IsFiniteSet(later) /\ Cardinality(later) <= Cardinality(Saved \ {i})
      BY <3>1, <3>2, FS_Subset
    <3>4. Cardinality(later) \in Nat
      BY <3>3, FS_CardinalityType
    <3> HIDE DEF later
    <3>5. MaxSessions \in Nat
      BY SessionsAssumption
    <3>6. Cardinality(later) < MaxSessions
      BY <3>2, <3>3, <3>4, <3>5, SavedLemma
    <3> QED BY <3>6 DEF later
  <2> QED BY <2>1 DEF Restored, Saved
<1>4. \E pc \in {"hold", "idle"} : Goto("main", pc)
    BY DEF Load
<1>5. /\ Moved("main", thread'["main"]) /\ thread'["main"].pc \in {"hold", "idle"}
      /\ thread'["main"].id = thread["main"].id
    BY <1>1, <1>4, GotoLemma
<1>6. Saved' = Saved
    BY <1>2 DEF Saved, HasFile
<1>7. \A t \in Threads \ {"main"} : thread'[t] = thread[t] /\ At(t, "idle")
    BY <1>2, <1>5 DEF Moved, IInv, LoadInv
<1>8. \A k \in DOMAIN jobs : jobs[k].phase = "ended"
    BY <1>2 DEF IInv, LoadInv
<1>9. Framed'
  <2>1. \A rec : DOMAIN Restore(rec) = SessionFields
    BY DEF Restore, NewSession, SessionFields
  <2> QED BY <1>2, <1>5, <2>1 DEF IInv, Framed, Moved
<1>10. Known'
    BY <1>2, <1>3, <1>5, <1>6, <1>7 DEF IInv, Known, Saved, Moved, At
<1>11. LoadInv'
    BY <1>1, <1>5, <1>7 DEF LoadInv, At
<1>12. TableInv'
    BY <1>2, <1>3, <1>6, SavedLemma DEF TableInv, RemovedStaysRemoved, Saved
<1>13. TaskInv'
    BY <1>2, <1>5, <1>7 DEF TaskInv, At
<1>14. OneTask'
    BY <1>2, <1>8 DEF OneTask
<1> QED BY <1>9, <1>10, <1>11, <1>12, <1>13, <1>14 DEF IInv

(* After a kill main loads, and nothing else is there.                      *)
LEMMA CrashStep ==
    ASSUME IInv, Crash
    PROVE  IInv'
<1>1. /\ UNCHANGED <<disk, newest>> /\ table' = {} /\ releases' = {} /\ clones' = {}
      /\ sess' = [i \in Ids |-> NewSession(<<>>)]
      /\ jobs' = [k \in DOMAIN jobs |-> EndedTask]
      /\ thread' = [t \in Threads |-> IF t = "main" THEN [Resting EXCEPT !.pc = "load"]
                                     ELSE Resting]
    BY DEF Crash, store
<1>2. /\ DOMAIN thread' = Threads
      /\ \A t \in Threads : /\ DOMAIN thread'[t] = ThreadFields /\ thread'[t].id = 0
                            /\ thread'[t].pc = IF t = "main" THEN "load" ELSE "idle"
    BY <1>1, RestingLemma DEF ThreadFields
<1>3. /\ DOMAIN jobs' = 1..Len(jobs) /\ Len(jobs) \in Nat
      /\ \A k \in DOMAIN jobs' : jobs'[k].phase = "ended" /\ jobs'[k].session = 0
    BY <1>1, JobsLemma DEF EndedTask
<1>4. jobs' \in Seq([session : Nat, cancel : BOOLEAN,
                     phase : {"made", "queued", "running", "ended"}])
  <2>1. EndedTask \in [session : Nat, cancel : BOOLEAN,
                       phase : {"made", "queued", "running", "ended"}]
    BY DEF EndedTask
  <2> QED BY <1>1, <1>3, <2>1
<1>5. Framed'
  <2>1. DOMAIN NewSession(<<>>) = SessionFields
    BY DEF NewSession, SessionFields
  <2> QED BY <1>1, <1>2, <1>4, <2>1 DEF IInv, Framed
<1>6. Saved' = Saved
    BY <1>1 DEF Saved, HasFile
<1>7. Known'
    BY <1>1, <1>2, <1>3, <1>6 DEF IInv, Known, At
<1>8. LoadInv'
    BY <1>1, <1>2, <1>3, <1>6, SavedLemma DEF LoadInv, At
<1>9. TableInv'
  <2>1. At("main", "load")' /\ Cardinality({}) = 0 /\ MaxSessions \in Nat
    BY <1>2, FS_EmptySet, SessionsAssumption DEF At, Threads
  <2> QED BY <1>1, <2>1 DEF TableInv, RemovedStaysRemoved
<1>10. TaskInv'
    BY <1>2 DEF TaskInv, At
<1>11. OneTask'
    BY <1>3 DEF OneTask
<1> QED BY <1>5, <1>7, <1>8, <1>9, <1>10, <1>11 DEF IInv

(* The invariant holds when the process starts.                             *)
LEMMA InitIInv ==
    Init => IInv
<1> SUFFICES ASSUME Init PROVE IInv
    OBVIOUS
<1>1. /\ newest = 0 /\ table = {} /\ releases = {} /\ clones = {} /\ jobs = <<>>
      /\ sess = [i \in Ids |-> NewSession(<<>>)] /\ disk = [i \in Ids |-> NoFile]
      /\ thread = [t \in Threads |-> IF t = "main" THEN [Resting EXCEPT !.pc = "load"]
                                    ELSE Resting]
    BY DEF Init
<1>2. \A t \in Threads : /\ DOMAIN thread[t] = ThreadFields /\ thread[t].id = 0
                         /\ thread[t].pc = IF t = "main" THEN "load" ELSE "idle"
    BY <1>1, RestingLemma DEF ThreadFields
<1>3. Saved = {}
    BY <1>1 DEF Saved, HasFile, NoFile
<1>4. Cardinality({}) = 0 /\ MaxSessions \in Nat /\ MaxId \in Nat
    BY FS_EmptySet, SessionsAssumption
<1>5. DOMAIN NewSession(<<>>) = SessionFields
    BY DEF NewSession, SessionFields
<1>6. Framed
    BY <1>1, <1>2, <1>5 DEF Framed
<1>7. Known /\ LoadInv /\ TaskInv /\ OneTask
    BY <1>1, <1>2, <1>3, <1>4 DEF Known, LoadInv, TaskInv, OneTask, At
<1>8. TableInv
    BY <1>1, <1>3, <1>4 DEF TableInv, RemovedStaysRemoved, Saved
<1> QED BY <1>6, <1>7, <1>8 DEF IInv

(* Every step keeps the invariant.                                          *)
LEMMA NextIInv ==
    IInv /\ [Next]_vars => IInv'
<1>1. CASE UNCHANGED vars
    BY <1>1 DEF vars, store, pending, bounds, history, IInv, Framed, Known, LoadInv,
                TableInv, TaskInv, OneTask, RemovedStaysRemoved, Saved, HasFile, At
<1>2. ASSUME IInv, Next PROVE IInv'
  <2>1. Callers \subseteq Threads
    BY DEF Threads
  <2>2. CASE \E t \in Threads : \/ Waits(t) \/ Makes(t) \/ Shelves(t)
                              \/ Begin(t) \/ Enqueue(t) \/ CancelVictim(t)
    BY <1>2, <2>2, WaitsInv, MakesInv, ShelvesInv, BeginInv, EnqueueInv,
       CancelVictimInv
  <2>3. CASE \E t \in Callers : \/ CallGc(t)
                              \/ \E k \in DOMAIN jobs : CallCancel(t, k)
    BY <1>2, <2>1, <2>3, CallGcInv, CallCancelInv
  <2>4. CASE \/ \E k \in DOMAIN jobs : StartJob(k)
             \/ \E o \in Answers \cup {Ended("Full"), Failed}, park \in BOOLEAN :
                    EndJob(o, park)
    BY <1>2, <2>4, StartJobInv, EndJobInv
  <2>5. CASE SessionOps \/ Load \/ Crash \/ Tick \/ \E i \in Ids : Expire(i)
    BY <1>2, <2>5, QuietInv, LoadStep, CrashStep
  <2> QED BY <1>2, <2>2, <2>3, <2>4, <2>5, NextCases
<1> QED BY <1>1, <1>2

(* However the calls of any number of clients, the worker, collections,     *)
(* limit checks, kills and restarts interleave, IInv holds.                 *)
THEOREM SessionsInvariant == Spec => []IInv
BY InitIInv, NextIInv, PTL DEF Spec

(* The record of a session that was destroyed, collected or dropped never   *)
(* comes back, not even from a save that was on its way, and what a restart *)
(* finds always fits the table, so it loses no session.                     *)
THEOREM RemovedForGood == Spec => []RemovedStaysRemoved
<1>1. IInv => RemovedStaysRemoved
    BY DEF IInv, TableInv
<1> QED BY <1>1, SessionsInvariant, PTL

(* A session that can be reached has at most one generation that is not     *)
(* over, whichever posts, cancels and ends interleave.                      *)
THEOREM OneAtATime == Spec => []OneGeneration
<1>1. IInv => OneGeneration
    BY DEF IInv, Known, OneTask, OneGeneration
<1> QED BY <1>1, SessionsInvariant, PTL
=============================================================================
