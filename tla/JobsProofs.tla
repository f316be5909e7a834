----------------------------- MODULE JobsProofs -----------------------------
(* What holds of the job runner for any number of requests, session calls   *)
(* and pieces: its types; IInv, by one lemma per conjunct and one step per  *)
(* group of actions that are alike for it; the order in which requests and  *)
(* session calls reach the engine; and that it implements JobService.       *)
EXTENDS JobsInv, SequenceTheorems, TLAPS

USE DEF taskVars, jobsVars, workerVars, handlerVars, stopVars, histVars

(* Every operation of a token buffer yields a token buffer. *)
LEMMA EmptyBufferType == ASSUME NEW P PROVE EmptyBuffer \in TokenBuffers(P)
BY DEF EmptyBuffer, TokenBuffers

(* The operations of TokenBuffer keep a buffer a buffer. *)
LEMMA BufferTypes ==
    ASSUME NEW P, NEW b \in TokenBuffers(P)
    PROVE  /\ \A x \in P : PushPiece(b, x) \in TokenBuffers(P)
           /\ SetDone(b) \in TokenBuffers(P)
           /\ CancelBuffer(b) \in TokenBuffers(P)
           /\ b.pieces # <<>> => DropFront(b) \in TokenBuffers(P)
           /\ b.pieces # <<>> => Head(b.pieces) \in P
<1>1. \A x \in P : PushPiece(b, x) \in TokenBuffers(P)
    BY DEF TokenBuffers, PushPiece
<1>2. SetDone(b) \in TokenBuffers(P)
    BY DEF TokenBuffers, SetDone
<1>3. CancelBuffer(b) \in TokenBuffers(P)
    BY DEF TokenBuffers, CancelBuffer
<1>4. b.pieces # <<>> => DropFront(b) \in TokenBuffers(P)
    BY DEF TokenBuffers, DropFront
<1>5. b.pieces # <<>> => Head(b.pieces) \in P
    BY DEF TokenBuffers
<1> QED BY <1>1, <1>2, <1>3, <1>4, <1>5

(* The types hold when the threads are started. *)
LEMMA TypeInit == Init => TypeOK
<1> SUFFICES ASSUME Init PROVE TypeOK
    OBVIOUS
<1> USE JobsAssumption DEF Init
<1>1. TaskTypes
    BY EmptyBufferType DEF TaskTypes, States, Finished
<1>2. JobsTypes
    BY DEF JobsTypes
<1>3. WorkerTypes
    BY DEF WorkerTypes, ControlPoints, NoWork, Finished
<1>4. HandlerTypes
    BY DEF HandlerTypes, HandlerPoints, States
<1>5. StopTypes
    BY DEF StopTypes, Stoppers, StopperPoints
<1>6. HistTypes
    BY DEF HistTypes
<1> QED BY <1>1, <1>2, <1>3, <1>4, <1>5, <1>6 DEF TypeOK

(* The pc of the worker, and who is woken. *)
LEMMA WokenType == ASSUME NEW pc \in ControlPoints PROVE Woken(pc) \in ControlPoints
BY DEF Woken, ControlPoints

(* Each group of variables keeps its types in every step of the worker. *)
LEMMA TypeWorker == TypeOK /\ (Worker \/ SpuriousWake) => TypeOK'
<1> SUFFICES ASSUME TypeOK, Worker \/ SpuriousWake PROVE TypeOK'
    OBVIOUS
<1> USE JobsAssumption DEF TypeOK
<1> USE DEF Moves, LoopTop, WaitStopped, WaitFindsNothing, FallAsleep, SpuriousWake,
   ReleasesApplied, TokenCallback, ChatReturns, WaitTakes, Dispatch,
   ApplyClone, ApplyRelease, CloneHook, WorkerExits, SkipCancelled, SetCurrent,
   StartRun, Sample, ChatThrows, SetFullResult, ResetCurrent, CheckCancelled,
   Publish, PushToken, WorkerTakes, WorkerRuns, WorkerReleases, Worker
<1>1. TaskTypes'
  <2>1. CASE SkipCancelled
    BY <2>1, BufferTypes DEF TaskTypes, WorkerTypes, States, Finished, SetCancelled
  <2>2. CASE StartRun
    BY <2>2 DEF TaskTypes, States
  <2>3. CASE PushToken
    BY <2>3, BufferTypes DEF TaskTypes, WorkerTypes
  <2>4. CASE SetFullResult
    BY <2>4 DEF TaskTypes, WorkerTypes
  <2>5. CASE Publish
    BY <2>5 DEF TaskTypes, WorkerTypes, States, Published
  <2>6. CASE WorkerTakes
    BY <2>6 DEF TaskTypes, TakeCallback
  <2>7. CASE WorkerRuns
    BY <2>7 DEF TaskTypes, RunCallback
  <2>8. CASE WorkerReleases
    BY <2>8, BufferTypes DEF TaskTypes, WorkerTypes, ReleaseStream, ReleasedStream
  <2>9. CASE UNCHANGED taskVars
    BY <2>9 DEF TaskTypes
  <2> QED BY <2>1,<2>2,<2>3,<2>4,<2>5,<2>6,<2>7,<2>8,<2>9
<1>2. JobsTypes'
  <2>1. CASE WaitTakes
    <3>1. queue' \in Seq(Tasks)
      <4>1. CASE queue = <<>>
        BY <2>1, <4>1 DEF JobsTypes
      <4>2. CASE queue # <<>>
        <5>1. queue' = Tail(queue)
          BY <2>1, <4>2 DEF PopQueue
        <5>2. queue \in Seq(Tasks)
          BY DEF JobsTypes
        <5> QED BY <4>2, <5>1, <5>2, HeadTailProperties
      <4> QED BY <4>1, <4>2
    <3>2. releases' \in Seq(Releases) /\ clones' \in Seq(Clones)
      BY <2>1
    <3> QED BY <2>1, <3>1, <3>2 DEF JobsTypes
  <2>2. CASE SetCurrent
    BY <2>2 DEF JobsTypes, WorkerTypes
  <2>3. CASE ResetCurrent
    BY <2>3 DEF JobsTypes
  <2>4. CASE UNCHANGED jobsVars
    BY <2>4 DEF JobsTypes
  <2> QED BY <2>1, <2>2, <2>3, <2>4
<1>3. WorkerTypes'
  <2>1. wpc' \in ControlPoints
    BY DEF WorkerTypes, GoTo, ControlPoints
  <2>2. wtask' \in Tasks \cup {NoTask}
    BY DEF WorkerTypes, JobsTypes, PopQueue
  <2>3. work' \in [clones : Seq(Clones), releases : Seq(Releases)]
    <3>1. CASE WaitTakes
      BY <3>1 DEF JobsTypes, TakenReleases
    <3>2. CASE Dispatch
      <4>1. NoWork \in [clones : Seq(Clones), releases : Seq(Releases)]
        BY DEF NoWork
      <4> QED BY <3>2, <4>1 DEF WorkerTypes
    <3>3. CASE ApplyClone
      <4>1. Tail(work.clones) \in Seq(Clones)
        BY <3>3, HeadTailProperties DEF WorkerTypes
      <4> QED BY <3>3, <4>1 DEF WorkerTypes
    <3>4. CASE ApplyRelease
      <4>1. Tail(work.releases) \in Seq(Releases)
        BY <3>4, HeadTailProperties DEF WorkerTypes
      <4> QED BY <3>4, <4>1 DEF WorkerTypes
    <3>5. CASE UNCHANGED work
      BY <3>5 DEF WorkerTypes
    <3> QED BY <3>1, <3>2, <3>3, <3>4, <3>5
  <2>4. sampled' \in 0..MaxPieces
    BY DEF WorkerTypes
  <2>5. outcome' \in Finished
    BY DEF WorkerTypes, Finished, JudgedOutcome
  <2> QED BY <2>1, <2>2, <2>3, <2>4, <2>5 DEF WorkerTypes
<1>4. HandlerTypes'
    BY DEF HandlerTypes
<1>5. StopTypes'
    BY DEF StopTypes
<1>6. HistTypes'
  <2>1. applied' \in Seq(SessionOps)
    <3>1. CASE ApplyClone
      BY <3>1 DEF HistTypes, WorkerTypes, SessionOps
    <3>2. CASE ApplyRelease
      BY <3>2 DEF HistTypes, WorkerTypes, SessionOps
    <3>3. CASE HookReleases
      BY <3>3 DEF HistTypes, SessionOps, HookReleases
    <3>4. CASE UNCHANGED applied
      BY <3>4 DEF HistTypes
    <3> QED BY <3>1, <3>2, <3>3, <3>4
  <2> QED BY <2>1 DEF HistTypes
<1> QED BY <1>1, <1>2, <1>3, <1>4, <1>5, <1>6 DEF TypeOK

(* An interval from 1 determines its upper end. *)
LEMMA IntervalEqual ==
    ASSUME NEW m \in Nat, NEW n \in Nat, 1..m = 1..n PROVE m = n
<1>1. CASE m < n
    BY <1>1, n \in 1..n, n \notin 1..m
<1>2. CASE n < m
    BY <1>2, m \in 1..m, m \notin 1..n
<1> QED BY <1>1, <1>2

(* Taking an element out of a sequence leaves a sequence of the others. *)
LEMMA ErasedProperties ==
    ASSUME NEW S, NEW q \in Seq(S), NEW i \in 1..Len(q)
    PROVE  /\ Erased(q, i) \in Seq(S)
           /\ Len(Erased(q, i)) = Len(q) - 1
           /\ \A j \in 1..(Len(q) - 1) :
                  Erased(q, i)[j] = IF j < i THEN q[j] ELSE q[j + 1]
<1>1. Len(q) \in Nat /\ q \in [1..Len(q) -> S] /\ Len(q) - 1 \in Nat
    BY LenProperties
<1>2. Erased(q, i) \in [1..(Len(q) - 1) -> S]
    BY <1>1 DEF Erased
<1>3. Erased(q, i) \in Seq(S)
    BY <1>1, <1>2, SeqDef
<1>4. Len(Erased(q, i)) = Len(q) - 1
  <2>1. DOMAIN Erased(q, i) = 1..(Len(q) - 1)
    BY <1>2
  <2>2. /\ Len(Erased(q, i)) \in Nat
        /\ DOMAIN Erased(q, i) = 1..Len(Erased(q, i))
    BY <1>3, LenProperties
  <2> QED BY <1>1, <2>1, <2>2, IntervalEqual
<1> QED BY <1>1, <1>3, <1>4 DEF Erased

(* The same for the callers of Jobs. *)
LEMMA TypeCallers ==
    ASSUME TypeOK, NEW t \in Tasks,
           SubmitRequest(t) \/ Handler(t)
    PROVE  TypeOK'
<1> USE JobsAssumption DEF TypeOK
<1> USE DEF SubmitRequest, Handler, AwaitReady, WriteFrames, WriteFails, Pull,
   PullEof, AwaitFinished, CancelLookup, CancelFlag, CancelStream,
   CancelQueued, HandlerTakes, HandlerRuns, HandlerReleases, HandlerMoves, Proceed
<1>1. TaskTypes'
  <2>1. state' \in [Tasks -> States]
    BY DEF TaskTypes, Enqueue, SetCancelled, States, Finished
  <2>2. flag' \in [Tasks -> BOOLEAN]
    BY DEF TaskTypes
  <2>3. buf' \in [Tasks -> TokenBuffers(0..MaxPieces)]
    <3>1. /\ CancelBuffer(buf[t]) \in TokenBuffers(0..MaxPieces)
          /\ SetDone(buf[t]) \in TokenBuffers(0..MaxPieces)
          /\ buf[t].pieces # <<>>
                 => DropFront(buf[t]) \in TokenBuffers(0..MaxPieces)
      BY BufferTypes DEF TaskTypes
    <3>2. CASE Pull(t)
      BY <3>1, <3>2 DEF TaskTypes
    <3>3. CASE CancelStream(t) \/ CancelQueued(t) \/ HandlerReleases(t)
      BY <3>1, <3>3 DEF TaskTypes, SetCancelled, ReleaseStream, ReleasedStream
    <3>4. CASE UNCHANGED buf
      BY <3>4 DEF TaskTypes
    <3> QED BY <3>2, <3>3, <3>4 DEF SetCancelled, ReleaseStream
  <2>4. callback' \in [Tasks -> {"absent", "armed", "taken", "ran"}]
    BY DEF TaskTypes, TakeCallback, RunCallback
  <2>5. full' \in [Tasks -> 0..MaxPieces]
    BY DEF TaskTypes
  <2> QED BY <2>1, <2>2, <2>3, <2>4, <2>5 DEF TaskTypes
<1>2. JobsTypes'
  <2>1. CASE SubmitRequest(t)
    <3>1. queue' \in Seq(Tasks)
      BY <2>1, AppendProperties DEF JobsTypes, Enqueue
    <3>2. tasks' \subseteq Tasks
      BY <2>1 DEF JobsTypes, Enqueue, EnqueueForgets
    <3> QED BY <2>1, <3>1, <3>2 DEF JobsTypes
  <2>2. CASE CancelLookup(t)
    <3>1. queue' \in Seq(Tasks)
      <4>1. CASE \E i \in DOMAIN queue : queue' = Erased(queue, i)
        BY <4>1, ErasedProperties, LenProperties DEF JobsTypes
      <4>2. CASE UNCHANGED queue
        BY <4>2 DEF JobsTypes
      <4> QED BY <2>2, <4>1, <4>2 DEF TakesOver
    <3> QED BY <2>2, <3>1 DEF JobsTypes
  <2>3. CASE UNCHANGED jobsVars
    BY <2>3 DEF JobsTypes
  <2> QED BY <2>1, <2>2, <2>3
<1>3. WorkerTypes'
    BY WokenType DEF WorkerTypes, Enqueue
<1>4. HandlerTypes'
  <2>1. hpc' \in [Tasks -> HandlerPoints]
    BY DEF HandlerTypes, HandlerPoints
  <2>2. own' \in [Tasks -> BOOLEAN]
    BY DEF HandlerTypes, TakesOver
  <2>3. read' \in [Tasks -> Seq(0..MaxPieces)]
    <3>1. CASE Pull(t)
      <4>1. buf[t] \in TokenBuffers(0..MaxPieces)
        BY DEF TaskTypes
      <4>2. Append(read[t], Head(buf[t].pieces)) \in Seq(0..MaxPieces)
        BY <3>1, <4>1, BufferTypes, AppendProperties DEF HandlerTypes
      <4> QED BY <3>1, <4>2 DEF HandlerTypes
    <3>2. CASE UNCHANGED read
      BY <3>2 DEF HandlerTypes
    <3> QED BY <3>1, <3>2
  <2>4. reply' \in [Tasks -> States]
    BY DEF HandlerTypes, TaskTypes
  <2> QED BY <2>1, <2>2, <2>3, <2>4 DEF HandlerTypes
<1>5. StopTypes'
    BY DEF StopTypes
<1>6. HistTypes'
  <2>1. Append(arrivals, t) \in Seq(Tasks \cup SessionOps)
    BY AppendProperties DEF HistTypes
  <2> QED BY <2>1 DEF HistTypes, Enqueue
<1> QED BY <1>1, <1>2, <1>3, <1>4, <1>5, <1>6 DEF TypeOK

(* And for the session calls and the shutdown. *)
LEMMA TypeOthers ==
    ASSUME TypeOK,
           \/ \E r \in Releases : RequestRelease(r)
           \/ \E c \in Clones : RequestClone(c)
           \/ \E s \in Stoppers : RequestStop(s) \/ ShutdownSteps(s)
           \/ StopServer \/ Join
    PROVE  TypeOK'
<1> USE JobsAssumption DEF TypeOK
<1> USE DEF RequestRelease, RequestClone, RequestStop, ShutdownSteps,
   StopCallback, CollectTasks, CancelTargets, ShutdownFlag, ShutdownStream, NotifyAll, StopServer,
   Join,   StopperAt
<1>1. TaskTypes'
  <2>1. \A t \in Tasks : CancelBuffer(buf[t]) \in TokenBuffers(0..MaxPieces)
    BY BufferTypes DEF TaskTypes
  <2>2. flag' \in [Tasks -> BOOLEAN]
    BY DEF TaskTypes
  <2>3. buf' \in [Tasks -> TokenBuffers(0..MaxPieces)]
    BY <2>1 DEF TaskTypes
  <2> QED BY <2>2, <2>3 DEF TaskTypes
<1>2. JobsTypes'
  <2>1. \A r \in Releases : Append(releases, r) \in Seq(Releases)
    BY AppendProperties DEF JobsTypes
  <2>2. \A c \in Clones : Append(clones, c) \in Seq(Clones)
    BY AppendProperties DEF JobsTypes
  <2> QED BY <2>1, <2>2 DEF JobsTypes
<1>3. WorkerTypes'
    BY WokenType DEF WorkerTypes, FinalWake
<1>4. HandlerTypes'
    BY DEF HandlerTypes
<1>5. StopTypes'
  <2>1. stop' \in BOOLEAN
    BY DEF StopTypes
  <2>2. spc' \in [Stoppers -> StopperPoints]
    BY DEF StopTypes, StopperPoints, Stoppers
  <2>3. targets' \in [Stoppers -> SUBSET Tasks]
    BY DEF StopTypes, JobsTypes
  <2>4. victim' \in [Stoppers -> Tasks \cup {NoTask}]
    BY DEF StopTypes
  <2> QED BY <2>1, <2>2, <2>3, <2>4 DEF StopTypes
<1>6. HistTypes'
  <2>1. \A o \in SessionOps : Append(arrivals, o) \in Seq(Tasks \cup SessionOps)
    BY AppendProperties DEF HistTypes
  <2> QED BY <2>1 DEF HistTypes, SessionOps
<1> QED BY <1>1, <1>2, <1>3, <1>4, <1>5, <1>6 DEF TypeOK

(* A step that changes nothing keeps the types. *)
LEMMA TypeStutter == TypeOK /\ UNCHANGED vars => TypeOK'
BY DEF TypeOK, vars, TaskTypes, JobsTypes, WorkerTypes, HandlerTypes,
   StopTypes, HistTypes

(* Every variable of every thread keeps its type. *)
THEOREM TypeCorrect == Spec => []TypeOK
<1>1. TypeOK /\ [Next]_vars => TypeOK'
    BY TypeWorker, TypeCallers, TypeOthers, TypeStutter DEF Next
<1> QED BY <1>1, TypeInit, PTL DEF Spec

-----------------------------------------------------------------------------
(* The inductive invariant. *)

(* What pop_front, push_back and erase do to the set of queued tasks. *)
LEMMA PopLemma ==
    ASSUME queue \in Seq(Tasks), Distinct(queue), queue # <<>>,
           queue' = Tail(queue)
    PROVE  /\ Queued(Head(queue))
           /\ Head(queue) \in Tasks
           /\ \A u : Queued(u)' <=> Queued(u) /\ u # Head(queue)
           /\ Distinct(queue')
<1>1. /\ Len(queue) \in Nat \ {0} /\ DOMAIN queue = 1..Len(queue)
      /\ Head(queue) = queue[1] /\ queue[1] \in Tasks
    BY LenProperties, EmptySeq, HeadTailProperties
<1>2. /\ queue' \in Seq(Tasks) /\ DOMAIN queue' = 1..(Len(queue) - 1)
      /\ \A i \in 1..(Len(queue) - 1) : queue'[i] = queue[i + 1]
    BY <1>1, LenProperties, HeadTailProperties
<1>3. Queued(Head(queue))
    BY <1>1 DEF Queued
<1>4. ASSUME NEW u PROVE Queued(u)' <=> Queued(u) /\ u # Head(queue)
  <2>1. ASSUME Queued(u)' PROVE Queued(u) /\ u # Head(queue)
    BY <1>1, <1>2, <2>1 DEF Queued, Distinct
  <2>2. ASSUME Queued(u), u # Head(queue) PROVE Queued(u)'
    <3>1. PICK i \in 1..Len(queue) : queue[i] = u
      BY <1>1, <2>2 DEF Queued
    <3>2. i - 1 \in 1..(Len(queue) - 1) /\ queue'[i - 1] = u
      BY <1>1, <1>2, <2>2, <3>1
    <3> QED BY <1>2, <3>2 DEF Queued
  <2> QED BY <2>1, <2>2
<1>5. Distinct(queue')
    BY <1>1, <1>2 DEF Distinct
<1> QED BY <1>1, <1>3, <1>4, <1>5

(* The push_back of enqueue adds its task and keeps the queue distinct. *)
LEMMA PushLemma ==
    ASSUME queue \in Seq(Tasks), Distinct(queue), NEW t \in Tasks,
           ~Queued(t), queue' = Append(queue, t)
    PROVE  /\ \A u : Queued(u)' <=> Queued(u) \/ u = t
           /\ Distinct(queue')
<1>1. Len(queue) \in Nat /\ DOMAIN queue = 1..Len(queue)
    BY LenProperties
<1>2. /\ DOMAIN queue' = 1..(Len(queue) + 1)
      /\ \A i \in 1..Len(queue) : queue'[i] = queue[i]
      /\ queue'[Len(queue) + 1] = t
    BY <1>1, LenProperties, AppendProperties
<1>3. ASSUME NEW u PROVE Queued(u)' <=> Queued(u) \/ u = t
    BY <1>1, <1>2 DEF Queued
<1>4. Distinct(queue')
    BY <1>1, <1>2 DEF Queued, Distinct
<1> QED BY <1>3, <1>4

(* The erase in Jobs::cancel removes its task and keeps the queue distinct. *)
LEMMA EraseLemma ==
    ASSUME queue \in Seq(Tasks), Distinct(queue), NEW t \in Tasks,
           NEW i \in DOMAIN queue, queue[i] = t, queue' = Erased(queue, i)
    PROVE  /\ \A u : Queued(u)' <=> Queued(u) /\ u # t
           /\ Distinct(queue')
<1>1. Len(queue) \in Nat /\ DOMAIN queue = 1..Len(queue) /\ i \in 1..Len(queue)
    BY LenProperties
<1>2. DOMAIN queue' = 1..(Len(queue) - 1)
    BY <1>1 DEF Erased
<1>3. \A j \in 1..(Len(queue) - 1) :
          queue'[j] = IF j < i THEN queue[j] ELSE queue[j + 1]
    BY DEF Erased
<1>4. ASSUME NEW u PROVE Queued(u)' <=> Queued(u) /\ u # t
  <2>1. ASSUME Queued(u)' PROVE Queued(u) /\ u # t
    <3>1. PICK j \in 1..(Len(queue) - 1) : queue'[j] = u
      BY <1>2, <2>1 DEF Queued
    <3>2. PICK k \in 1..Len(queue) : k # i /\ queue[k] = u
      BY <1>1, <1>3, <3>1
    <3> QED BY <1>1, <3>2 DEF Queued, Distinct
  <2>2. ASSUME Queued(u), u # t PROVE Queued(u)'
    <3>1. PICK k \in 1..Len(queue) : queue[k] = u
      BY <1>1, <2>2 DEF Queued
    <3>2. CASE k < i
      BY <1>1, <1>2, <1>3, <3>1, <3>2 DEF Queued
    <3>3. CASE k > i
      <4>1. k - 1 \in 1..(Len(queue) - 1) /\ queue'[k - 1] = u
        BY <1>1, <1>3, <3>1, <3>3
      <4> QED BY <1>2, <4>1 DEF Queued
    <3> QED BY <1>1, <2>2, <3>1, <3>2, <3>3
  <2> QED BY <2>1, <2>2
<1>5. Distinct(queue')
    BY <1>1, <1>2, <1>3 DEF Distinct
<1> QED BY <1>4, <1>5

(* One more piece in the buffer, and one piece read out of it. *)
LEMMA CountsAppend ==
    ASSUME NEW S, NEW r \in Seq(S), NEW p \in Seq(S), NEW k \in S, k \in Int,
           Counts(r, p, k - 1)
    PROVE  Counts(r, Append(p, k), k)
<1> DEFINE q == Append(p, k)
<1>1. /\ Len(r) \in Nat /\ Len(p) \in Nat /\ Len(q) = Len(p) + 1
      /\ \A i \in 1..Len(p) : q[i] = p[i]
      /\ q[Len(p) + 1] = k
    BY LenProperties, AppendProperties
<1> HIDE DEF q
<1>2. /\ Len(r) + Len(p) = k - 1
      /\ \A i \in 1..Len(r) : r[i] = i
      /\ \A i \in 1..Len(p) : p[i] = Len(r) + i
    BY DEF Counts
<1>3. Len(r) + Len(q) = k
    BY <1>1, <1>2
<1>4. ASSUME NEW i \in 1..Len(q) PROVE q[i] = Len(r) + i
  <2>1. CASE i \in 1..Len(p)
    BY <1>1, <1>2, <2>1
  <2>2. CASE i = Len(p) + 1
    <3>1. Len(r) + i = k
      BY <1>1, <1>2, <2>2
    <3> QED BY <1>1, <2>2, <3>1
  <2>3. i \in 1..Len(p) \/ i = Len(p) + 1
    BY <1>1
  <2> QED BY <2>1, <2>2, <2>3
<1>5. Counts(r, q, k)
    BY <1>2, <1>3, <1>4 DEF Counts
<1> QED BY <1>5 DEF q

(* A piece moved from the buffer to the reader leaves their sum. *)
LEMMA Shift == \A a, b, k \in Int : a + b = k => (a + 1) + (b - 1) = k
OBVIOUS

(* pull_available moves the first buffered piece to the end of those read. *)
LEMMA CountsPull ==
    ASSUME NEW S, NEW r \in Seq(S), NEW p \in Seq(S), p # <<>>, NEW k \in Int,
           Counts(r, p, k)
    PROVE  Counts(Append(r, Head(p)), Tail(p), k)
<1> DEFINE q == Append(r, Head(p))
           w == Tail(p)
<1>1. /\ Len(p) \in Nat /\ Len(p) > 0 /\ Head(p) = p[1]
      /\ Len(w) = Len(p) - 1
      /\ \A i \in 1..Len(w) : w[i] = p[i + 1]
    BY LenProperties, EmptySeq, HeadTailProperties
<1>2. /\ Len(r) \in Nat /\ Len(q) = Len(r) + 1
      /\ \A i \in 1..Len(r) : q[i] = r[i]
      /\ q[Len(r) + 1] = Head(p)
    BY LenProperties, AppendProperties, HeadTailProperties
<1>3. /\ Len(r) + Len(p) = k
      /\ \A i \in 1..Len(r) : r[i] = i
      /\ \A i \in 1..Len(p) : p[i] = Len(r) + i
    BY DEF Counts
<1> HIDE DEF q, w
<1>4. Len(q) + Len(w) = k
  <2>1. Len(q) \in Int /\ Len(w) \in Int
    BY <1>1, <1>2
  <2>2. Len(r) \in Int /\ Len(p) \in Int /\ Len(r) + Len(p) = k
    BY <1>1, <1>2, <1>3
  <2>3. (Len(r) + 1) + (Len(p) - 1) = k
    BY <2>2, Shift
  <2> QED BY <1>1, <1>2, <2>3
<1>5. ASSUME NEW i \in 1..Len(q) PROVE q[i] = i
  <2>1. CASE i = Len(r) + 1
    <3>1. 1 \in 1..Len(p) /\ q[i] = p[1]
        BY <1>1, <1>2, <2>1
    <3>2. p[1] = Len(r) + 1
        BY <1>3, <3>1
    <3> QED BY <2>1, <3>1, <3>2
  <2>2. CASE i # Len(r) + 1
    <3>1. i \in 1..Len(r)
        BY <1>2, <2>2
    <3> QED BY <1>2, <1>3, <3>1
  <2> QED BY <2>1, <2>2
<1>6. ASSUME NEW i \in 1..Len(w) PROVE w[i] = Len(q) + i
  <2>1. i \in Int /\ i + 1 \in 1..Len(p)
    BY <1>1
  <2>2. w[i] = Len(r) + (i + 1)
    BY <1>1, <1>3, <2>1
  <2> QED BY <1>2, <2>1, <2>2
<1>7. Counts(q, w, k)
    BY <1>4, <1>5, <1>6 DEF Counts
<1> QED BY <1>7 DEF q, w

(* What each operation does to the marks of a buffer. *)
LEMMA BufferMarks ==
    ASSUME NEW P, NEW b \in TokenBuffers(P), NEW x
    PROVE  /\ PushPiece(b, x).done = b.done
           /\ PushPiece(b, x).cancelled = b.cancelled
           /\ b.done => PushPiece(b, x) = b
           /\ DropFront(b).done = b.done
           /\ DropFront(b).cancelled = b.cancelled
           /\ SetDone(b).done /\ SetDone(b).cancelled = b.cancelled
           /\ CancelBuffer(b).done /\ CancelBuffer(b).cancelled
           /\ SetDone(b).pieces = b.pieces
           /\ CancelBuffer(b).pieces = b.pieces
BY DEF TokenBuffers, SetDone, CancelBuffer, PushPiece, DropFront

(* The same of the buffer of every task, and of the piece at hand. *)
Marked ==
    \A t \in Tasks :
        /\ buf[t].done \in BOOLEAN /\ buf[t].cancelled \in BOOLEAN
        /\ PushPiece(buf[t], sampled).done = buf[t].done
        /\ PushPiece(buf[t], sampled).cancelled = buf[t].cancelled
        /\ buf[t].done => PushPiece(buf[t], sampled) = buf[t]
        /\ DropFront(buf[t]).done = buf[t].done
        /\ DropFront(buf[t]).cancelled = buf[t].cancelled
        /\ SetDone(buf[t]).done
        /\ SetDone(buf[t]).cancelled = buf[t].cancelled
        /\ CancelBuffer(buf[t]).done /\ CancelBuffer(buf[t]).cancelled
        /\ SetDone(buf[t]).pieces = buf[t].pieces
        /\ CancelBuffer(buf[t]).pieces = buf[t].pieces

(* The marks of every task's buffer change as BufferMarks says. *)
LEMMA Marks == TypeOK => Marked
<1> SUFFICES ASSUME TypeOK, NEW t \in Tasks, NEW b, b = buf[t], NEW x, x = sampled
             PROVE  /\ b.done \in BOOLEAN /\ b.cancelled \in BOOLEAN
                    /\ PushPiece(b, x).done = b.done
                    /\ PushPiece(b, x).cancelled = b.cancelled
                    /\ b.done => PushPiece(b, x) = b
                    /\ DropFront(b).done = b.done
                    /\ DropFront(b).cancelled = b.cancelled
                    /\ SetDone(b).done
                    /\ SetDone(b).cancelled = b.cancelled
                    /\ CancelBuffer(b).done /\ CancelBuffer(b).cancelled
                    /\ SetDone(b).pieces = b.pieces
                    /\ CancelBuffer(b).pieces = b.pieces
    BY DEF Marked
<1>1. b \in TokenBuffers(0..MaxPieces)
    BY DEF TypeOK, TaskTypes
<1>2. b.done \in BOOLEAN /\ b.cancelled \in BOOLEAN
    BY <1>1 DEF TokenBuffers
<1> QED BY <1>1, <1>2, BufferMarks

(* A step that touches neither buffer nor reader keeps what they hold. *)
LEMMA HoldsSame ==
    ASSUME NEW t, read'[t] = read[t], buf'[t].pieces = buf[t].pieces
    PROVE  \A k : Holds(t, k)' <=> Holds(t, k)
BY DEF Holds

(* A push into an open buffer makes it hold one more piece. *)
LEMMA HoldsPushed ==
    ASSUME TypeOK, NEW t \in Tasks, NEW k \in 1..MaxPieces, Holds(t, k - 1),
           ~buf[t].cancelled, ~buf[t].done, UNCHANGED read,
           buf' = [buf EXCEPT ![t] = PushPiece(buf[t], k)]
    PROVE  Holds(t, k)'
<1>1. k \in 0..MaxPieces /\ k \in Int
    BY JobsAssumption
<1>2. /\ buf[t].pieces \in Seq(0..MaxPieces) /\ read[t] \in Seq(0..MaxPieces)
      /\ buf'[t].pieces = Append(buf[t].pieces, k)
    BY DEF TypeOK, TaskTypes, HandlerTypes, TokenBuffers, PushPiece
<1> QED BY <1>1, <1>2, CountsAppend DEF Holds

(* A pull loses nothing and reorders nothing. *)
LEMMA HoldsPulled ==
    ASSUME TypeOK, NEW t \in Tasks, buf[t].pieces # <<>>,
           read' = [read EXCEPT ![t] = Append(read[t], Head(buf[t].pieces))],
           buf' = [buf EXCEPT ![t] = DropFront(buf[t])]
    PROVE  \A u \in Tasks, k \in Int : Holds(u, k) => Holds(u, k)'
<1>1. /\ buf[t].pieces \in Seq(0..MaxPieces) /\ read[t] \in Seq(0..MaxPieces)
      /\ buf'[t].pieces = Tail(buf[t].pieces)
      /\ read'[t] = Append(read[t], Head(buf[t].pieces))
    BY DEF TypeOK, TaskTypes, HandlerTypes, TokenBuffers, DropFront
<1>2. \A u \in Tasks : u # t => buf'[u] = buf[u] /\ read'[u] = read[u]
    BY DEF TypeOK, TaskTypes, HandlerTypes
<1>3. ASSUME NEW k \in Int, Holds(t, k) PROVE Holds(t, k)'
    BY <1>1, <1>3, CountsPull DEF Holds
<1> QED BY <1>2, <1>3 DEF Holds

-----------------------------------------------------------------------------
(* IInv is inductive, and what follows from it. *)

(* The groups of actions. *)
Moving == LoopTop \/ WaitStopped \/ WaitFindsNothing \/ FallAsleep
       \/ SpuriousWake \/ ReleasesApplied \/ TokenCallback \/ ChatReturns
       \/ Dispatch
Preparing == ApplyClone \/ CloneHook \/ ApplyRelease \/ WorkerExits
          \/ SetCurrent
Generating == Sample \/ ChatThrows \/ SetFullResult \/ ResetCurrent
           \/ CheckCancelled
Deciding == WaitTakes \/ StartRun \/ SkipCancelled \/ Publish
Ending == WorkerTakes \/ WorkerRuns
Leaving == StopServer \/ Join
Writing(t) == WriteFrames(t) \/ WriteFails(t) \/ PullEof(t)
           \/ AwaitFinished(t)
Cancelling(t) == CancelStream(t) \/ CancelQueued(t) \/ HandlerTakes(t)
              \/ HandlerRuns(t) \/ HandlerReleases(t)
Stopping(s) == RequestStop(s) \/ StopCallback(s) \/ CollectTasks(s)

(* Every step of the threads is in one of the groups, or is named here. *)
LEMMA NextCases ==
    ASSUME Next
    PROVE  \/ Moving \/ Preparing \/ Generating \/ Deciding \/ PushToken
           \/ Ending \/ WorkerReleases \/ Leaving
           \/ \E t \in Tasks : \/ SubmitRequest(t) \/ AwaitReady(t) \/ Writing(t)
                               \/ Pull(t) \/ CancelLookup(t) \/ CancelFlag(t)
                               \/ Cancelling(t)
           \/ \E r \in Releases : RequestRelease(r)
           \/ \E c \in Clones : RequestClone(c)
           \/ \E s \in Stoppers : \/ Stopping(s) \/ ShutdownStream(s)
                                  \/ NotifyAll(s)
                                  \/ \E t \in Tasks : ShutdownFlag(s, t)
BY DEF Next, Worker, Handler, ShutdownSteps, Moving, Preparing, Generating,
   Deciding, Ending, Leaving, Writing, Cancelling, Stopping

(* Below, the actions in a group are read with their definitions. *)
USE DEF taskVars, jobsVars, workerVars, handlerVars, stopVars, histVars,
    LoopTop, WaitStopped, WaitFindsNothing, FallAsleep, SpuriousWake,
    ReleasesApplied, TokenCallback, ChatReturns, Dispatch, ApplyClone,
    CloneHook, ApplyRelease, WorkerExits, Sample, ChatThrows, SetCurrent,
    ResetCurrent, CheckCancelled, SetFullResult, WaitTakes, StartRun,
    SkipCancelled, Publish, WorkerTakes, WorkerRuns, StopServer, Join,
    AwaitFinished, WriteFrames, WriteFails, PullEof, CancelStream,
    CancelQueued, HandlerTakes, HandlerRuns, HandlerReleases, RequestStop,
    CollectTasks, StopCallback, Moves, GoTo, NoWork, HookReleases,
    JudgedOutcome, TakenReleases, SetCancelled, Published, TakeCallback,
    RunCallback, ReleaseStream, ReleasedStream, StopperAt, Proceed,
    HandlerMoves, TakesOver, Enqueue, EnqueueForgets, Woken, FinalWake

(* What a lookup by a handler that cancels does to the queue. *)
Takeover(t) ==
    /\ Distinct(queue')
    /\ \A u \in Tasks : u # t => /\ own'[u] = own[u] /\ hpc'[u] = hpc[u]
                                 /\ Queued(u)' <=> Queued(u)
    /\ own'[t] => own[t] \/ (Queued(t) /\ ~Queued(t)')
    /\ own[t] => own'[t]
    /\ Queued(t)' => Queued(t)
    /\ hpc'[t] \in {"flag", "end"}

LEMMA OthersStay ==
    ASSUME NEW t, Takeover(t), NEW u \in Tasks, u # t
    PROVE  own'[u] = own[u] /\ hpc'[u] = hpc[u] /\ (Queued(u)' <=> Queued(u))
BY DEF Takeover

(* What the three actions on the queue make of it. *)
LEMMA QueueAfterWait ==
    ASSUME TypeOK, QueueInv, WaitTakes
    PROVE  /\ Distinct(queue')
           /\ queue = <<>> => wtask' = wtask /\ \A u : Queued(u)' <=> Queued(u)
           /\ queue # <<>> => /\ Queued(wtask') /\ wtask' \in Tasks
                              /\ \A u : Queued(u)' <=> Queued(u) /\ u # wtask'
<1>1. CASE queue = <<>>
    BY <1>1 DEF Queued, QueueInv, Distinct
<1>2. CASE queue # <<>>
  <2>1. wtask' = Head(queue) /\ queue' = Tail(queue) /\ queue \in Seq(Tasks)
    BY <1>2 DEF PopQueue, TypeOK, JobsTypes
  <2> QED BY <1>2, <2>1, PopLemma DEF QueueInv
<1> QED BY <1>1, <1>2

(* A submitted task was not in the queue, and is its new last element. *)
LEMMA QueueAfterSubmit ==
    ASSUME TypeOK, QueueInv, HandlerInv, NEW t \in Tasks, SubmitRequest(t)
    PROVE  /\ state[t] = "none" /\ ~Queued(t)
           /\ \A u : Queued(u)' <=> Queued(u) \/ u = t
           /\ Distinct(queue')
<1>1. hpc[t] = "idle" /\ state[t] = "none" /\ ~Queued(t)
    BY DEF SubmitRequest, HandlerInv, QueueInv
<1>2. queue \in Seq(Tasks) /\ queue' = Append(queue, t)
    BY DEF TypeOK, JobsTypes, SubmitRequest
<1> QED BY <1>1, <1>2, PushLemma DEF QueueInv

(* Jobs::cancel takes at most the looked up task out of the queue. *)
LEMMA QueueAfterCancel ==
    ASSUME TypeOK, QueueInv, NEW t \in Tasks, CancelLookup(t)
    PROVE  Takeover(t)
<1> USE DEF Takeover
<1>1. own \in [Tasks -> BOOLEAN] /\ hpc \in [Tasks -> HandlerPoints]
    BY DEF TypeOK, HandlerTypes
<1>2. /\ \A u \in Tasks \ {t} : hpc'[u] = hpc[u]
      /\ hpc'[t] \in {"flag", "end"}
    BY <1>1 DEF CancelLookup
<1>3. CASE Queued(t) /\ t \in tasks
  <2>1. PICK i \in DOMAIN queue : queue[i] = t /\ queue' = Erased(queue, i)
    BY <1>3 DEF CancelLookup
  <2>2. /\ \A u : Queued(u)' <=> Queued(u) /\ u # t
        /\ Distinct(queue')
    BY <2>1, EraseLemma DEF TypeOK, JobsTypes, QueueInv
  <2>3. own' = [own EXCEPT ![t] = TRUE]
    BY <1>3 DEF CancelLookup
  <2> QED BY <1>1, <1>2, <1>3, <2>2, <2>3
<1>4. CASE ~(Queued(t) /\ t \in tasks)
  <2>1. UNCHANGED <<queue, own>>
    BY <1>4 DEF CancelLookup
  <2>2. (\A u : Queued(u)' <=> Queued(u)) /\ Distinct(queue')
    BY <2>1 DEF Queued, Distinct, QueueInv
  <2> QED BY <1>2, <2>1, <2>2
<1> QED BY <1>3, <1>4

(* The worker's task stays its own. *)
LEMMA WorkerInvStep == ASSUME TypeOK, IInv, Next PROVE WorkerInv'
<1> USE JobsAssumption DEF TypeOK, IInv, IdlePoints, PickPoints, RunPoints,
    EndPoints, Holding, WorkerInv, QueueInv, HandlerInv, IsFinished, Finished,
    WorkerTypes, TaskTypes, HandlerTypes
<1>1. ASSUME Moving \/ Preparing \/ Generating \/ PushToken PROVE WorkerInv'
    BY <1>1 DEF Moving, Preparing, Generating, PushToken, Queued
<1>2. ASSUME StartRun \/ SkipCancelled \/ Publish \/ Ending \/ WorkerReleases
            \/ Leaving
       PROVE WorkerInv'
    BY <1>2 DEF Ending, WorkerReleases, Leaving, Queued
<1>3. ASSUME NEW t \in Tasks, AwaitReady(t) \/ Writing(t) \/ Pull(t) \/
            CancelFlag(t) \/ Cancelling(t)
       PROVE WorkerInv'
    BY <1>3 DEF AwaitReady, Writing, Pull, CancelFlag, Cancelling, Queued
<1>4. ASSUME NEW s \in Stoppers, Stopping(s) \/ NotifyAll(s) \/
            ShutdownStream(s)
       PROVE WorkerInv'
    BY <1>4 DEF Stopping, NotifyAll, ShutdownStream, Queued
<1>5. ASSUME NEW s \in Stoppers, NEW t \in Tasks, ShutdownFlag(s, t)
       PROVE WorkerInv'
    BY <1>5 DEF ShutdownFlag, Queued
<1>6. ASSUME NEW r \in Releases, RequestRelease(r) PROVE WorkerInv'
    BY <1>6 DEF RequestRelease, Queued
<1>7. ASSUME NEW c \in Clones, RequestClone(c) PROVE WorkerInv'
    BY <1>7 DEF RequestClone, Queued
<1>8. ASSUME WaitTakes PROVE WorkerInv'
    BY <1>8, QueueAfterWait
<1>9. Deciding => WorkerInv'
    BY <1>2, <1>8 DEF Deciding
<1>10. ASSUME NEW t \in Tasks, SubmitRequest(t) PROVE WorkerInv'
  <2>1. /\ state[t] = "none" /\ Distinct(queue')
        /\ \A u : Queued(u)' <=> Queued(u) \/ u = t
    BY <1>10, QueueAfterSubmit
  <2>2. /\ state' = [state EXCEPT ![t] = "Queued"]
        /\ UNCHANGED <<wtask, own>>
        /\ wpc' \in {wpc, "wait"} /\ (wpc \notin IdlePoints => wpc' = wpc)
    BY <1>10 DEF SubmitRequest
  <2>3. wtask \in Tasks => wtask # t
    BY <2>1 DEF ControlPoints
  <2>4. wtask \in Tasks => ~own'[wtask] /\ ~Queued(wtask)'
    BY <2>1, <2>2, <2>3
  <2>5. \A u \in Tasks : u # t => state'[u] = state[u]
    BY <2>2
  <2>6. state'[t] = "Queued"
    BY <2>2
  <2> QED BY <2>2, <2>3, <2>4, <2>5, <2>6
<1>11. ASSUME NEW t \in Tasks, CancelLookup(t) PROVE WorkerInv'
  <2>1. UNCHANGED <<wpc, wtask, state>>
    BY <1>11 DEF CancelLookup
  <2>2. Takeover(t)
    BY <1>11, QueueAfterCancel
  <2>3. ASSUME NEW u \in Tasks, ~own[u], ~Queued(u)
        PROVE  ~own'[u] /\ ~Queued(u)'
    <3>1. CASE u = t
      BY <2>2, <2>3, <3>1 DEF Takeover
    <3>2. CASE u # t
      BY <2>2, <2>3, <3>2 DEF Takeover
    <3> QED BY <3>1, <3>2
  <2> QED BY <2>1, <2>3
<1> QED BY NextCases, <1>1, <1>2, <1>3, <1>4, <1>5, <1>6, <1>7, <1>8, <1>9,
    <1>10, <1>11

(* The queue keeps waiting tasks only, each once. *)
LEMMA QueueInvStep == ASSUME TypeOK, IInv, Next PROVE QueueInv'
<1> USE JobsAssumption DEF TypeOK, IInv, IdlePoints, PickPoints, RunPoints,
    EndPoints, Holding, QueueInv, WorkerInv, HandlerInv, IsFinished, Finished,
    WorkerTypes, TaskTypes, HandlerTypes
<1>1. ASSUME Moving \/ Preparing \/ Generating \/ PushToken PROVE QueueInv'
    BY <1>1 DEF Moving, Preparing, Generating, PushToken, Queued, Distinct
<1>2. ASSUME StartRun \/ SkipCancelled \/ Publish \/ Ending \/ WorkerReleases
            \/ Leaving
       PROVE QueueInv'
    BY <1>2 DEF Ending, WorkerReleases, Leaving, Queued, Distinct
<1>3. ASSUME NEW t \in Tasks, AwaitReady(t) \/ Writing(t) \/ Pull(t) \/
            CancelFlag(t) \/ Cancelling(t)
       PROVE QueueInv'
    BY <1>3 DEF AwaitReady, Writing, Pull, CancelFlag, Cancelling, Queued,
       Distinct
<1>4. ASSUME NEW s \in Stoppers, Stopping(s) \/ NotifyAll(s) \/
            ShutdownStream(s)
       PROVE QueueInv'
    BY <1>4 DEF Stopping, NotifyAll, ShutdownStream, Queued, Distinct
<1>5. ASSUME NEW s \in Stoppers, NEW t \in Tasks, ShutdownFlag(s, t)
       PROVE QueueInv'
    BY <1>5 DEF ShutdownFlag, Queued, Distinct
<1>6. ASSUME NEW r \in Releases, RequestRelease(r) PROVE QueueInv'
    BY <1>6 DEF RequestRelease, Queued, Distinct
<1>7. ASSUME NEW c \in Clones, RequestClone(c) PROVE QueueInv'
    BY <1>7 DEF RequestClone, Queued, Distinct
<1>8. ASSUME WaitTakes PROVE QueueInv'
    BY <1>8, QueueAfterWait
<1>9. Deciding => QueueInv'
    BY <1>2, <1>8 DEF Deciding
<1>10. ASSUME NEW t \in Tasks, SubmitRequest(t) PROVE QueueInv'
  <2>1. /\ state[t] = "none" /\ Distinct(queue')
        /\ \A u : Queued(u)' <=> Queued(u) \/ u = t
    BY <1>10, QueueAfterSubmit
  <2>2. /\ state' = [state EXCEPT ![t] = "Queued"]
        /\ UNCHANGED <<wtask, own>>
        /\ wpc' \in {wpc, "wait"} /\ (wpc \notin IdlePoints => wpc' = wpc)
    BY <1>10 DEF SubmitRequest
  <2> QED BY <2>1, <2>2
<1>11. ASSUME NEW t \in Tasks, CancelLookup(t) PROVE QueueInv'
  <2>1. state' = state
    BY <1>11 DEF CancelLookup
  <2>2. Takeover(t)
    BY <1>11, QueueAfterCancel
  <2> QED BY <2>1, <2>2 DEF Takeover
<1> QED BY NextCases, <1>1, <1>2, <1>3, <1>4, <1>5, <1>6, <1>7, <1>8, <1>9,
    <1>10, <1>11

(* A handler finishes the tasks it took out of the queue, and no others. *)
LEMMA HandlerInvStep == ASSUME TypeOK, IInv, Next PROVE HandlerInv'
<1> USE JobsAssumption DEF TypeOK, IInv, IdlePoints, PickPoints, RunPoints,
    EndPoints, Holding, HandlerInv, WorkerInv, QueueInv, CallbackInv,
    IsFinished, Finished, WorkerTypes, TaskTypes, HandlerTypes
<1>1. ASSUME Moving \/ Preparing \/ Generating \/ PushToken PROVE HandlerInv'
    BY <1>1 DEF Moving, Preparing, Generating, PushToken, Queued
<1>2. ASSUME StartRun \/ SkipCancelled \/ Publish \/ Ending \/ WorkerReleases
            \/ Leaving
       PROVE HandlerInv'
    BY <1>2 DEF Ending, WorkerReleases, Leaving, Queued
<1>3. ASSUME NEW t \in Tasks, Writing(t) \/ Pull(t) \/ CancelFlag(t) \/
            Cancelling(t)
       PROVE HandlerInv'
    BY <1>3 DEF Writing, Pull, CancelFlag, Cancelling, Queued
<1>4. ASSUME NEW s \in Stoppers, Stopping(s) \/ NotifyAll(s) \/
            ShutdownStream(s)
       PROVE HandlerInv'
    BY <1>4 DEF Stopping, NotifyAll, ShutdownStream, Queued
<1>5. ASSUME NEW s \in Stoppers, NEW t \in Tasks, ShutdownFlag(s, t)
       PROVE HandlerInv'
    BY <1>5 DEF ShutdownFlag, Queued
<1>6. ASSUME NEW r \in Releases, RequestRelease(r) PROVE HandlerInv'
    BY <1>6 DEF RequestRelease, Queued
<1>7. ASSUME NEW c \in Clones, RequestClone(c) PROVE HandlerInv'
    BY <1>7 DEF RequestClone, Queued
<1>8. ASSUME WaitTakes PROVE HandlerInv'
    BY <1>8, QueueAfterWait
<1>9. Deciding => HandlerInv'
    BY <1>2, <1>8 DEF Deciding
<1>10. ASSUME NEW t \in Tasks, SubmitRequest(t) PROVE HandlerInv'
  <2>1. /\ ~own[t] /\ reply[t] = "none" /\ \A u : Queued(u)' <=> Queued(u) \/ u = t
    BY <1>10, QueueAfterSubmit DEF SubmitRequest
  <2> QED BY <1>10, <2>1 DEF SubmitRequest
<1>11. ASSUME NEW t \in Tasks, CancelLookup(t) PROVE HandlerInv'
  <2>1. UNCHANGED <<state, reply>> /\ hpc[t] = "lookup"
    BY <1>11 DEF CancelLookup
  <2>2. Takeover(t)
    BY <1>11, QueueAfterCancel
  <2>3. /\ hpc'[t] \in {"flag", "end"} /\ state[t] # "none"
        /\ own'[t] => state[t] = "Queued" /\ ~Queued(t)'
    BY <2>1, <2>2 DEF Takeover
  <2>4. \A u \in Tasks : u # t => /\ own'[u] = own[u] /\ hpc'[u] = hpc[u]
                                  /\ Queued(u)' <=> Queued(u)
    BY <2>2 DEF Takeover
  <2> QED BY <2>1, <2>3, <2>4
<1>12. ASSUME NEW t \in Tasks, AwaitReady(t) PROVE HandlerInv'
  <2>1. IsFinished(t)
    BY <1>12 DEF AwaitReady, CallbackInv
  <2> QED BY <1>12, <2>1 DEF AwaitReady, Queued
<1> QED BY NextCases, <1>1, <1>2, <1>3, <1>4, <1>5, <1>6, <1>7, <1>8, <1>9,
    <1>10, <1>11, <1>12

(* The callback is taken and run once. *)
LEMMA CallbackInvStep == ASSUME TypeOK, IInv, Next PROVE CallbackInv'
<1> USE JobsAssumption DEF TypeOK, IInv, IdlePoints, PickPoints, RunPoints,
    EndPoints, Holding, CallbackInv, WorkerInv, HandlerInv, IsFinished,
    Finished, WorkerTypes, TaskTypes, HandlerTypes
<1>1. ASSUME Moving \/ Preparing \/ Generating \/ PushToken PROVE CallbackInv'
    BY <1>1 DEF Moving, Preparing, Generating, PushToken
<1>2. ASSUME Deciding \/ Ending \/ WorkerReleases \/ Leaving
       PROVE CallbackInv'
    BY <1>2 DEF Deciding, Ending, WorkerReleases, Leaving
<1>3. ASSUME NEW t \in Tasks, SubmitRequest(t) \/ AwaitReady(t) \/ Writing(t)
            \/ Pull(t)
       PROVE CallbackInv'
    BY <1>3 DEF SubmitRequest, AwaitReady, Writing, Pull
<1>4. ASSUME NEW t \in Tasks, CancelLookup(t) \/ CancelFlag(t)
       PROVE CallbackInv'
    BY <1>4 DEF CancelLookup, CancelFlag
<1>5. ASSUME NEW t \in Tasks, Cancelling(t) PROVE CallbackInv'
  <2>1. CASE CancelStream(t) \/ CancelQueued(t)
    BY <2>1
  <2>2. CASE HandlerTakes(t)
    BY <2>2
  <2>3. CASE HandlerRuns(t)
    BY <2>3
  <2>4. CASE HandlerReleases(t)
    BY <2>4
  <2> QED BY <1>5, <2>1, <2>2, <2>3, <2>4 DEF Cancelling
<1>6. ASSUME NEW s \in Stoppers, Stopping(s) \/ NotifyAll(s) \/
            ShutdownStream(s)
       PROVE CallbackInv'
    BY <1>6 DEF Stopping, NotifyAll, ShutdownStream
<1>7. ASSUME NEW s \in Stoppers, NEW t \in Tasks, ShutdownFlag(s, t)
       PROVE CallbackInv'
    BY <1>7 DEF ShutdownFlag
<1>8. ASSUME NEW r \in Releases, RequestRelease(r) PROVE CallbackInv'
    BY <1>8 DEF RequestRelease
<1>9. ASSUME NEW c \in Clones, RequestClone(c) PROVE CallbackInv'
    BY <1>9 DEF RequestClone
<1> QED BY NextCases, <1>1, <1>2, <1>3, <1>4, <1>5, <1>6, <1>7, <1>8, <1>9

(* The flag is up before anything that follows from a cancel. *)
LEMMA FlagInvStep == ASSUME TypeOK, IInv, Next PROVE FlagInv'
<1>0. Marked
    BY Marks
<1> USE JobsAssumption, <1>0 DEF TypeOK, IInv, IdlePoints, PickPoints,
    RunPoints, EndPoints, Holding, FlagInv, WorkerInv, HandlerInv, IsFinished,
    Finished, WorkerTypes, TaskTypes, HandlerTypes, StopTypes, Marked
<1>1. ASSUME Moving PROVE FlagInv'
    BY <1>1 DEF Moving
<1>2. ASSUME Preparing \/ Generating PROVE FlagInv'
    BY <1>2 DEF Preparing, Generating
<1>3. ASSUME Deciding PROVE FlagInv'
    BY <1>3 DEF Deciding
<1>4. ASSUME PushToken PROVE FlagInv'
    BY <1>4 DEF PushToken
<1>5. ASSUME Ending \/ WorkerReleases \/ Leaving PROVE FlagInv'
  <2>1. CASE Ending \/ Leaving
    BY <2>1 DEF Ending, Leaving
  <2>2. CASE WorkerReleases
    BY <2>2 DEF WorkerReleases
  <2> QED BY <1>5, <2>1, <2>2
<1>6. ASSUME NEW t \in Tasks, AwaitReady(t) PROVE FlagInv'
    BY <1>6 DEF AwaitReady
<1>7. ASSUME NEW t \in Tasks, Writing(t) PROVE FlagInv'
    BY <1>7 DEF Writing
<1>8. ASSUME NEW t \in Tasks, Pull(t) PROVE FlagInv'
    BY <1>8 DEF Pull
<1>9. ASSUME NEW t \in Tasks, CancelFlag(t) PROVE FlagInv'
    BY <1>9 DEF CancelFlag
<1>10. ASSUME NEW t \in Tasks, SubmitRequest(t) PROVE FlagInv'
    BY <1>10 DEF SubmitRequest
<1>11. ASSUME NEW t \in Tasks, CancelLookup(t) PROVE FlagInv'
    BY <1>11 DEF CancelLookup
<1>12. ASSUME NEW t \in Tasks, Cancelling(t) PROVE FlagInv'
    BY <1>12 DEF Cancelling
<1>13. ASSUME NEW s \in Stoppers, Stopping(s) PROVE FlagInv'
    BY <1>13 DEF Stopping
<1>14. ASSUME NEW s \in Stoppers, NotifyAll(s) PROVE FlagInv'
    BY <1>14 DEF NotifyAll
<1>15. ASSUME NEW s \in Stoppers, ShutdownStream(s) PROVE FlagInv'
    BY <1>15 DEF ShutdownStream
<1>16. ASSUME NEW s \in Stoppers, NEW t \in Tasks, ShutdownFlag(s, t)
       PROVE FlagInv'
    BY <1>16 DEF ShutdownFlag
<1>17. ASSUME NEW r \in Releases, RequestRelease(r) PROVE FlagInv'
    BY <1>17 DEF RequestRelease
<1>18. ASSUME NEW c \in Clones, RequestClone(c) PROVE FlagInv'
    BY <1>18 DEF RequestClone
<1> QED BY NextCases, <1>1, <1>2, <1>3, <1>4, <1>5, <1>6, <1>7, <1>8, <1>9,
    <1>10, <1>11, <1>12, <1>13, <1>14, <1>15, <1>16, <1>17, <1>18

(* No stream ends before its callback has run. *)
LEMMA StreamEndsAfterCallbackStep == ASSUME TypeOK, IInv, Next PROVE StreamEndsAfterCallback'
<1>0. Marked
    BY Marks
<1> USE JobsAssumption, <1>0 DEF TypeOK, IInv, IdlePoints, PickPoints,
    RunPoints, EndPoints, Holding, StreamEndsAfterCallback, WorkerInv,
    HandlerInv, CallbackInv, FlagInv, IsFinished, Finished, WorkerTypes,
    TaskTypes, HandlerTypes, StopTypes, Marked
<1>1. ASSUME Moving PROVE StreamEndsAfterCallback'
    BY <1>1 DEF Moving
<1>2. ASSUME Preparing \/ Generating PROVE StreamEndsAfterCallback'
    BY <1>2 DEF Preparing, Generating
<1>3. ASSUME Deciding PROVE StreamEndsAfterCallback'
  <2>1. CASE WaitTakes
    BY <2>1
  <2>2. CASE SkipCancelled
    BY <2>2
  <2>3. CASE Publish
    BY <2>3
  <2>4. CASE StartRun
    BY <2>4
  <2> QED BY <1>3, <2>1, <2>2, <2>3, <2>4 DEF Deciding
<1>4. ASSUME PushToken PROVE StreamEndsAfterCallback'
    BY <1>4 DEF PushToken
<1>5. ASSUME Ending \/ WorkerReleases \/ Leaving
       PROVE StreamEndsAfterCallback'
    BY <1>5 DEF Ending, WorkerReleases, Leaving
<1>6. ASSUME NEW t \in Tasks, AwaitReady(t) PROVE StreamEndsAfterCallback'
    BY <1>6 DEF AwaitReady
<1>7. ASSUME NEW t \in Tasks, Writing(t) PROVE StreamEndsAfterCallback'
    BY <1>7 DEF Writing
<1>8. ASSUME NEW t \in Tasks, Pull(t) PROVE StreamEndsAfterCallback'
    BY <1>8 DEF Pull
<1>9. ASSUME NEW t \in Tasks, CancelFlag(t) PROVE StreamEndsAfterCallback'
    BY <1>9 DEF CancelFlag
<1>10. ASSUME NEW t \in Tasks, SubmitRequest(t) PROVE StreamEndsAfterCallback'
    BY <1>10 DEF SubmitRequest
<1>11. ASSUME NEW t \in Tasks, CancelLookup(t) PROVE StreamEndsAfterCallback'
    BY <1>11 DEF CancelLookup
<1>12. ASSUME NEW t \in Tasks, Cancelling(t) PROVE StreamEndsAfterCallback'
    BY <1>12 DEF Cancelling
<1>13. ASSUME NEW s \in Stoppers, Stopping(s) PROVE StreamEndsAfterCallback'
    BY <1>13 DEF Stopping
<1>14. ASSUME NEW s \in Stoppers, NotifyAll(s) PROVE StreamEndsAfterCallback'
    BY <1>14 DEF NotifyAll
<1>15. ASSUME NEW s \in Stoppers, ShutdownStream(s)
       PROVE StreamEndsAfterCallback'
    BY <1>15 DEF ShutdownStream
<1>16. ASSUME NEW s \in Stoppers, NEW t \in Tasks, ShutdownFlag(s, t)
       PROVE StreamEndsAfterCallback'
    BY <1>16 DEF ShutdownFlag
<1>17. ASSUME NEW r \in Releases, RequestRelease(r)
       PROVE StreamEndsAfterCallback'
    BY <1>17 DEF RequestRelease
<1>18. ASSUME NEW c \in Clones, RequestClone(c) PROVE StreamEndsAfterCallback'
    BY <1>18 DEF RequestClone
<1> QED BY NextCases, <1>1, <1>2, <1>3, <1>4, <1>5, <1>6, <1>7, <1>8, <1>9,
    <1>10, <1>11, <1>12, <1>13, <1>14, <1>15, <1>16, <1>17, <1>18

(* The end of a stream is seen on an empty buffer. *)
LEMMA ReaderInvStep == ASSUME TypeOK, IInv, Next PROVE ReaderInv'
<1>0. Marked
    BY Marks
<1> USE JobsAssumption, <1>0 DEF TypeOK, IInv, IdlePoints, PickPoints,
    RunPoints, EndPoints, Holding, ReaderInv, WorkerInv, HandlerInv, FlagInv,
    IsFinished, Finished, WorkerTypes, TaskTypes, HandlerTypes, StopTypes,
    Marked
<1>1. ASSUME Moving PROVE ReaderInv'
    BY <1>1 DEF Moving
<1>2. ASSUME Preparing \/ Generating PROVE ReaderInv'
    BY <1>2 DEF Preparing, Generating
<1>3. ASSUME Deciding PROVE ReaderInv'
    BY <1>3 DEF Deciding
<1>4. ASSUME PushToken PROVE ReaderInv'
    BY <1>4 DEF PushToken
<1>5. ASSUME Ending PROVE ReaderInv'
    BY <1>5 DEF Ending
<1>6. ASSUME WorkerReleases PROVE ReaderInv'
    BY <1>6 DEF WorkerReleases
<1>7. ASSUME Leaving PROVE ReaderInv'
    BY <1>7 DEF Leaving
<1>8. ASSUME NEW t \in Tasks, SubmitRequest(t) \/ AwaitReady(t) \/ Writing(t)
            \/ Pull(t)
       PROVE ReaderInv'
    BY <1>8 DEF SubmitRequest, AwaitReady, Writing, Pull, AtEof, Pullable
<1>9. ASSUME NEW t \in Tasks, CancelLookup(t) \/ CancelFlag(t) \/
            Cancelling(t)
       PROVE ReaderInv'
    BY <1>9 DEF CancelLookup, CancelFlag, Cancelling
<1>10. ASSUME NEW s \in Stoppers, Stopping(s) PROVE ReaderInv'
    BY <1>10 DEF Stopping
<1>11. ASSUME NEW s \in Stoppers, NotifyAll(s) PROVE ReaderInv'
    BY <1>11 DEF NotifyAll
<1>12. ASSUME NEW s \in Stoppers, ShutdownStream(s) PROVE ReaderInv'
    BY <1>12 DEF ShutdownStream
<1>13. ASSUME NEW s \in Stoppers, NEW t \in Tasks, ShutdownFlag(s, t)
       PROVE ReaderInv'
    BY <1>13 DEF ShutdownFlag
<1>14. ASSUME NEW r \in Releases, RequestRelease(r) PROVE ReaderInv'
    BY <1>14 DEF RequestRelease
<1>15. ASSUME NEW c \in Clones, RequestClone(c) PROVE ReaderInv'
    BY <1>15 DEF RequestClone
<1> QED BY NextCases, <1>1, <1>2, <1>3, <1>4, <1>5, <1>6, <1>7, <1>8, <1>9,
    <1>10, <1>11, <1>12, <1>13, <1>14, <1>15

(* Nothing is lost between sampling and reading, but in PushToken, where    *)
(* one more piece arrives.                                                  *)
LEMMA HoldsKept ==
    ASSUME TypeOK, IInv, Next, ~PushToken
    PROVE  \A u \in Tasks, k \in Int : Holds(u, k) => Holds(u, k)'
<1> DEFINE Kept == \A u \in Tasks, k \in Int : Holds(u, k) => Holds(u, k)'
<1>1. ASSUME UNCHANGED read, \A u \in Tasks : buf'[u].pieces = buf[u].pieces
      PROVE  Kept
    BY <1>1, HoldsSame
<1>2. ASSUME NEW t \in Tasks, Pull(t) PROVE Kept
    BY <1>2, HoldsPulled DEF Pull
<1>3. ASSUME UNCHANGED <<read, buf>> PROVE Kept
    BY <1>1, <1>3
<1>4. ASSUME NEW t \in Tasks, UNCHANGED read,
             \/ buf' = [buf EXCEPT ![t] = CancelBuffer(buf[t])]
             \/ buf' = [buf EXCEPT ![t] = SetDone(buf[t])]
      PROVE  Kept
  <2>1. \A u \in Tasks : buf'[u].pieces = buf[u].pieces
    <3>1. Marked /\ buf \in [Tasks -> TokenBuffers(0..MaxPieces)]
      BY Marks DEF TypeOK, TaskTypes
    <3>2. \A u \in Tasks : \/ buf'[u] = buf[u]
                          \/ buf'[u] = CancelBuffer(buf[u])
                          \/ buf'[u] = SetDone(buf[u])
      BY <1>4, <3>1
    <3> QED BY <3>1, <3>2 DEF Marked
  <2> QED BY <1>1, <1>4, <2>1
<1>5. ASSUME Moving \/ Preparing \/ Generating \/ Leaving PROVE Kept
    BY <1>3, <1>5 DEF Moving, Preparing, Generating, Leaving
<1>6. ASSUME Deciding \/ Ending \/ WorkerReleases PROVE Kept
  <2>1. wtask \in Tasks \/ UNCHANGED <<read, buf>>
    BY <1>6 DEF Deciding, Ending, WorkerReleases, IInv, WorkerInv, Holding, EndPoints
  <2> QED BY <1>3, <1>4, <1>6, <2>1 DEF Deciding, Ending, WorkerReleases
<1>7. ASSUME NEW t \in Tasks, \/ SubmitRequest(t) \/ AwaitReady(t) \/ Writing(t)
                              \/ CancelLookup(t) \/ CancelFlag(t) \/ Cancelling(t)
      PROVE  Kept
    BY <1>3, <1>4, <1>7 DEF SubmitRequest, AwaitReady, Writing, CancelLookup,
       CancelFlag, Cancelling
<1>8. ASSUME NEW s \in Stoppers, ShutdownStream(s) PROVE Kept
    BY <1>4, <1>8 DEF IInv, FlagInv, ShutdownStream
<1>9. ASSUME NEW s \in Stoppers,
             Stopping(s) \/ NotifyAll(s) \/ \E t \in Tasks : ShutdownFlag(s, t)
      PROVE  Kept
    BY <1>3, <1>9 DEF Stopping, NotifyAll, ShutdownFlag
<1>10. ASSUME \/ \E r \in Releases : RequestRelease(r)
              \/ \E c \in Clones : RequestClone(c)
       PROVE  Kept
    BY <1>3, <1>10 DEF RequestRelease, RequestClone
<1> HIDE DEF Kept
<1>11. Kept
    BY NextCases, <1>2, <1>5, <1>6, <1>7, <1>8, <1>9, <1>10
<1> QED BY <1>11 DEF Kept

(* The stream of an uncancelled turn is whole. *)
LEMMA StreamInvStep == ASSUME TypeOK, IInv, Next PROVE StreamInv'
<1> USE JobsAssumption DEF TypeOK, IInv, IdlePoints, PickPoints, RunPoints,
    EndPoints, Holding, StreamInv, WorkerInv, HandlerInv, FlagInv, IsFinished,
    Finished, WorkerTypes, TaskTypes, HandlerTypes, StopTypes
<1> DEFINE Kept == \A u \in Tasks, k \in Int : Holds(u, k) => Holds(u, k)'
<1>1. ASSUME PushToken PROVE StreamInv'
  <2>1. /\ wtask \in Tasks /\ state[wtask] = "Running" /\ sampled \in 1..MaxPieces
        /\ buf' = [buf EXCEPT ![wtask] = PushPiece(buf[wtask], sampled)]
        /\ UNCHANGED <<read, wtask, sampled, flag>>
    BY <1>1 DEF PushToken
  <2>2. ~flag[wtask] => Holds(wtask, sampled)'
    <3>1. ASSUME ~flag[wtask]
          PROVE  Holds(wtask, sampled - 1)
      BY <1>1, <3>1 DEF PushToken
    <3>2. ASSUME ~flag[wtask]
          PROVE  ~buf[wtask].cancelled /\ ~buf[wtask].done
      BY <2>1, <3>2 DEF StreamEndsAfterCallback
    <3> DEFINE After(k) == Holds(wtask, k)'
    <3> HIDE DEF After
    <3>3. \A k \in 1..MaxPieces : k = sampled /\ ~flag[wtask] => After(k)
      <4> SUFFICES ASSUME NEW k \in 1..MaxPieces, k = sampled, ~flag[wtask]
                   PROVE  Holds(wtask, k)'
        BY DEF After
      <4>1. /\ Holds(wtask, k - 1) /\ ~buf[wtask].cancelled
            /\ ~buf[wtask].done /\ read' = read
            /\ buf' = [buf EXCEPT ![wtask] = PushPiece(buf[wtask], k)]
        BY <2>1, <3>1, <3>2
      <4> HIDE DEF TypeOK
      <4> QED BY <2>1, <4>1, HoldsPushed
    <3> QED BY <2>1, <3>3 DEF After
  <2>3. \A u \in Tasks \ {wtask} : UNCHANGED <<read[u], buf[u].pieces>>
    BY <2>1
  <2>4. \A u \in Tasks \ {wtask}, k \in Int : Holds(u, k) => Holds(u, k)'
    BY <2>3, HoldsSame
  <2>5. ASSUME NEW u \in Tasks, state'[u] \in {"none", "Queued"}
        PROVE  Holds(u, 0)'
    <3>1. u # wtask /\ Holds(u, 0)
      BY <1>1, <2>1, <2>5 DEF PushToken
    <3> QED BY <2>4, <3>1
  <2>6. ASSUME NEW u \in Tasks, state'[u] = "Done"
        PROVE  Holds(u, full[u])'
    <3>1. u # wtask /\ full[u] \in Int /\ Holds(u, full[u]) /\ full' = full
      BY <1>1, <2>1, <2>6 DEF PushToken
    <3>2. \A k : k = full[u] => Holds(u, k)'
      BY <2>4, <3>1
    <3> QED BY <3>1, <3>2
  <2>7. wpc' = "chat" /\ flag' = flag
    BY <1>1 DEF PushToken
  <2> QED BY <2>1, <2>2, <2>5, <2>6, <2>7
<1>2. ASSUME Kept PROVE StreamInv'
  <2>1. ASSUME Moving PROVE StreamInv'
      BY <2>1, <1>2 DEF Moving
  <2>2. ASSUME Preparing PROVE StreamInv'
      BY <2>2, <1>2 DEF Preparing
  <2>3. ASSUME Generating PROVE StreamInv'
    <3>1. CASE Sample
      BY <1>2, <3>1
    <3>2. CASE ChatThrows
      BY <1>2, <3>2
    <3>4. CASE SetFullResult
      BY <1>2, <3>4
    <3>3. CASE ResetCurrent \/ CheckCancelled
      BY <1>2, <3>3
    <3> QED BY <2>3, <3>1, <3>2, <3>3, <3>4 DEF Generating
  <2>4. ASSUME Deciding PROVE StreamInv'
      BY <2>4, <1>2 DEF Deciding
  <2>5. ASSUME Ending \/ WorkerReleases \/ Leaving PROVE StreamInv'
      BY <2>5, <1>2 DEF Ending, WorkerReleases, Leaving
  <2>6. ASSUME NEW t \in Tasks, SubmitRequest(t) \/ AwaitReady(t) \/ Writing(t)
              \/ Pull(t)
         PROVE StreamInv'
      BY <2>6, <1>2 DEF SubmitRequest, AwaitReady, Writing, Pull
  <2>7. ASSUME NEW t \in Tasks, CancelLookup(t) \/ CancelFlag(t)
         PROVE StreamInv'
      BY <2>7, <1>2 DEF CancelLookup, CancelFlag
  <2>8. ASSUME NEW t \in Tasks, Cancelling(t) PROVE StreamInv'
      BY <2>8, <1>2 DEF Cancelling
  <2>9. ASSUME NEW s \in Stoppers, Stopping(s) PROVE StreamInv'
      BY <2>9, <1>2 DEF Stopping
  <2>10. ASSUME NEW s \in Stoppers, NotifyAll(s) PROVE StreamInv'
      BY <2>10, <1>2 DEF NotifyAll
  <2>11. ASSUME NEW s \in Stoppers, ShutdownStream(s) PROVE StreamInv'
      BY <2>11, <1>2 DEF ShutdownStream
  <2>12. ASSUME NEW s \in Stoppers, NEW t \in Tasks, ShutdownFlag(s, t)
         PROVE StreamInv'
      BY <2>12, <1>2 DEF ShutdownFlag
  <2>13. ASSUME NEW r \in Releases, RequestRelease(r) PROVE StreamInv'
      BY <2>13, <1>2 DEF RequestRelease
  <2>14. ASSUME NEW c \in Clones, RequestClone(c) PROVE StreamInv'
      BY <2>14, <1>2 DEF RequestClone
  <2> QED BY NextCases, <1>1, <2>1, <2>2, <2>3, <2>4, <2>5, <2>6, <2>7, <2>8, <2>9,
      <2>10, <2>11, <2>12, <2>13, <2>14
<1> QED BY <1>1, <1>2, HoldsKept
-----------------------------------------------------------------------------
(* The invariant holds when the threads are started. *)
LEMMA InitIInv == Init => IInv
<1> SUFFICES ASSUME Init PROVE IInv
    OBVIOUS
<1> USE JobsAssumption DEF Init
<1>1. \A t \in Tasks : ~Queued(t)
    BY DEF Queued
<1>2. WorkerInv
    BY <1>1 DEF WorkerInv, IdlePoints, PickPoints, RunPoints, EndPoints, Holding
<1>3. QueueInv
    BY <1>1 DEF QueueInv, Distinct
<1>4. HandlerInv
    BY <1>1 DEF HandlerInv
<1>5. CallbackInv
    BY DEF CallbackInv, IsFinished, Finished
<1>6. FlagInv
    BY DEF FlagInv, EmptyBuffer, Stoppers
<1>7. StreamInv
  <2>1. \A t \in Tasks : Holds(t, 0)
    BY DEF Holds, Counts, EmptyBuffer
  <2> QED BY <2>1 DEF StreamInv
<1>8. ReaderInv
    BY DEF ReaderInv
<1>9. StreamEndsAfterCallback
    BY DEF StreamEndsAfterCallback, EmptyBuffer
<1> QED BY <1>2, <1>3, <1>4, <1>5, <1>6, <1>7, <1>8, <1>9 DEF IInv

(* The invariant depends on the variables of the model only. *)
LEMMA StutterIInv == IInv /\ UNCHANGED vars => IInv'
BY DEF IInv, vars, taskVars, jobsVars, workerVars, handlerVars, stopVars,
   histVars, WorkerInv, QueueInv, Queued, Distinct, HandlerInv, CallbackInv,
   FlagInv, StreamInv, Holds, ReaderInv, StreamEndsAfterCallback, IsFinished

(* Ownership of the tasks and the contents of the streams: IInv holds in    *)
(* every reachable state.                                                   *)
THEOREM InductiveInvariant == Spec => []IInv
<1>1. TypeOK /\ IInv /\ Next => IInv'
    BY WorkerInvStep, QueueInvStep, HandlerInvStep, CallbackInvStep,
       FlagInvStep, StreamInvStep, ReaderInvStep, StreamEndsAfterCallbackStep
    DEF IInv
<1>2. TypeOK /\ IInv /\ [Next]_vars => IInv'
    BY <1>1, StutterIInv
<1> QED BY <1>2, InitIInv, TypeCorrect, PTL DEF Spec

(* Unless a cancel was asked for, no client sees the end of a stream before *)
(* its task is final and the callback of the task has run.                  *)
THEOREM EndsAfterCallback == Spec => []StreamEndsAfterCallback
<1>1. IInv => StreamEndsAfterCallback
    BY DEF IInv
<1> QED BY <1>1, InductiveInvariant, PTL

(* A client whose response completed has read every piece, in order.        *)
THEOREM CompletedIsWhole == Spec => []CompletedStreamIsWhole
<1>1. ASSUME TypeOK, IInv, NEW t \in Streaming, reply[t] = "Done"
      PROVE  read[t] = [i \in 1..full[t] |-> i]
  <2>1. t \in Tasks /\ state[t] = "Done"
    BY <1>1, JobsAssumption DEF IInv, HandlerInv
  <2>2. buf[t].pieces = <<>> /\ Holds(t, full[t])
    BY <1>1, <2>1 DEF IInv, ReaderInv, StreamInv
  <2>3. read[t] \in Seq(0..MaxPieces)
    BY <1>1, <2>1 DEF TypeOK, HandlerTypes
  <2>4. Len(read[t]) = full[t] /\ \A i \in 1..Len(read[t]) : read[t][i] = i
    BY <2>2, <2>3, LenProperties DEF Holds, Counts
  <2>5. read[t] = [i \in 1..Len(read[t]) |-> read[t][i]]
    BY <2>3, LenProperties
  <2> QED BY <2>4, <2>5
<1>2. TypeOK /\ IInv => CompletedStreamIsWhole
    BY <1>1 DEF CompletedStreamIsWhole
<1> QED BY <1>2, InductiveInvariant, TypeCorrect, PTL
-----------------------------------------------------------------------------
(* What leaves the states of the tasks alone. *)
Quiet == UNCHANGED <<state, tasks>>

(* These steps neither change the state of a task nor forget one. *)
LEMMA QuietSteps ==
    \/ Moving \/ Preparing \/ Generating \/ WaitTakes \/ PushToken \/ Ending
    \/ WorkerReleases \/ Leaving
    \/ \E t \in Tasks : \/ AwaitReady(t) \/ Writing(t) \/ Pull(t) \/ CancelLookup(t)
                        \/ CancelFlag(t) \/ HandlerTakes(t) \/ HandlerRuns(t)
                        \/ HandlerReleases(t) \/ CancelStream(t)
    \/ \E r \in Releases : RequestRelease(r)
    \/ \E c \in Clones : RequestClone(c)
    \/ \E s \in Stoppers : \/ Stopping(s) \/ ShutdownStream(s) \/ NotifyAll(s)
                           \/ \E t \in Tasks : ShutdownFlag(s, t)
    => Quiet
<1> USE DEF taskVars, jobsVars, workerVars, handlerVars, stopVars, histVars, Quiet
<1>1. Moving => Quiet
    BY DEF Moving, LoopTop, WaitStopped, WaitFindsNothing, FallAsleep,
       SpuriousWake, ReleasesApplied, TokenCallback, ChatReturns, Dispatch, Moves
<1>2. Preparing \/ Generating \/ Leaving => Quiet
    BY DEF Preparing, ApplyClone, CloneHook, ApplyRelease, WorkerExits,
       SetCurrent, Generating, Sample, ChatThrows, SetFullResult,
       ResetCurrent, CheckCancelled, Leaving, StopServer, Join
<1>3. WaitTakes \/ PushToken \/ Ending \/ WorkerReleases => Quiet
    BY DEF WaitTakes, PushToken, Ending, WorkerTakes, WorkerRuns, WorkerReleases
<1>4. ASSUME NEW t \in Tasks
      PROVE  \/ AwaitReady(t) \/ Writing(t) \/ Pull(t) \/ CancelLookup(t)
             \/ CancelFlag(t) \/ HandlerTakes(t) \/ HandlerRuns(t)
             \/ HandlerReleases(t) \/ CancelStream(t)
             => Quiet
    BY DEF AwaitReady, Writing, AwaitFinished, WriteFrames, WriteFails,
       PullEof, HandlerMoves, Pull, CancelLookup, CancelFlag, HandlerTakes,
       HandlerRuns, HandlerReleases, CancelStream
<1>5. (\E r \in Releases : RequestRelease(r)) \/ (\E c \in Clones : RequestClone(c))
      => Quiet
    BY DEF RequestRelease, RequestClone
<1>6. ASSUME NEW s \in Stoppers
      PROVE  \/ Stopping(s) \/ ShutdownStream(s) \/ NotifyAll(s)
             \/ \E t \in Tasks : ShutdownFlag(s, t)
             => Quiet
    BY DEF Stopping, RequestStop, StopCallback, CollectTasks, ShutdownStream,
       NotifyAll, ShutdownFlag
<1> QED BY <1>1, <1>2, <1>3, <1>4, <1>5, <1>6

(* The steps that change the state of a task. *)
LEMMA LoudSteps ==
    ASSUME Next, ~Quiet
    PROVE  \/ StartRun \/ SkipCancelled \/ Publish
           \/ \E t \in Tasks : SubmitRequest(t) \/ CancelQueued(t)
<1> USE DEF Deciding, Cancelling
<1> QED BY NextCases, QuietSteps

(* No step forgets a task that is still queued or running. *)
LEMMA TrackedStep ==
    ASSUME TypeOK, IInv, UnfinishedTracked, Next
    PROVE  UnfinishedTracked'
<1> USE DEF TypeOK, TaskTypes, UnfinishedTracked, taskVars, jobsVars
<1>1. CASE Quiet
    BY <1>1 DEF Quiet
<1>2. CASE StartRun
  <2>1. wtask \in Tasks /\ state[wtask] = "Queued"
    BY <1>2 DEF StartRun, IInv, WorkerInv, Holding, PickPoints
  <2> QED BY <1>2, <2>1 DEF StartRun
<1>3. CASE SkipCancelled
    BY <1>3 DEF SkipCancelled, SetCancelled
<1>4. CASE Publish
    BY <1>4 DEF Publish, Published, WorkerTypes, Finished
<1>5. ASSUME NEW t \in Tasks, SubmitRequest(t) PROVE UnfinishedTracked'
    BY <1>5 DEF SubmitRequest, Enqueue, EnqueueForgets, IsFinished, Finished
<1>6. ASSUME NEW t \in Tasks, CancelQueued(t) PROVE UnfinishedTracked'
    BY <1>6 DEF CancelQueued, SetCancelled
<1> QED BY LoudSteps, <1>1, <1>2, <1>3, <1>4, <1>5, <1>6

(* Garbage collection never forgets a task that is not finished.            *)
THEOREM Tracked == Spec => []UnfinishedTracked
<1>1. Init => UnfinishedTracked
    BY DEF Init, UnfinishedTracked
<1>2. UnfinishedTracked /\ UNCHANGED vars => UnfinishedTracked'
    BY DEF UnfinishedTracked, vars, taskVars, jobsVars
<1>3. TypeOK /\ IInv /\ UnfinishedTracked /\ [Next]_vars => UnfinishedTracked'
    BY <1>2, TrackedStep
<1> QED BY <1>1, <1>3, InductiveInvariant, TypeCorrect, PTL DEF Spec
-----------------------------------------------------------------------------
(* Steps that tell no client anything. *)
LEMMA SilentSteps ==
    ASSUME Next, \A t \in Tasks : ~AwaitReady(t) /\ ~AwaitFinished(t)
    PROVE  UNCHANGED reply
<1> USE DEF taskVars, jobsVars, workerVars, handlerVars, stopVars, histVars
<1>1. Moving \/ Preparing \/ Generating \/ Leaving => UNCHANGED reply
    BY DEF Moving, LoopTop, WaitStopped, WaitFindsNothing, FallAsleep,
       SpuriousWake, ReleasesApplied, TokenCallback, ChatReturns, Dispatch,
       Moves, Preparing, ApplyClone, CloneHook, ApplyRelease, WorkerExits,
       SetCurrent, Generating, Sample, ChatThrows, SetFullResult,
       ResetCurrent, CheckCancelled, Leaving, StopServer, Join
<1>2. Deciding \/ PushToken \/ Ending \/ WorkerReleases => UNCHANGED reply
    BY DEF Deciding, WaitTakes, StartRun, SkipCancelled, Publish, PushToken,
       Ending, WorkerTakes, WorkerRuns, WorkerReleases
<1>3. ASSUME NEW t \in Tasks
      PROVE  \/ SubmitRequest(t) \/ Writing(t) \/ Pull(t) \/ CancelLookup(t)
             \/ CancelFlag(t) \/ Cancelling(t)
             => UNCHANGED reply
    BY DEF SubmitRequest, Writing, WriteFrames, WriteFails, PullEof,
       HandlerMoves, Pull, CancelLookup, CancelFlag, Cancelling, HandlerTakes,
       HandlerRuns, HandlerReleases, CancelStream, CancelQueued
<1>4. (\E r \in Releases : RequestRelease(r)) \/ (\E c \in Clones : RequestClone(c))
      => UNCHANGED reply
    BY DEF RequestRelease, RequestClone
<1>5. ASSUME NEW s \in Stoppers
      PROVE  \/ Stopping(s) \/ ShutdownStream(s) \/ NotifyAll(s)
             \/ \E t \in Tasks : ShutdownFlag(s, t)
             => UNCHANGED reply
    BY DEF Stopping, RequestStop, StopCallback, CollectTasks, ShutdownStream,
       NotifyAll, ShutdownFlag
<1> QED BY NextCases, <1>1, <1>2, <1>3, <1>4, <1>5

(* Each step of the threads is one of the service's, or none.               *)
LEMMA ServiceStep ==
    ASSUME TypeOK, IInv, Next
    PROVE  [Service!SvcNext]_(Service!svcVars)
<1> USE DEF TypeOK, TaskTypes, taskVars, handlerVars, Service!svcVars
<1>1. ASSUME NEW t \in Tasks, AwaitReady(t) \/ AwaitFinished(t)
      PROVE  Service!Tell(t)
  <2>1. IsFinished(t) /\ reply[t] = "none"
    BY <1>1 DEF AwaitReady, AwaitFinished, IInv, HandlerInv, CallbackInv
  <2> QED BY <1>1, <2>1 DEF AwaitReady, AwaitFinished, IsFinished, Finished,
             Service!Tell, Service!Finished
<1>2. ASSUME NEW t \in Tasks, SubmitRequest(t) PROVE Service!Submit(t)
    BY <1>2 DEF SubmitRequest, Enqueue, IInv, HandlerInv, Service!Submit
<1>3. ASSUME NEW t \in Tasks, CancelQueued(t)
      PROVE  Service!Finish(t, "Cancelled")
    BY <1>3 DEF CancelQueued, SetCancelled, IInv, HandlerInv, Service!Finish
<1>4. ASSUME StartRun PROVE wtask \in Tasks /\ Service!Start(wtask)
    BY <1>4 DEF StartRun, IInv, WorkerInv, Holding, PickPoints, Service!Start
<1>5. ASSUME SkipCancelled
      PROVE  wtask \in Tasks /\ Service!Finish(wtask, "Cancelled")
    BY <1>5 DEF SkipCancelled, SetCancelled, IInv, WorkerInv, Holding,
       PickPoints, Service!Finish
<1>6. ASSUME Publish
      PROVE  wtask \in Tasks /\ outcome \in Service!Finished
             /\ Service!Finish(wtask, outcome)
    BY <1>6 DEF Publish, Published, IInv, WorkerInv, Holding, RunPoints,
       WorkerTypes, Finished, Service!Finish, Service!Finished
<1>7. \/ \E t \in Tasks : AwaitReady(t) \/ AwaitFinished(t)
      \/ UNCHANGED reply
    BY SilentSteps
<1>8. \/ StartRun \/ SkipCancelled \/ Publish
      \/ \E t \in Tasks : SubmitRequest(t) \/ CancelQueued(t)
      \/ UNCHANGED state
    BY LoudSteps DEF Quiet
<1>9. "Cancelled" \in Service!Finished
    BY DEF Service!Finished
<1>10. Service!SvcNext \/ UNCHANGED <<state, reply>>
    BY <1>1, <1>2, <1>3, <1>4, <1>5, <1>6, <1>7, <1>8, <1>9 DEF Service!SvcNext
<1> QED BY <1>10

(* The threads together implement the abstract service of JobService: one   *)
(* request runs at a time, and each reaches one terminal state, which is    *)
(* the one its client is told.                                              *)
THEOREM Refinement == Spec => KeepsService
<1>1. Init => Service!SvcInit
    BY DEF Init, Service!SvcInit
<1>2. UNCHANGED vars => UNCHANGED Service!svcVars
    BY DEF vars, taskVars, handlerVars, Service!svcVars
<1>3. TypeOK /\ IInv /\ [Next]_vars => [Service!SvcNext]_(Service!svcVars)
    BY <1>2, ServiceStep
<1> QED BY <1>1, <1>3, InductiveInvariant, TypeCorrect, PTL
       DEF Spec, KeepsService, Service!SvcSpec


-----------------------------------------------------------------------------
(* The order in which requests and session calls reach the engine: OrderInv *)
(* is inductive with TypeOK and IInv. *)

(* push_back adds one member to a list. *)
LEMMA InAppend ==
    ASSUME NEW S, NEW q \in Seq(S), NEW z
    PROVE  \A x : In(x, Append(q, z)) <=> In(x, q) \/ x = z
<1>1. /\ Len(q) \in Nat /\ DOMAIN q = 1..Len(q)
      /\ DOMAIN Append(q, z) = 1..(Len(q) + 1)
      /\ \A i \in 1..Len(q) : Append(q, z)[i] = q[i]
      /\ Append(q, z)[Len(q) + 1] = z
    BY LenProperties, AppendProperties
<1>2. 1..(Len(q) + 1) = 1..Len(q) \cup {Len(q) + 1}
    BY <1>1
<1> QED BY <1>1, <1>2 DEF In

(* pop_front takes at most the first member out. *)
LEMMA InTail ==
    ASSUME NEW S, NEW q \in Seq(S), q # <<>>
    PROVE  \A x : In(x, q) => x = Head(q) \/ In(x, Tail(q))
<1>1. /\ Len(q) \in Nat \ {0} /\ DOMAIN q = 1..Len(q) /\ Head(q) = q[1]
      /\ Len(Tail(q)) = Len(q) - 1 /\ DOMAIN Tail(q) = 1..(Len(q) - 1)
      /\ \A i \in 1..(Len(q) - 1) : Tail(q)[i] = q[i + 1]
    BY LenProperties, HeadTailProperties, EmptySeq
<1>2. ASSUME NEW i \in 1..Len(q), i # 1
      PROVE  i - 1 \in 1..(Len(q) - 1) /\ (i - 1) + 1 = i
    BY <1>1, <1>2
<1>3. ASSUME NEW i \in 1..Len(q), i # 1 PROVE In(q[i], Tail(q))
    BY <1>1, <1>2, <1>3 DEF In
<1> QED BY <1>1, <1>3 DEF In

(* The empty list has no member. *)
LEMMA InEmpty == \A x : ~In(x, <<>>)
BY DEF In

(* What a new arrival comes after. *)
LEMMA ArrivalsAppend ==
    ASSUME TypeOK, NEW z \in Tasks \cup SessionOps,
           arrivals' = Append(arrivals, z)
    PROVE  /\ \A x : Arrived(x)' <=> Arrived(x) \/ x = z
           /\ \A x, y : Ahead(x, y)' <=> Ahead(x, y) \/ (Arrived(x) /\ y = z)
<1> DEFINE n == Len(arrivals)
<1>1. /\ n \in Nat /\ DOMAIN arrivals = 1..n
      /\ DOMAIN arrivals' = 1..(n + 1)
      /\ \A i \in 1..n : arrivals'[i] = arrivals[i]
      /\ arrivals'[n + 1] = z
    BY LenProperties, AppendProperties DEF TypeOK, HistTypes
<1>2. 1..(n + 1) = 1..n \cup {n + 1} /\ \A i \in 1..n : i < n + 1
    BY <1>1
<1>3. \A i \in 1..(n + 1), j \in 1..(n + 1) :
          i < j <=> \/ i \in 1..n /\ j \in 1..n /\ i < j
                    \/ i \in 1..n /\ j = n + 1
    BY <1>1
<1> HIDE DEF n
<1>4. \A x : Arrived(x)' <=> Arrived(x) \/ x = z
    BY <1>1, <1>2 DEF Arrived
<1>5. ASSUME NEW x, NEW y
      PROVE  Ahead(x, y)' <=> Ahead(x, y) \/ (Arrived(x) /\ y = z)
    BY <1>1, <1>2, <1>3 DEF Ahead, Arrived
<1> QED BY <1>4, <1>5

(* The first of the queue is ahead of all others, and pop_front keeps these *)
(* in order.                                                                *)
LEMMA AheadAfterPop ==
    ASSUME queue \in Seq(Tasks), queue # <<>>, queue' = Tail(queue)
    PROVE  /\ \A x, y : QueuedAhead(x, y)' => QueuedAhead(x, y)
           /\ \A x : Queued(x) => x = Head(queue) \/ QueuedAhead(Head(queue), x)
<1> DEFINE n == Len(queue)
<1>1. /\ n \in Nat \ {0} /\ DOMAIN queue = 1..n /\ Head(queue) = queue[1]
      /\ Len(Tail(queue)) = n - 1 /\ DOMAIN queue' = 1..(n - 1)
      /\ \A i \in 1..(n - 1) : queue'[i] = queue[i + 1]
    BY LenProperties, HeadTailProperties, EmptySeq
<1>2. /\ 1 \in 1..n
      /\ \A i \in 1..n : i = 1 \/ 1 < i
      /\ \A i \in 1..(n - 1) : i + 1 \in 1..n
      /\ \A i, j \in 1..(n - 1) : i < j => i + 1 < j + 1
    BY <1>1
<1> HIDE DEF n
<1>3. ASSUME NEW x, NEW y, QueuedAhead(x, y)' PROVE QueuedAhead(x, y)
  <2>1. PICK i \in 1..(n - 1), j \in 1..(n - 1) :
            i < j /\ queue'[i] = x /\ queue'[j] = y
    BY <1>1, <1>3 DEF QueuedAhead
  <2>2. /\ i + 1 \in 1..n /\ j + 1 \in 1..n /\ i + 1 < j + 1
        /\ queue[i + 1] = x /\ queue[j + 1] = y
    BY <1>1, <1>2, <2>1
  <2> QED BY <1>1, <2>2 DEF QueuedAhead
<1>4. ASSUME NEW x, Queued(x)
      PROVE  x = Head(queue) \/ QueuedAhead(Head(queue), x)
    BY <1>1, <1>2, <1>4 DEF Queued, QueuedAhead
<1> QED BY <1>3, <1>4

(* push_back puts a task behind those that are queued. *)
LEMMA AheadAfterPush ==
    ASSUME queue \in Seq(Tasks), NEW z \in Tasks, queue' = Append(queue, z)
    PROVE  \A x, y : QueuedAhead(x, y)' =>
               QueuedAhead(x, y) \/ (Queued(x) /\ y = z)
<1> DEFINE n == Len(queue)
<1>1. /\ n \in Nat /\ DOMAIN queue = 1..n /\ DOMAIN queue' = 1..(n + 1)
      /\ \A i \in 1..n : queue'[i] = queue[i]
      /\ queue'[n + 1] = z
    BY LenProperties, AppendProperties
<1>2. \A i \in 1..(n + 1), j \in 1..(n + 1) :
          i < j => \/ i \in 1..n /\ j \in 1..n
                   \/ i \in 1..n /\ j = n + 1
    BY <1>1
<1> HIDE DEF n
<1> QED BY <1>1, <1>2 DEF QueuedAhead, Queued

(* erase keeps the others in order. *)
LEMMA AheadAfterErase ==
    ASSUME queue \in Seq(Tasks), NEW k \in DOMAIN queue,
           queue' = Erased(queue, k)
    PROVE  \A x, y : QueuedAhead(x, y)' => QueuedAhead(x, y)
<1> DEFINE n == Len(queue)
           was(i) == IF i < k THEN i ELSE i + 1
<1>1. /\ n \in Nat /\ DOMAIN queue = 1..n /\ k \in 1..n
      /\ DOMAIN queue' = 1..(n - 1)
      /\ \A i \in 1..(n - 1) : queue'[i] = queue[was(i)]
    BY LenProperties DEF Erased
<1>2. /\ \A i \in 1..(n - 1) : was(i) \in 1..n
      /\ \A i, j \in 1..(n - 1) : i < j => was(i) < was(j)
    BY <1>1
<1> HIDE DEF n, was
<1> QED BY <1>1, <1>2 DEF QueuedAhead

(* Only wait_next, enqueue and cancel change the queue. *)
LEMMA QueueSteps ==
    ASSUME Next
    PROVE  \/ UNCHANGED queue
           \/ WaitTakes
           \/ \E t \in Tasks : SubmitRequest(t) \/ CancelLookup(t)
<1>1. Moving \/ Preparing \/ Generating \/ Leaving => UNCHANGED queue
    BY DEF Moving, LoopTop, WaitStopped, WaitFindsNothing, FallAsleep,
       SpuriousWake, ReleasesApplied, TokenCallback, ChatReturns, Dispatch,
       Moves, Preparing, ApplyClone, CloneHook, ApplyRelease, WorkerExits,
       SetCurrent, Generating, Sample, ChatThrows, SetFullResult,
       ResetCurrent, CheckCancelled, Leaving, StopServer, Join
<1>2. Deciding \/ PushToken \/ Ending \/ WorkerReleases
      => UNCHANGED queue \/ WaitTakes
    BY DEF Deciding, StartRun, SkipCancelled, Publish, PushToken,
       Ending, WorkerTakes, WorkerRuns, WorkerReleases
<1>3. ASSUME NEW t \in Tasks
      PROVE  AwaitReady(t) \/ Writing(t) \/ Pull(t) \/ CancelFlag(t)
             \/ Cancelling(t)
             => UNCHANGED queue
    BY DEF AwaitReady, AwaitFinished, Writing, WriteFrames, WriteFails,
       PullEof, HandlerMoves, Pull, CancelFlag, Cancelling, HandlerTakes,
       HandlerRuns, HandlerReleases, CancelStream, CancelQueued
<1>4. (\E r \in Releases : RequestRelease(r)) \/ (\E c \in Clones : RequestClone(c))
      => UNCHANGED queue
    BY DEF RequestRelease, RequestClone
<1>5. ASSUME NEW s \in Stoppers
      PROVE  \/ Stopping(s) \/ ShutdownStream(s) \/ NotifyAll(s)
             \/ \E t \in Tasks : ShutdownFlag(s, t)
             => UNCHANGED queue
    BY DEF Stopping, RequestStop, StopCallback, CollectTasks, ShutdownStream,
       NotifyAll, ShutdownFlag
<1> QED BY NextCases, <1>1, <1>2, <1>3, <1>4, <1>5

(* The call that lets z arrive. *)
Comes(z) == \/ z \in Tasks /\ SubmitRequest(z)
            \/ z \in Releases /\ RequestRelease(z)
            \/ z \in Clones /\ RequestClone(z)

(* Nothing else arrives. *)
LEMMA ArrivalSteps ==
    ASSUME Next
    PROVE  UNCHANGED arrivals \/ \E z \in Tasks \cup SessionOps : Comes(z)
<1> USE DEF Comes, SessionOps
<1>1. Moving \/ Preparing \/ Generating \/ Leaving => UNCHANGED arrivals
    BY DEF Moving, LoopTop, WaitStopped, WaitFindsNothing, FallAsleep,
       SpuriousWake, ReleasesApplied, TokenCallback, ChatReturns, Dispatch,
       Moves, Preparing, ApplyClone, CloneHook, ApplyRelease, WorkerExits,
       SetCurrent, Generating, Sample, ChatThrows, SetFullResult,
       ResetCurrent, CheckCancelled, Leaving, StopServer, Join
<1>2. Deciding \/ PushToken \/ Ending \/ WorkerReleases => UNCHANGED arrivals
    BY DEF Deciding, WaitTakes, StartRun, SkipCancelled, Publish, PushToken,
       Ending, WorkerTakes, WorkerRuns, WorkerReleases
<1>3. ASSUME NEW t \in Tasks
      PROVE  AwaitReady(t) \/ Writing(t) \/ Pull(t) \/ CancelLookup(t)
             \/ CancelFlag(t) \/ Cancelling(t)
             => UNCHANGED arrivals
    BY DEF AwaitReady, AwaitFinished, Writing, WriteFrames, WriteFails,
       PullEof, HandlerMoves, Pull, CancelLookup, CancelFlag, Cancelling,
       HandlerTakes, HandlerRuns, HandlerReleases, CancelStream, CancelQueued
<1>4. ASSUME NEW s \in Stoppers
      PROVE  \/ Stopping(s) \/ ShutdownStream(s) \/ NotifyAll(s)
             \/ \E t \in Tasks : ShutdownFlag(s, t)
             => UNCHANGED arrivals
    BY DEF Stopping, RequestStop, StopCallback, CollectTasks, ShutdownStream,
       NotifyAll, ShutdownFlag
<1> QED BY NextCases, <1>1, <1>2, <1>3, <1>4

(* Arrivals are never forgotten, and one comes after those that are there.  *)
LEMMA ArrivalStep ==
    ASSUME TypeOK, IInv, ArrivalInv, Next
    PROVE  /\ \A x : Arrived(x)' => Arrived(x) \/ Comes(x)
           /\ \A x, y : Ahead(x, y)' =>
                  Ahead(x, y) \/ (Arrived(x) /\ ~Arrived(y) /\ Comes(y))
<1>1. CASE UNCHANGED arrivals
    BY <1>1 DEF Arrived, Ahead
<1>2. ASSUME NEW z \in Tasks \cup SessionOps, Comes(z)
      PROVE  /\ arrivals' = Append(arrivals, z)
             /\ ~Arrived(z)
  <2>1. CASE z \in Tasks /\ SubmitRequest(z)
    BY <2>1 DEF SubmitRequest, Enqueue, IInv, HandlerInv, ArrivalInv
  <2> QED BY <1>2, <2>1 DEF Comes, RequestRelease, RequestClone
<1> QED BY <1>1, <1>2, ArrivalSteps, ArrivalsAppend
-----------------------------------------------------------------------------
(* A task waits once it is submitted, and only the worker's task starts. *)
LEMMA StateSteps ==
    ASSUME TypeOK, IInv, Next, NEW t \in Tasks
    PROVE  /\ state'[t] = "none" => state[t] = "none" /\ ~SubmitRequest(t)
           /\ state'[t] = "Queued" => state[t] = "Queued" \/ SubmitRequest(t)
           /\ SubmitRequest(t) => state[t] = "none" /\ state'[t] = "Queued"
           /\ Started(t)' => Started(t) \/ (t = wtask /\ wpc = "start")
<1> USE DEF TypeOK, TaskTypes, WorkerTypes, Started
<1>1. SubmitRequest(t) => state[t] = "none" /\ state'[t] = "Queued"
    BY DEF SubmitRequest, Enqueue, IInv, HandlerInv
<1>2. CASE Quiet
    BY <1>1, <1>2 DEF Quiet
<1>3. CASE StartRun
    BY <1>1, <1>3 DEF StartRun
<1>4. CASE SkipCancelled
    BY <1>1, <1>4 DEF SkipCancelled, SetCancelled
<1>5. CASE Publish
  <2>1. wtask \in Tasks /\ state[wtask] = "Running" /\ outcome \in Finished
    BY <1>5 DEF Publish, IInv, WorkerInv, Holding, RunPoints
  <2> QED BY <1>1, <1>5, <2>1 DEF Publish, Published, Finished
<1>6. ASSUME NEW u \in Tasks, SubmitRequest(u)
      PROVE  state' = [state EXCEPT ![u] = "Queued"]
    BY <1>6 DEF SubmitRequest, Enqueue
<1>7. ASSUME NEW u \in Tasks, CancelQueued(u)
      PROVE  state' = [state EXCEPT ![u] = "Cancelled"]
    BY <1>7 DEF CancelQueued, SetCancelled
<1> QED BY LoudSteps, <1>1, <1>2, <1>3, <1>4, <1>5, <1>6, <1>7

(* A request arrives once, and after those that are in the queue. *)
LEMMA ArrivalInvStep ==
    ASSUME TypeOK, IInv, ArrivalInv, Next PROVE ArrivalInv'
<1>0. queue \in Seq(Tasks) /\ Distinct(queue)
    BY DEF TypeOK, JobsTypes, IInv, QueueInv
<1>1. ASSUME NEW t \in Tasks, state'[t] = "none" PROVE ~Arrived(t)'
  <2>1. state[t] = "none" /\ ~SubmitRequest(t)
    BY <1>1, StateSteps
  <2>2. ~Arrived(t) /\ ~Comes(t)
    BY <2>1, JobsAssumption DEF ArrivalInv, Comes
  <2> QED BY <2>2, ArrivalStep
<1>2. ASSUME NEW t \in Tasks PROVE ~Ahead(t, t)'
    BY ArrivalStep DEF ArrivalInv
<1>3. ASSUME NEW t \in Tasks, NEW u \in Tasks, QueuedAhead(t, u)'
      PROVE  ~Ahead(u, t)'
  <2>1. CASE SubmitRequest(u) /\ Queued(t) /\ t # u
    <3>1. state[u] = "none" /\ ~Arrived(u) /\ state[t] = "Queued"
      BY <2>1, StateSteps DEF ArrivalInv, IInv, QueueInv
    <3>2. ~Ahead(u, t)
      BY <3>1 DEF Ahead, Arrived
    <3> QED BY <3>1, <3>2, ArrivalStep
  <2>2. CASE QueuedAhead(t, u)
    <3>1. Queued(t) /\ ~Ahead(u, t)
      BY <2>2 DEF ArrivalInv, QueuedAhead, Queued
    <3>2. state[t] = "Queued"
      BY <3>1 DEF IInv, QueueInv
    <3>3. ~Comes(t)
      BY <3>2, StateSteps, JobsAssumption DEF Comes
    <3> QED BY <3>1, <3>3, ArrivalStep
  <2>3. QueuedAhead(t, u) \/ (SubmitRequest(u) /\ Queued(t) /\ t # u)
    <3>1. CASE UNCHANGED queue
      BY <1>3, <3>1 DEF QueuedAhead
    <3>2. CASE WaitTakes
      <4>1. CASE queue = <<>>
        BY <1>3, <3>2, <4>1 DEF WaitTakes, QueuedAhead
      <4>2. CASE queue # <<>>
        <5>1. queue' = Tail(queue)
          BY <3>2, <4>2 DEF WaitTakes, PopQueue
        <5> QED BY <1>0, <1>3, <4>2, <5>1, AheadAfterPop
      <4> QED BY <4>1, <4>2
    <3>3. ASSUME NEW z \in Tasks, SubmitRequest(z)
          PROVE  QueuedAhead(t, u) \/ (SubmitRequest(u) /\ Queued(t) /\ t # u)
      <4>1. queue' = Append(queue, z)
        BY <3>3 DEF SubmitRequest, Enqueue
      <4>2. ~Queued(z)
        BY <3>3, StateSteps DEF IInv, QueueInv
      <4> QED BY <1>0, <1>3, <3>3, <4>1, <4>2, AheadAfterPush
    <3>4. ASSUME NEW z \in Tasks, CancelLookup(z)
          PROVE  QueuedAhead(t, u) \/ (SubmitRequest(u) /\ Queued(t) /\ t # u)
      <4>1. UNCHANGED queue \/ \E k \in DOMAIN queue : queue' = Erased(queue, k)
        BY <3>4 DEF CancelLookup, TakesOver
      <4> QED BY <1>0, <1>3, <3>1, <4>1, AheadAfterErase
    <3> QED BY QueueSteps, <3>1, <3>2, <3>3, <3>4
  <2> QED BY <2>1, <2>2, <2>3
<1> QED BY <1>1, <1>2, <1>3 DEF ArrivalInv

(* A waiting task is somebody's. *)
LEMMA WaitingInvStep ==
    ASSUME TypeOK, IInv, WaitingInv, Next PROVE WaitingInv'
<1> USE JobsAssumption DEF TypeOK, IInv, IdlePoints, PickPoints, RunPoints,
    EndPoints, Holding, WaitingInv, WorkerInv, HandlerInv, IsFinished,
    Finished, WorkerTypes, TaskTypes, HandlerTypes
<1>1. Moving \/ Preparing \/ Generating \/ PushToken => WaitingInv'
    BY DEF Moving, LoopTop, WaitStopped, WaitFindsNothing, FallAsleep,
       SpuriousWake, ReleasesApplied, TokenCallback, ChatReturns, Dispatch,
       Moves, GoTo, Preparing, ApplyClone, CloneHook, ApplyRelease,
       WorkerExits, SetCurrent, Generating, Sample, ChatThrows, SetFullResult,
       ResetCurrent, CheckCancelled, PushToken, Queued
<1>2. StartRun \/ SkipCancelled \/ Publish \/ Ending \/ WorkerReleases
      \/ Leaving => WaitingInv'
    BY DEF StartRun, SkipCancelled, SetCancelled, Publish, Published, Ending,
       WorkerTakes, WorkerRuns, WorkerReleases, Leaving, StopServer, Join,
       GoTo, Queued
<1>3. ASSUME NEW t \in Tasks, UNCHANGED <<queue, own, wtask, wpc>>,
             \A u \in Tasks \ {t} : state'[u] = state[u] /\ hpc'[u] = hpc[u],
             state'[t] = "Queued" =>
                 /\ state[t] = "Queued"
                 /\ own[t] => hpc'[t] \in {"flag", "buffer", "set"}
      PROVE  WaitingInv'
  <2>1. \A u : Queued(u)' <=> Queued(u)
    BY <1>3 DEF Queued
  <2> QED BY <1>3, <2>1
<1>4. ASSUME NEW t \in Tasks,
             \/ AwaitReady(t) \/ Writing(t) \/ Pull(t) \/ CancelFlag(t)
             \/ Cancelling(t)
      PROVE  WaitingInv'
  <2>1. CASE AwaitReady(t) \/ Writing(t) \/ Pull(t)
    <3>1. UNCHANGED <<queue, own, state, wtask, wpc>>
      BY <2>1 DEF AwaitReady, AwaitFinished, Writing, WriteFrames, WriteFails,
         PullEof, HandlerMoves, Pull
    <3>2. ~own[t] \/ IsFinished(t)
      BY <2>1 DEF AwaitReady, AwaitFinished, Writing, WriteFrames, WriteFails,
         PullEof, Pull, CallbackInv
    <3>3. \A u \in Tasks \ {t} : hpc'[u] = hpc[u]
      BY <2>1 DEF AwaitReady, AwaitFinished, Writing, WriteFrames, WriteFails,
         PullEof, HandlerMoves, Proceed, Pull
    <3> QED BY <1>3, <3>1, <3>2, <3>3
  <2>2. CASE CancelFlag(t)
    <3>1. UNCHANGED <<queue, own, state, wtask, wpc>> /\ hpc'[t] = "buffer"
      BY <2>2 DEF CancelFlag, Proceed
    <3>2. \A u \in Tasks \ {t} : hpc'[u] = hpc[u]
      BY <2>2 DEF CancelFlag, Proceed
    <3> QED BY <1>3, <3>1, <3>2
  <2>3. CASE CancelStream(t)
    <3>1. /\ UNCHANGED <<queue, own, state, wtask, wpc>>
          /\ own[t] => hpc'[t] = "set"
      BY <2>3 DEF CancelStream, Proceed
    <3>2. \A u \in Tasks \ {t} : hpc'[u] = hpc[u]
      BY <2>3 DEF CancelStream, Proceed
    <3> QED BY <1>3, <3>1, <3>2
  <2>4. CASE CancelQueued(t)
    <3>1. UNCHANGED <<queue, own, wtask, wpc>> /\ state'[t] = "Cancelled"
      BY <2>4 DEF CancelQueued, SetCancelled
    <3>2. \A u \in Tasks \ {t} : state'[u] = state[u] /\ hpc'[u] = hpc[u]
      BY <2>4 DEF CancelQueued, SetCancelled, Proceed
    <3> QED BY <1>3, <3>1, <3>2
  <2>5. CASE HandlerTakes(t) \/ HandlerRuns(t) \/ HandlerReleases(t)
    <3>1. UNCHANGED <<queue, own, state, wtask, wpc>> /\ state[t] = "Cancelled"
      BY <2>5 DEF HandlerTakes, HandlerRuns, HandlerReleases
    <3>2. \A u \in Tasks \ {t} : hpc'[u] = hpc[u]
      BY <2>5 DEF HandlerTakes, HandlerRuns, HandlerReleases, Proceed
    <3> QED BY <1>3, <3>1, <3>2
  <2> QED BY <1>4, <2>1, <2>2, <2>3, <2>4, <2>5 DEF Cancelling
<1>5. ASSUME NEW s \in Stoppers,
             \/ Stopping(s) \/ ShutdownStream(s) \/ NotifyAll(s)
             \/ \E t \in Tasks : ShutdownFlag(s, t)
      PROVE  WaitingInv'
    BY <1>5 DEF Stopping, RequestStop, StopCallback, CollectTasks,
       ShutdownStream, NotifyAll, ShutdownFlag, Woken, FinalWake,
       Queued
<1>6. (\E r \in Releases : RequestRelease(r)) \/ (\E c \in Clones : RequestClone(c))
      => WaitingInv'
    BY DEF RequestRelease, RequestClone, Woken, Queued
<1>7. WaitTakes => WaitingInv'
    BY QueueAfterWait DEF WaitTakes, GoTo
<1>8. ASSUME NEW t \in Tasks, SubmitRequest(t) PROVE WaitingInv'
  <2>1. \A u : Queued(u)' <=> Queued(u) \/ u = t
    BY <1>8, QueueAfterSubmit
  <2> QED BY <1>8, <2>1 DEF SubmitRequest, Enqueue, Woken
<1>9. ASSUME NEW t \in Tasks, CancelLookup(t) PROVE WaitingInv'
  <2>1. UNCHANGED <<state, wtask, wpc>>
    BY <1>9 DEF CancelLookup
  <2>2. Takeover(t) /\ ~own[t]
    BY <1>9, QueueAfterCancel DEF CancelLookup
  <2>3. own'[t] => hpc'[t] = "flag"
    BY <1>9, <2>2 DEF CancelLookup, TakesOver, Proceed
  <2>4. own'[t] \/ (Queued(t)' <=> Queued(t))
    BY <2>1, <2>2, <1>9 DEF CancelLookup, TakesOver, Takeover, Queued
  <2>5. ASSUME NEW u \in Tasks, state'[u] = "Queued"
        PROVE  /\ Queued(u)' \/ own'[u] \/ u = wtask' \/ wpc' \in {"park", "exited"}
               /\ own'[u] => hpc'[u] \in {"flag", "buffer", "set"}
    <3>1. /\ Queued(u) \/ own[u] \/ u = wtask \/ wpc \in {"park", "exited"}
          /\ own[u] => hpc[u] \in {"flag", "buffer", "set"}
        BY <2>1, <2>5 DEF WaitingInv
    <3>2. CASE u = t
        BY <2>1, <2>2, <2>3, <2>4, <3>1, <3>2
    <3>3. CASE u # t
      <4>1. own'[u] = own[u] /\ hpc'[u] = hpc[u] /\ (Queued(u)' <=> Queued(u))
        BY <2>2, <3>3, OthersStay
      <4>2. wtask' = wtask /\ wpc' = wpc
        BY <2>1
      <4> QED BY <3>1, <4>1, <4>2, Zenon
    <3> QED BY <3>2, <3>3
  <2> QED BY <2>5
<1> QED BY NextCases, <1>1, <1>2, <1>4, <1>5, <1>6, <1>7, <1>8, <1>9
    DEF Deciding

(* Only these steps change what the worker holds, or give a task away.      *)
LEMMA HoldSteps ==
    ASSUME TypeOK, IInv, Next
    PROVE  /\ wtask' \in {wtask, NoTask} \/ WaitTakes
           /\ \A t \in Tasks : own[t] => own'[t]
<1> USE DEF TypeOK, HandlerTypes
<1>1. Moving \/ Preparing \/ Generating \/ Leaving
      => wtask' \in {wtask, NoTask} /\ UNCHANGED own
    BY DEF Moving, LoopTop, WaitStopped, WaitFindsNothing, FallAsleep,
       SpuriousWake, ReleasesApplied, TokenCallback, ChatReturns, Dispatch,
       Moves, Preparing, ApplyClone, CloneHook, ApplyRelease, WorkerExits,
       SetCurrent, Generating, Sample, ChatThrows, SetFullResult,
       ResetCurrent, CheckCancelled, Leaving, StopServer, Join
<1>2. Deciding \/ PushToken \/ Ending \/ WorkerReleases
      => (wtask' \in {wtask, NoTask} \/ WaitTakes) /\ UNCHANGED own
    BY DEF Deciding, WaitTakes, StartRun, SkipCancelled, Publish, PushToken,
       Ending, WorkerTakes, WorkerRuns, WorkerReleases
<1>3. ASSUME NEW t \in Tasks
      PROVE  \/ SubmitRequest(t) \/ AwaitReady(t) \/ Writing(t) \/ Pull(t)
             \/ CancelFlag(t) \/ Cancelling(t)
             => UNCHANGED <<wtask, own>>
    BY DEF SubmitRequest, AwaitReady, AwaitFinished, Writing, WriteFrames,
       WriteFails, PullEof, HandlerMoves, Pull, CancelFlag, Cancelling,
       HandlerTakes, HandlerRuns, HandlerReleases, CancelStream, CancelQueued
<1>4. ASSUME NEW t \in Tasks, CancelLookup(t)
      PROVE  wtask' = wtask /\ \A u \in Tasks : own[u] => own'[u]
    BY <1>4 DEF CancelLookup, TakesOver
<1>5. (\E r \in Releases : RequestRelease(r)) \/ (\E c \in Clones : RequestClone(c))
      => UNCHANGED <<wtask, own>>
    BY DEF RequestRelease, RequestClone
<1>6. ASSUME NEW s \in Stoppers
      PROVE  \/ Stopping(s) \/ ShutdownStream(s) \/ NotifyAll(s)
             \/ \E t \in Tasks : ShutdownFlag(s, t)
             => UNCHANGED <<wtask, own>>
    BY DEF Stopping, RequestStop, StopCallback, CollectTasks, ShutdownStream,
       NotifyAll, ShutdownFlag
<1> QED BY NextCases, <1>1, <1>2, <1>3, <1>4, <1>5, <1>6

(* The worker takes the task that arrived first: those it passes are being  *)
(* cancelled.                                                               *)
LEMMA Popped ==
    ASSUME TypeOK, IInv, ArrivalInv, WaitingInv, WaitTakes, wtask' \in Tasks,
           NEW u \in Tasks, Ahead(u, wtask'), state[u] = "Queued"
    PROVE  own[u]
<1>1. wpc = "wait" /\ wtask = NoTask
    BY DEF WaitTakes, IInv, WorkerInv, IdlePoints
<1>2. queue # <<>> /\ wtask' = Head(queue) /\ queue' = Tail(queue)
    BY <1>1, JobsAssumption DEF WaitTakes, PopQueue
<1>3. \A x : Queued(x) => x = Head(queue) \/ QueuedAhead(Head(queue), x)
    BY <1>2, AheadAfterPop DEF TypeOK, JobsTypes
<1>4. ~Queued(u)
    BY <1>2, <1>3 DEF ArrivalInv
<1> QED BY <1>1, <1>4, JobsAssumption DEF WaitingInv

(* Whoever waits behind a task that was taken is being cancelled. *)
LEMMA PassedInvStep ==
    ASSUME TypeOK, IInv, ArrivalInv, WaitingInv, PassedInv, Next
    PROVE  PassedInv'
<1> SUFFICES ASSUME NEW t \in Tasks, NEW u \in Tasks, Ahead(u, t)',
                    t = wtask' \/ Started(t)', state'[u] = "Queued"
             PROVE  own'[u]
    BY DEF PassedInv
<1>1. ~Comes(t)
  <2>1. SubmitRequest(t) => state[t] = "none" /\ state'[t] = "Queued"
    BY StateSteps
  <2>2. SubmitRequest(t) => wtask' = wtask
    BY DEF SubmitRequest
  <2>3. t = wtask => state[t] # "none"
    BY JobsAssumption
    DEF TypeOK, WorkerTypes, ControlPoints, IInv, WorkerInv, IdlePoints,
       PickPoints, RunPoints, EndPoints, IsFinished, Finished
  <2>4. state'[t] = "Queued" => ~Started(t)'
    BY DEF Started
  <2> QED BY <2>1, <2>2, <2>3, <2>4, JobsAssumption DEF Comes
<1>2. Ahead(u, t)
    BY <1>1, ArrivalStep
<1>3. Arrived(u)
    BY <1>2 DEF Ahead, Arrived
<1>4. state[u] = "Queued"
    BY <1>3, StateSteps DEF ArrivalInv
<1>5. CASE t = wtask \/ Started(t)
    BY <1>2, <1>4, <1>5, HoldSteps DEF PassedInv
<1>6. CASE WaitTakes /\ t = wtask'
    BY <1>2, <1>4, <1>6, Popped, HoldSteps
<1>7. t = wtask \/ Started(t) \/ (WaitTakes /\ t = wtask')
    BY StateSteps, HoldSteps, JobsAssumption
<1> QED BY <1>5, <1>6, <1>7
-----------------------------------------------------------------------------
Rounds == {"dispatch", "clones", "releases"}
Ended  == {"park", "exited"}

(* The steps that move session calls, or lead from one part of the worker's *)
(* round to the next.                                                       *)
RoundStep == \/ WaitTakes \/ WaitStopped \/ Dispatch \/ ApplyClone \/ CloneHook
             \/ ApplyRelease \/ ReleasesApplied \/ WorkerExits
             \/ \E r \in Releases : RequestRelease(r)
             \/ \E c \in Clones : RequestClone(c)

(* The others. *)
Aside ==
    /\ UNCHANGED <<releases, clones, work, applied>>
    /\ wpc \in Rounds \/ wpc' \in Rounds => wpc' = wpc
    /\ wpc' \in {"begin", "start"} => wpc \in {"begin", "start"}
    /\ wpc \in Ended => wpc' \in Ended

(* Every step is one or the other. *)
LEMMA AsideSteps == ASSUME Next PROVE RoundStep \/ Aside
<1> USE DEF Aside, Rounds, Ended
<1>1. Moving => RoundStep \/ Aside
    BY DEF Moving, LoopTop, WaitFindsNothing, FallAsleep, SpuriousWake,
       TokenCallback, ChatReturns, Moves, GoTo, RoundStep
<1>2. Preparing \/ Generating \/ Leaving => RoundStep \/ Aside
    BY DEF Preparing, SetCurrent, Generating, Sample, ChatThrows,
       SetFullResult, ResetCurrent, CheckCancelled, Leaving, StopServer, Join,
       GoTo, RoundStep
<1>3. Deciding \/ PushToken \/ Ending \/ WorkerReleases => RoundStep \/ Aside
    BY DEF Deciding, StartRun, SkipCancelled, Publish, PushToken, Ending,
       WorkerTakes, WorkerRuns, WorkerReleases, GoTo, RoundStep
<1>4. ASSUME NEW t \in Tasks
      PROVE  \/ SubmitRequest(t) \/ AwaitReady(t) \/ Writing(t) \/ Pull(t)
             \/ CancelFlag(t) \/ CancelLookup(t) \/ Cancelling(t)
             => Aside
    BY DEF SubmitRequest, Enqueue, Woken, AwaitReady, AwaitFinished, Writing,
       WriteFrames, WriteFails, PullEof, HandlerMoves, Pull, CancelFlag,
       CancelLookup, Cancelling, HandlerTakes, HandlerRuns, HandlerReleases,
       CancelStream, CancelQueued
<1>5. ASSUME NEW s \in Stoppers
      PROVE  \/ Stopping(s) \/ ShutdownStream(s) \/ NotifyAll(s)
             \/ \E t \in Tasks : ShutdownFlag(s, t)
             => Aside
    BY DEF Stopping, RequestStop, StopCallback, CollectTasks, ShutdownStream,
       NotifyAll, ShutdownFlag, Woken, FinalWake
<1> QED BY NextCases, <1>1, <1>2, <1>3, <1>4, <1>5 DEF RoundStep

(* Where a session call can be, and when the worker has a round at hand. *)
Pending(o) == In(o, releases) \/ In(o, clones) \/ InWork(o) \/ In(o, applied)

WorkInv ==
    /\ wpc \notin Rounds => work = NoWork
    /\ wpc = "releases" => work.clones = <<>>

(* An empty round holds no session call. *)
LEMMA NoWorkIn == work = NoWork => \A o : ~InWork(o)
BY InEmpty DEF InWork, NoWork

(* A session call that arrived stays somewhere until it is made, unless the *)
(* worker leaves its loop, and what the worker took stays in its round.     *)
LEMMA PendingStep ==
    ASSUME TypeOK, WorkInv, Next
    PROVE  /\ WorkInv'
           /\ \A o : In(o, applied) => In(o, applied')
           /\ \A o : InWork(o) =>
                  InWork(o)' \/ In(o, applied') \/ wpc' = "park"
           /\ \A o : In(o, releases) \/ In(o, clones) =>
                  \/ In(o, releases') \/ In(o, clones') \/ InWork(o)'
           /\ WaitTakes =>
                  \A o : In(o, releases) \/ In(o, clones) => InWork(o)'
           /\ \A o \in SessionOps : Comes(o) => In(o, releases') \/ In(o, clones')
<1> DEFINE Goal ==
           /\ WorkInv'
           /\ \A o : In(o, applied) => In(o, applied')
           /\ \A o : InWork(o) =>
                  InWork(o)' \/ In(o, applied') \/ wpc' = "park"
           /\ \A o : In(o, releases) \/ In(o, clones) =>
                  \/ In(o, releases') \/ In(o, clones') \/ InWork(o)'
<1>0. /\ applied \in Seq(SessionOps)
      /\ work \in [clones : Seq(Clones), releases : Seq(Releases)]
      /\ releases \in Seq(Releases) /\ clones \in Seq(Clones)
    BY DEF TypeOK, HistTypes, WorkerTypes, JobsTypes
<1>1. ASSUME Aside PROVE Goal
    BY <1>1 DEF Aside, WorkInv, InWork, NoWork, Rounds
<1>2. ASSUME WaitTakes PROVE Goal
  <2>1. /\ work' = [clones |-> clones, releases |-> releases]
        /\ wpc = "wait" /\ wpc' = "dispatch" /\ UNCHANGED applied
    BY <1>2 DEF WaitTakes, TakenReleases, GoTo
  <2>2. \A o : ~InWork(o)
    BY <2>1, NoWorkIn DEF WorkInv, Rounds
  <2>3. \A o : InWork(o)' <=> In(o, clones) \/ In(o, releases)
    BY <2>1 DEF InWork
  <2> QED BY <2>1, <2>2, <2>3 DEF WorkInv, Rounds, NoWork
<1>3. ASSUME WaitStopped PROVE Goal
    BY <1>3 DEF WaitStopped, Moves, GoTo, WorkInv, Rounds, InWork, NoWork
<1>4. ASSUME Dispatch PROVE Goal
    BY <1>4 DEF Dispatch, GoTo, WorkInv, Rounds, InWork, NoWork
<1>5. ASSUME ApplyClone PROVE Goal
  <2>1. /\ applied' = Append(applied, Head(work.clones))
        /\ work'.clones = Tail(work.clones) /\ work'.releases = work.releases
        /\ wpc = "clones" /\ UNCHANGED <<wpc, releases, clones>>
    BY <1>0, <1>5 DEF ApplyClone
  <2>2. \A o : In(o, applied') <=> In(o, applied) \/ o = Head(work.clones)
    BY <1>0, <2>1, InAppend
  <2>3. \A o : In(o, work.clones) =>
                   o = Head(work.clones) \/ In(o, Tail(work.clones))
    BY <1>0, <1>5, InTail DEF ApplyClone
  <2> QED BY <2>1, <2>2, <2>3 DEF WorkInv, InWork, Rounds, NoWork
<1>6. ASSUME ApplyRelease PROVE Goal
  <2>1. /\ applied' = Append(applied, Head(work.releases))
        /\ work'.releases = Tail(work.releases) /\ work'.clones = work.clones
        /\ wpc = "releases" /\ UNCHANGED <<wpc, releases, clones>>
    BY <1>0, <1>6 DEF ApplyRelease
  <2>2. \A o : In(o, applied') <=> In(o, applied) \/ o = Head(work.releases)
    BY <1>0, <2>1, InAppend
  <2>3. \A o : In(o, work.releases) =>
                   o = Head(work.releases) \/ In(o, Tail(work.releases))
    BY <1>0, <1>6, InTail DEF ApplyRelease
  <2> QED BY <2>1, <2>2, <2>3 DEF WorkInv, InWork, Rounds, NoWork
<1>7. ASSUME CloneHook \/ WorkerExits PROVE Goal
  <2>1. /\ UNCHANGED <<work, releases, clones>>
        /\ \/ wpc = "clones" /\ work.clones = <<>> /\ wpc' = "releases"
           \/ wpc = "park" /\ wpc' = "exited"
    BY <1>7 DEF CloneHook, WorkerExits, GoTo
  <2>2. UNCHANGED applied \/ \E r : applied' = Append(applied, r)
    BY <1>7 DEF CloneHook, WorkerExits, HookReleases
  <2>3. \A r, o : In(o, applied) => In(o, Append(applied, r))
    BY <1>0, InAppend
  <2>4. \A o : In(o, applied) => In(o, applied')
    BY <2>2, <2>3
  <2> QED BY <2>1, <2>4 DEF WorkInv, InWork, Rounds, NoWork
<1>8. ASSUME ReleasesApplied PROVE Goal
  <2>1. /\ UNCHANGED <<work, releases, clones, applied>>
        /\ wpc = "releases" /\ work.releases = <<>> /\ work.clones = <<>>
    BY <1>8 DEF ReleasesApplied, Moves, WorkInv
  <2>2. work = NoWork
    BY <1>0, <2>1 DEF NoWork
  <2>3. wpc' \notin Rounds
    BY <1>8 DEF ReleasesApplied, Moves, GoTo, Rounds
  <2> QED BY <2>1, <2>2, <2>3 DEF WorkInv, InWork, Rounds, NoWork
<1>9. ASSUME NEW r \in Releases, RequestRelease(r)
      PROVE  Goal /\ In(r, releases')
  <2>1. \A o : In(o, releases') <=> In(o, releases) \/ o = r
    BY <1>0, <1>9, InAppend DEF RequestRelease
  <2> QED BY <1>9, <2>1 DEF RequestRelease, Woken, WorkInv, InWork, Rounds
<1>10. ASSUME NEW c \in Clones, RequestClone(c)
       PROVE  Goal /\ In(c, clones')
  <2>1. \A o : In(o, clones') <=> In(o, clones) \/ o = c
    BY <1>0, <1>10, InAppend DEF RequestClone
  <2> QED BY <1>10, <2>1 DEF RequestClone, Woken, WorkInv, InWork, Rounds
<1>11. Goal
    BY AsideSteps, <1>1, <1>2, <1>3, <1>4, <1>5, <1>6, <1>7, <1>8, <1>9, <1>10
    DEF RoundStep
<1>12. WaitTakes => \A o : In(o, releases) \/ In(o, clones) => InWork(o)'
    BY DEF WaitTakes, TakenReleases, InWork
<1>13. ASSUME NEW o \in SessionOps, Comes(o)
       PROVE  In(o, releases') \/ In(o, clones')
    BY <1>9, <1>10, <1>13, JobsAssumption DEF Comes, SessionOps
<1> QED BY <1>11, <1>12, <1>13

(* What arrived is pending or made. *)
LEMMA OpsInvStep ==
    ASSUME TypeOK, IInv, ArrivalInv, OpsInv, Next PROVE OpsInv'
<1>1. WorkInv
    BY DEF OpsInv, WorkInv, Rounds
<1>2. WorkInv'
    BY <1>1, PendingStep
<1>3. wpc \in Ended => wpc' \in Ended
    BY AsideSteps DEF Aside, RoundStep, Ended, WaitTakes, WaitStopped, Dispatch,
       ApplyClone, CloneHook, ApplyRelease, ReleasesApplied, WorkerExits,
       RequestRelease, RequestClone, Woken, GoTo
<1>4. ASSUME NEW o \in SessionOps, Arrived(o)'
      PROVE  \/ In(o, releases') \/ In(o, clones') \/ InWork(o)'
             \/ In(o, applied') \/ wpc' \in Ended
  <2>1. CASE Comes(o)
    BY <1>1, <2>1, PendingStep
  <2>2. CASE Arrived(o)
    <3>1. Pending(o) \/ wpc \in Ended
      BY <2>2 DEF OpsInv, Pending, Ended
    <3> QED BY <1>1, <1>3, <3>1, PendingStep DEF Pending, Ended
  <2> QED BY <1>4, <2>1, <2>2, ArrivalStep
<1> QED BY <1>2, <1>4 DEF OpsInv, WorkInv, Rounds, Ended

(* How the worker's control point follows the task it took. *)
LEMMA RoundSteps ==
    ASSUME TypeOK, IInv, Next
    PROVE  /\ wpc' \in Rounds =>
                  wpc \in Rounds \/ WaitTakes \/ wtask' = NoTask
           /\ wpc' \in {"begin", "start"} =>
                  \/ wpc \in {"begin", "start"}
                  \/ wpc = "releases" /\ work.releases = <<>> /\ UNCHANGED applied
<1>1. ASSUME RoundStep
      PROVE  /\ wpc' \in Rounds =>
                    wpc \in Rounds \/ WaitTakes \/ WaitStopped
             /\ wpc' \in {"begin", "start"} =>
                    \/ wpc \in {"begin", "start"}
                    \/ /\ wpc = "releases" /\ work.releases = <<>>
                       /\ UNCHANGED applied
    BY <1>1 DEF RoundStep, Rounds, WaitTakes, WaitStopped, Dispatch, Moves,
       ApplyClone, CloneHook, ApplyRelease, ReleasesApplied, WorkerExits,
       RequestRelease, RequestClone, Woken, GoTo
<1>2. WaitStopped => wtask' = NoTask
    BY DEF WaitStopped, Moves, IInv, WorkerInv, IdlePoints
<1> QED BY <1>1, <1>2, AsideSteps DEF Aside

(* A session call that arrived before a request is made before it starts. *)
LEMMA OpsFirstInvStep ==
    ASSUME TypeOK, IInv, ArrivalInv, OpsInv, OpsFirstInv, Next
    PROVE  OpsFirstInv'
<1> SUFFICES ASSUME NEW o \in SessionOps, NEW t \in Tasks, Ahead(o, t)'
             PROVE  /\ t = wtask' /\ wpc' \in Rounds
                           => InWork(o)' \/ In(o, applied')
                    /\ (t = wtask' /\ wpc' \in {"begin", "start"}) \/ Started(t)'
                           => In(o, applied')
    BY DEF OpsFirstInv, Rounds
<1>1. WorkInv
    BY DEF OpsInv, WorkInv, Rounds
<1>2. CASE Comes(t)
  <2>1. SubmitRequest(t) /\ state[t] = "none" /\ state'[t] = "Queued"
    BY <1>2, StateSteps, JobsAssumption DEF Comes, SessionOps
  <2>2. t # wtask
    BY <2>1, JobsAssumption
    DEF TypeOK, WorkerTypes, ControlPoints, IInv, WorkerInv, IdlePoints,
       PickPoints, RunPoints, EndPoints, IsFinished, Finished
  <2>3. t # wtask' /\ ~Started(t)'
    BY <2>1, <2>2 DEF SubmitRequest, Started
  <2> QED BY <2>3
<1>3. CASE Ahead(o, t)
  <2>1. ASSUME t = wtask', wpc' \in Rounds
        PROVE  InWork(o)' \/ In(o, applied')
    <3>1. CASE t = wtask /\ wpc \in Rounds
      <4>1. InWork(o) \/ In(o, applied)
        BY <1>3, <3>1 DEF OpsFirstInv, Rounds
      <4> QED BY <1>1, <2>1, <4>1, PendingStep DEF Rounds
    <3>2. CASE WaitTakes
      <4>1. Arrived(o) /\ wpc = "wait" /\ ~InWork(o)
        BY <1>1, <1>3, <3>2, NoWorkIn
        DEF Ahead, Arrived, WaitTakes, WorkInv, Rounds
      <4>2. In(o, releases) \/ In(o, clones) \/ In(o, applied)
        BY <4>1 DEF OpsInv
      <4> QED BY <1>1, <3>2, <4>2, PendingStep
    <3> QED BY <2>1, <3>1, <3>2, RoundSteps, HoldSteps, JobsAssumption
  <2>2. ASSUME t = wtask', wpc' \in {"begin", "start"}
        PROVE  In(o, applied')
    <3>1. ~WaitTakes
      BY <2>2 DEF WaitTakes, GoTo
    <3>2. t = wtask
      BY <2>2, <3>1, HoldSteps, JobsAssumption
    <3>3. CASE wpc \in {"begin", "start"}
      BY <1>1, <1>3, <3>2, <3>3, PendingStep DEF OpsFirstInv
    <3>4. CASE wpc = "releases" /\ work.releases = <<>>
      <4>1. ~InWork(o)
        BY <1>1, <3>4, InEmpty DEF WorkInv, InWork
      <4> QED BY <1>1, <1>3, <3>2, <3>4, <4>1, PendingStep DEF OpsFirstInv
    <3> QED BY <2>2, <3>3, <3>4, RoundSteps
  <2>3. ASSUME Started(t)' PROVE In(o, applied')
    BY <1>1, <1>3, <2>3, StateSteps, PendingStep DEF OpsFirstInv
  <2> QED BY <2>1, <2>2, <2>3
<1> QED BY <1>2, <1>3, ArrivalStep
-----------------------------------------------------------------------------
(* Nothing has arrived when the threads are started. *)
LEMMA InitOrderInv == Init => OrderInv
<1> SUFFICES ASSUME Init PROVE OrderInv
    OBVIOUS
<1> USE JobsAssumption DEF Init
<1>1. /\ \A x : ~Arrived(x)
      /\ \A x, y : ~Ahead(x, y) /\ ~QueuedAhead(x, y)
    BY DEF Arrived, Ahead, QueuedAhead
<1>2. ArrivalInv /\ PassedInv /\ OpsFirstInv
    BY <1>1 DEF ArrivalInv, PassedInv, OpsFirstInv
<1>3. WaitingInv
    BY DEF WaitingInv
<1>4. OpsInv
    BY <1>1 DEF OpsInv
<1> QED BY <1>2, <1>3, <1>4 DEF OrderInv

(* The order depends on the variables of the model only. *)
LEMMA StutterOrderInv == OrderInv /\ UNCHANGED vars => OrderInv'
BY DEF OrderInv, vars, ArrivalInv, WaitingInv, PassedInv, OpsInv, OpsFirstInv,
   Arrived, Ahead, QueuedAhead, Queued, Started, InWork, In

(* The queue stays in the order of arrival, every waiting task is           *)
(* somebody's, and every session call is pending, in its round, or made.    *)
THEOREM OrderInvariant == Spec => []OrderInv
<1>1. TypeOK /\ IInv /\ OrderInv /\ Next => OrderInv'
    BY ArrivalInvStep, WaitingInvStep, PassedInvStep, OpsInvStep,
       OpsFirstInvStep
    DEF OrderInv
<1>2. TypeOK /\ IInv /\ OrderInv /\ [Next]_vars => OrderInv'
    BY <1>1, StutterOrderInv
<1> QED BY <1>2, InitOrderInv, InductiveInvariant, TypeCorrect, PTL DEF Spec

(* Types, ownership and order together, as the runs check them: worker,     *)
(* cancel, handlers and shutdown agree on who finishes which task, and no   *)
(* task or session call is lost or overtaken between them.                  *)
THEOREM JobsInvariantHolds == Spec => []JobsInvariant
BY OrderInvariant, InductiveInvariant, TypeCorrect, PTL DEF JobsInvariant

(* Requests start in the order in which enqueue accepted them, but for      *)
(* those somebody is cancelling.                                            *)
THEOREM FirstInFirstServed == Spec => []FifoStart
<1>1. ASSUME OrderInv, NEW i \in DOMAIN arrivals, NEW j \in DOMAIN arrivals,
             i < j, {arrivals[i], arrivals[j]} \subseteq Tasks,
             state[arrivals[j]] \in {"Running", "Done", "Error"},
             state[arrivals[i]] = "Queued"
      PROVE  BeingCancelled(arrivals[i])
  <2>1. Ahead(arrivals[i], arrivals[j]) /\ Started(arrivals[j])
    BY <1>1 DEF Ahead, Started
  <2>2. own[arrivals[i]]
    BY <1>1, <2>1 DEF OrderInv, PassedInv
  <2> QED BY <1>1, <2>2 DEF OrderInv, WaitingInv, BeingCancelled
<1>2. OrderInv => FifoStart
    BY <1>1 DEF FifoStart
<1> QED BY <1>2, OrderInvariant, PTL

(* release_session and clone_session reach the engine before any request    *)
(* that was enqueued after them starts.                                     *)
THEOREM OpsBeforeRequests == Spec => []SessionOpsFirst
<1>1. ASSUME OrderInv, NEW i \in DOMAIN arrivals, NEW j \in DOMAIN arrivals,
             i < j, arrivals[i] \in SessionOps, arrivals[j] \in Tasks,
             state[arrivals[j]] \in {"Running", "Done", "Error"}
      PROVE  \E k \in DOMAIN applied : applied[k] = arrivals[i]
  <2>1. Ahead(arrivals[i], arrivals[j]) /\ Started(arrivals[j])
    BY <1>1 DEF Ahead, Started
  <2> QED BY <1>1, <2>1 DEF OrderInv, OpsFirstInv, In
<1>2. OrderInv => SessionOpsFirst
    BY <1>1 DEF SessionOpsFirst
<1> QED BY <1>2, OrderInvariant, PTL
=============================================================================
