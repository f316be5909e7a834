-------------------------------- MODULE Jobs --------------------------------
(* The job runner (src/src/server/jobs/jobs.cpp) with the threads around    *)
(* it: the worker that owns the model, one HTTP handler per request         *)
(* (src/src/server/http/routes.cpp), callers that release or clone a        *)
(* session, and the two threads that shut the server down (main.cpp).       *)
(*                                                                          *)
(* A step is one critical section, or one access of an atomic, so that      *)
(* threads interleave wherever the code lets them.  Jobs::mutex_ is held    *)
(* across steps in one place only: the worker holds it between finding      *)
(* nothing to do and sleeping on cv_ (control point "blocking").            *)
EXTENDS Integers, Sequences, TokenBuffer

CONSTANTS
    Tasks,          \* the requests, one handler thread each
    Streaming,      \* those whose handler reads the token stream
    WithCallback,   \* those submitted with an on_finished callback
    Releases,       \* calls of release_session
    Clones,         \* calls of clone_session
    MaxPieces,      \* bound: pieces the model samples for one request
    Signalled,      \* bound: whether a signal to shut down may arrive
    Spurious,       \* bound: whether cv_ may wake without a notification
    NoTask          \* a null shared_ptr<Task>

(* A handler that does not stream learns of the end through its callback.   *)
ASSUME JobsAssumption ==
    /\ Streaming \subseteq Tasks
    /\ WithCallback \subseteq Tasks
    /\ Tasks \ Streaming \subseteq WithCallback
    /\ Releases \cap Clones = {}
    /\ (Releases \cup Clones) \cap Tasks = {}
    /\ NoTask \notin Tasks
    /\ MaxPieces \in Nat
    /\ Signalled \in BOOLEAN /\ Spurious \in BOOLEAN

Stoppers == {"signal", "main"}    \* the stopper thread, and main after listen
SessionOps == Releases \cup Clones

VARIABLES
    (* Task *)
    state, flag, buf, callback, full,
    (* Jobs, guarded by mutex_ *)
    queue, tasks, current, releases, clones,
    (* the stop token of the worker *)
    stop,
    (* locals of worker_loop *)
    wpc, wtask, work, sampled, outcome,
    (* locals of the handlers *)
    hpc, own, read, reply,
    (* locals of request_shutdown, once per calling thread *)
    spc, targets, victim,
    (* histories: what took mutex_ to enqueue, and what the engine applied *)
    arrivals, applied

taskVars    == <<state, flag, buf, callback, full>>
jobsVars    == <<queue, tasks, current, releases, clones>>
workerVars  == <<wpc, wtask, work, sampled, outcome>>
handlerVars == <<hpc, own, read, reply>>
stopVars    == <<stop, spc, targets, victim>>
histVars    == <<arrivals, applied>>
vars == <<taskVars, jobsVars, workerVars, handlerVars, stopVars, histVars>>

Finished == {"Done", "Error", "Cancelled"}
IsFinished(t) == state[t] \in Finished

NoWork == [clones |-> <<>>, releases |-> <<>>]

Init ==
    /\ state    = [t \in Tasks |-> "none"]
    /\ flag     = [t \in Tasks |-> FALSE]
    /\ buf      = [t \in Tasks |-> EmptyBuffer]
    /\ callback = [t \in Tasks |->
                       IF t \in WithCallback THEN "armed" ELSE "absent"]
    /\ full     = [t \in Tasks |-> 0]
    /\ queue = <<>> /\ tasks = {} /\ current = NoTask
    /\ releases = <<>> /\ clones = <<>>
    /\ stop = FALSE
    /\ wpc = "loop" /\ wtask = NoTask /\ work = NoWork
    /\ sampled = 0 /\ outcome = "Done"
    /\ hpc   = [t \in Tasks |-> "idle"]
    /\ own   = [t \in Tasks |-> FALSE]
    /\ read  = [t \in Tasks |-> <<>>]
    /\ reply = [t \in Tasks |-> "none"]
    /\ spc     = [s \in Stoppers |-> "idle"]
    /\ targets = [s \in Stoppers |-> {}]
    /\ victim  = [s \in Stoppers |-> NoTask]
    /\ arrivals = <<>> /\ applied = <<>>

(* mutex_ can be taken by a thread other than the worker. *)
MutexFree == wpc # "blocking"

(* cv_.notify: only the worker waits on cv_, so one and all are the same.   *)
Woken(pc) == IF pc = "asleep" THEN "wait" ELSE pc

-----------------------------------------------------------------------------
(* Callers of Jobs *)

(* enqueue: gc first (any finished task may have outlived kFinishedTtl),    *)
(* then register, push and notify.  A shut down runner still accepts.       *)
EnqueueForgets_NotQueued(expired, t) ==
    tasks' = {u \in tasks : state[u] = "Queued"} \cup {t}

EnqueueForgets(expired, t) == tasks' = (tasks \ expired) \cup {t}

Enqueue(t) ==
    /\ MutexFree
    /\ \E expired \in SUBSET {u \in tasks : IsFinished(u)} :
           EnqueueForgets(expired, t)
    /\ state' = [state EXCEPT ![t] = "Queued"]
    /\ queue' = Append(queue, t)
    /\ wpc' = Woken(wpc)
    /\ arrivals' = Append(arrivals, t)

(* The handler of a request, up to the submitted task.  Main has not yet    *)
(* returned from listen.                                                    *)
SubmitRequest(t) ==
    /\ hpc[t] = "idle" /\ spc["main"] = "idle"
    /\ Enqueue(t)
    /\ hpc' = [hpc EXCEPT ![t] = IF t \in Streaming THEN "write" ELSE "ready"]
    /\ UNCHANGED <<flag, buf, callback, full, current, releases, clones,
                   wtask, work, sampled, outcome, own, read, reply,
                   stopVars, applied>>

Arrived(x) == \E i \in DOMAIN arrivals : arrivals[i] = x

RequestRelease(r) ==
    /\ MutexFree /\ ~Arrived(r) /\ \A i \in DOMAIN applied : applied[i] # r
    /\ releases' = Append(releases, r)
    /\ arrivals' = Append(arrivals, r)
    /\ wpc' = Woken(wpc)
    /\ UNCHANGED <<taskVars, queue, tasks, current, clones, wtask, work,
                   sampled, outcome, handlerVars, stopVars, applied>>

RequestClone(c) ==
    /\ MutexFree /\ ~Arrived(c)
    /\ clones' = Append(clones, c)
    /\ arrivals' = Append(arrivals, c)
    /\ wpc' = Woken(wpc)
    /\ UNCHANGED <<taskVars, queue, tasks, current, releases, wtask, work,
                   sampled, outcome, handlerVars, stopVars, applied>>

-----------------------------------------------------------------------------
(* finish_task, run by the worker or by the handler that cancelled: take    *)
(* the callback under the task's mutex, run it, then end the stream.        *)

TakeCallback(t) ==
    /\ callback[t] = "armed"
    /\ callback' = [callback EXCEPT ![t] = "taken"]

RunCallback(t) == callback' = [callback EXCEPT ![t] = "ran"]

ReleasedStream_IfCancelled(t) ==
    IF flag[t] \/ state[t] = "Cancelled" THEN CancelBuffer(buf[t]) ELSE buf[t]

ReleasedStream(t) ==
    IF flag[t] \/ state[t] = "Cancelled"
    THEN CancelBuffer(buf[t]) ELSE SetDone(buf[t])

ReleaseStream(t) == buf' = [buf EXCEPT ![t] = ReleasedStream(t)]

SetCancelled(t) ==
    /\ state' = [state EXCEPT ![t] = "Cancelled"]
    /\ buf' = [buf EXCEPT ![t] = CancelBuffer(buf[t])]

-----------------------------------------------------------------------------
(* The worker *)

GoTo(pc) == wpc' = pc

(* The worker goes on and nothing else changes. *)
Moves(pc) ==
    /\ GoTo(pc)
    /\ UNCHANGED <<taskVars, jobsVars, wtask, work, sampled, outcome,
                   handlerVars, stopVars, histVars>>

LoopTop ==
    /\ wpc = "loop"
    /\ Moves(IF stop THEN "park" ELSE "wait")

SomeWork == queue # <<>> \/ releases # <<>> \/ clones # <<>>

(* wait_next under mutex_.  With the stop token set it returns nothing.     *)
WaitStopped ==
    /\ wpc = "wait" /\ stop
    /\ Moves("dispatch")

(* Which pending releases go with this round. *)
TakenReleases_OnlyWhenIdle == IF queue = <<>> THEN releases ELSE <<>>

TakenReleases == releases

PopQueue_Back == /\ wtask' = queue[Len(queue)]
                 /\ queue' = SubSeq(queue, 1, Len(queue) - 1)

PopQueue == wtask' = Head(queue) /\ queue' = Tail(queue)

(* A key that is no longer in tasks_ would be skipped; UnfinishedTracked    *)
(* says there is none in the queue.                                         *)
WaitTakes ==
    /\ wpc = "wait" /\ ~stop /\ SomeWork
    /\ work' = [clones |-> clones, releases |-> TakenReleases]
    /\ clones' = <<>> /\ releases' = <<>>
    /\ IF queue = <<>>
       THEN UNCHANGED <<queue, wtask>>
       ELSE PopQueue
    /\ GoTo("dispatch")
    /\ UNCHANGED <<taskVars, tasks, current, sampled, outcome,
                   handlerVars, stopVars, histVars>>

(* The predicate is false: mutex_ stays locked until the thread sleeps.     *)
WaitFindsNothing ==
    /\ wpc = "wait" /\ ~stop /\ ~SomeWork
    /\ Moves("blocking")

FallAsleep ==
    /\ wpc = "blocking"
    /\ Moves("asleep")

SpuriousWake ==
    /\ wpc = "asleep" /\ Spurious
    /\ Moves("wait")

(* The token is tested again: work that was taken in between is dropped.    *)
Dispatch ==
    /\ wpc = "dispatch"
    /\ IF stop
       THEN GoTo("park") /\ wtask' = NoTask /\ work' = NoWork
       ELSE GoTo(IF work.clones = <<>> THEN "releases" ELSE "clones")
            /\ UNCHANGED <<wtask, work>>
    /\ UNCHANGED <<taskVars, jobsVars, sampled, outcome, handlerVars,
                   stopVars, histVars>>

ApplyClone ==
    /\ wpc = "clones" /\ work.clones # <<>>
    /\ applied' = Append(applied, Head(work.clones))
    /\ work' = [work EXCEPT !.clones = Tail(work.clones)]
    /\ UNCHANGED <<taskVars, jobsVars, wpc, wtask, sampled, outcome,
                   handlerVars, stopVars, arrivals>>

(* note_session_cache_changed: the hook may release a session, and on the   *)
(* worker thread that reaches the engine at once.                           *)
HookReleases ==
    \/ UNCHANGED applied
    \/ \E r \in Releases : /\ ~Arrived(r)
                           /\ \A i \in DOMAIN applied : applied[i] # r
                           /\ applied' = Append(applied, r)

CloneHook ==
    /\ wpc = "clones" /\ work.clones = <<>>
    /\ HookReleases
    /\ GoTo("releases")
    /\ UNCHANGED <<taskVars, jobsVars, wtask, work, sampled, outcome,
                   handlerVars, stopVars, arrivals>>

ApplyRelease ==
    /\ wpc = "releases" /\ work.releases # <<>>
    /\ applied' = Append(applied, Head(work.releases))
    /\ work' = [work EXCEPT !.releases = Tail(work.releases)]
    /\ UNCHANGED <<taskVars, jobsVars, wpc, wtask, sampled, outcome,
                   handlerVars, stopVars, arrivals>>

ReleasesApplied ==
    /\ wpc = "releases" /\ work.releases = <<>>
    /\ Moves(IF wtask = NoTask THEN "loop" ELSE "begin")

(* Popped, but cancelled before it started. *)
SkipCancelled ==
    /\ wpc = "begin" /\ flag[wtask]
    /\ SetCancelled(wtask)
    /\ GoTo("take")
    /\ UNCHANGED <<flag, callback, full, jobsVars, wtask, work, sampled,
                   outcome, handlerVars, stopVars, histVars>>

SetCurrent ==
    /\ wpc = "begin" /\ ~flag[wtask]
    /\ current' = wtask
    /\ GoTo("start")
    /\ UNCHANGED <<taskVars, queue, tasks, releases, clones, wtask, work,
                   sampled, outcome, handlerVars, stopVars, histVars>>

StartRun ==
    /\ wpc = "start"
    /\ state' = [state EXCEPT ![wtask] = "Running"]
    /\ sampled' = 0
    /\ GoTo("chat")
    /\ UNCHANGED <<flag, buf, callback, full, jobsVars, wtask, work, outcome,
                   handlerVars, stopVars, histVars>>

(* Inside LlamaEngine::chat: should_stop was false, one piece is sampled    *)
(* and appended to the response.                                            *)
Sample ==
    /\ wpc = "chat" /\ ~flag[wtask] /\ sampled < MaxPieces
    /\ sampled' = sampled + 1
    /\ GoTo("callback")
    /\ UNCHANGED <<taskVars, jobsVars, wtask, work, outcome, handlerVars,
                   stopVars, histVars>>

(* token_cb tests the flag once more.  When it refuses, chat returns the    *)
(* response, refused piece included.                                        *)
TokenCallback ==
    /\ wpc = "callback"
    /\ Moves(IF flag[wtask] THEN "returned" ELSE "push")

PushToken ==
    /\ wpc = "push"
    /\ buf' = [buf EXCEPT ![wtask] = PushPiece(buf[wtask], sampled)]
    /\ GoTo("chat")
    /\ UNCHANGED <<state, flag, callback, full, jobsVars, wtask, work,
                   sampled, outcome, handlerVars, stopVars, histVars>>

(* End of generation, max_tokens, or should_stop: chat returns normally.    *)
ChatReturns ==
    /\ wpc = "chat"
    /\ Moves("returned")

(* LlamaContextFull or any other exception out of chat. *)
ChatThrows ==
    /\ wpc = "chat"
    /\ outcome' = "Error"
    /\ GoTo("reset")
    /\ UNCHANGED <<taskVars, jobsVars, wtask, work, sampled, handlerVars,
                   stopVars, histVars>>

SetFullResult ==
    /\ wpc = "returned"
    /\ full' = [full EXCEPT ![wtask] = sampled]
    /\ outcome' = "Done"
    /\ GoTo("reset")
    /\ UNCHANGED <<state, flag, buf, callback, jobsVars, wtask, work, sampled,
                   handlerVars, stopVars, histVars>>

ResetCurrent ==
    /\ wpc = "reset"
    /\ current' = NoTask
    /\ GoTo(IF outcome = "Error" THEN "publish" ELSE "check")
    /\ UNCHANGED <<taskVars, queue, tasks, releases, clones, wtask, work,
                   sampled, outcome, handlerVars, stopVars, histVars>>

(* A turn that was cancelled at any time before this test is not Done.      *)
JudgedOutcome_NoCheck(t) == "Done"

JudgedOutcome(t) == IF flag[t] THEN "Cancelled" ELSE "Done"

CheckCancelled ==
    /\ wpc = "check"
    /\ outcome' = JudgedOutcome(wtask)
    /\ GoTo("publish")
    /\ UNCHANGED <<taskVars, jobsVars, wtask, work, sampled, handlerVars,
                   stopVars, histVars>>

(* set_result or set_error_state.  The stream stays open. *)
Published_EndsStream(t) ==
    /\ state' = [state EXCEPT ![t] = outcome]
    /\ buf' = [buf EXCEPT ![t] = SetDone(buf[t])]

Published(t) == /\ state' = [state EXCEPT ![t] = outcome]
                /\ UNCHANGED buf

Publish ==
    /\ wpc = "publish"
    /\ Published(wtask)
    /\ GoTo("take")
    /\ UNCHANGED <<flag, callback, full, jobsVars, wtask, work, sampled,
                   outcome, handlerVars, stopVars, histVars>>

WorkerTakes ==
    /\ wpc = "take"
    /\ IF callback[wtask] = "armed"
       THEN TakeCallback(wtask) /\ GoTo("run")
       ELSE GoTo("release") /\ UNCHANGED callback
    /\ UNCHANGED <<state, flag, buf, full, jobsVars, wtask, work, sampled,
                   outcome, handlerVars, stopVars, histVars>>

WorkerRuns ==
    /\ wpc = "run"
    /\ RunCallback(wtask)
    /\ GoTo("release")
    /\ UNCHANGED <<state, flag, buf, full, jobsVars, wtask, work, sampled,
                   outcome, handlerVars, stopVars, histVars>>

WorkerReleases ==
    /\ wpc = "release"
    /\ ReleaseStream(wtask)
    /\ wtask' = NoTask
    /\ GoTo("loop")
    /\ UNCHANGED <<state, flag, callback, full, jobsVars, work, sampled,
                   outcome, handlerVars, stopVars, histVars>>

(* Out of the loop: the engine parks and flushes, the hook runs, the        *)
(* thread ends.                                                             *)
WorkerExits ==
    /\ wpc = "park"
    /\ HookReleases
    /\ GoTo("exited")
    /\ UNCHANGED <<taskVars, jobsVars, wtask, work, sampled, outcome,
                   handlerVars, stopVars, arrivals>>

Worker ==
    \/ LoopTop \/ WaitStopped \/ WaitTakes \/ WaitFindsNothing \/ FallAsleep
    \/ Dispatch \/ ApplyClone \/ CloneHook \/ ApplyRelease \/ ReleasesApplied
    \/ SkipCancelled \/ SetCurrent \/ StartRun \/ Sample \/ TokenCallback
    \/ PushToken \/ ChatReturns \/ ChatThrows \/ SetFullResult
    \/ ResetCurrent \/ CheckCancelled \/ Publish
    \/ WorkerTakes \/ WorkerRuns \/ WorkerReleases \/ WorkerExits

-----------------------------------------------------------------------------
(* The handler of request t, after SubmitRequest *)

Proceed(t, pc) == hpc' = [hpc EXCEPT ![t] = pc]

HandlerMoves(t, pc) ==
    /\ Proceed(t, pc)
    /\ UNCHANGED <<taskVars, jobsVars, workerVars, own, read, reply, stopVars,
                   histVars>>

(* A handler without a stream sleeps in a loop until its callback has run.  *)
AwaitReady(t) ==
    /\ hpc[t] = "ready" /\ callback[t] = "ran"
    /\ reply' = [reply EXCEPT ![t] = state[t]]
    /\ Proceed(t, "end")
    /\ UNCHANGED <<taskVars, jobsVars, workerVars, own, read, stopVars,
                   histVars>>

(* The frames at hand reach the client.  The HTTP library asks for more     *)
(* unless the server was stopped.                                           *)
WriteFrames(t) ==
    /\ hpc[t] \in {"write", "last"}
    /\ HandlerMoves(t, IF hpc[t] = "last" \/ spc["signal"] = "stopped"
                       THEN "end" ELSE "pull")

(* sink.write fails: the client is gone and the task is cancelled. *)
WriteFails(t) ==
    /\ hpc[t] \in {"write", "last"}
    /\ HandlerMoves(t, "lookup")

(* A piece may produce no frame: that is a write that succeeds. *)
Pull(t) ==
    /\ hpc[t] = "pull" /\ buf[t].pieces # <<>>
    /\ read' = [read EXCEPT ![t] = Append(read[t], Head(buf[t].pieces))]
    /\ buf' = [buf EXCEPT ![t] = DropFront(buf[t])]
    /\ Proceed(t, "write")
    /\ UNCHANGED <<state, flag, callback, full, jobsVars, workerVars, own,
                   reply, stopVars, histVars>>

PullEof(t) ==
    /\ hpc[t] = "pull" /\ AtEof(buf[t])
    /\ HandlerMoves(t, "await")

(* wait_until_finished, then the terminal events. *)
AwaitFinished(t) ==
    /\ hpc[t] = "await" /\ IsFinished(t)
    /\ reply' = [reply EXCEPT ![t] = state[t]]
    /\ Proceed(t, "last")
    /\ UNCHANGED <<taskVars, jobsVars, workerVars, own, read, stopVars,
                   histVars>>

(* Jobs::cancel under mutex_.  A task found in the queue is taken out and   *)
(* belongs to this thread from here on.                                     *)
Queued(t) == \E i \in DOMAIN queue : queue[i] = t

Erased(q, i) == [j \in 1..(Len(q) - 1) |-> IF j < i THEN q[j] ELSE q[j + 1]]

TakesOver_Unpopped(t) ==
    /\ own' = [own EXCEPT ![t] = ~IsFinished(t)]
    /\ UNCHANGED queue

TakesOver(t) ==
    IF Queued(t)
    THEN /\ own' = [own EXCEPT ![t] = TRUE]
         /\ \E i \in DOMAIN queue : queue[i] = t /\ queue' = Erased(queue, i)
    ELSE UNCHANGED <<own, queue>>

CancelLookup(t) ==
    /\ hpc[t] = "lookup" /\ MutexFree
    /\ IF t \in tasks
       THEN TakesOver(t) /\ Proceed(t, "flag")
       ELSE /\ Proceed(t, "end")
            /\ UNCHANGED <<own, queue>>
    /\ UNCHANGED <<taskVars, tasks, current, releases, clones, workerVars,
                   read, reply, stopVars, histVars>>

(* request_cancel: the flag first, the buffer second. *)
CancelFlag(t) ==
    /\ hpc[t] = "flag"
    /\ flag' = [flag EXCEPT ![t] = TRUE]
    /\ Proceed(t, "buffer")
    /\ UNCHANGED <<state, buf, callback, full, jobsVars, workerVars, own,
                   read, reply, stopVars, histVars>>

CancelStream(t) ==
    /\ hpc[t] = "buffer"
    /\ buf' = [buf EXCEPT ![t] = CancelBuffer(buf[t])]
    /\ Proceed(t, IF own[t] THEN "set" ELSE "end")
    /\ UNCHANGED <<state, flag, callback, full, jobsVars, workerVars, own,
                   read, reply, stopVars, histVars>>

CancelQueued(t) ==
    /\ hpc[t] = "set"
    /\ SetCancelled(t)
    /\ Proceed(t, "take")
    /\ UNCHANGED <<flag, callback, full, jobsVars, workerVars, own, read,
                   reply, stopVars, histVars>>

HandlerTakes(t) ==
    /\ hpc[t] = "take"
    /\ IF callback[t] = "armed"
       THEN TakeCallback(t) /\ Proceed(t, "run")
       ELSE Proceed(t, "release") /\ UNCHANGED callback
    /\ UNCHANGED <<state, flag, buf, full, jobsVars, workerVars, own, read,
                   reply, stopVars, histVars>>

HandlerRuns(t) ==
    /\ hpc[t] = "run"
    /\ RunCallback(t)
    /\ Proceed(t, "release")
    /\ UNCHANGED <<state, flag, buf, full, jobsVars, workerVars, own, read,
                   reply, stopVars, histVars>>

HandlerReleases(t) ==
    /\ hpc[t] = "release"
    /\ ReleaseStream(t)
    /\ Proceed(t, "end")
    /\ UNCHANGED <<state, flag, callback, full, jobsVars, workerVars, own,
                   read, reply, stopVars, histVars>>

Handler(t) ==
    \/ AwaitReady(t) \/ WriteFrames(t) \/ WriteFails(t)
    \/ Pull(t) \/ PullEof(t) \/ AwaitFinished(t)
    \/ CancelLookup(t) \/ CancelFlag(t) \/ CancelStream(t) \/ CancelQueued(t)
    \/ HandlerTakes(t) \/ HandlerRuns(t) \/ HandlerReleases(t)

-----------------------------------------------------------------------------
(* request_shutdown, by the stopper thread on a signal and by main in       *)
(* Jobs::stop once listen has returned.                                     *)

StopperAt(s, pc) == spc' = [spc EXCEPT ![s] = pc]

(* svr.stop closes the listening socket and ends streams between two        *)
(* frames; listen returns only when no handler is left.                     *)
ListenReturned ==
    /\ spc["signal"] = "stopped"
    /\ \A t \in Tasks : hpc[t] \in {"idle", "end"}

RequestStop(s) ==
    /\ spc[s] = "idle"
    /\ IF s = "main" THEN ListenReturned ELSE Signalled
    /\ stop' = TRUE
    /\ StopperAt(s, IF stop THEN "collect" ELSE "notify")
    /\ UNCHANGED <<taskVars, jobsVars, workerVars, handlerVars, targets,
                   victim, histVars>>

(* The stop_callback of wait_next notifies without taking mutex_. *)
StopCallback(s) ==
    /\ spc[s] = "notify"
    /\ wpc' = Woken(wpc)
    /\ StopperAt(s, "collect")
    /\ UNCHANGED <<taskVars, jobsVars, wtask, work, sampled, outcome,
                   handlerVars, stop, targets, victim, histVars>>

(* Every task that can be found, and the one that runs, if any. *)
CancelTargets_NoNullTest == tasks \cup {current}

CancelTargets == tasks \cup ({current} \ {NoTask})

CollectTasks(s) ==
    /\ spc[s] = "collect" /\ MutexFree
    /\ targets' = [targets EXCEPT ![s] = CancelTargets]
    /\ StopperAt(s, "cancel")
    /\ UNCHANGED <<taskVars, jobsVars, workerVars, handlerVars, stop, victim,
                   histVars>>

ShutdownFlag(s, t) ==
    /\ spc[s] = "cancel" /\ t \in targets[s]
    /\ flag' = [flag EXCEPT ![t] = TRUE]
    /\ victim' = [victim EXCEPT ![s] = t]
    /\ targets' = [targets EXCEPT ![s] = targets[s] \ {t}]
    /\ StopperAt(s, "buffer")
    /\ UNCHANGED <<state, buf, callback, full, jobsVars, workerVars,
                   handlerVars, stop, histVars>>

ShutdownStream(s) ==
    /\ spc[s] = "buffer"
    /\ buf' = [buf EXCEPT ![victim[s]] = CancelBuffer(buf[victim[s]])]
    /\ victim' = [victim EXCEPT ![s] = NoTask]
    /\ StopperAt(s, "cancel")
    /\ UNCHANGED <<state, flag, callback, full, jobsVars, workerVars,
                   handlerVars, stop, targets, histVars>>

(* The notify_all at the end.  mutex_ was taken in between, so the worker   *)
(* either sleeps by now or will read the stop token.                        *)
FinalWake_Dropped(pc) == pc

FinalWake(pc) == Woken(pc)

NotifyAll(s) ==
    /\ spc[s] = "cancel" /\ targets[s] = {}
    /\ wpc' = FinalWake(wpc)
    /\ StopperAt(s, "done")
    /\ UNCHANGED <<taskVars, jobsVars, wtask, work, sampled, outcome,
                   handlerVars, stop, targets, victim, histVars>>

StopServer ==
    /\ spc["signal"] = "done"
    /\ StopperAt("signal", "stopped")
    /\ UNCHANGED <<taskVars, jobsVars, workerVars, handlerVars, stop, targets,
                   victim, histVars>>

Join ==
    /\ spc["main"] = "done" /\ wpc = "exited"
    /\ StopperAt("main", "joined")
    /\ UNCHANGED <<taskVars, jobsVars, workerVars, handlerVars, stop, targets,
                   victim, histVars>>

ShutdownSteps(s) ==
    \/ StopCallback(s) \/ CollectTasks(s) \/ ShutdownStream(s) \/ NotifyAll(s)
    \/ \E t \in Tasks : ShutdownFlag(s, t)

-----------------------------------------------------------------------------
Next ==
    \/ Worker \/ SpuriousWake
    \/ \E t \in Tasks : SubmitRequest(t) \/ Handler(t)
    \/ \E r \in Releases : RequestRelease(r)
    \/ \E c \in Clones : RequestClone(c)
    \/ \E s \in Stoppers : RequestStop(s) \/ ShutdownSteps(s)
    \/ StopServer \/ Join

Spec == Init /\ [][Next]_vars

(* Every thread that can run is scheduled.  Requests, signals, session      *)
(* calls and spurious wakeups are up to the environment.  A thread that     *)
(* waits for mutex_ finds it taken only while the worker falls asleep, once *)
(* per notification, so weak fairness is enough when Spurious is FALSE.     *)
Fairness ==
    /\ WF_vars(Worker)
    /\ \A t \in Tasks : WF_vars(Handler(t))
    /\ \A s \in Stoppers : WF_vars(ShutdownSteps(s))
    /\ WF_vars(RequestStop("main"))
    /\ WF_vars(StopServer) /\ WF_vars(Join)

FairSpec == Spec /\ Fairness

-----------------------------------------------------------------------------
(* Properties *)

ControlPoints == {"loop", "wait", "blocking", "asleep", "dispatch", "clones",
                  "releases", "begin", "start", "chat", "callback", "push",
                  "returned", "reset", "check", "publish", "take", "run",
                  "release", "park", "exited"}
HandlerPoints == {"idle", "ready", "write", "pull", "await", "last", "lookup",
                  "flag", "buffer", "set", "take", "run", "release", "end"}
StopperPoints == {"idle", "notify", "collect", "cancel", "buffer", "done",
                  "stopped", "joined"}
States == {"none", "Queued", "Running"} \cup Finished

TaskTypes ==
    /\ state \in [Tasks -> States]
    /\ flag \in [Tasks -> BOOLEAN]
    /\ buf \in [Tasks -> TokenBuffers(0..MaxPieces)]
    /\ callback \in [Tasks -> {"absent", "armed", "taken", "ran"}]
    /\ full \in [Tasks -> 0..MaxPieces]

JobsTypes ==
    /\ queue \in Seq(Tasks)
    /\ tasks \subseteq Tasks
    /\ current \in Tasks \cup {NoTask}
    /\ releases \in Seq(Releases)
    /\ clones \in Seq(Clones)

WorkerTypes ==
    /\ wpc \in ControlPoints
    /\ wtask \in Tasks \cup {NoTask}
    /\ work \in [clones : Seq(Clones), releases : Seq(Releases)]
    /\ sampled \in 0..MaxPieces
    /\ outcome \in Finished

HandlerTypes ==
    /\ hpc \in [Tasks -> HandlerPoints]
    /\ own \in [Tasks -> BOOLEAN]
    /\ read \in [Tasks -> Seq(0..MaxPieces)]
    /\ reply \in [Tasks -> States]

StopTypes ==
    /\ stop \in BOOLEAN
    /\ spc \in [Stoppers -> StopperPoints]
    /\ targets \in [Stoppers -> SUBSET Tasks]
    /\ victim \in [Stoppers -> Tasks \cup {NoTask}]

HistTypes ==
    /\ arrivals \in Seq(Tasks \cup SessionOps)
    /\ applied \in Seq(SessionOps)

(* Types of the variables. *)
TypeOK == /\ TaskTypes /\ JobsTypes /\ WorkerTypes
          /\ HandlerTypes /\ StopTypes /\ HistTypes

(* A client that is told its response completed has received every piece of *)
(* it, in order: no cancel that raced the end of the turn took a piece out  *)
(* of a stream that is then reported as complete.                           *)
CompletedStreamIsWhole ==
    \A t \in Streaming :
        reply[t] = "Done" => read[t] = [i \in 1..full[t] |-> i]

(* Unless somebody asked for a cancel, the stream of a task ends only after *)
(* the task is in its final state and its callback has run, so the callback *)
(* can record the turn before the client sees the end of it.                *)
StreamEndsAfterCallback ==
    \A t \in Tasks :
        buf[t].done /\ ~flag[t] =>
            IsFinished(t) /\ callback[t] \in {"absent", "ran"}

(* A task that is not finished can be found by its key, by a client that    *)
(* cancels it and by the shutdown: garbage collection never drops it.       *)
UnfinishedTracked ==
    \A t \in Tasks : state[t] \in {"Queued", "Running"} => t \in tasks

BeingCancelled(t) ==
    flag[t] \/ hpc[t] \in {"flag", "buffer", "set", "take", "run", "release"}

(* The model serves requests in the order they were enqueued: when one has  *)
(* started, no earlier one is still queued, except one being cancelled.     *)
FifoStart ==
    \A i, j \in DOMAIN arrivals :
        (/\ i < j /\ {arrivals[i], arrivals[j]} \subseteq Tasks
         /\ state[arrivals[j]] \in {"Running", "Done", "Error"}
         /\ state[arrivals[i]] = "Queued")
        => BeingCancelled(arrivals[i])

(* A session released or cloned before a request was enqueued is released   *)
(* or cloned in the engine before that request reaches the model, whatever  *)
(* else is pending: a request never continues a KV cache that is gone.      *)
SessionOpsFirst ==
    \A i, j \in DOMAIN arrivals :
        (/\ i < j /\ arrivals[i] \in SessionOps /\ arrivals[j] \in Tasks
         /\ state[arrivals[j]] \in {"Running", "Done", "Error"})
        => \E k \in DOMAIN applied : applied[k] = arrivals[i]

(* The threads, the queue and the buffers together keep what JobService     *)
(* promises: one request at a time, one terminal state per request that     *)
(* never changes, and answers that are terminal states.                     *)
Service == INSTANCE JobService WITH phase <- state, answer <- reply
KeepsService == Service!SvcSpec

(* As long as nobody shuts the server down, every request is answered or    *)
(* given up by its handler.                                                 *)
Answered ==
    \A t \in Tasks : hpc[t] # "idle" ~> (hpc[t] = "end" \/ stop)

(* A request that has started is answered even if the server is shut down   *)
(* while it runs.                                                           *)
StartedIsAnswered ==
    \A t \in Tasks : state[t] = "Running" ~> hpc[t] = "end"

(* Once a stop is requested the worker leaves its loop: it does not sleep   *)
(* through the notification, wherever the notification falls.               *)
WorkerEnds == stop ~> wpc = "exited"

(* As long as nobody shuts the server down, every release and every clone   *)
(* reaches the engine.                                                      *)
OpsApplied ==
    \A o \in SessionOps :
        Arrived(o) ~> (stop \/ \E k \in DOMAIN applied : applied[k] = o)

(* What jobs.hpp says of request_shutdown, "Cancel queued and running tasks *)
(* and wake token streams": every handler comes to an end.                  *)
ShutdownEndsHandlers ==
    \A t \in Tasks : (stop /\ hpc[t] # "idle") ~> hpc[t] = "end"
=============================================================================
