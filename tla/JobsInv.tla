------------------------------- MODULE JobsInv -------------------------------
(* The inductive invariant behind the theorems on Jobs: who owns a task,    *)
(* what its state can be meanwhile, how much of its stream has been         *)
(* sampled, buffered and read, and what arrived before what.                *)
EXTENDS Jobs

IdlePoints == {"loop", "wait", "blocking", "asleep", "park", "exited"}
PickPoints == {"dispatch", "clones", "releases", "begin", "start"}
RunPoints  == {"chat", "callback", "push", "returned", "reset", "check",
               "publish"}
EndPoints  == {"take", "run", "release"}
Holding    == {"begin", "start"} \cup RunPoints \cup EndPoints

(* The worker's task: no other thread will finish it, and its state is the  *)
(* one that fits where the worker is.                                       *)
WorkerInv ==
    /\ wpc \in IdlePoints => wtask = NoTask
    /\ wpc \in Holding => wtask \in Tasks
    /\ wtask \in Tasks => /\ ~own[wtask] /\ ~Queued(wtask)
                          /\ wpc \in PickPoints => state[wtask] = "Queued"
                          /\ wpc \in RunPoints  => state[wtask] = "Running"
                          /\ wpc \in EndPoints  => IsFinished(wtask)
    /\ \A t \in Tasks : state[t] = "Running" => wtask = t

Distinct(q) == \A i, j \in DOMAIN q : i # j => q[i] # q[j]

(* The queue holds each waiting task once. *)
QueueInv ==
    /\ \A t \in Tasks : Queued(t) => state[t] = "Queued"
    /\ Distinct(queue)

(* A handler that took a task out of the queue is the one to finish it.     *)
HandlerInv ==
    \A t \in Tasks :
        /\ hpc[t] = "idle" <=> state[t] = "none"
        /\ hpc[t] = "idle" => ~own[t]
        /\ own[t] => ~Queued(t) /\ state[t] \in {"Queued", "Cancelled"}
        /\ own[t] /\ hpc[t] \in {"flag", "buffer", "set"} => state[t] = "Queued"
        /\ hpc[t] \in {"write", "pull", "await", "last", "lookup"} => ~own[t]
        /\ hpc[t] \in {"set", "take", "run", "release"} => own[t]
        /\ hpc[t] \in {"take", "run", "release"} => state[t] = "Cancelled"
        /\ hpc[t] \in {"idle", "ready", "write", "pull", "await"}
               => reply[t] = "none"
        /\ reply[t] # "none" => IsFinished(t) /\ reply[t] = state[t]

(* The callback is taken and run by the thread that finishes the task.      *)
CallbackInv ==
    /\ \A t \in Tasks :
           /\ ~IsFinished(t) => callback[t] \in {"absent", "armed"}
           /\ hpc[t] = "take" => callback[t] \in {"absent", "armed"}
           /\ hpc[t] = "run" => callback[t] = "taken"
           /\ hpc[t] = "release" => callback[t] \in {"absent", "ran"}
    /\ wpc = "take" => callback[wtask] \in {"absent", "armed"}
    /\ wpc = "run" => callback[wtask] = "taken"
    /\ wpc = "release" => callback[wtask] \in {"absent", "ran"}

(* A stream is cancelled only on request, after the flag is up. *)
FlagInv ==
    /\ \A t \in Tasks :
           /\ buf[t].cancelled => flag[t] /\ buf[t].done
           /\ hpc[t] \in {"buffer", "set", "take", "run", "release"} => flag[t]
           /\ state[t] = "Cancelled" => flag[t]
    /\ \A s \in Stoppers : spc[s] = "buffer" => /\ victim[s] \in Tasks
                                                /\ flag[victim[s]]
    /\ wpc = "publish" /\ outcome = "Cancelled" => flag[wtask]

(* r followed by p is the sequence 1..k. *)
Counts(r, p, k) ==
    /\ Len(r) + Len(p) = k
    /\ \A i \in 1..Len(r) : r[i] = i
    /\ \A i \in 1..Len(p) : p[i] = Len(r) + i

(* What was read and what is buffered are the first k pieces, in order. *)
Holds(t, k) == Counts(read[t], buf[t].pieces, k)

(* While a turn runs uncancelled nothing is missing from its stream. *)
StreamInv ==
    /\ \A t \in Tasks : state[t] \in {"none", "Queued"} => Holds(t, 0)
    /\ wpc \in {"chat", "returned", "reset", "check"} /\ ~flag[wtask]
           => Holds(wtask, sampled)
    /\ wpc \in {"callback", "push"}
           => sampled > 0 /\ (~flag[wtask] => Holds(wtask, sampled - 1))
    /\ wpc \in {"reset", "check"} /\ outcome # "Error"
           => full[wtask] = sampled
    /\ wpc = "check" => full[wtask] = sampled
    /\ wpc = "reset" => outcome \in {"Done", "Error"}
    /\ wpc = "publish" /\ outcome = "Done" => Holds(wtask, full[wtask])
    /\ \A t \in Tasks : state[t] = "Done" => Holds(t, full[t])

(* A reader that saw the end has emptied the buffer. *)
ReaderInv ==
    \A t \in Streaming :
        /\ hpc[t] # "ready"
        /\ hpc[t] \in {"await", "last"} \/ reply[t] # "none"
               => buf[t].pieces = <<>> /\ buf[t].done

(* Together, and inductive with TypeOK: no step of any thread leaves it.    *)
IInv == /\ WorkerInv /\ QueueInv /\ HandlerInv /\ CallbackInv /\ FlagInv
        /\ StreamInv /\ ReaderInv /\ StreamEndsAfterCallback

-----------------------------------------------------------------------------
(* The order of arrivals: what FifoStart and SessionOpsFirst rest on. *)
In(x, q) == \E k \in DOMAIN q : q[k] = x

Ahead(x, y) ==
    \E i, j \in DOMAIN arrivals : i < j /\ arrivals[i] = x /\ arrivals[j] = y

QueuedAhead(t, u) == \E i, j \in DOMAIN queue : i < j /\ queue[i] = t /\ queue[j] = u

Started(t) == state[t] \in {"Running", "Done", "Error"}

(* A request arrives once, and the queue is in the order of arrival. *)
ArrivalInv ==
    /\ \A t \in Tasks : (state[t] = "none" => ~Arrived(t)) /\ ~Ahead(t, t)
    /\ \A t, u \in Tasks : QueuedAhead(t, u) => ~Ahead(u, t)

(* Who has a waiting task: the queue, a handler that cancels it, the worker *)
(* or nobody, once the worker has dropped what it took to leave its loop.   *)
WaitingInv ==
    \A t \in Tasks : state[t] = "Queued" =>
        /\ Queued(t) \/ own[t] \/ t = wtask \/ wpc \in {"park", "exited"}
        /\ own[t] => hpc[t] \in {"flag", "buffer", "set"}

(* Behind a task that was taken only cancelled ones still wait. *)
PassedInv ==
    \A t, u \in Tasks :
        /\ Ahead(u, t) /\ (t = wtask \/ Started(t))
        /\ state[u] = "Queued"
        => own[u]

InWork(o) == In(o, work.clones) \/ In(o, work.releases)

(* Session calls that arrived are pending, in the round at hand, or made.   *)
OpsInv ==
    /\ wpc \notin {"dispatch", "clones", "releases"} => work = NoWork
    /\ wpc = "releases" => work.clones = <<>>
    /\ \A o \in SessionOps : Arrived(o) =>
           \/ In(o, releases) \/ In(o, clones) \/ InWork(o) \/ In(o, applied)
           \/ wpc \in {"park", "exited"}

(* Those ahead of the worker's task go with it, and before it starts. *)
OpsFirstInv ==
    \A o \in SessionOps, t \in Tasks : Ahead(o, t) =>
        /\ t = wtask /\ wpc \in {"dispatch", "clones", "releases"}
               => InWork(o) \/ In(o, applied)
        /\ (t = wtask /\ wpc \in {"begin", "start"}) \/ Started(t)
               => In(o, applied)

(* Inductive with TypeOK and IInv: enqueue, wait_next and cancel keep the   *)
(* order of arrival.                                                        *)
OrderInv == ArrivalInv /\ WaitingInv /\ PassedInv /\ OpsInv /\ OpsFirstInv

(* Every thread's variables keep their types, at every control point the    *)
(* task it is about belongs to one thread, in the state that thread left it *)
(* in, with the stream it filled, and no waiting task or session call is    *)
(* lost or overtaken: worker_loop, wait_next, cancel, the handlers and      *)
(* request_shutdown agree on who finishes which task, and when.             *)
JobsInvariant == TypeOK /\ IInv /\ OrderInv
=============================================================================
