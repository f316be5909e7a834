---------------------------- MODULE SessionsInv ----------------------------
(* Why a removed session stays removed, and why a session has at most one   *)
(* generation: an invariant that every step of Sessions keeps.              *)
EXTENDS Sessions

Saved == {i \in Ids : HasFile(i)}

ThreadFields == {"pc", "call", "id", "key", "outcome", "held", "refs", "plan",
                 "victim"}
SessionFields == {"state", "wait", "job", "msgs", "armed", "backState",
                  "backWait", "updated", "expired"}

(* The variables have the shape that the steps take for granted.            *)
Framed ==
    /\ DOMAIN thread = Threads
    /\ \A t \in Threads : DOMAIN thread[t] = ThreadFields
    /\ DOMAIN sess = Ids
    /\ \A i \in Ids : DOMAIN sess[i] = SessionFields
    /\ DOMAIN disk = Ids
    /\ jobs \in Seq([session : Nat, cancel : BOOLEAN,
                     phase : {"made", "queued", "running", "ended"}])

(* Nobody speaks of a session that the clock has not handed out yet.        *)
Known ==
    /\ newest \in 0..MaxId
    /\ table \subseteq Ids
    /\ \A i \in table \cup Saved : i <= newest
    /\ \A t \in Threads : /\ thread[t].id \in 0..newest
                          /\ At(t, "insert") => thread[t].id # 0
    /\ \A k \in DOMAIN jobs : jobs[k].session <= newest

(* While main loads the files there is nothing else.                        *)
LoadInv ==
    /\ \A t \in Threads : At(t, "load") => t = "main"
    /\ At("main", "load") =>
         /\ table = {} /\ releases = {} /\ clones = {}
         /\ \A t \in Threads \ {"main"} : At(t, "idle")
         /\ \A k \in DOMAIN jobs : jobs[k].phase = "ended"
         /\ Cardinality(Saved) <= MaxSessions

(* The table has room for all that has a file.                              *)
TableInv ==
    /\ Cardinality(table) <= MaxSessions
    /\ RemovedStaysRemoved

(* A task is in the hands of the thread that made it, of nobody, of the     *)
(* worker, and of the thread that ended it.                                 *)
TaskInv ==
    /\ \A t \in Threads :
         /\ At(t, "enqueue") => /\ thread[t].key \in DOMAIN jobs
                                /\ jobs[thread[t].key].phase = "made"
         /\ At(t, "run") => /\ t = "worker"
                            /\ thread[t].key \in DOMAIN jobs
                            /\ jobs[thread[t].key].phase = "running"
         /\ At(t, "complete") => /\ thread[t].key \in DOMAIN jobs
                                 /\ jobs[thread[t].key].phase = "ended"
    /\ \A t, u \in Threads :
         At(t, "enqueue") /\ At(u, "enqueue") /\ thread[t].key = thread[u].key
             => t = u

(* A task that is not over is the one of its session, in the table or not.  *)
OneTask ==
    \A i \in Ids, k \in DOMAIN jobs :
        jobs[k].session = i /\ jobs[k].phase # "ended" => sess[i].job = k

IInv == Framed /\ Known /\ LoadInv /\ TableInv /\ TaskInv /\ OneTask
-----------------------------------------------------------------------------
(* What the variables hold, and what the locals of a thread may be at each  *)
(* control point.                                                           *)
AtRest(state, wait) ==
    /\ state \in {"Idle", "AwaitingTools", "AwaitingQuestion"}
    /\ wait \subseteq {"tools", "question"}
    /\ state = "AwaitingTools" <=> "tools" \in wait
    /\ state = "AwaitingQuestion" <=> wait = {"question"}

Messages == Seq(Kinds)

SessionShape(s) ==
    /\ IF s.job = 0 THEN AtRest(s.state, s.wait)
       ELSE s.state = "Generating" /\ s.wait = {}
    /\ s.msgs \in Messages
    /\ AtRest(s.backState, s.backWait)

FileShape(f) ==
    /\ f.written \in -1..MaxClock
    /\ f.written # Never =>
          /\ f.rec.state # "Generating" => AtRest(f.rec.state, f.rec.wait)
          /\ f.rec.msgs \in Messages

Outcomes == Answers \cup {Ended("Full"), Failed}

PlanFields == {"sessions", "orphans", "over"}

LocalShape(l) ==
    /\ l.pc = "complete" => l.outcome \in Outcomes
    /\ l.pc \in {"accept", "begin"} => l.call \in {"message", "results"}
    /\ l.pc \in {"run", "complete"} => l.call = "finished"
    /\ l.pc \in {"peek", "capture", "clone"} => l.call = "snapshot"
    /\ l.call \in {"message", "results", "finished", "snapshot"} => l.id \in Ids
    /\ l.call = "snapshot" /\ l.pc \notin {"peek", "capture"} => l.key \in Ids
    /\ l.call = "destroy" => l.pc \in {"cancelVictim", "release"}
    /\ IF l.pc \in {"cancelVictim", "release"} THEN l.victim \in Ids ELSE l.victim = 0
    /\ l.held \subseteq Ids /\ IdsOf(l.refs) \subseteq Ids
    /\ l.pc # "read" => l.refs = {}
    /\ DOMAIN l.plan = PlanFields
    /\ IdsOf(l.plan.sessions) \cup IdsOf(l.plan.orphans) \subseteq Ids

ShapeInv ==
    /\ clock \in 0..MaxClock /\ crashes \in 0..MaxCrashes
    /\ kv \in [Ids -> -1..MaxClock]
    /\ releases \subseteq Ids /\ clones \subseteq Ids \X Ids
    /\ \A i \in Ids : /\ SessionShape(sess[i]) /\ sess[i].job \in 0..Len(jobs)
                      /\ FileShape(disk[i])
    /\ \A k \in DOMAIN jobs : jobs[k].phase # "ended" => jobs[k].session \in Ids
    /\ \A t \in Threads : LocalShape(thread[t])

(* A session that is not in the table yet is known to the thread that makes *)
(* it alone; one that is being cancelled has left the table.                *)
FreshInv ==
    \A t \in Threads :
        /\ At(t, "insert") =>
              /\ thread[t].id \notin table
              /\ sess[thread[t].id].state = "Idle"
              /\ \A u \in Threads \ {t} :
                    /\ thread[u].id # thread[t].id
                    /\ At(u, "cancelVictim") => thread[u].victim # thread[t].id
              /\ \A k \in DOMAIN jobs : jobs[k].session # thread[t].id
        /\ At(t, "cancelVictim") =>
              thread[t].victim \notin table /\ thread[t].victim <= newest

(* While one post alone has led to the turn, the rollback is armed with the *)
(* state from before it, and the messages are those from before it, their   *)
(* tool results short if the turn before was over, and the post.            *)
TurnFields == {"posts", "from"}

TurnFrame ==
    /\ DOMAIN turn = Ids
    /\ \A i \in Ids : DOMAIN turn[i] = TurnFields /\ turn[i].posts \in Nat

TurnInv ==
    /\ TurnFrame
    /\ \A i \in Ids :
         /\ i > newest => turn[i].posts = 0
         /\ turn[i].posts = 1 =>
              /\ sess[i].armed
              /\ turn[i].from = [state |-> sess[i].backState, wait |-> sess[i].backWait,
                                 msgs |-> turn[i].from.msgs]
              /\ turn[i].from.msgs \in Messages
              /\ \E m \in Kinds : sess[i].msgs = Append(Remains(turn[i].from).msgs, m)

(* What a limit check knows: a session that it may remove is not the one it *)
(* runs for, and is in nobody's use unless somebody posted to it meanwhile. *)
Checking(t) == thread[t].pc \in LimitPoints /\ thread[t].call # "destroy"

Posting(u) == thread[u].call \in {"message", "results"}

InUse(t, i) == i \in table /\ sess[i].state # "Idle" /\ i \notin touched[t]

LimitInv ==
    /\ DOMAIN touched = Threads
    /\ \A t \in Threads :
         LET l == thread[t] IN
         /\ Checking(t) => \A u \in Threads \ {t} : Posting(u) => thread[u].id \in touched[t]
         /\ At(t, "read") =>
              /\ l.id \in table => l.id \in l.held \cup IdsOf(l.refs)
              /\ \A r, q \in l.refs : r.id = q.id => r = q
              /\ \A r \in l.refs : r.id \notin l.held /\ (r.id = l.id => r.pinned)
              /\ \A i \in Ids : InUse(t, i) =>
                    i \in l.held \/ \E r \in l.refs : r.id = i /\ r.pinned
         /\ Checking(t) /\ ~At(t, "read") =>
              \A c \in l.plan.sessions : c.id # l.id /\ ~InUse(t, c.id)

SInv == IInv /\ ShapeInv /\ FreshInv /\ Durable /\ TurnInv /\ LimitInv
=============================================================================
