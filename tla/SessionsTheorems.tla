-------------------------- MODULE SessionsTheorems --------------------------
(* What a client may count on, for any number of callers, sessions and      *)
(* tasks: a turn that does not fit is taken back, a session at rest is on   *)
(* disk as it stands, and a limit check takes no session that is in use.    *)
EXTENDS SessionsProofs

-----------------------------------------------------------------------------
(* What the operators on a session do to its fields.                        *)

(* A post that is taken arms the rollback with the state it interrupts.     *)
LEMMA AcceptFields ==
    ASSUME NEW s, DOMAIN s = SessionFields, NEW call, NEW m
    PROVE  LET r == Accept(s, call, m)
           IN  /\ r.state = "Idle" /\ r.wait = {} /\ r.job = s.job
               /\ r.msgs = Append(Stored(s, call), m)
               /\ r.armed /\ r.backState = s.state /\ r.backWait = s.wait
BY DEF Accept, MarkUpdated, ClearPending, ArmRollback, SessionFields

(* A session that is marked, or expires, keeps its conversation.            *)
SameTurn(s, r) ==
    /\ r.state = s.state /\ r.wait = s.wait /\ r.job = s.job /\ r.msgs = s.msgs
    /\ (r.armed <=> s.armed) /\ r.backState = s.backState /\ r.backWait = s.backWait

(* Neither the mark of a call nor expiry touches the turn.                  *)
LEMMA MarkFields ==
    ASSUME NEW s, DOMAIN s = SessionFields
    PROVE  SameTurn(s, MarkUpdated(s)) /\ SameTurn(s, [s EXCEPT !.expired = TRUE])
BY DEF MarkUpdated, SameTurn, SessionFields

(* A generation that begins keeps the messages and what the rollback knows. *)
LEMMA BeginFields ==
    ASSUME NEW s, DOMAIN s = SessionFields, NEW k
    PROVE  LET r == BeginGeneration(s, k)
           IN  /\ r.state = "Generating" /\ r.wait = {} /\ r.job = k
               /\ r.msgs = s.msgs /\ (r.armed <=> s.armed) /\ r.updated = s.updated
               /\ r.backState = s.backState /\ r.backWait = s.backWait
BY DEF BeginGeneration, ClearPending, SessionFields

(* complete_job for the task of the session, by how the task ended.         *)
RollsBack(s, o) ==
    o.end = "Full" /\ s.armed /\ InUsersName(s.msgs)

(* How the fields of a session end, by how its task ended.                  *)
Completed(s, o, r) ==
    /\ r.job = 0
    /\ r.backState = "Idle" /\ r.backWait = {}
    /\ RollsBack(s, o) => /\ r.state = s.backState
                          /\ r.wait = s.backWait
                          /\ r.msgs = Front(s.msgs)
    /\ ~RollsBack(s, o) /\ o.end # "Done" =>
           r.state = "Idle" /\ r.wait = {} /\ r.msgs = s.msgs
    /\ o.end = "Done" =>
           /\ r.wait = o.asks
           /\ r.msgs = IF o.text THEN Append(s.msgs, "assistant") ELSE s.msgs
           /\ r.state = IF "tools" \in o.asks THEN "AwaitingTools"
                        ELSE IF "question" \in o.asks THEN "AwaitingQuestion"
                        ELSE "Idle"

LEMMA CompleteFields ==
    ASSUME NEW s, DOMAIN s = SessionFields, NEW o
    PROVE  Completed(s, o, CompleteJob(s, s.job, o))
<1> USE DEF SessionFields
<1> DEFINE base == MarkUpdated([s EXCEPT !.job = 0])
           ended == CASE o.end = "Full" -> RollbackLastTurn(base)
                      [] o.end = "Done" -> TakeAnswer(base, o)
                      [] OTHER -> ClearPending(base, "Idle")
<1>1. /\ DOMAIN base = SessionFields /\ base.job = 0 /\ base.msgs = s.msgs
      /\ base.armed = s.armed /\ base.backState = s.backState
      /\ base.backWait = s.backWait
    BY DEF MarkUpdated
<1>2. CompleteJob(s, s.job, o) = DisarmRollback(ended)
    BY DEF CompleteJob
<1> HIDE DEF base
<1>3. /\ DOMAIN RollbackLastTurn(base) = SessionFields
      /\ RollbackLastTurn(base).job = 0
      /\ IF s.armed /\ InUsersName(s.msgs)
         THEN /\ RollbackLastTurn(base).state = s.backState
              /\ RollbackLastTurn(base).wait = s.backWait
              /\ RollbackLastTurn(base).msgs = Front(s.msgs)
         ELSE /\ RollbackLastTurn(base).state = "Idle"
              /\ RollbackLastTurn(base).wait = {}
              /\ RollbackLastTurn(base).msgs = s.msgs
    BY <1>1 DEF RollbackLastTurn, ClearPending
<1>4. /\ DOMAIN ClearPending(base, "Idle") = SessionFields
      /\ ClearPending(base, "Idle").job = 0
      /\ ClearPending(base, "Idle").state = "Idle"
      /\ ClearPending(base, "Idle").wait = {}
      /\ ClearPending(base, "Idle").msgs = s.msgs
    BY <1>1 DEF ClearPending
<1>5. /\ DOMAIN TakeAnswer(base, o) = SessionFields
      /\ TakeAnswer(base, o).job = 0 /\ TakeAnswer(base, o).wait = o.asks
      /\ TakeAnswer(base, o).msgs = IF o.text THEN Append(s.msgs, "assistant")
                                    ELSE s.msgs
      /\ TakeAnswer(base, o).state = IF "tools" \in o.asks THEN "AwaitingTools"
                                     ELSE IF "question" \in o.asks THEN "AwaitingQuestion"
                                     ELSE "Idle"
    BY <1>1 DEF TakeAnswer
<1>6. \A r : DOMAIN r = SessionFields =>
               LET d == DisarmRollback(r)
               IN  /\ d.state = r.state /\ d.wait = r.wait /\ d.msgs = r.msgs
                   /\ d.job = r.job
                   /\ d.backState = "Idle" /\ d.backWait = {}
    BY DEF DisarmRollback
<1>7. CASE o.end = "Full"
  <2>1. ended = RollbackLastTurn(base)
    BY <1>7
  <2> HIDE DEF ended, SessionFields
  <2> QED BY <1>2, <1>3, <1>6, <1>7, <2>1 DEF RollsBack, Completed
<1>8. CASE o.end = "Done"
  <2>1. ended = TakeAnswer(base, o)
    BY <1>8
  <2> HIDE DEF ended, SessionFields
  <2> QED BY <1>2, <1>5, <1>6, <1>8, <2>1 DEF RollsBack, Completed
<1>9. CASE o.end \notin {"Full", "Done"}
  <2>1. ended = ClearPending(base, "Idle")
    BY <1>9
  <2> HIDE DEF ended, SessionFields
  <2> QED BY <1>2, <1>4, <1>6, <1>9, <2>1 DEF RollsBack, Completed
<1> QED BY <1>7, <1>8, <1>9

(* A post goes to the end of the messages, and comes off again.             *)
LEMMA MessagesLemma ==
    ASSUME NEW msgs \in Messages
    PROVE  /\ \A m \in Kinds : /\ Append(msgs, m) \in Messages
                              /\ Append(msgs, m) # <<>>
                              /\ Last(Append(msgs, m)) = m
                              /\ Front(Append(msgs, m)) = msgs
           /\ Append(msgs, "assistant") \in Messages
           /\ msgs # <<>> => Front(msgs) \in Messages
<1>1. ASSUME NEW m \in Kinds
      PROVE  /\ Append(msgs, m) \in Messages /\ Append(msgs, m) # <<>>
             /\ Last(Append(msgs, m)) = m /\ Front(Append(msgs, m)) = msgs
  <2>1. Append(msgs, m) \in Messages /\ Append(msgs, m) # <<>>
    BY AppendProperties DEF Messages
  <2>2. Last(Append(msgs, m)) = m
    BY DEF Messages, Last
  <2>3. Front(Append(msgs, m)) = msgs
    BY DEF Messages, Front
  <2> QED BY <2>1, <2>2, <2>3
<1>2. "assistant" \in Kinds
    BY DEF Kinds
<1>3. msgs # <<>> => Front(msgs) \in Messages
    BY DEF Messages, Front
<1> QED BY <1>1, <1>2, <1>3

(* Results that are shortened stay where they are.                          *)
LEMMA ShortenedLemma ==
    ASSUME NEW msgs \in Messages
    PROVE  Shortened(msgs) \in Messages
<1>1. Len(msgs) \in Nat /\ DOMAIN msgs = 1..Len(msgs)
    BY DEF Messages
<1>2. \A n \in 1..Len(msgs) : msgs[n] \in Kinds
    BY DEF Messages
<1>3. Shortened(msgs) \in [1..Len(msgs) -> Kinds]
    BY <1>1, <1>2 DEF Shortened, Kinds
<1> QED BY <1>1, <1>3, SeqDef DEF Messages

(* What is left of a conversation when its last post is taken off.          *)
LEMMA RemainsLemma ==
    ASSUME NEW from, NEW state, NEW wait, from.msgs \in Messages,
           from = [state |-> state, wait |-> wait, msgs |-> from.msgs]
    PROVE  /\ Remains(from).msgs \in Messages
           /\ Remains(from) = [state |-> state, wait |-> wait,
                               msgs |-> Remains(from).msgs]
<1>1. Shortened(from.msgs) \in Messages
    BY ShortenedLemma
<1> DEFINE left == IF CompressTools /\ state = "Idle"
                   THEN Shortened(from.msgs) ELSE from.msgs
<1>2. Remains(from) = [state |-> state, wait |-> wait, msgs |-> left]
    BY DEF Remains
<1>3. left \in Messages
    BY <1>1
<1> HIDE DEF left
<1> QED BY <1>2, <1>3

(* Work asked for is work waited for.                                       *)
LEMMA StoredLemma ==
    ASSUME NEW s, SessionShape(s), ~Active(s), NEW call \in {"message", "results"},
           call = "results" => AwaitsTools(s)
    PROVE  /\ Stored(s, call) \in Messages
           /\ Stored(s, call) = Remains(Conversation(s)).msgs
<1>1. s.msgs \in Messages /\ AtRest(s.state, s.wait)
    BY DEF SessionShape, Active
<1>2. call = "results" => s.state # "Idle"
    BY <1>1 DEF AtRest, AwaitsTools
<1>3. Stored(s, call) = IF CompressTools /\ s.state = "Idle"
                        THEN Shortened(s.msgs) ELSE s.msgs
    BY <1>2 DEF Stored
<1>4. Stored(s, call) = Remains(Conversation(s)).msgs
    BY <1>3 DEF Remains, Conversation
<1> QED BY <1>1, <1>3, <1>4, ShortenedLemma

(* Each of them gives a session of the right shape.                         *)
LEMMA ShapeOps ==
    ASSUME NEW s, DOMAIN s = SessionFields, SessionShape(s)
    PROVE  /\ \A call \in {"message", "results"}, m \in Kinds :
                 ~Active(s) /\ (call = "results" => AwaitsTools(s))
                     => SessionShape(Accept(s, call, m))
           /\ \A r : SameTurn(s, r) => SessionShape(r)
           /\ \A k : k # 0 /\ ~Active(s) => SessionShape(BeginGeneration(s, k))
           /\ \A k, o : k # 0 /\ o \in Outcomes => SessionShape(CompleteJob(s, k, o))
<1>1. ASSUME NEW call \in {"message", "results"}, NEW m \in Kinds, ~Active(s),
             call = "results" => AwaitsTools(s)
      PROVE  SessionShape(Accept(s, call, m))
  <2>1. s.job = 0 /\ AtRest(s.state, s.wait)
    BY <1>1 DEF SessionShape, Active
  <2>2. AtRest("Idle", {})
    BY DEF AtRest
  <2>3. Append(Stored(s, call), m) \in Messages
    BY <1>1, StoredLemma, MessagesLemma
  <2> DEFINE r == Accept(s, call, m)
  <2>4. /\ r.state = "Idle" /\ r.wait = {} /\ r.job = s.job
        /\ r.msgs = Append(Stored(s, call), m)
        /\ r.backState = s.state /\ r.backWait = s.wait
    BY AcceptFields
  <2> HIDE DEF r
  <2>5. SessionShape(r)
    BY <2>1, <2>2, <2>3, <2>4 DEF SessionShape
  <2> QED BY <2>5 DEF r
<1>2. \A r : SameTurn(s, r) => SessionShape(r)
    BY DEF SameTurn, SessionShape
<1>3. ASSUME NEW k, k # 0, ~Active(s) PROVE SessionShape(BeginGeneration(s, k))
    BY <1>3, BeginFields DEF SessionShape
<1>4. ASSUME NEW k, NEW o \in Outcomes, k # 0 PROVE SessionShape(CompleteJob(s, k, o))
  <2>1. CASE s.job # k
    BY <2>1 DEF CompleteJob
  <2>2. CASE s.job = k
    <3> DEFINE r == CompleteJob(s, k, o)
    <3>0. Completed(s, o, r)
        BY <2>2, CompleteFields
    <3> SUFFICES SessionShape(r)
        OBVIOUS
    <3> HIDE DEF r
    <3>1. r.job = 0 /\ r.backState = "Idle" /\ r.backWait = {}
        BY <3>0 DEF Completed
    <3>2. o.asks \subseteq {"tools", "question"}
      <4>1. \/ \E asks \in SUBSET Asks : o = Done(TRUE, asks)
            \/ o = Done(FALSE, {}) \/ o = Ended("Full") \/ o = Failed
        BY DEF Outcomes, Answers
      <4>2. Asks \subseteq {"tools", "question"}
        BY SessionsAssumption
      <4>3. \A asks : Done(TRUE, asks).asks = asks
        BY DEF Done
      <4>4. Done(FALSE, {}).asks = {} /\ Ended("Full").asks = {} /\ Failed.asks = {}
        BY DEF Done, Ended, Failed
      <4> QED BY <4>1, <4>2, <4>3, <4>4
    <3>3. CASE RollsBack(s, o)
      <4>1. r.state = s.backState /\ r.wait = s.backWait /\ r.msgs = Front(s.msgs)
        BY <3>0, <3>3 DEF Completed
      <4> QED BY <3>1, <3>3, <4>1, MessagesLemma
             DEF SessionShape, RollsBack, InUsersName, AtRest
    <3>4. CASE ~RollsBack(s, o) /\ o.end # "Done"
      <4>1. r.state = "Idle" /\ r.wait = {} /\ r.msgs = s.msgs
        BY <3>0, <3>4 DEF Completed
      <4> QED BY <3>1, <4>1 DEF SessionShape, AtRest
    <3>5. CASE o.end = "Done"
      <4>1. /\ r.wait = o.asks
            /\ r.msgs = IF o.text THEN Append(s.msgs, "assistant") ELSE s.msgs
            /\ r.state = IF "tools" \in o.asks THEN "AwaitingTools"
                         ELSE IF "question" \in o.asks THEN "AwaitingQuestion"
                         ELSE "Idle"
        BY <3>0, <3>5 DEF Completed
      <4>2. r.msgs \in Messages
        BY <4>1, MessagesLemma DEF SessionShape
      <4>3. AtRest(r.state, r.wait)
        BY <3>2, <4>1 DEF AtRest
      <4> QED BY <3>1, <4>2, <4>3 DEF SessionShape, AtRest
    <3> QED BY <3>3, <3>4, <3>5
  <2> QED BY <2>1, <2>2
<1> QED BY <1>1, <1>2, <1>3, <1>4

-----------------------------------------------------------------------------
(* What a step may do to session i and to what its turn began from.         *)
Accepted(i) ==
    /\ ~Active(sess[i]) /\ i <= newest
    /\ \E call \in {"message", "results"}, m \in Kinds :
          /\ call = "results" => AwaitsTools(sess[i])
          /\ sess'[i] = Accept(sess[i], call, m)
    /\ turn'[i] = [turn[i] EXCEPT !.posts = @ + 1,
                                  !.from = IF turn[i].posts = 0
                                           THEN Conversation(sess[i]) ELSE @]

Begun(i) ==
    /\ \E t \in Threads : At(t, "begin") /\ thread[t].id = i
    /\ ~Active(sess[i]) /\ turn'[i] = turn[i]
    /\ sess'[i] = BeginGeneration(sess[i], Len(jobs) + 1)
    /\ Len(jobs') = Len(jobs) + 1

Heard(i) ==
    /\ sess[i].job # 0 /\ turn'[i] = NoTurn
    /\ \E o \in Outcomes : sess'[i] = CompleteJob(sess[i], sess[i].job, o)

Made(i) ==
    /\ i = newest + 1 /\ newest' = newest + 1 /\ turn'[i] = turn[i]
    /\ \E msgs \in Messages : sess'[i] = NewSession(msgs)

Reloaded(i) ==
    /\ turn'[i] = NoTurn
    /\ \/ Crash /\ sess'[i] = NewSession(<<>>)
       \/ Load /\ sess'[i] = IF i \in table' THEN Restore(disk[i].rec) ELSE sess[i]

SessionStep(i) ==
    \/ SameTurn(sess[i], sess'[i]) /\ turn'[i] = turn[i]
    \/ Accepted(i) \/ Begun(i) \/ Heard(i) \/ Made(i) \/ Reloaded(i)

(* The steps that touch a session at all.                                   *)
LEMMA SessionCases ==
    ASSUME Next
    PROVE  \/ UNCHANGED <<sess, turn>>
           \/ \E t \in Threads : \/ AcceptPost(t) \/ Begin(t) \/ Touch(t)
                                \/ Finished(t) \/ CancelVictim(t) \/ Makes(t)
           \/ Load \/ Crash \/ \E i \in Ids : Expire(i)
<1>1. ASSUME NEW t \in Threads,
             Waits(t) \/ Makes(t) \/ Shelves(t) \/ Begin(t) \/ Enqueue(t) \/ CancelVictim(t)
      PROVE  \/ UNCHANGED <<sess, turn>>
             \/ AcceptPost(t) \/ Begin(t) \/ Touch(t)
             \/ Finished(t) \/ CancelVictim(t) \/ Makes(t)
    BY <1>1 DEF Waits, Peek, AskClone, Hold, ReadRef, MakePlan, DropOrphan,
           LimitDone, ReleaseVictim, CallPost, CallSnapshot, CallResume,
           Shelves, Insert, Save, DropSession, CallDestroy, Enqueue, history
<1>2. ASSUME NEW t \in Callers, CallGc(t) \/ \E k \in DOMAIN jobs : CallCancel(t, k)
      PROVE  UNCHANGED <<sess, turn>>
    BY <1>2 DEF CallGc, CallCancel, history
<1>3. ASSUME \/ SessionOps \/ \E k \in DOMAIN jobs : StartJob(k)
             \/ \E o \in Answers \cup {Ended("Full"), Failed}, park \in BOOLEAN :
                    EndJob(o, park)
             \/ Tick
      PROVE  UNCHANGED <<sess, turn>>
    BY <1>3 DEF SessionOps, StartJob, EndJob, Tick, history
<1> QED BY <1>1, <1>2, <1>3, NextCases

(* A session that hears of the end of a task, its own or not.               *)
LEMMA HearSession ==
    ASSUME IInv, TurnFrame, NEW j, NEW k, NEW o \in Outcomes, k # 0, HearOf(j, k, o),
           NEW i \in Ids
    PROVE  Heard(i) \/ (SameTurn(sess[i], sess'[i]) /\ turn'[i] = turn[i])
<1>1. /\ sess' = [sess EXCEPT ![j] = CompleteJob(sess[j], k, o)]
      /\ turn' = IF sess[j].job = k THEN [turn EXCEPT ![j] = NoTurn] ELSE turn
    BY DEF HearOf
<1>2. DOMAIN sess = Ids /\ DOMAIN turn = Ids
    BY DEF IInv, Framed, TurnFrame
<1>3. CASE i = j /\ sess[i].job = k
  <2>1. turn'[i] = NoTurn /\ sess'[i] = CompleteJob(sess[i], sess[i].job, o)
    BY <1>1, <1>2, <1>3
  <2> QED BY <1>3, <2>1 DEF Heard
<1>4. CASE i = j /\ sess[i].job # k
  <2>1. turn' = turn /\ sess'[i] = sess[i]
    BY <1>1, <1>2, <1>4 DEF CompleteJob
  <2> QED BY <2>1 DEF SameTurn
<1>5. CASE i # j
  <2>1. turn'[i] = turn[i] /\ sess'[i] = sess[i]
    BY <1>1, <1>2, <1>5
  <2> QED BY <2>1 DEF SameTurn
<1> QED BY <1>3, <1>4, <1>5

(* What every step does to every session.                                   *)
LEMMA SessionSteps ==
    ASSUME IInv, ShapeInv, TurnFrame, Next, NEW i \in Ids
    PROVE  SessionStep(i)
<1>0. /\ DOMAIN sess = Ids /\ DOMAIN turn = Ids /\ DOMAIN sess[i] = SessionFields
      /\ \A t \in Threads : thread[t].id \in 0..newest
    BY DEF IInv, Framed, Known, TurnFrame
<1>1. CASE UNCHANGED <<sess, turn>>
    BY <1>1 DEF SessionStep, SameTurn
<1>2. ASSUME NEW t \in Threads, AcceptPost(t) PROVE SessionStep(i)
  <2> DEFINE id == thread[t].id
  <2>1. CASE UNCHANGED <<sess, turn>>
    BY <1>1, <2>1
  <2>2. CASE ~UNCHANGED <<sess, turn>>
    <3>1. /\ ~Active(sess[id])
          /\ thread[t].call = "results" => AwaitsTools(sess[id])
          /\ \E m \in Posts \cap Posted(thread[t].call) :
                sess' = [sess EXCEPT ![id] = Accept(sess[id], thread[t].call, m)]
          /\ turn' = [turn EXCEPT ![id].posts = @ + 1,
                                  ![id].from = IF turn[id].posts = 0
                                               THEN Conversation(sess[id]) ELSE @]
      BY <1>2, <2>2 DEF AcceptPost
    <3>2. CASE i = id
      <4>1. i <= newest
        BY <1>0, <3>2
      <4>2. turn'[i] = [turn[i] EXCEPT !.posts = @ + 1,
                                  !.from = IF turn[i].posts = 0
                                           THEN Conversation(sess[i]) ELSE @]
        BY <1>0, <3>1, <3>2 DEF TurnFrame, TurnFields
      <4>3. thread[t].call \in {"message", "results"}
        BY <1>2 DEF AcceptPost, At, ShapeInv, LocalShape
      <4>4. PICK m \in Posts \cap Posted(thread[t].call) :
                   sess' = [sess EXCEPT ![id] = Accept(sess[id], thread[t].call, m)]
        BY <3>1
      <4>5. m \in Kinds
        BY DEF Posted, Kinds
      <4>6. sess'[i] = Accept(sess[i], thread[t].call, m)
        BY <1>0, <3>2, <4>4
      <4> QED BY <3>1, <3>2, <4>1, <4>2, <4>3, <4>5, <4>6 DEF Accepted, SessionStep
    <3>3. CASE i # id
      <4>1. turn'[i] = turn[i] /\ sess'[i] = sess[i]
        BY <1>0, <3>1, <3>3
      <4> QED BY <4>1 DEF SameTurn, SessionStep
    <3> QED BY <3>2, <3>3
  <2> QED BY <2>1, <2>2
<1>3. ASSUME NEW t \in Threads, Begin(t) PROVE SessionStep(i)
  <2> DEFINE id == thread[t].id
  <2>1. CASE UNCHANGED sess
    BY <1>1, <1>3, <2>1 DEF Begin, history
  <2>2. CASE ~UNCHANGED sess
    <3>1. /\ ~Active(sess[id]) /\ turn' = turn /\ At(t, "begin")
          /\ sess' = [sess EXCEPT ![id] = BeginGeneration(sess[id], Len(jobs) + 1)]
          /\ jobs' = Append(jobs, [session |-> id, phase |-> "made", cancel |-> FALSE])
      BY <1>3, <2>2 DEF Begin, Claim, history
    <3>2. Len(jobs') = Len(jobs) + 1
      BY <3>1 DEF IInv, Framed
    <3>3. CASE i = id
      BY <1>0, <3>1, <3>2, <3>3 DEF Begun, SessionStep
    <3>4. CASE i # id
      BY <1>0, <3>1, <3>4 DEF SameTurn, SessionStep
    <3> QED BY <3>3, <3>4
  <2> QED BY <2>1, <2>2
<1>4. ASSUME NEW t \in Threads, Touch(t) PROVE SessionStep(i)
  <2>1. /\ turn' = turn
        /\ sess' = [sess EXCEPT ![thread[t].id] = MarkUpdated(sess[thread[t].id])]
    BY <1>4 DEF Touch, history
  <2>2. SameTurn(sess[i], sess'[i])
    BY <1>0, <2>1, MarkFields DEF SameTurn
  <2> QED BY <2>1, <2>2 DEF SessionStep
<1>5. ASSUME NEW t \in Threads, Finished(t) PROVE SessionStep(i)
  <2>1. /\ At(t, "complete")
        /\ HearOf(thread[t].id, thread[t].key, thread[t].outcome)
    BY <1>5 DEF Finished
  <2>2. thread[t].outcome \in Outcomes
    BY <2>1 DEF ShapeInv, LocalShape, At
  <2>3. thread[t].key # 0
    BY <2>1, JobsLemma DEF IInv, TaskInv
  <2> QED BY <2>1, <2>2, <2>3, HearSession DEF SessionStep
<1>6. ASSUME NEW t \in Threads, CancelVictim(t) PROVE SessionStep(i)
  <2> DEFINE j == thread[t].victim
  <2>1. CASE UNCHANGED <<sess, turn>>
    BY <1>1, <2>1
  <2>2. CASE ~UNCHANGED <<sess, turn>>
    <3>1. sess[j].job # 0 /\ HearOf(j, sess[j].job, Failed)
      BY <1>6, <2>2 DEF CancelVictim
    <3>2. Failed \in Outcomes
      BY DEF Outcomes
    <3> QED BY <3>1, <3>2, HearSession DEF SessionStep
  <2> QED BY <2>1, <2>2
<1>7. ASSUME NEW t \in Threads, Makes(t) PROVE SessionStep(i)
  <2>1. PICK parent, msgs : msgs \in Messages /\ NewObject(t, parent, msgs)
    <3>1. CASE CallCreate(t)
      <4>1. <<>> \in Messages /\ <<"results">> \in Messages
        BY DEF Messages, Kinds
      <4>2. PICK full \in Brings :
                   NewObject(t, 0, IF full THEN <<"results">> ELSE <<>>)
        BY <3>1 DEF CallCreate
      <4> QED BY <4>1, <4>2
    <3>2. CASE Capture(t)
      <4>1. thread[t].id \in Ids
        BY <3>2 DEF Capture, At, ShapeInv, LocalShape
      <4>2. sess[thread[t].id].msgs \in Messages
        BY <4>1 DEF ShapeInv, SessionShape
      <4> QED BY <3>2, <4>2 DEF Capture
    <3> QED BY <1>7, <3>1, <3>2 DEF Makes
  <2>2. /\ newest' = newest + 1 /\ turn' = turn
        /\ sess' = [sess EXCEPT ![newest + 1] = NewSession(msgs)]
    BY <1>7, <2>1 DEF Makes, CallCreate, Capture, NewObject, history
  <2>3. CASE i = newest + 1
    BY <1>0, <2>1, <2>2, <2>3 DEF Made, SessionStep
  <2>4. CASE i # newest + 1
    BY <1>0, <2>2, <2>4 DEF SameTurn, SessionStep
  <2> QED BY <2>3, <2>4
<1>8. CASE Load \/ Crash
    BY <1>8 DEF Load, Crash, Reloaded, SessionStep
<1>9. ASSUME NEW j \in Ids, Expire(j) PROVE SessionStep(i)
  <2>1. turn' = turn /\ sess' = [sess EXCEPT ![j].expired = TRUE]
    BY <1>9 DEF Expire, history
  <2>2. SameTurn(sess[i], sess'[i])
    <3>1. CASE i = j
      <4>1. sess'[i] = [sess[i] EXCEPT !.expired = TRUE]
        BY <1>0, <2>1, <3>1
      <4> QED BY <1>0, <4>1, MarkFields
    <3>2. CASE i # j
      BY <1>0, <2>1, <3>2 DEF SameTurn
    <3> QED BY <3>1, <3>2
  <2> QED BY <2>1, <2>2 DEF SessionStep
<1> QED BY <1>1, <1>2, <1>3, <1>4, <1>5, <1>6, <1>7, <1>8, <1>9, SessionCases

(* A fresh session, and one from a record, have the shape too.              *)
LEMMA NewFields ==
    ASSUME NEW msgs \in Messages
    PROVE  /\ SessionShape(NewSession(msgs)) /\ NewSession(msgs).job = 0
           /\ NewSession(msgs).state = "Idle" /\ NewSession(msgs).wait = {}
           /\ NewSession(msgs).msgs = msgs
BY DEF NewSession, SessionShape, AtRest

(* What is restored from a record: a generation that was under way is over. *)
LEMMA RestoreFields ==
    ASSUME NEW f, FileShape(f), f.written # Never
    PROVE  /\ SessionShape(Restore(f.rec)) /\ Restore(f.rec).job = 0
           /\ Restore(f.rec).msgs = f.rec.msgs /\ Restore(f.rec).updated = f.rec.updated
           /\ Restore(f.rec).state = IF f.rec.state = "Generating" THEN "Idle"
                                     ELSE f.rec.state
           /\ Restore(f.rec).wait = IF f.rec.state = "Generating" THEN {}
                                    ELSE f.rec.wait
BY DEF Restore, NewSession, FileShape, SessionShape, AtRest

(* Tasks are only added.                                                    *)
LEMMA JobsGrow ==
    ASSUME IInv, Next
    PROVE  Len(jobs') \in Nat /\ Len(jobs') >= Len(jobs)
<1>1. /\ Len(jobs) \in Nat /\ DOMAIN jobs = 1..Len(jobs)
      /\ Len(jobs') \in Nat /\ DOMAIN jobs' = 1..Len(jobs')
  <2>1. IInv'
    BY NextIInv
  <2> QED BY <2>1 DEF IInv, Framed
<1>2. CASE jobs' = jobs
    BY <1>1, <1>2
<1>3. CASE DOMAIN jobs' = DOMAIN jobs
  <2>1. ASSUME NEW m \in Nat, NEW n \in Nat, 1..m = 1..n PROVE m = n
    <3>1. CASE m < n
      BY <2>1, <3>1
    <3>2. CASE n < m
      BY <2>1, <3>2
    <3> QED BY <3>1, <3>2
  <2>2. Len(jobs') = Len(jobs)
    BY <1>1, <1>3, <2>1
  <2> QED BY <1>1, <2>2
<1>4. ASSUME NEW t \in Threads, Begin(t) PROVE Len(jobs') >= Len(jobs)
  <2>1. jobs' = jobs \/ \E x : jobs' = Append(jobs, x)
    BY <1>4 DEF Begin, Claim
  <2>2. \A x : Len(Append(jobs, x)) = Len(jobs) + 1
    BY DEF IInv, Framed
  <2>3. CASE jobs' = jobs
    BY <1>1, <2>3
  <2>4. CASE Len(jobs') = Len(jobs) + 1
    BY <1>1, <2>4
  <2> QED BY <2>1, <2>2, <2>3, <2>4
<1>5. ASSUME NEW t \in Threads, \/ Waits(t) \/ Makes(t) \/ Shelves(t) \/ Enqueue(t)
                                \/ CancelVictim(t)
      PROVE  DOMAIN jobs' = DOMAIN jobs
  <2>1. CASE Waits(t)
    BY <2>1, WaitsThread
  <2>2. CASE Makes(t) \/ Shelves(t)
    BY <2>2 DEF Makes, CallCreate, Capture, Shelves, Insert, Save, DropSession,
                CallDestroy, pending
  <2>3. CASE Enqueue(t)
    BY <2>3 DEF Enqueue
  <2>4. CASE CancelVictim(t)
    BY <2>4 DEF CancelVictim, CancelTask
  <2> QED BY <1>5, <2>1, <2>2, <2>3, <2>4
<1>6. ASSUME \/ \E t \in Callers : \/ CallGc(t)
                                  \/ \E k \in DOMAIN jobs : CallCancel(t, k)
             \/ SessionOps \/ \E k \in DOMAIN jobs : StartJob(k)
             \/ \E o \in Answers \cup {Ended("Full"), Failed}, park \in BOOLEAN :
                    EndJob(o, park)
             \/ Load \/ Crash \/ Tick \/ \E i \in Ids : Expire(i)
      PROVE  DOMAIN jobs' = DOMAIN jobs
    BY <1>6 DEF CallGc, CallCancel, CancelTask, SessionOps, StartJob, EndJob, Load,
                Crash, Tick, Expire, pending
<1> QED BY <1>1, <1>3, <1>4, <1>5, <1>6, NextCases

(* The clock hands out one id at a time.                                    *)
LEMMA NewestGrows ==
    ASSUME IInv, Next
    PROVE  newest \in Nat /\ newest' \in {newest, newest + 1}
<1>1. newest \in Nat
    BY SessionsAssumption DEF IInv, Known
<1>2. newest' \in {newest, newest + 1}
  <2>1. ASSUME NEW t \in Threads, Makes(t) PROVE newest' = newest + 1
    BY <2>1 DEF Makes, CallCreate, Capture, NewObject
  <2>2. ASSUME NEW t \in Threads, Waits(t) \/ Shelves(t) \/ Begin(t) \/ Enqueue(t)
                                  \/ CancelVictim(t)
        PROVE  newest' = newest
    BY <2>2, WaitsThread DEF Shelves, Insert, Save, DropSession, CallDestroy,
                             Begin, Enqueue, CancelVictim, bounds
  <2>3. ASSUME \/ \E t \in Callers : \/ CallGc(t)
                                    \/ \E k \in DOMAIN jobs : CallCancel(t, k)
               \/ SessionOps \/ \E k \in DOMAIN jobs : StartJob(k)
               \/ \E o \in Answers \cup {Ended("Full"), Failed}, park \in BOOLEAN :
                      EndJob(o, park)
               \/ Load \/ Crash \/ Tick \/ \E i \in Ids : Expire(i)
        PROVE  newest' = newest
    BY <2>3 DEF CallGc, CallCancel, SessionOps, StartJob, EndJob, Load, Crash, Tick,
                Expire, bounds
  <2> QED BY <2>1, <2>2, <2>3, NextCases
<1> QED BY <1>1, <1>2

(* Every session keeps its shape.                                           *)
LEMMA ShapesKept ==
    ASSUME IInv, ShapeInv, TurnFrame, Next, NEW i \in Ids
    PROVE  SessionShape(sess'[i]) /\ sess'[i].job \in 0..Len(jobs')
<1>1. /\ SessionShape(sess[i]) /\ sess[i].job \in 0..Len(jobs) /\ FileShape(disk[i])
      /\ DOMAIN sess[i] = SessionFields
    BY DEF ShapeInv, IInv, Framed
<1>2. Len(jobs) \in Nat /\ Len(jobs') \in Nat /\ Len(jobs') >= Len(jobs)
    BY JobsGrow, JobsLemma
<1>3. sess[i].job \in 0..Len(jobs') /\ 0 \in 0..Len(jobs')
    BY <1>1, <1>2
<1>4. CASE SameTurn(sess[i], sess'[i])
  <2>1. SessionShape(sess'[i])
    BY <1>1, <1>4, ShapeOps
  <2> QED BY <1>3, <1>4, <2>1 DEF SameTurn
<1>5. CASE Accepted(i)
  <2>1. PICK call \in {"message", "results"}, m \in Kinds :
               /\ call = "results" => AwaitsTools(sess[i])
               /\ sess'[i] = Accept(sess[i], call, m)
    BY <1>5 DEF Accepted
  <2>2. SessionShape(Accept(sess[i], call, m))
    BY <1>1, <1>5, <2>1, ShapeOps DEF Accepted
  <2>3. Accept(sess[i], call, m).job = sess[i].job
    BY <1>1, AcceptFields
  <2> QED BY <1>3, <2>1, <2>2, <2>3
<1>6. CASE Begun(i)
  <2> DEFINE k == Len(jobs) + 1
  <2>1. k # 0 /\ k \in 0..Len(jobs')
    BY <1>2, <1>6 DEF Begun
  <2>2. sess'[i] = BeginGeneration(sess[i], k) /\ ~Active(sess[i])
    BY <1>6 DEF Begun
  <2> HIDE DEF k
  <2>3. SessionShape(BeginGeneration(sess[i], k)) /\ BeginGeneration(sess[i], k).job = k
    BY <1>1, <2>1, <2>2, ShapeOps, BeginFields
  <2> QED BY <2>1, <2>2, <2>3
<1>7. CASE Heard(i)
  <2>1. PICK o \in Outcomes : sess'[i] = CompleteJob(sess[i], sess[i].job, o)
    BY <1>7 DEF Heard
  <2>2. SessionShape(CompleteJob(sess[i], sess[i].job, o))
    BY <1>1, <1>7, ShapeOps DEF Heard
  <2>3. CompleteJob(sess[i], sess[i].job, o).job = 0
    BY <1>1, CompleteFields DEF Completed
  <2> QED BY <1>3, <2>1, <2>2, <2>3
<1>8. CASE Made(i)
    BY <1>3, <1>8, NewFields DEF Made
<1>9. CASE Reloaded(i)
  <2>1. CASE sess'[i] = NewSession(<<>>)
    <3>1. <<>> \in Messages
      BY DEF Messages
    <3> QED BY <1>3, <2>1, <3>1, NewFields
  <2>2. CASE sess'[i] = sess[i]
    BY <1>1, <1>3, <2>2
  <2>3. CASE Load /\ i \in table' /\ sess'[i] = Restore(disk[i].rec)
    <3>1. disk[i].written # Never
      BY <2>3 DEF Load, Restored, HasFile
    <3> QED BY <1>1, <1>3, <2>3, <3>1, RestoreFields
  <2> QED BY <1>9, <2>1, <2>2, <2>3 DEF Reloaded
<1> QED BY <1>4, <1>5, <1>6, <1>7, <1>8, <1>9, SessionSteps DEF SessionStep

-----------------------------------------------------------------------------
(* A turn that one post alone has led to can be taken back.                 *)
LEMMA TurnStep ==
    ASSUME IInv, ShapeInv, TurnInv, Next
    PROVE  TurnInv'
<1>0. newest \in Nat /\ newest' \in Nat /\ newest' >= newest /\ TurnFrame
    BY NewestGrows DEF TurnInv
<1>1. DOMAIN turn' = Ids
  <2>1. CASE turn' = turn
    BY <2>1 DEF TurnInv, TurnFrame
  <2>2. ASSUME NEW t \in Threads, AcceptPost(t) PROVE DOMAIN turn' = Ids
    BY <1>0, <2>2 DEF AcceptPost, TurnFrame
  <2>3. ASSUME NEW j, NEW k, NEW o, HearOf(j, k, o) PROVE DOMAIN turn' = Ids
    BY <1>0, <2>3 DEF HearOf, TurnFrame
  <2>4. ASSUME NEW t \in Threads, Finished(t) \/ CancelVictim(t) PROVE DOMAIN turn' = Ids
    BY <2>1, <2>3, <2>4 DEF Finished, CancelVictim
  <2>5. ASSUME NEW t \in Threads, Begin(t) \/ Touch(t) \/ Makes(t) PROVE turn' = turn
    BY <2>5 DEF Begin, Touch, Makes, CallCreate, Capture, history
  <2>6. CASE Load \/ Crash
    BY <2>6 DEF Load, Crash
  <2>7. CASE \E i \in Ids : Expire(i)
    BY <2>1, <2>7 DEF Expire, history
  <2> QED BY <2>1, <2>2, <2>4, <2>5, <2>6, <2>7, SessionCases
<1>2. ASSUME NEW i \in Ids
      PROVE  /\ DOMAIN turn'[i] = TurnFields /\ turn'[i].posts \in Nat
             /\ i > newest' => turn'[i].posts = 0
             /\ turn'[i].posts = 1 =>
                  /\ sess'[i].armed
                  /\ turn'[i].from = [state |-> sess'[i].backState,
                                      wait |-> sess'[i].backWait,
                                      msgs |-> turn'[i].from.msgs]
                  /\ turn'[i].from.msgs \in Messages
                  /\ \E m \in Kinds :
                        sess'[i].msgs = Append(Remains(turn'[i].from).msgs, m)
  <2>1. /\ DOMAIN turn[i] = TurnFields /\ turn[i].posts \in Nat
        /\ i > newest => turn[i].posts = 0
        /\ turn[i].posts = 1 =>
              /\ sess[i].armed
              /\ turn[i].from = [state |-> sess[i].backState, wait |-> sess[i].backWait,
                                 msgs |-> turn[i].from.msgs]
              /\ turn[i].from.msgs \in Messages
              /\ \E m \in Kinds : sess[i].msgs = Append(Remains(turn[i].from).msgs, m)
        /\ DOMAIN sess[i] = SessionFields /\ SessionShape(sess[i])
    BY DEF TurnInv, TurnFrame, IInv, Framed, ShapeInv
  <2>2. i \in Nat
    BY SessionsAssumption DEF Ids
  <2>3. CASE SameTurn(sess[i], sess'[i]) /\ turn'[i] = turn[i]
    <3>1. i > newest' => i > newest
        BY <1>0, <2>2
    <3>2. /\ sess'[i].backState = sess[i].backState
          /\ sess'[i].backWait = sess[i].backWait
          /\ sess'[i].msgs = sess[i].msgs /\ (sess'[i].armed <=> sess[i].armed)
        BY <2>3 DEF SameTurn
    <3> QED BY <2>1, <2>3, <3>1, <3>2
  <2>4. CASE Accepted(i)
    <3>1. /\ DOMAIN turn'[i] = TurnFields /\ turn'[i].posts = turn[i].posts + 1
          /\ turn[i].posts = 0 => turn'[i].from = Conversation(sess[i])
      BY <2>1, <2>4 DEF Accepted, TurnFields
    <3>0. PICK call \in {"message", "results"}, m \in Kinds :
                 /\ call = "results" => AwaitsTools(sess[i])
                 /\ sess'[i] = Accept(sess[i], call, m)
      BY <2>4 DEF Accepted
    <3>2. /\ sess'[i].armed /\ sess'[i].backState = sess[i].state
          /\ sess'[i].backWait = sess[i].wait
          /\ sess'[i].msgs = Append(Stored(sess[i], call), m)
      BY <2>1, <3>0, AcceptFields
    <3>8. Stored(sess[i], call) = Remains(Conversation(sess[i])).msgs
      BY <2>1, <2>4, <3>0, StoredLemma DEF Accepted
    <3>3. ~(i > newest')
      BY <1>0, <2>2, <2>4 DEF Accepted
    <3>4. turn[i].posts = 0 =>
            /\ turn'[i].from = [state |-> sess'[i].backState, wait |-> sess'[i].backWait,
                                msgs |-> turn'[i].from.msgs]
            /\ turn'[i].from.msgs = sess[i].msgs
      BY <3>1, <3>2 DEF Conversation
    <3>5. sess[i].msgs \in Messages
      BY <2>1 DEF SessionShape
    <3>6. CASE turn[i].posts = 0
      <4>1. sess'[i].msgs = Append(Remains(turn'[i].from).msgs, m)
        BY <3>1, <3>2, <3>6, <3>8
      <4> QED BY <3>1, <3>2, <3>3, <3>4, <3>5, <3>6, <4>1
    <3>7. CASE turn[i].posts # 0
      <4>1. turn'[i].posts \in Nat /\ turn'[i].posts # 1
        BY <2>1, <3>1, <3>7
      <4> QED BY <3>1, <3>3, <4>1
    <3> QED BY <3>6, <3>7
  <2>5. CASE Begun(i)
    <3>1. /\ sess'[i].armed <=> sess[i].armed
          /\ sess'[i].msgs = sess[i].msgs /\ sess'[i].backState = sess[i].backState
          /\ sess'[i].backWait = sess[i].backWait /\ turn'[i] = turn[i]
      BY <2>1, <2>5, BeginFields DEF Begun
    <3> QED BY <1>0, <2>1, <2>2, <3>1
  <2>6. CASE Heard(i) \/ Reloaded(i)
    <3>1. turn'[i] = NoTurn
      BY <2>6 DEF Heard, Reloaded
    <3> QED BY <3>1 DEF NoTurn, TurnFields
  <2>7. CASE Made(i)
    <3>1. turn'[i] = turn[i] /\ turn[i].posts = 0
      BY <1>0, <2>1, <2>7 DEF Made
    <3> QED BY <2>1, <3>1
  <2> QED BY <1>0, <2>3, <2>4, <2>5, <2>6, <2>7, SessionSteps DEF SessionStep
<1>3. TurnFrame'
    BY <1>1, <1>2 DEF TurnFrame
<1> QED BY <1>2, <1>3 DEF TurnInv

-----------------------------------------------------------------------------
(* The other variables, and the locals of the threads.                      *)

(* The records on disk. *)
LEMMA FilesKept ==
    ASSUME IInv, ShapeInv, Next, NEW i \in Ids
    PROVE  FileShape(disk'[i])
<1>1. /\ FileShape(disk[i]) /\ DOMAIN disk = Ids
      /\ clock \in -1..MaxClock /\ MaxClock \in Nat
    BY SessionsAssumption DEF ShapeInv, IInv, Framed
<1>2. FileShape(NoFile)
    BY <1>1 DEF FileShape, NoFile, Never
<1>3. CASE disk' = disk
    BY <1>1, <1>3
<1>4. ASSUME NEW S, disk' = WithoutFiles(S) PROVE FileShape(disk'[i])
    BY <1>1, <1>2, <1>4 DEF WithoutFiles
<1>5. ASSUME NEW t \in Threads, Save(t) PROVE FileShape(disk'[i])
  <2>1. \/ disk' = disk
        \/ disk' = [disk EXCEPT ![thread[t].id] = RecordFile(thread[t].id)]
    BY <1>5 DEF Save, SaveRecord
  <2>2. SessionShape(sess[i])
    BY DEF ShapeInv
  <2>3. FileShape(RecordFile(i))
    BY <1>1, <2>2 DEF RecordFile, RecordOf, FileShape, SessionShape, AtRest
  <2> QED BY <1>1, <2>1, <2>3
<1>6. ASSUME NEW t \in Threads, \/ Waits(t) \/ Makes(t) \/ Begin(t) \/ Enqueue(t)
                                \/ CancelVictim(t)
      PROVE  disk' = disk
    BY <1>6, WaitsThread DEF Makes, CallCreate, Capture, Begin, Enqueue, CancelVictim,
                             store
<1>7. ASSUME NEW t \in Threads, Shelves(t) PROVE FileShape(disk'[i])
  <2>1. CASE Save(t)
    BY <1>5, <2>1
  <2>2. CASE ~Save(t)
    <3>1. \E S : disk' = WithoutFiles(S)
      BY <1>7, <2>2 DEF Shelves, Insert, DropSession, CallDestroy
    <3> QED BY <1>4, <3>1
  <2> QED BY <2>1, <2>2
<1>8. ASSUME NEW t \in Callers, CallGc(t) PROVE FileShape(disk'[i])
    BY <1>4, <1>8 DEF CallGc
<1>9. ASSUME \/ \E t \in Callers, k \in DOMAIN jobs : CallCancel(t, k)
             \/ SessionOps \/ \E k \in DOMAIN jobs : StartJob(k)
             \/ \E o \in Answers \cup {Ended("Full"), Failed}, park \in BOOLEAN :
                    EndJob(o, park)
             \/ Load \/ Crash \/ Tick \/ \E j \in Ids : Expire(j)
      PROVE  disk' = disk
    BY <1>9 DEF CallCancel, SessionOps, StartJob, EndJob, Load, Crash, Tick, Expire,
                store
<1> QED BY <1>3, <1>6, <1>7, <1>8, <1>9, NextCases

(* A step of one thread gives it its new locals and moves no other.         *)
LEMMA MovesTo ==
    ASSUME IInv, NEW t \in Threads, NEW r, Move(t, r)
    PROVE  /\ thread'[t] = r /\ DOMAIN thread' = Threads
           /\ \A u \in Threads \ {t} : thread'[u] = thread[u]
BY DEF IInv, Framed, Move

(* Whom the plan of a limit check names: a loaded session that it saw in    *)
(* nobody's use, or one with a record that it did not see.                  *)
LEMMA PlanLemma ==
    ASSUME NEW refs
    PROVE  LET plan == PlanSessionCache(DiskRows, refs, CacheLimit)
           IN  /\ DOMAIN plan = PlanFields
               /\ \A c \in plan.sessions :
                     \/ \E r \in refs : c.id = r.id /\ ~r.pinned
                     \/ c.id \in Ids /\ HasFile(c.id) /\ c.id \notin IdsOf(refs)
               /\ \A c \in plan.orphans : c.id \in Ids
<1> DEFINE plan == PlanSessionCache(DiskRows, refs, CacheLimit)
           cands == SessionCandidates(DiskRows, refs)
<1>1. /\ DOMAIN plan = PlanFields
      /\ \A c \in plan.sessions : c \in cands /\ ~c.pinned
      /\ \A c \in plan.orphans : c \in Orphans(DiskRows, refs)
    BY DEF PlanSessionCache, Evict, PlanFields
<1>2. \A q \in DiskRows : q.id \in Ids /\ (q.json => HasFile(q.id))
    BY DEF DiskRows, Row
<1>3. \A c \in cands : ~c.pinned =>
          \/ \E r \in refs : c.id = r.id /\ ~r.pinned
          \/ c.id \in Ids /\ HasFile(c.id) /\ c.id \notin IdsOf(refs)
    BY <1>2 DEF SessionCandidates, Candidate
<1>4. \A c \in Orphans(DiskRows, refs) : c.id \in Ids
    BY <1>2 DEF Orphans, Candidate
<1> QED BY <1>1, <1>3, <1>4

(* The locals of a thread that rests, or goes on.                           *)
LEMMA RestingShape ==
    LocalShape(Resting)
BY DEF LocalShape, Resting, NoPlan, PlanFields, IdsOf

(* A thread that goes on keeps locals that fit, where nothing new is asked. *)
LEMMA GotoShape ==
    ASSUME NEW l, DOMAIN l = ThreadFields, LocalShape(l), NEW pc,
           pc \notin {"complete", "run", "accept", "begin", "peek", "clone"},
           pc = "capture" => l.pc = "peek", l.pc = "peek" => pc = "capture",
           l.pc # "capture", l.pc # "read",
           l.pc \in {"cancelVictim", "release"} <=> pc \in {"cancelVictim", "release"}
    PROVE  LocalShape([l EXCEPT !.pc = pc])
BY DEF LocalShape, ThreadFields

(* So does one that goes on after its save.                                 *)
LEMMA ContinueShape ==
    ASSUME IInv, NEW t \in Threads, LocalShape(thread[t]), Continue(t),
           thread[t].pc \notin {"peek", "capture"}
    PROVE  LocalShape(thread'[t])
<1> DEFINE pc == AfterSave(thread[t].call)
           r == [Resting EXCEPT !.pc = pc, !.call = thread[t].call,
                                !.id = thread[t].id, !.key = thread[t].key]
<1>1. CASE pc = "idle"
    BY <1>1, MovesTo, RestingShape DEF Continue, Return
<1>2. CASE pc # "idle"
  <2>1. thread'[t] = r
    BY <1>2, MovesTo DEF Continue
  <2>2. \/ pc = "begin" /\ thread[t].call \in {"message", "results"}
        \/ pc = "clone" /\ thread[t].call = "snapshot"
    BY <1>2 DEF AfterSave
  <2>3. LocalShape(r)
    BY <2>2 DEF LocalShape, Resting, NoPlan, PlanFields, IdsOf
  <2> QED BY <2>1, <2>3
<1> QED BY <1>1, <1>2

(* The new locals of a thread that takes a step fit its control point.      *)
LEMMA WaitsLocals ==
    ASSUME IInv, ShapeInv, NEW t \in Threads, Waits(t)
    PROVE  LocalShape(thread'[t])
<1> DEFINE l == thread[t]
<1>1. LocalShape(l) /\ DOMAIN l = ThreadFields /\ table \subseteq Ids
    BY DEF ShapeInv, IInv, Framed, Known
<1>2. ASSUME Return(t) PROVE LocalShape(thread'[t])
    BY <1>2, MovesTo, RestingShape DEF Return
<1>3. ASSUME NEW pc, Goto(t, pc),
             pc \notin {"complete", "run", "accept", "begin", "peek", "clone"},
             pc = "capture" => l.pc = "peek", l.pc = "peek" => pc = "capture",
             l.pc # "capture", l.pc # "read",
             l.pc \in {"cancelVictim", "release"} <=> pc \in {"cancelVictim", "release"}
      PROVE  LocalShape(thread'[t])
  <2>1. thread'[t] = [l EXCEPT !.pc = pc]
    BY <1>3, MovesTo DEF Goto
  <2> QED BY <1>1, <1>3, <2>1, GotoShape
<1>4. CASE AcceptPost(t) \/ Touch(t)
  <2>1. Return(t) \/ (l.pc \in {"accept", "touch"} /\ Goto(t, "save"))
    BY <1>4 DEF AcceptPost, Touch, At
  <2> QED BY <1>2, <1>3, <2>1
<1>5. CASE Peek(t)
  <2>1. Return(t) \/ (l.pc = "peek" /\ Goto(t, "capture"))
    BY <1>5 DEF Peek, At
  <2> QED BY <1>2, <1>3, <2>1
<1>6. CASE AskClone(t)
    BY <1>2, <1>6 DEF AskClone
<1>7. CASE Hold(t)
  <2>1. thread'[t] = [l EXCEPT !.pc = "read", !.held = table] /\ l.pc = "hold"
    BY <1>7, MovesTo DEF Hold, At
  <2> QED BY <1>1, <2>1 DEF LocalShape, ThreadFields
<1>8. CASE ReadRef(t)
  <2>1. PICK i \in l.held, b \in BOOLEAN :
          Move(t, [l EXCEPT !.held = @ \ {i},
                            !.refs = @ \cup {Ref(i, sess[i].updated, b)}])
    BY <1>8 DEF ReadRef
  <2> DEFINE r == [l EXCEPT !.held = @ \ {i},
                            !.refs = @ \cup {Ref(i, sess[i].updated, b)}]
  <2>2. thread'[t] = r
    BY <2>1, MovesTo
  <2>3. /\ r.held = l.held \ {i} /\ r.refs = l.refs \cup {Ref(i, sess[i].updated, b)}
        /\ r.pc = l.pc /\ r.outcome = l.outcome /\ r.call = l.call /\ r.id = l.id
        /\ r.key = l.key /\ r.victim = l.victim /\ r.plan = l.plan
    BY <1>1 DEF ThreadFields
  <2>4. r.held \subseteq Ids /\ IdsOf(r.refs) \subseteq Ids
    BY <1>1, <2>1, <2>3 DEF LocalShape, IdsOf, Ref
  <2> HIDE DEF r
  <2>5. l.pc = "read"
    BY <1>8 DEF ReadRef, At
  <2> QED BY <1>1, <2>2, <2>3, <2>4, <2>5 DEF LocalShape
<1>9. CASE MakePlan(t)
  <2> DEFINE plan == PlanSessionCache(DiskRows, l.refs, CacheLimit)
             r == [l EXCEPT !.pc = "drop", !.refs = {}, !.plan = plan]
  <2>1. l.pc = "read" /\ Move(t, r)
    BY <1>9 DEF MakePlan, At
  <2>2. thread'[t] = r
    BY <2>1, MovesTo
  <2>3. DOMAIN plan = PlanFields
    BY PlanLemma
  <2>4. IdsOf(plan.sessions) \cup IdsOf(plan.orphans) \subseteq Ids
    <3>1. \A c \in plan.sessions :
             \/ \E q \in l.refs : c.id = q.id /\ ~q.pinned
             \/ c.id \in Ids /\ HasFile(c.id) /\ c.id \notin IdsOf(l.refs)
      BY PlanLemma
    <3>2. \A c \in plan.orphans : c.id \in Ids
      BY PlanLemma
    <3> HIDE DEF plan
    <3> QED BY <1>1, <3>1, <3>2 DEF LocalShape, IdsOf
  <2> HIDE DEF plan
  <2>5. /\ r.held = l.held /\ r.refs = {} /\ r.plan = plan
        /\ r.pc = "drop" /\ r.call = l.call /\ r.id = l.id
        /\ r.key = l.key /\ r.victim = l.victim
    BY <1>1 DEF ThreadFields
  <2> HIDE DEF r
  <2> QED BY <1>1, <2>1, <2>2, <2>3, <2>4, <2>5 DEF LocalShape, IdsOf
<1>10. CASE DropOrphan(t)
  <2>1. PICK c \in l.plan.orphans : Move(t, [l EXCEPT !.pc = "release", !.victim = c.id,
                                                    !.plan.orphans = @ \ {c}])
    BY <1>10 DEF DropOrphan
  <2> DEFINE r == [l EXCEPT !.pc = "release", !.victim = c.id,
                            !.plan.orphans = @ \ {c}]
  <2>2. thread'[t] = r /\ l.pc = "drop"
    BY <1>10, <2>1, MovesTo DEF DropOrphan, At
  <2>3. /\ r.held = l.held /\ r.refs = l.refs
        /\ r.pc = "release" /\ r.call = l.call /\ r.id = l.id
        /\ r.key = l.key /\ r.victim = c.id
    BY <1>1 DEF ThreadFields
  <2>4. /\ DOMAIN r.plan = PlanFields /\ r.plan.sessions = l.plan.sessions
        /\ r.plan.orphans = l.plan.orphans \ {c}
    BY <1>1 DEF ThreadFields, LocalShape, PlanFields
  <2>5. c.id \in Ids
    BY <1>1, <2>1 DEF LocalShape, IdsOf
  <2> HIDE DEF r
  <2> QED BY <1>1, <2>2, <2>3, <2>4, <2>5 DEF LocalShape, IdsOf
<1>11. CASE LimitDone(t)
    BY <1>1, <1>11, ContinueShape DEF LimitDone, At
<1>12. CASE ReleaseVictim(t)
  <2>1. CASE Return(t)
    BY <1>2, <2>1
  <2>2. CASE l.call # "destroy" /\ Move(t, [l EXCEPT !.pc = "drop", !.victim = 0])
    <3>1. thread'[t] = [l EXCEPT !.pc = "drop", !.victim = 0] /\ l.pc = "release"
      BY <1>12, <2>2, MovesTo DEF ReleaseVictim, At
    <3> QED BY <1>1, <2>2, <3>1 DEF LocalShape, ThreadFields
  <2> QED BY <1>12, <2>1, <2>2 DEF ReleaseVictim
<1>13. CASE Finished(t)
  <2>1. /\ l.pc = "complete" /\ l.call = "finished"
        /\ thread'[t] = [Resting EXCEPT !.pc = "save", !.call = l.call, !.id = l.id]
    BY <1>1, <1>13, MovesTo DEF Finished, At, LocalShape
  <2>2. l.id \in Ids
    BY <1>1, <2>1 DEF LocalShape
  <2> QED BY <2>1, <2>2 DEF LocalShape, Resting, NoPlan, PlanFields, IdsOf
<1>14. CASE \E i \in Ids : \/ \E call \in {"message", "results"} : CallPost(t, i, call)
                           \/ CallSnapshot(t, i) \/ CallResume(t, i)
  <2>1. PICK i \in Ids, call \in {"message", "results", "snapshot", "resume"},
               pc \in {"accept", "peek", "touch"} :
          /\ Calling(t, call, i, pc)
          /\ \/ call \in {"message", "results"} /\ pc = "accept"
             \/ call = "snapshot" /\ pc = "peek"
             \/ call = "resume" /\ pc = "touch"
    BY <1>14 DEF CallPost, CallSnapshot, CallResume
  <2>2. thread'[t] = [Resting EXCEPT !.call = call, !.id = i, !.pc = pc]
    BY <2>1, MovesTo DEF Calling
  <2> QED BY <2>1, <2>2 DEF LocalShape, Resting, NoPlan, PlanFields, IdsOf
<1> QED BY <1>4, <1>5, <1>6, <1>7, <1>8, <1>9, <1>10, <1>11, <1>12, <1>13, <1>14 DEF Waits

(* The same for the steps that change the table and the files.              *)
LEMMA ShelvesLocals ==
    ASSUME IInv, ShapeInv, NEW t \in Threads, Shelves(t)
    PROVE  LocalShape(thread'[t])
<1> DEFINE l == thread[t]
<1>1. LocalShape(l) /\ DOMAIN l = ThreadFields /\ table \subseteq Ids
    BY DEF ShapeInv, IInv, Framed, Known
<1>2. CASE Insert(t) \/ Save(t)
  <2>1. /\ l.pc \in {"insert", "save"}
        /\ Return(t) \/ Continue(t) \/ \E pc \in {"save", "hold"} : Goto(t, pc)
    BY <1>2 DEF Insert, Save, SaveRecord, At
  <2>2. ASSUME NEW pc \in {"save", "hold"}, Goto(t, pc) PROVE LocalShape(thread'[t])
    <3>1. thread'[t] = [l EXCEPT !.pc = pc]
      BY <2>2, MovesTo DEF Goto
    <3> QED BY <1>1, <2>1, <2>2, <3>1, GotoShape
  <2>3. CASE Return(t)
    BY <2>3, MovesTo, RestingShape DEF Return
  <2>4. CASE Continue(t)
    BY <1>1, <2>1, <2>4, ContinueShape
  <2> QED BY <2>1, <2>2, <2>3, <2>4
<1>3. CASE DropSession(t)
  <2>1. PICK c \in l.plan.sessions, pc \in {"cancelVictim", "release"} :
           Move(t, [l EXCEPT !.pc = pc, !.victim = c.id, !.plan.sessions = @ \ {c}])
    BY <1>3 DEF DropSession
  <2> DEFINE r == [l EXCEPT !.pc = pc, !.victim = c.id, !.plan.sessions = @ \ {c}]
  <2>2. thread'[t] = r /\ l.pc = "drop"
    BY <1>3, <2>1, MovesTo DEF DropSession, At
  <2>3. /\ r.held = l.held /\ r.refs = l.refs
        /\ r.pc = pc /\ r.call = l.call /\ r.id = l.id
        /\ r.key = l.key /\ r.victim = c.id
    BY <1>1 DEF ThreadFields
  <2>4. /\ DOMAIN r.plan = PlanFields /\ r.plan.orphans = l.plan.orphans
        /\ r.plan.sessions = l.plan.sessions \ {c}
    BY <1>1 DEF ThreadFields, LocalShape, PlanFields
  <2>5. c.id \in Ids
    BY <1>1, <2>1 DEF LocalShape, IdsOf
  <2> HIDE DEF r
  <2> QED BY <1>1, <2>2, <2>3, <2>4, <2>5 DEF LocalShape, IdsOf
<1>4. CASE \E i \in Ids : CallDestroy(t, i)
  <2>1. PICK i \in Ids : Move(t, [Resting EXCEPT !.pc = "cancelVictim", !.call = "destroy",
                                                !.id = i, !.victim = i])
    BY <1>4 DEF CallDestroy
  <2>2. thread'[t] = [Resting EXCEPT !.pc = "cancelVictim", !.call = "destroy",
                                     !.id = i, !.victim = i]
    BY <2>1, MovesTo
  <2> QED BY <2>2 DEF LocalShape, Resting, NoPlan, PlanFields, IdsOf
<1> QED BY <1>2, <1>3, <1>4 DEF Shelves

(* The same for a thread that makes a session.                              *)
LEMMA MakesLocals ==
    ASSUME IInv, ShapeInv, NEW t \in Threads, Makes(t)
    PROVE  LocalShape(thread'[t])
<1>1. PICK parent, msgs : /\ NewObject(t, parent, msgs)
                          /\ parent = 0 \/ parent \in Ids
  <2>1. ASSUME Capture(t) PROVE thread[t].id \in Ids
    BY <2>1 DEF Capture, At, ShapeInv, LocalShape
  <2> QED BY <2>1 DEF Makes, CallCreate, Capture
<1> DEFINE call == IF parent = 0 THEN "create" ELSE "snapshot"
<1>2. thread'[t] = [Resting EXCEPT !.pc = "insert", !.id = newest + 1, !.key = parent,
                                   !.call = call]
    BY <1>1, MovesTo DEF NewObject
<1>3. newest + 1 \in Ids
    BY <1>1, SessionsAssumption DEF NewObject, Ids, IInv, Known
<1> QED BY <1>1, <1>2, <1>3 DEF LocalShape, Resting, NoPlan, PlanFields, IdsOf

(* The same for the steps on the tasks.                                     *)
LEMMA TaskLocals ==
    ASSUME IInv, ShapeInv, NEW t \in Threads, Begin(t) \/ Enqueue(t) \/ CancelVictim(t)
    PROVE  LocalShape(thread'[t])
<1> DEFINE l == thread[t]
<1>1. LocalShape(l) /\ DOMAIN l = ThreadFields
    BY DEF ShapeInv, IInv, Framed
<1>2. CASE Return(t)
    BY <1>2, MovesTo, RestingShape DEF Return
<1>3. CASE Enqueue(t)
    BY <1>2, <1>3 DEF Enqueue
<1>4. CASE CancelVictim(t)
  <2>1. thread'[t] = [l EXCEPT !.pc = "release"] /\ l.pc = "cancelVictim"
    BY <1>4, MovesTo DEF CancelVictim, Goto, At
  <2> QED BY <1>1, <2>1, GotoShape
<1>5. CASE Begin(t)
  <2>1. CASE Move(t, [l EXCEPT !.pc = "enqueue", !.key = Len(jobs) + 1])
    <3>1. thread'[t] = [l EXCEPT !.pc = "enqueue", !.key = Len(jobs) + 1] /\ l.pc = "begin"
      BY <1>5, <2>1, MovesTo DEF Begin, At
    <3> QED BY <1>1, <3>1 DEF LocalShape, ThreadFields
  <2> QED BY <1>2, <1>5, <2>1 DEF Begin, Claim
<1> QED BY <1>3, <1>4, <1>5

(* Every thread keeps locals that fit its control point.                    *)
LEMMA LocalsKept ==
    ASSUME IInv, ShapeInv, Next, NEW u \in Threads
    PROVE  LocalShape(thread'[u])
<1>1. LocalShape(thread[u])
    BY DEF ShapeInv
<1>2. CASE thread' = thread
    BY <1>1, <1>2
<1>3. ASSUME NEW t \in Threads, LocalShape(thread'[t]),
             \A v \in Threads \ {t} : thread'[v] = thread[v]
      PROVE  LocalShape(thread'[u])
    BY <1>1, <1>3
<1>4. ASSUME NEW t \in Threads, \/ Waits(t) \/ Makes(t) \/ Shelves(t)
                                \/ Begin(t) \/ Enqueue(t) \/ CancelVictim(t)
      PROVE  LocalShape(thread'[u])
  <2>1. LocalShape(thread'[t])
    BY <1>4, WaitsLocals, ShelvesLocals, MakesLocals, TaskLocals
  <2>2. \A v \in Threads \ {t} : thread'[v] = thread[v]
    <3>1. \E r : Move(t, r)
      BY <1>4 DEF Waits, Makes, Shelves, AcceptPost, Peek, AskClone, Touch, Hold,
             ReadRef, MakePlan, DropOrphan, LimitDone, ReleaseVictim, Finished,
             CallPost, CallSnapshot, CallResume, CallCreate, Capture, NewObject,
             Insert, Save, SaveRecord, DropSession, CallDestroy, Begin, Claim, Enqueue,
             CancelVictim, Continue, Return, Goto, Calling
    <3> QED BY <3>1, MovesTo
  <2> QED BY <1>3, <2>1, <2>2
<1>5. ASSUME NEW t \in Callers, NEW k \in DOMAIN jobs, CallCancel(t, k)
      PROVE  LocalShape(thread'[u])
  <2>1. t \in Threads
    BY DEF Threads
  <2>2. CASE jobs[k].phase = "queued"
    <3>1. /\ thread'[t] = [Resting EXCEPT !.pc = "complete", !.call = "finished",
                                    !.id = jobs[k].session, !.key = k,
                                    !.outcome = Failed]
          /\ \A v \in Threads \ {t} : thread'[v] = thread[v]
      BY <1>5, <2>1, <2>2, MovesTo DEF CallCancel
    <3>2. jobs[k].session \in Ids
      BY <2>2 DEF ShapeInv
    <3>3. LocalShape(thread'[t])
      BY <3>1, <3>2 DEF LocalShape, Resting, NoPlan, PlanFields, IdsOf, Outcomes
    <3> QED BY <1>3, <2>1, <3>1, <3>3
  <2> QED BY <1>2, <1>5, <2>2 DEF CallCancel
<1>6. "worker" \in Threads /\ "main" \in Threads
    BY DEF Threads
<1>7. ASSUME NEW k \in DOMAIN jobs, StartJob(k) PROVE LocalShape(thread'[u])
  <2>1. /\ thread'["worker"] = [Resting EXCEPT !.pc = "run", !.call = "finished",
                                              !.id = jobs[k].session, !.key = k]
        /\ \A v \in Threads \ {"worker"} : thread'[v] = thread[v]
    BY <1>6, <1>7, MovesTo DEF StartJob
  <2>2. jobs[k].session \in Ids
    BY <1>7 DEF StartJob, ShapeInv
  <2>3. LocalShape(thread'["worker"])
    BY <2>1, <2>2 DEF LocalShape, Resting, NoPlan, PlanFields, IdsOf
  <2> QED BY <1>3, <1>6, <2>1, <2>3
<1>8. ASSUME NEW o \in Answers \cup {Ended("Full"), Failed}, NEW park \in BOOLEAN,
             EndJob(o, park)
      PROVE  LocalShape(thread'[u])
  <2> DEFINE l == thread["worker"]
  <2>1. /\ thread'["worker"] = [l EXCEPT !.pc = "complete", !.outcome = o]
        /\ \A v \in Threads \ {"worker"} : thread'[v] = thread[v]
    BY <1>6, <1>8, MovesTo DEF EndJob
  <2>2. l.pc = "run" /\ LocalShape(l) /\ DOMAIN l = ThreadFields
    BY <1>6, <1>8 DEF EndJob, At, ShapeInv, IInv, Framed
  <2>3. LocalShape([l EXCEPT !.pc = "complete", !.outcome = o])
    BY <2>2 DEF LocalShape, ThreadFields, Outcomes
  <2> QED BY <1>3, <1>6, <2>1, <2>3
<1>9. CASE Load
  <2>1. PICK pc \in {"hold", "idle"} : Goto("main", pc)
    BY <1>9 DEF Load
  <2>2. /\ thread'["main"] = [thread["main"] EXCEPT !.pc = pc]
        /\ \A v \in Threads \ {"main"} : thread'[v] = thread[v]
    BY <1>6, <2>1, MovesTo DEF Goto
  <2>3. LocalShape(thread["main"]) /\ DOMAIN thread["main"] = ThreadFields
        /\ thread["main"].pc = "load"
    BY <1>6, <1>9 DEF ShapeInv, IInv, Framed, Load, At
  <2>4. LocalShape([thread["main"] EXCEPT !.pc = pc])
    BY <2>1, <2>3, GotoShape
  <2> QED BY <1>3, <1>6, <2>2, <2>4
<1>10. CASE Crash
  <2>1. thread'[u] = Resting \/ thread'[u] = [Resting EXCEPT !.pc = "load"]
    BY <1>10 DEF Crash
  <2>2. LocalShape([Resting EXCEPT !.pc = "load"])
    BY DEF LocalShape, Resting, NoPlan, PlanFields, IdsOf
  <2> QED BY <2>1, <2>2, RestingShape
<1>11. CASE (\E t \in Callers : CallGc(t)) \/ SessionOps \/ Tick \/ \E i \in Ids : Expire(i)
    BY <1>2, <1>11 DEF CallGc, SessionOps, Tick, Expire
<1> QED BY <1>4, <1>5, <1>7, <1>8, <1>9, <1>10, <1>11, NextCases


(* The bounds, the KV files, and what the worker has been asked for.        *)
Stores ==
    /\ clock \in 0..MaxClock /\ crashes \in 0..MaxCrashes
    /\ kv \in [Ids -> -1..MaxClock]
    /\ releases \subseteq Ids /\ clones \subseteq Ids \X Ids

(* They keep their types.                                                   *)
LEMMA StoresKept ==
    ASSUME IInv, ShapeInv, Next
    PROVE  Stores'
<1>1. /\ Stores /\ table \subseteq Ids /\ Collected \subseteq Ids
      /\ MaxClock \in Nat /\ MaxCrashes \in Nat /\ Never \in -1..MaxClock /\ clock \in -1..MaxClock
    BY SessionsAssumption DEF Stores, ShapeInv, IInv, Known, Collected, Never
<1>2. CASE UNCHANGED <<clock, crashes, kv, releases, clones>>
    BY <1>1, <1>2 DEF Stores
<1>3. ASSUME NEW t \in Threads, AskClone(t) PROVE Stores'
  <2>1. /\ UNCHANGED <<clock, crashes, kv, releases>>
        /\ clones' = clones \cup {<<thread[t].key, thread[t].id>>}
    BY <1>3 DEF AskClone, store, bounds
  <2>2. thread[t].key \in Ids /\ thread[t].id \in Ids
    BY <1>3 DEF AskClone, At, ShapeInv, LocalShape
  <2> QED BY <1>1, <2>1, <2>2 DEF Stores
<1>4. ASSUME NEW t \in Threads, ReleaseVictim(t) PROVE Stores'
  <2>1. thread[t].victim \in Ids
    BY <1>4 DEF ReleaseVictim, At, ShapeInv, LocalShape
  <2>2. /\ UNCHANGED <<clock, crashes, clones>>
        /\ \/ kv' = [kv EXCEPT ![thread[t].victim] = Never] /\ UNCHANGED releases
           \/ releases' = releases \cup {thread[t].victim} /\ UNCHANGED kv
    BY <1>4 DEF ReleaseVictim, bounds
  <2> QED BY <1>1, <2>1, <2>2 DEF Stores
<1>5. ASSUME NEW t \in Threads, Waits(t), ~AskClone(t), ~ReleaseVictim(t)
      PROVE  UNCHANGED <<clock, crashes, kv, releases, clones>>
    BY <1>5 DEF Waits, AcceptPost, Peek, Touch, Hold, ReadRef, MakePlan, DropOrphan,
           LimitDone, Finished, CallPost, CallSnapshot, CallResume, store, pending,
           bounds
<1>6. ASSUME NEW t \in Threads, Insert(t) \/ CallGc(t) PROVE Stores'
  <2>1. UNCHANGED <<clock, crashes, kv, clones>> /\ releases' = releases \cup Collected
    BY <1>6 DEF Insert, CallGc, bounds
  <2> QED BY <1>1, <2>1 DEF Stores
<1>7. ASSUME NEW t \in Threads,
             \/ Makes(t) \/ (Shelves(t) /\ ~Insert(t)) \/ Begin(t) \/ Enqueue(t)
             \/ CancelVictim(t) \/ \E k \in DOMAIN jobs : CallCancel(t, k)
      PROVE  UNCHANGED <<clock, crashes, kv, releases, clones>>
    BY <1>7 DEF Makes, CallCreate, Capture, Shelves, Save, DropSession, CallDestroy,
           Begin, Enqueue, CancelVictim, CallCancel, store, pending, bounds
<1>8. CASE SessionOps
  <2>1. PICK copied : kv' = [i \in Ids |-> IF i \in releases THEN Never
                                ELSE IF \E c \in copied : c[2] = i THEN clock
                                ELSE kv[i]]
    BY <1>8 DEF SessionOps
  <2>2. kv' \in [Ids -> -1..MaxClock]
    BY <1>1, <2>1 DEF Stores
  <2>3. UNCHANGED <<clock, crashes>> /\ releases' = {} /\ clones' = {}
    BY <1>8 DEF SessionOps, bounds
  <2> QED BY <1>1, <2>2, <2>3 DEF Stores
<1>9. ASSUME NEW o, NEW park, EndJob(o, park) PROVE Stores'
  <2>1. /\ UNCHANGED <<clock, crashes, releases, clones>>
        /\ kv' = kv \/ kv' = [kv EXCEPT ![thread["worker"].id] = clock]
    BY <1>9 DEF EndJob, bounds
  <2> QED BY <1>1, <2>1 DEF Stores
<1>10. CASE (\E k \in DOMAIN jobs : StartJob(k)) \/ Load \/ \E i \in Ids : Expire(i)
    BY <1>2, <1>10 DEF StartJob, Load, Expire, store, pending, bounds
<1>11. CASE Crash
    BY <1>1, <1>11 DEF Crash, Stores, store
<1>12. CASE Tick
    BY <1>1, <1>12 DEF Tick, Stores, store, pending
<1>13. Callers \subseteq Threads
    BY DEF Threads
<1> QED BY <1>2, <1>3, <1>4, <1>5, <1>6, <1>7, <1>8, <1>9, <1>10, <1>11, <1>12, <1>13,
       NextCases

(* All of it holds when the process starts.                                 *)
LEMMA InitShape ==
    ASSUME Init
    PROVE  ShapeInv /\ TurnInv
<1>1. <<>> \in Messages /\ MaxClock \in Nat /\ MaxCrashes \in Nat /\ IInv
    BY SessionsAssumption, InitIInv DEF Messages
<1>2. \A i \in Ids : SessionShape(sess[i]) /\ sess[i].job = 0
    BY <1>1, NewFields DEF Init
<1>3. \A i \in Ids : FileShape(disk[i])
    BY <1>1 DEF Init, FileShape, NoFile, Never
<1>4. \A t \in Threads : LocalShape(thread[t])
  <2>1. LocalShape([Resting EXCEPT !.pc = "load"])
    BY DEF LocalShape, Resting, NoPlan, PlanFields, IdsOf
  <2> QED BY <2>1, RestingShape DEF Init
<1>5. Stores
    BY <1>1 DEF Stores, Init, Never
<1>6. Len(jobs) \in Nat
    BY <1>1, JobsLemma
<1>7. /\ \A i \in Ids : sess[i].job \in 0..Len(jobs)
      /\ DOMAIN jobs = {}
    BY <1>2, <1>6 DEF Init
<1>8. ShapeInv
    BY <1>2, <1>3, <1>4, <1>5, <1>7 DEF ShapeInv, Stores
<1>9. TurnInv
    BY DEF Init, TurnInv, TurnFrame, TurnFields, NoTurn
<1> QED BY <1>8, <1>9

-----------------------------------------------------------------------------
(* Where the sessions that threads, tasks and the table know come from.     *)

(* A step of one thread moves no other.                                     *)
LEMMA OneMoves ==
    ASSUME IInv, NEW t \in Threads,
           \/ Waits(t) \/ Makes(t) \/ Shelves(t) \/ Begin(t) \/ Enqueue(t)
           \/ CancelVictim(t)
    PROVE  \A u \in Threads \ {t} : thread'[u] = thread[u]
<1>1. \E r : Move(t, r)
    BY DEF Waits, Makes, Shelves, AcceptPost, Peek, AskClone, Touch, Hold,
           ReadRef, MakePlan, DropOrphan, LimitDone, ReleaseVictim, Finished,
           CallPost, CallSnapshot, CallResume, CallCreate, Capture, NewObject,
           Insert, Save, SaveRecord, DropSession, CallDestroy, Begin, Claim, Enqueue,
           CancelVictim, Continue, Return, Goto, Calling
<1> QED BY <1>1, MovesTo

(* What a step of a limit check does to its thread.                         *)
LEMMA CheckMoves ==
    ASSUME IInv, NEW t \in Threads,
           ReadRef(t) \/ MakePlan(t) \/ DropOrphan(t) \/ ReleaseVictim(t) \/ Hold(t)
    PROVE  /\ thread'[t].pc \in {"idle", "read", "drop", "release"}
           /\ thread'[t].id \in {0, thread[t].id}
<1>1. DOMAIN thread[t] = ThreadFields /\ DOMAIN thread = Threads
    BY DEF IInv, Framed
<1>2. CASE ReadRef(t)
  <2>1. PICK held, refs : Move(t, [thread[t] EXCEPT !.held = held, !.refs = refs])
    BY <1>1, <1>2 DEF ReadRef, ThreadFields
  <2>2. thread'[t].pc = thread[t].pc /\ thread'[t].id = thread[t].id
    BY <1>1, <2>1 DEF Move, ThreadFields
  <2> QED BY <1>2, <2>2 DEF ReadRef, At
<1>3. CASE MakePlan(t)
  <2>1. PICK plan : Move(t, [thread[t] EXCEPT !.pc = "drop", !.refs = {}, !.plan = plan])
    BY <1>3 DEF MakePlan
  <2> QED BY <1>1, <2>1 DEF Move, ThreadFields
<1>4. CASE DropOrphan(t)
  <2>1. PICK c : Move(t, [thread[t] EXCEPT !.pc = "release", !.victim = c.id,
                                           !.plan.orphans = @ \ {c}])
    BY <1>4 DEF DropOrphan
  <2> QED BY <1>1, <2>1 DEF Move, ThreadFields
<1>5. CASE ReleaseVictim(t)
  <2>1. Return(t) \/ Move(t, [thread[t] EXCEPT !.pc = "drop", !.victim = 0])
    BY <1>5 DEF ReleaseVictim
  <2>2. CASE Return(t)
    BY <2>2, ReturnLemma
  <2>3. CASE Move(t, [thread[t] EXCEPT !.pc = "drop", !.victim = 0])
    BY <1>1, <2>3 DEF Move, ThreadFields
  <2> QED BY <2>1, <2>2, <2>3
<1>6. CASE Hold(t)
    BY <1>1, <1>6 DEF Hold, Move, ThreadFields
<1> QED BY <1>2, <1>3, <1>4, <1>5, <1>6

(* The session of a thread, unless it makes a new one: the one it had, one  *)
(* of the table, or that of a task.                                         *)
Speaks(u) ==
    /\ thread'[u].id \in {0, thread[u].id} \cup table
                         \cup {jobs[k].session : k \in DOMAIN jobs}
    /\ thread'[u].pc = "insert" => thread'[u] = thread[u]
    /\ thread'[u].pc = "cancelVictim" =>
          \/ thread'[u] = thread[u]
          \/ thread'[u].victim \in table /\ thread'[u].victim \notin table'

(* Every thread makes its session, or speaks of one it could know.          *)
LEMMA IdSources ==
    ASSUME IInv, Next, NEW u \in Threads
    PROVE  Makes(u) \/ Speaks(u)
<1>1. DOMAIN thread[u] = ThreadFields /\ DOMAIN thread = Threads
    BY DEF IInv, Framed
<1>2. ASSUME thread'[u] = thread[u] PROVE Speaks(u)
  <2>1. thread'[u].id \in {0, thread[u].id} \cup table
                         \cup {jobs[k].session : k \in DOMAIN jobs}
    BY <1>2
  <2> QED BY <1>2, <2>1 DEF Speaks
<1>3. CASE Waits(u)
  <2>1. thread'[u].pc \notin {"insert", "cancelVictim"}
    <3>1. CASE ReadRef(u) \/ MakePlan(u) \/ DropOrphan(u) \/ ReleaseVictim(u) \/ Hold(u)
      BY <3>1, CheckMoves
    <3>2. CASE AcceptPost(u) \/ Peek(u) \/ Touch(u) \/ AskClone(u)
      BY <1>1, <3>2 DEF AcceptPost, Peek, Touch, AskClone, Goto, Return, Move, Resting,
           ThreadFields
    <3>3. CASE LimitDone(u)
      BY <3>3, ContinueLemma DEF LimitDone
    <3>4. CASE Finished(u)
      BY <1>1, <3>4 DEF Finished, Move, Resting, ThreadFields
    <3>5. CASE \E i \in Ids : \/ \E call \in {"message", "results"} : CallPost(u, i, call)
                              \/ CallSnapshot(u, i) \/ CallResume(u, i)
      <4>1. PICK i \in Ids, pc \in {"accept", "peek", "touch"},
                 call \in {"message", "results", "snapshot", "resume"} :
                i \in table /\ Calling(u, call, i, pc)
        BY <3>5 DEF CallPost, CallSnapshot, CallResume
      <4>2. thread'[u] = [Resting EXCEPT !.call = call, !.id = i, !.pc = pc]
        BY <4>1, MovesTo DEF Calling
      <4> QED BY <4>1, <4>2 DEF Resting
    <3> QED BY <1>3, <3>1, <3>2, <3>3, <3>4, <3>5 DEF Waits
  <2>2. thread'[u].id \in {0, thread[u].id} \cup table
    <3>1. CASE ReadRef(u) \/ MakePlan(u) \/ DropOrphan(u) \/ ReleaseVictim(u) \/ Hold(u)
      BY <3>1, CheckMoves
    <3>2. CASE AcceptPost(u) \/ Peek(u) \/ Touch(u) \/ AskClone(u)
      BY <1>1, <3>2 DEF AcceptPost, Peek, Touch, AskClone, Goto, Return, Move, Resting,
           ThreadFields
    <3>3. CASE LimitDone(u)
      BY <3>3, ContinueLemma DEF LimitDone
    <3>4. CASE Finished(u)
      BY <1>1, <3>4 DEF Finished, Move, Resting, ThreadFields
    <3>5. CASE \E i \in Ids : \/ \E call \in {"message", "results"} : CallPost(u, i, call)
                              \/ CallSnapshot(u, i) \/ CallResume(u, i)
      <4>1. PICK i \in Ids, pc \in {"accept", "peek", "touch"},
                 call \in {"message", "results", "snapshot", "resume"} :
                i \in table /\ Calling(u, call, i, pc)
        BY <3>5 DEF CallPost, CallSnapshot, CallResume
      <4>2. thread'[u] = [Resting EXCEPT !.call = call, !.id = i, !.pc = pc]
        BY <4>1, MovesTo DEF Calling
      <4> QED BY <4>1, <4>2 DEF Resting
    <3> QED BY <1>3, <3>1, <3>2, <3>3, <3>4, <3>5 DEF Waits
  <2> QED BY <2>1, <2>2 DEF Speaks
<1>4. CASE Insert(u) \/ Save(u)
  <2>1. Return(u) \/ Continue(u) \/ Goto(u, "save") \/ Goto(u, "hold")
    BY <1>4 DEF Insert, Save, SaveRecord
  <2>2. /\ thread'[u].pc \notin {"insert", "cancelVictim"}
        /\ thread'[u].id \in {0, thread[u].id}
    BY <2>1, ReturnLemma, ContinueLemma, GotoLemma
  <2> QED BY <2>2 DEF Speaks
<1>5. CASE DropSession(u)
  <2>1. PICK c \in thread[u].plan.sessions :
          /\ table' = table \ {c.id}
          /\ Move(u, [thread[u] EXCEPT !.pc = IF c.id \in table THEN "cancelVictim"
                                              ELSE "release",
                                       !.victim = c.id, !.plan.sessions = @ \ {c}])
    BY <1>5 DEF DropSession
  <2>2. /\ thread'[u].pc = IF c.id \in table THEN "cancelVictim" ELSE "release"
        /\ thread'[u].id = thread[u].id /\ thread'[u].victim = c.id
    BY <1>1, <2>1 DEF Move, ThreadFields
  <2> QED BY <2>1, <2>2 DEF Speaks
<1>6. ASSUME NEW i \in Ids, CallDestroy(u, i) PROVE Speaks(u)
  <2>1. /\ i \in table /\ table' = table \ {i}
        /\ thread'[u].id = i /\ thread'[u].pc = "cancelVictim" /\ thread'[u].victim = i
    BY <1>1, <1>6 DEF CallDestroy, Move, Resting, ThreadFields
  <2> QED BY <2>1 DEF Speaks
<1>7. CASE Begin(u) \/ Enqueue(u) \/ CancelVictim(u)
  <2>1. /\ thread'[u].pc \notin {"insert", "cancelVictim"}
        /\ thread'[u].id \in {0, thread[u].id}
    <3>1. \/ Return(u) \/ Goto(u, "release")
          \/ \E k : Move(u, [thread[u] EXCEPT !.pc = "enqueue", !.key = k])
      BY <1>7 DEF Begin, Claim, Enqueue, CancelVictim
    <3>2. CASE Return(u) \/ Goto(u, "release")
      BY <3>2, ReturnLemma, GotoLemma
    <3>3. CASE ~(Return(u) \/ Goto(u, "release"))
      BY <1>1, <3>1, <3>3 DEF Move, ThreadFields
    <3> QED BY <3>2, <3>3
  <2> QED BY <2>1 DEF Speaks
<1>8. ASSUME NEW t \in Threads, \/ Waits(t) \/ Makes(t) \/ Shelves(t) \/ Begin(t)
                                \/ Enqueue(t) \/ CancelVictim(t)
      PROVE  Makes(u) \/ Speaks(u)
    BY <1>2, <1>3, <1>4, <1>5, <1>6, <1>7, <1>8, OneMoves DEF Shelves
<1>9. "worker" \in Threads /\ "main" \in Threads /\ Callers \subseteq Threads
    BY DEF Threads
<1>10. ASSUME NEW t \in Threads, NEW k \in DOMAIN jobs,
              CallCancel(t, k) \/ (StartJob(k) /\ t = "worker")
       PROVE  Speaks(u)
  <2>1. \/ thread' = thread
        \/ \E r : /\ DOMAIN r = ThreadFields /\ r.pc \in {"complete", "run"}
                  /\ r.id = jobs[k].session /\ Move(t, r)
    BY <1>10 DEF CallCancel, StartJob, Resting, ThreadFields
  <2>2. CASE thread' = thread
    BY <1>2, <2>2
  <2>3. CASE thread' # thread
    <3>1. PICK r : /\ r.pc \in {"complete", "run"}
                   /\ r.id = jobs[k].session /\ Move(t, r)
      BY <2>1, <2>3
    <3>2. CASE u = t
      BY <3>1, <3>2, MovesTo DEF Speaks
    <3>3. CASE u # t
      <4>1. thread'[u] = thread[u]
        BY <3>1, <3>3, MovesTo
      <4> QED BY <1>2, <4>1
    <3> QED BY <3>2, <3>3
  <2> QED BY <2>2, <2>3
<1>11. ASSUME NEW o, NEW park, EndJob(o, park) PROVE Speaks(u)
  <2>1. Move("worker", [thread["worker"] EXCEPT !.pc = "complete", !.outcome = o])
    BY <1>11 DEF EndJob
  <2>2. CASE u = "worker"
    <3>1. thread'[u].pc = "complete" /\ thread'[u].id = thread[u].id
      BY <1>1, <2>1, <2>2 DEF Move, ThreadFields
    <3> QED BY <3>1 DEF Speaks
  <2>3. CASE u # "worker"
    <3>1. thread'[u] = thread[u]
      BY <1>9, <2>1, <2>3, MovesTo
    <3> QED BY <1>2, <3>1
  <2> QED BY <2>2, <2>3
<1>12. CASE Load
  <2>1. Goto("main", "hold") \/ Goto("main", "idle")
    BY <1>12 DEF Load
  <2>2. CASE u = "main"
    <3>1. /\ thread'[u].pc \notin {"insert", "cancelVictim"}
          /\ thread'[u].id \in {0, thread[u].id}
      BY <1>1, <2>1, <2>2 DEF Goto, Move, ThreadFields
    <3> QED BY <3>1 DEF Speaks
  <2>3. CASE u # "main"
    BY <1>2, <1>9, <2>1, <2>3, MovesTo DEF Goto
  <2> QED BY <2>2, <2>3
<1>13. CASE Crash
  <2>1. thread'[u].pc \in {"idle", "load"} /\ thread'[u].id = 0
    BY <1>13 DEF Crash, Resting
  <2> QED BY <2>1 DEF Speaks
<1>14. CASE (\E t \in Callers : CallGc(t)) \/ SessionOps \/ Tick \/ \E i \in Ids : Expire(i)
    BY <1>2, <1>14 DEF CallGc, SessionOps, Tick, Expire
<1> QED BY <1>8, <1>9, <1>10, <1>11, <1>12, <1>13, <1>14, NextCases

(* A session comes into the table when its maker puts it there, and when    *)
(* main loads the files.                                                    *)
LEMMA TableSources ==
    ASSUME Next, NEW i \in table', i \notin table
    PROVE  Load \/ \E t \in Threads : Insert(t) /\ thread[t].id = i
<1>1. ASSUME NEW t \in Threads, Shelves(t), ~Insert(t) PROVE table' \subseteq table
    BY <1>1 DEF Shelves, Save, DropSession, CallDestroy
<1>2. ASSUME NEW t \in Threads, Insert(t) PROVE thread[t].id = i
    BY <1>2 DEF Insert
<1>3. ASSUME NEW t \in Threads, \/ Waits(t) \/ Makes(t) \/ Begin(t) \/ Enqueue(t)
                                \/ CancelVictim(t)
      PROVE  table' = table
    BY <1>3 DEF Waits, AcceptPost, Peek, AskClone, Touch, Hold, ReadRef, MakePlan,
           DropOrphan, LimitDone, ReleaseVictim, Finished, CallPost, CallSnapshot,
           CallResume, Makes, CallCreate, Capture, Begin, Enqueue, CancelVictim
<1>4. ASSUME NEW t \in Callers, CallGc(t) \/ \E k \in DOMAIN jobs : CallCancel(t, k)
      PROVE  table' \subseteq table
    BY <1>4 DEF CallGc, CallCancel
<1>5. ASSUME \/ SessionOps \/ \E k \in DOMAIN jobs : StartJob(k)
             \/ \E o \in Answers \cup {Ended("Full"), Failed}, park \in BOOLEAN :
                    EndJob(o, park)
             \/ Crash \/ Tick \/ \E j \in Ids : Expire(j)
      PROVE  table' \subseteq table
    BY <1>5 DEF SessionOps, StartJob, EndJob, Crash, Tick, Expire
<1> QED BY <1>1, <1>2, <1>3, <1>4, <1>5, NextCases

(* A task is for the session of the thread that claims it, until it ends.   *)
SameTask(k) ==
    \/ jobs'[k].session = 0 /\ jobs'[k].phase = "ended"
    \/ /\ k \in DOMAIN jobs /\ jobs'[k].session = jobs[k].session
       /\ jobs[k].phase = "ended" => jobs'[k].phase = "ended"

(* Every task keeps its session until it ends, or is being claimed.         *)
LEMMA TaskSources ==
    ASSUME IInv, Next, NEW k \in DOMAIN jobs'
    PROVE  \/ SameTask(k)
           \/ \E t \in Threads : At(t, "begin") /\ jobs'[k].session = thread[t].id
<1>1. /\ DOMAIN jobs = 1..Len(jobs) /\ Len(jobs) \in Nat
      /\ \A j \in DOMAIN jobs :
            jobs[j] \in [session : 0..newest, cancel : BOOLEAN,
                         phase : {"made", "queued", "running", "ended"}]
  <2>1. jobs \in Seq([session : 0..newest, cancel : BOOLEAN,
                      phase : {"made", "queued", "running", "ended"}])
    BY JobsLemma
  <2> DEFINE T == [session : 0..newest, cancel : BOOLEAN,
                   phase : {"made", "queued", "running", "ended"}]
  <2>2. jobs \in Seq(T) /\ DOMAIN jobs = 1..Len(jobs) /\ Len(jobs) \in Nat
    BY <2>1, JobsLemma
  <2> HIDE DEF T
  <2>3. \A j \in DOMAIN jobs : jobs[j] \in T
    BY <2>2, ElementOfSeq
  <2> QED BY <2>2, <2>3 DEF T
<1>2. ASSUME jobs' = jobs PROVE SameTask(k)
    BY <1>2 DEF SameTask
<1>3. ASSUME NEW t \in Threads, Begin(t), jobs' # jobs
      PROVE  \/ SameTask(k)
             \/ At(t, "begin") /\ jobs'[k].session = thread[t].id
  <2>1. /\ At(t, "begin")
        /\ jobs' = Append(jobs, [session |-> thread[t].id, phase |-> "made",
                                 cancel |-> FALSE])
    BY <1>3 DEF Begin, Claim
  <2>2. CASE k \in 1..Len(jobs)
    <3>1. jobs'[k] = jobs[k]
      BY <1>1, <2>1, <2>2
    <3> QED BY <1>1, <2>2, <3>1 DEF SameTask
  <2>3. CASE k = Len(jobs) + 1
    BY <1>1, <2>1, <2>3
  <2>4. DOMAIN jobs' = 1..(Len(jobs) + 1)
    BY <1>1, <2>1
  <2> QED BY <1>1, <2>2, <2>3, <2>4
<1>4. ASSUME NEW j \in DOMAIN jobs, NEW r,
             jobs' = [jobs EXCEPT ![j] = r],
             \/ r.session = 0 /\ r.phase = "ended"
             \/ /\ r.session = jobs[j].session
                /\ jobs[j].phase = "ended" => r.phase = "ended"
      PROVE  SameTask(k)
    BY <1>1, <1>4 DEF SameTask
<1>5. ASSUME NEW j \in DOMAIN jobs, CancelTask(j)
      PROVE  SameTask(k)
  <2> DEFINE r == CASE jobs[j].phase = "queued"  -> EndedTask
                    [] jobs[j].phase = "running" -> [jobs[j] EXCEPT !.cancel = TRUE]
                    [] OTHER -> jobs[j]
  <2>1. jobs' = [jobs EXCEPT ![j] = r]
    BY <1>5 DEF CancelTask
  <2>2. \/ r.session = 0 /\ r.phase = "ended"
        \/ /\ r.session = jobs[j].session
           /\ jobs[j].phase = "ended" => r.phase = "ended"
    BY <1>1 DEF EndedTask
  <2> HIDE DEF r
  <2> QED BY <1>4, <2>1, <2>2
<1>6. ASSUME NEW t \in Threads, Enqueue(t)
      PROVE  SameTask(k)
  <2> DEFINE j == thread[t].key
  <2>1. j \in DOMAIN jobs /\ jobs[j].phase = "made"
    BY <1>6 DEF Enqueue, IInv, TaskInv
  <2>2. jobs' = [jobs EXCEPT ![j] = [jobs[j] EXCEPT !.phase = "queued"]]
    BY <1>6 DEF Enqueue
  <2>3. [jobs[j] EXCEPT !.phase = "queued"].session = jobs[j].session
    BY <1>1, <2>1
  <2> QED BY <1>4, <2>1, <2>2, <2>3
<1>7. ASSUME NEW t \in Threads, CancelVictim(t), jobs' # jobs
      PROVE  SameTask(k)
  <2> DEFINE j == sess[thread[t].victim].job
  <2>1. CancelTask(j)
    BY <1>7 DEF CancelVictim
  <2>2. CASE j \in DOMAIN jobs
    BY <1>5, <2>1, <2>2
  <2>3. CASE j \notin DOMAIN jobs
    <3>1. k \in DOMAIN jobs /\ jobs'[k] = jobs[k]
      BY <1>1, <2>1, <2>3 DEF CancelTask
    <3> QED BY <3>1 DEF SameTask
  <2> QED BY <2>2, <2>3
<1>8. ASSUME NEW j \in DOMAIN jobs, StartJob(j)
      PROVE  SameTask(k)
    BY <1>1, <1>8 DEF StartJob, SameTask
<1>9. ASSUME NEW o, NEW park, EndJob(o, park)
      PROVE  SameTask(k)
    BY <1>1, <1>9 DEF EndJob, EndedTask, SameTask
<1>10. CASE Crash
    BY <1>10 DEF Crash, EndedTask, SameTask
<1>11. ASSUME NEW t \in Threads, Waits(t) \/ Makes(t) \/ Shelves(t) PROVE jobs' = jobs
    BY <1>11, WaitsThread DEF Makes, CallCreate, Capture, Shelves, Insert, Save,
           DropSession, CallDestroy, pending
<1>12. ASSUME \/ \E t \in Callers : CallGc(t)
              \/ SessionOps \/ Load \/ Tick \/ \E i \in Ids : Expire(i)
       PROVE  jobs' = jobs
    BY <1>12 DEF CallGc, SessionOps, Load, Tick, Expire, pending
<1>13. ASSUME NEW t \in Callers, NEW j \in DOMAIN jobs, CallCancel(t, j)
       PROVE  CancelTask(j)
    BY <1>13 DEF CallCancel
<1> QED BY <1>2, <1>3, <1>5, <1>6, <1>7, <1>8, <1>9, <1>10, <1>11, <1>12, <1>13, NextCases

(* What the variables hold is kept by every step.                           *)
LEMMA ShapeStep ==
    ASSUME IInv, ShapeInv, TurnFrame, Next
    PROVE  ShapeInv'
<1>1. \A i \in Ids : /\ SessionShape(sess'[i]) /\ sess'[i].job \in 0..Len(jobs')
                     /\ FileShape(disk'[i])
    BY ShapesKept, FilesKept
<1>2. \A t \in Threads : LocalShape(thread'[t])
    BY LocalsKept
<1>3. ASSUME NEW k \in DOMAIN jobs', jobs'[k].phase # "ended"
      PROVE  jobs'[k].session \in Ids
  <2>1. CASE SameTask(k)
    BY <1>3, <2>1 DEF SameTask, ShapeInv
  <2>2. ASSUME NEW t \in Threads, At(t, "begin") PROVE thread[t].id \in Ids
    BY <2>2 DEF ShapeInv, LocalShape, At
  <2> QED BY <2>1, <2>2, TaskSources
<1> QED BY <1>1, <1>2, <1>3, StoresKept DEF ShapeInv, Stores

(* A session that is not in the table yet stays its maker's, and one that   *)
(* is being cancelled stays out of the table.                               *)
LEMMA FreshStep ==
    ASSUME IInv, ShapeInv, TurnFrame, FreshInv, Next
    PROVE  FreshInv'
<1>0. /\ newest \in Nat /\ newest' \in Nat /\ newest' >= newest
      /\ \A i \in table : i <= newest
      /\ \A t \in Threads : /\ thread[t].id \in 0..newest
                            /\ At(t, "insert") => thread[t].id \in Ids
      /\ \A k \in DOMAIN jobs : jobs[k].session \in 0..newest
      /\ 0 \notin Ids /\ table \subseteq Ids /\ Ids \subseteq Nat /\ newest <= MaxId
  <2>1. newest \in 0..MaxId /\ MaxId \in Nat /\ Ids = 1..MaxId
    BY SessionsAssumption DEF IInv, Known, Ids
  <2>2. newest \in Nat /\ newest' \in Nat /\ newest' >= newest
    BY NewestGrows
  <2>3. \A t \in Threads : /\ thread[t].id \in 0..newest
                           /\ At(t, "insert") => thread[t].id \in Ids
    BY <2>1, <2>2 DEF IInv, Known
  <2>4. (\A i \in table : i <= newest) /\ table \subseteq Ids
    BY DEF IInv, Known
  <2>5. \A k \in DOMAIN jobs : jobs[k].session \in 0..newest
    BY JobsLemma
  <2> QED BY <2>1, <2>2, <2>3, <2>4, <2>5
<1>01. \A v \in Ids : v <= newest => v <= newest'
    BY <1>0
<1>1. ASSUME NEW t \in Threads, At(t, "insert") \/ At(t, "cancelVictim"),
             thread'[t] = thread[t],
             NEW i, At(t, "insert") => i = thread[t].id,
             At(t, "cancelVictim") => i = thread[t].victim
      PROVE  i \notin table'
  <2>1. i \notin table
    BY <1>1 DEF FreshInv, At
  <2>2. ~Load
    <3>1. CASE Load
      <4>1. t = "main" /\ "main" \in Threads
        BY <1>1, <3>1 DEF Load, IInv, LoadInv, At, Threads
      <4> QED BY <1>1, <3>1, <4>1 DEF Load, At
    <3> QED BY <3>1
  <2>3. ASSUME NEW s \in Threads, Insert(s), thread[s].id = i PROVE FALSE
    <3>1. At(s, "insert")
      BY <2>3 DEF Insert
    <3>2. s = t
      BY <1>1, <2>3, <3>1 DEF FreshInv
    <3>3. Return(t) \/ Goto(t, "save")
      BY <2>3, <3>2 DEF Insert
    <3>4. thread'[t].pc # "insert"
      BY <3>3, ReturnLemma, GotoLemma
    <3> QED BY <1>1, <3>1, <3>2, <3>4 DEF At
  <2> QED BY <2>1, <2>2, <2>3, TableSources
<1>2. ASSUME NEW t \in Threads, At(t, "insert")', ~Makes(t)
      PROVE  /\ thread'[t].id \notin table'
             /\ sess'[thread'[t].id].state = "Idle"
             /\ \A u \in Threads \ {t} :
                   /\ thread'[u].id # thread'[t].id
                   /\ At(u, "cancelVictim")' => thread'[u].victim # thread'[t].id
             /\ \A k \in DOMAIN jobs' : jobs'[k].session # thread'[t].id
  <2> DEFINE i == thread[t].id
  <2>1. thread'[t] = thread[t] /\ At(t, "insert") /\ i \in Ids
    BY <1>0, <1>2, IdSources DEF Speaks, At
  <2>2. /\ i \notin table /\ sess[i].state = "Idle"
        /\ \A u \in Threads \ {t} :
              /\ thread[u].id # i
              /\ At(u, "cancelVictim") => thread[u].victim # i
        /\ \A k \in DOMAIN jobs : jobs[k].session # i
    BY <2>1 DEF FreshInv
  <2>3. i \notin table'
    BY <1>1, <2>1 DEF At
  <2>4. ASSUME NEW u \in Threads \ {t}
        PROVE  thread'[u].id # i /\ (At(u, "cancelVictim")' => thread'[u].victim # i)
    <3>1. CASE Makes(u)
      <4>1. thread'[u].id = newest + 1 /\ thread'[u].pc = "insert"
        <5>1. PICK parent, msgs : NewObject(u, parent, msgs)
          BY <3>1 DEF Makes, CallCreate, Capture
        <5>2. thread'[u] = [Resting EXCEPT !.pc = "insert", !.id = newest + 1,
                               !.key = parent,
                               !.call = IF parent = 0 THEN "create" ELSE "snapshot"]
          BY <5>1, MovesTo DEF NewObject
        <5> QED BY <5>2 DEF Resting
      <4>2. i <= newest
        BY <1>0
      <4> QED BY <1>0, <4>1, <4>2 DEF At
    <3>2. CASE Speaks(u)
      <4>1. thread'[u].id # i
        BY <1>0, <2>1, <2>2, <3>2 DEF Speaks
      <4>2. At(u, "cancelVictim")' => thread'[u].victim # i
        BY <2>2, <3>2 DEF Speaks, At
      <4> QED BY <4>1, <4>2
    <3> QED BY <3>1, <3>2, IdSources
  <2>5. ASSUME NEW k \in DOMAIN jobs' PROVE jobs'[k].session # i
    <3>1. i # 0
      BY <1>0, <2>1
    <3>2. \A u \in Threads : At(u, "begin") => u # t
      BY <2>1 DEF At
    <3> QED BY <2>2, <3>1, <3>2, TaskSources DEF SameTask
  <2>6. sess'[i].state = "Idle"
    <3>1. SessionShape(sess[i]) /\ DOMAIN sess[i] = SessionFields
      BY <2>1 DEF ShapeInv, IInv, Framed
    <3>2. sess[i].job = 0
      BY <2>2, <3>1 DEF SessionShape
    <3>3. CASE SameTurn(sess[i], sess'[i])
      BY <2>2, <3>3 DEF SameTurn
    <3>4. CASE Accepted(i)
      BY <3>1, <3>4, AcceptFields DEF Accepted
    <3>5. ~Begun(i)
      <4>1. \A u \in Threads : At(u, "begin") => thread[u].id # i
        BY <2>1, <2>2 DEF At
      <4> QED BY <4>1 DEF Begun
    <3>6. ~Heard(i)
      BY <3>2 DEF Heard
    <3>7. ~Made(i)
      BY <1>0 DEF Made
    <3>8. ~Reloaded(i)
      <4>1. ~Crash
        BY <1>2, <2>1 DEF Crash, Resting, At
      <4>2. ~Load
        <5>1. CASE Load
          <6>1. t = "main"
            BY <2>1, <5>1 DEF Load, IInv, LoadInv, At
          <6> QED BY <2>1, <5>1, <6>1 DEF Load, At
        <5> QED BY <5>1
      <4> QED BY <4>1, <4>2 DEF Reloaded
    <3> QED BY <2>1, <3>3, <3>4, <3>5, <3>6, <3>7, <3>8, SessionSteps DEF SessionStep
  <2> QED BY <2>1, <2>3, <2>4, <2>5, <2>6
<1>3. ASSUME NEW t \in Threads, Makes(t)
      PROVE  /\ thread'[t].id \notin table'
             /\ sess'[thread'[t].id].state = "Idle"
             /\ \A u \in Threads \ {t} :
                   /\ thread'[u].id # thread'[t].id
                   /\ At(u, "cancelVictim")' => thread'[u].victim # thread'[t].id
             /\ \A k \in DOMAIN jobs' : jobs'[k].session # thread'[t].id
  <2>1. PICK parent, msgs : NewObject(t, parent, msgs)
    BY <1>3 DEF Makes, CallCreate, Capture
  <2>2. thread'[t] = [Resting EXCEPT !.pc = "insert", !.id = newest + 1, !.key = parent,
                               !.call = IF parent = 0 THEN "create" ELSE "snapshot"]
    BY <2>1, MovesTo DEF NewObject
  <2>3. thread'[t].id = newest + 1
    BY <2>2 DEF Resting
  <2>4. table' = table /\ jobs' = jobs
    BY <1>3 DEF Makes, CallCreate, Capture, pending
  <2>5. \A u \in Threads \ {t} : thread'[u] = thread[u]
    BY <1>3, OneMoves
  <2>6. sess'[newest + 1].state = "Idle"
    <3>1. sess' = [sess EXCEPT ![newest + 1] = NewSession(msgs)] /\ newest + 1 \in Ids
      BY <1>0, <2>1, SessionsAssumption DEF NewObject, Ids
    <3> QED BY <3>1 DEF NewSession, IInv, Framed
  <2>7. \A u \in Threads \ {t} : At(u, "cancelVictim")' => thread'[u].victim <= newest
    BY <2>5 DEF FreshInv, At
  <2>8. newest + 1 \notin table /\ \A k \in DOMAIN jobs : jobs[k].session # newest + 1
    BY <1>0
  <2>9. \A u \in Threads \ {t} : /\ thread'[u].id # newest + 1
                                 /\ At(u, "cancelVictim")' => thread'[u].victim # newest + 1
    BY <1>0, <2>5, <2>7
  <2> QED BY <2>3, <2>4, <2>6, <2>8, <2>9
<1>4. ASSUME NEW t \in Threads, At(t, "cancelVictim")'
      PROVE  thread'[t].victim \notin table' /\ thread'[t].victim <= newest'
  <2>1. ~Makes(t)
    <3>1. CASE Makes(t)
      <4>1. PICK parent, msgs : NewObject(t, parent, msgs)
        BY <3>1 DEF Makes, CallCreate, Capture
      <4>2. thread'[t] = [Resting EXCEPT !.pc = "insert", !.id = newest + 1,
                              !.key = parent,
                              !.call = IF parent = 0 THEN "create" ELSE "snapshot"]
        BY <4>1, MovesTo DEF NewObject
      <4> QED BY <1>4, <4>2 DEF Resting, At
    <3> QED BY <3>1
  <2>2. CASE thread'[t] = thread[t]
    <3>1. /\ thread[t].pc = "cancelVictim" /\ thread[t].victim <= newest
          /\ thread[t].victim \in Ids
      BY <1>4, <2>2 DEF FreshInv, At, ShapeInv, LocalShape
    <3>2. thread[t].victim \notin table'
      BY <1>1, <2>2, <3>1 DEF At
    <3> QED BY <1>01, <2>2, <3>1, <3>2
  <2>3. CASE thread'[t].victim \in table /\ thread'[t].victim \notin table'
    BY <1>0, <1>01, <2>3
  <2> QED BY <1>4, <2>1, <2>2, <2>3, IdSources DEF Speaks, At
<1> QED BY <1>2, <1>3, <1>4 DEF FreshInv, At

-----------------------------------------------------------------------------
(* A session at rest is on disk as it stands.                               *)

(* The record of session i gives back what a client sees of it.             *)
Filed(i) ==
    /\ HasFile(i)
    /\ disk[i].rec.msgs = sess[i].msgs
    /\ disk[i].rec.updated = sess[i].updated
    /\ sess[i].job = 0 => Conversation(Restore(disk[i].rec)) = Conversation(sess[i])

(* The record of a session at rest restores it.                             *)
LEMMA RoundTrip ==
    ASSUME NEW s, SessionShape(s)
    PROVE  /\ RecordOf(s).msgs = s.msgs /\ RecordOf(s).updated = s.updated
           /\ s.job = 0 => Conversation(Restore(RecordOf(s))) = Conversation(s)
BY DEF SessionShape, AtRest, RecordOf, Restore, NewSession, Conversation

(* What a step may do to a session, for its record: most changes send the   *)
(* thread that makes them to save it.                                       *)
LEMMA SessionChanges ==
    ASSUME IInv, Next, NEW i \in Ids
    PROVE  \/ sess'[i] = sess[i]
           \/ sess'[i] = [sess[i] EXCEPT !.expired = TRUE]
           \/ sess'[i] = BeginGeneration(sess[i], Len(jobs) + 1)
           \/ \E t \in Threads : At(t, "save")' /\ thread'[t].id = i
           \/ \E t \in Threads : At(t, "cancelVictim") /\ thread[t].victim = i
           \/ i = newest + 1 \/ Load \/ Crash
<1>1. DOMAIN sess = Ids
    BY DEF IInv, Framed
<1>2. ASSUME NEW t \in Threads, NEW s, sess' = [sess EXCEPT ![thread[t].id] = s],
             Goto(t, "save")
      PROVE  sess'[i] = sess[i] \/ (At(t, "save")' /\ thread'[t].id = i)
  <2>1. At(t, "save")' /\ thread'[t].id = thread[t].id
    BY <1>2, GotoLemma DEF At
  <2> QED BY <1>1, <1>2, <2>1
<1>3. ASSUME NEW t \in Threads, AcceptPost(t)
      PROVE  sess'[i] = sess[i] \/ (At(t, "save")' /\ thread'[t].id = i)
    BY <1>2, <1>3 DEF AcceptPost
<1>4. ASSUME NEW t \in Threads, Touch(t)
      PROVE  sess'[i] = sess[i] \/ (At(t, "save")' /\ thread'[t].id = i)
    BY <1>2, <1>4 DEF Touch
<1>5. ASSUME NEW t \in Threads, Finished(t)
      PROVE  sess'[i] = sess[i] \/ (At(t, "save")' /\ thread'[t].id = i)
  <2>1. /\ thread'[t] = [Resting EXCEPT !.pc = "save", !.call = thread[t].call,
                                        !.id = thread[t].id]
        /\ \E s : sess' = [sess EXCEPT ![thread[t].id] = s]
    BY <1>5, MovesTo DEF Finished, HearOf
  <2>2. At(t, "save")' /\ thread'[t].id = thread[t].id
    BY <2>1 DEF Resting, At
  <2> QED BY <1>1, <2>1, <2>2
<1>6. ASSUME NEW t \in Threads, CancelVictim(t)
      PROVE  sess'[i] = sess[i] \/ (At(t, "cancelVictim") /\ thread[t].victim = i)
  <2>1. sess' = sess \/ \E s : sess' = [sess EXCEPT ![thread[t].victim] = s]
    BY <1>6 DEF CancelVictim, HearOf
  <2> QED BY <1>1, <1>6, <2>1 DEF CancelVictim
<1>7. ASSUME NEW t \in Threads, Begin(t)
      PROVE  sess'[i] = sess[i] \/ sess'[i] = BeginGeneration(sess[i], Len(jobs) + 1)
    BY <1>1, <1>7 DEF Begin, Claim
<1>8. ASSUME NEW t \in Threads, Makes(t)
      PROVE  sess'[i] = sess[i] \/ i = newest + 1
    BY <1>1, <1>8 DEF Makes, CallCreate, Capture, NewObject
<1>9. ASSUME NEW j \in Ids, Expire(j)
      PROVE  sess'[i] = sess[i] \/ sess'[i] = [sess[i] EXCEPT !.expired = TRUE]
    BY <1>1, <1>9 DEF Expire
<1> QED BY <1>3, <1>4, <1>5, <1>6, <1>7, <1>8, <1>9, SessionCases

(* A record changes only with a save, or as its session is removed, and so  *)
(* does the note of a record that was refused.                              *)
LEMMA FileChanges ==
    ASSUME IInv, FreshInv, Next, NEW i \in Ids, i \in table'
    PROVE  \/ disk'[i] = disk[i] /\ (i \in unsaved => i \in unsaved')
           \/ \E t \in Threads : Save(t) /\ thread[t].id = i
<1>1. DOMAIN disk = Ids
    BY DEF IInv, Framed
<1>2. CASE UNCHANGED <<disk, unsaved>>
    BY <1>2
<1>3. ASSUME NEW S, i \notin S, disk' = WithoutFiles(S), unsaved' = unsaved \ S
      PROVE  disk'[i] = disk[i] /\ (i \in unsaved => i \in unsaved')
    BY <1>3 DEF WithoutFiles
<1>4. ASSUME NEW t \in Threads, Save(t), thread[t].id # i
      PROVE  disk'[i] = disk[i] /\ (i \in unsaved => i \in unsaved')
    BY <1>1, <1>4 DEF Save, SaveRecord
<1>5. ASSUME NEW t \in Threads, Insert(t)
      PROVE  disk'[i] = disk[i] /\ (i \in unsaved => i \in unsaved')
  <2>1. i \in table \ Collected \/ i = thread[t].id
    BY <1>5 DEF Insert
  <2>2. thread[t].id \notin table
    BY <1>5 DEF Insert, FreshInv
  <2>3. i \notin Collected
    BY <2>1, <2>2 DEF Collected
  <2> QED BY <1>3, <1>5, <2>3 DEF Insert
<1>6. ASSUME NEW t \in Callers, CallGc(t)
      PROVE  disk'[i] = disk[i] /\ (i \in unsaved => i \in unsaved')
    BY <1>3, <1>6 DEF CallGc
<1>7. ASSUME NEW t \in Threads, DropSession(t)
      PROVE  disk'[i] = disk[i] /\ (i \in unsaved => i \in unsaved')
  <2>1. PICK c : /\ table' = table \ {c.id} /\ disk' = WithoutFiles({c.id})
                 /\ unsaved' = unsaved \ {c.id}
    BY <1>7 DEF DropSession
  <2> QED BY <1>3, <2>1
<1>8. ASSUME NEW t \in Threads, NEW j \in Ids, CallDestroy(t, j)
      PROVE  disk'[i] = disk[i] /\ (i \in unsaved => i \in unsaved')
    BY <1>3, <1>8 DEF CallDestroy
<1>9. ASSUME NEW t \in Threads, \/ Waits(t) \/ Makes(t) \/ Begin(t) \/ Enqueue(t)
                                \/ CancelVictim(t)
      PROVE  UNCHANGED <<disk, unsaved>>
    BY <1>9 DEF Waits, AcceptPost, Peek, AskClone, Touch, Hold, ReadRef, MakePlan,
           DropOrphan, LimitDone, ReleaseVictim, Finished, CallPost, CallSnapshot,
           CallResume, Makes, CallCreate, Capture, Begin, Enqueue, CancelVictim, store,
           history
<1>10. ASSUME \/ \E t \in Callers, k \in DOMAIN jobs : CallCancel(t, k)
              \/ SessionOps \/ \E k \in DOMAIN jobs : StartJob(k)
              \/ \E o \in Answers \cup {Ended("Full"), Failed}, park \in BOOLEAN :
                     EndJob(o, park)
              \/ Load \/ Tick \/ \E j \in Ids : Expire(j)
       PROVE  UNCHANGED <<disk, unsaved>>
    BY <1>10 DEF CallCancel, SessionOps, StartJob, EndJob, Load, Tick, Expire, store,
           history
<1>11. ~Crash
    BY DEF Crash
<1> QED BY <1>2, <1>4, <1>5, <1>6, <1>7, <1>8, <1>9, <1>10, <1>11, NextCases DEF Shelves

(* A thread that is about to save does so next.                             *)
LEMMA SavingGoesOn ==
    ASSUME IInv, Next, NEW t \in Threads, At(t, "save")
    PROVE  \/ At(t, "save")' /\ thread'[t].id = thread[t].id
           \/ Save(t) \/ Crash
<1>1. CASE thread'[t] = thread[t]
    BY <1>1 DEF At
<1>2. ASSUME \/ Waits(t) \/ Makes(t) \/ Begin(t) \/ Enqueue(t) \/ CancelVictim(t)
             \/ (Shelves(t) /\ ~Save(t))
      PROVE  FALSE
    BY <1>2 DEF Waits, AcceptPost, Peek, AskClone, Touch, Hold, ReadRef, MakePlan,
           DropOrphan, LimitDone, ReleaseVictim, Finished, CallPost, CallSnapshot,
           CallResume, Makes, CallCreate, Capture, Begin, Enqueue, CancelVictim,
           Shelves, Insert, DropSession, CallDestroy, MayCall, At
<1>3. ASSUME NEW u \in Threads, u # t, \/ Waits(u) \/ Makes(u) \/ Shelves(u) \/ Begin(u)
                                      \/ Enqueue(u) \/ CancelVictim(u)
      PROVE  thread'[t] = thread[t]
    BY <1>3, OneMoves
<1>4. ASSUME NEW u \in Callers, NEW k \in DOMAIN jobs, CallCancel(u, k)
      PROVE  thread'[t] = thread[t]
  <2>1. u # t /\ u \in Threads
    BY <1>4 DEF CallCancel, MayCall, At, Threads
  <2>2. thread' = thread \/ \E r : Move(u, r)
    BY <1>4 DEF CallCancel
  <2> QED BY <2>1, <2>2, MovesTo
<1>5. "worker" \in Threads /\ "main" \in Threads
    BY DEF Threads
<1>6. ASSUME \/ \E k \in DOMAIN jobs : StartJob(k)
             \/ \E o \in Answers \cup {Ended("Full"), Failed}, park \in BOOLEAN :
                    EndJob(o, park)
      PROVE  thread'[t] = thread[t]
  <2>1. t # "worker"
    BY <1>6 DEF StartJob, EndJob, At
  <2>2. \E r : Move("worker", r)
    BY <1>6 DEF StartJob, EndJob
  <2> QED BY <1>5, <2>1, <2>2, MovesTo
<1>7. CASE Load
  <2>1. t # "main" /\ \E r : Move("main", r)
    BY <1>7 DEF Load, Goto, At
  <2>2. thread'[t] = thread[t]
    BY <1>5, <2>1, MovesTo
  <2> QED BY <1>1, <2>2
<1>8. ASSUME \/ \E u \in Callers : CallGc(u)
             \/ SessionOps \/ Tick \/ \E i \in Ids : Expire(i)
      PROVE  thread'[t] = thread[t]
    BY <1>8 DEF CallGc, SessionOps, Tick, Expire
<1> QED BY <1>1, <1>2, <1>3, <1>4, <1>6, <1>7, <1>8, NextCases

(* Every step keeps what is on disk up with the sessions at rest.           *)
LEMMA DurableStep ==
    ASSUME IInv, ShapeInv, FreshInv, Durable, Next
    PROVE  Durable'
<1> SUFFICES ASSUME NEW i \in table', i \notin unsaved', ~Saving(i)' PROVE Filed(i)'
    BY DEF Durable, Filed
<1>1. i \in Ids /\ DOMAIN disk = Ids /\ DOMAIN sess[i] = SessionFields
  <2>1. IInv'
    BY NextIInv
  <2> QED BY <2>1 DEF IInv, Known, Framed
<1>2. ASSUME NEW t \in Threads, Save(t), thread[t].id = i PROVE Filed(i)'
  <2>1. sess' = sess /\ table' = table
    BY <1>2 DEF Save
  <2>2. disk'[i] = RecordFile(i)
    BY <1>1, <1>2, <2>1 DEF Save, SaveRecord
  <2>3. clock # Never
    BY SessionsAssumption DEF ShapeInv, Never
  <2>4. SessionShape(sess[i])
    BY <1>1 DEF ShapeInv
  <2>5. /\ disk'[i].written = clock /\ disk'[i].rec = RecordOf(sess[i])
    BY <2>2 DEF RecordFile
  <2>6. Conversation(Restore(disk[i].rec))' = Conversation(Restore(RecordOf(sess[i])))
    BY <2>5 DEF Conversation, Restore, NewSession
  <2>7. Conversation(sess[i])' = Conversation(sess[i]) /\ sess'[i] = sess[i]
    BY <2>1 DEF Conversation
  <2> QED BY <2>3, <2>4, <2>5, <2>6, <2>7, RoundTrip DEF Filed, HasFile
<1>3. CASE Load
  <2>1. i \in Restored /\ disk' = disk /\ sess'[i] = Restore(disk[i].rec)
    BY <1>1, <1>3 DEF Load, store
  <2>2. HasFile(i) /\ FileShape(disk[i])
    BY <1>1, <2>1 DEF Restored, ShapeInv
  <2>3. Restore(disk[i].rec).msgs = disk[i].rec.msgs
        /\ Restore(disk[i].rec).updated = disk[i].rec.updated
    BY <2>2, RestoreFields DEF HasFile
  <2>4. Conversation(Restore(disk[i].rec))' = Conversation(sess'[i])
    <3>1. Restore(disk[i].rec)' = Restore(disk[i].rec)
      BY <1>3, <2>1 DEF Restore, NewSession, Load, bounds
    <3> QED BY <2>1, <3>1 DEF Conversation
  <2> QED BY <2>1, <2>2, <2>3, <2>4 DEF Filed, HasFile
<1>4. CASE ~Load /\ \A t \in Threads : ~(Save(t) /\ thread[t].id = i)
  <2>1. i \in table
    <3>1. ASSUME NEW t \in Threads, Insert(t), thread[t].id = i PROVE FALSE
      <4>1. thread[t].id \notin table
        BY <3>1 DEF Insert, FreshInv
      <4>2. Goto(t, "save")
        BY <3>1, <4>1 DEF Insert
      <4>3. At(t, "save")' /\ thread'[t].id = i
        BY <3>1, <4>2, GotoLemma DEF At
      <4> QED BY <4>3 DEF Saving
    <3> QED BY <1>4, <3>1, TableSources
  <2>2. disk'[i] = disk[i] /\ i \notin unsaved
    BY <1>1, <1>4, FileChanges
  <2>3. ~Saving(i)
    <3>1. ~Crash
      BY DEF Crash
    <3>2. ASSUME NEW t \in Threads, thread[t].id = i, At(t, "save") PROVE FALSE
      BY <1>4, <3>1, <3>2, SavingGoesOn DEF Saving
    <3> QED BY <3>2 DEF Saving
  <2>4. Filed(i)
    BY <2>1, <2>2, <2>3 DEF Durable, Filed
  <2>5. \/ sess'[i] = sess[i]
        \/ sess'[i] = [sess[i] EXCEPT !.expired = TRUE]
        \/ sess'[i] = BeginGeneration(sess[i], Len(jobs) + 1)
    <3>1. ~(\E t \in Threads : At(t, "save")' /\ thread'[t].id = i)
      BY DEF Saving
    <3>2. ~(\E t \in Threads : At(t, "cancelVictim") /\ thread[t].victim = i)
      BY <2>1 DEF FreshInv
    <3>3. i # newest + 1
      <4>1. i <= newest /\ newest \in Nat
        BY <2>1, NewestGrows DEF IInv, Known
      <4> QED BY <1>1, <4>1, SessionsAssumption DEF Ids
    <3>4. ~Crash
      BY DEF Crash
    <3> QED BY <1>1, <1>4, <3>1, <3>2, <3>3, <3>4, SessionChanges
  <2>6. /\ sess'[i].msgs = sess[i].msgs /\ sess'[i].updated = sess[i].updated
        /\ sess'[i].job = 0 => sess[i].job = 0 /\ Conversation(sess'[i]) = Conversation(sess[i])
    <3>1. CASE sess'[i] = sess[i]
      BY <3>1
    <3>2. CASE sess'[i] = [sess[i] EXCEPT !.expired = TRUE]
      BY <1>1, <3>2 DEF SessionFields, Conversation
    <3>3. CASE sess'[i] = BeginGeneration(sess[i], Len(jobs) + 1)
      <4>1. Len(jobs) + 1 # 0
        BY JobsLemma
      <4>2. /\ sess'[i].msgs = sess[i].msgs /\ sess'[i].updated = sess[i].updated
            /\ sess'[i].job = Len(jobs) + 1
        BY <1>1, <3>3, BeginFields
      <4> QED BY <4>1, <4>2
    <3> QED BY <2>5, <3>1, <3>2, <3>3
  <2>7. Conversation(Restore(disk[i].rec))' = Conversation(Restore(disk[i].rec))
    BY <2>2 DEF Conversation, Restore, NewSession
  <2> QED BY <2>2, <2>4, <2>6, <2>7 DEF Filed, HasFile
<1> QED BY <1>2, <1>3, <1>4

-----------------------------------------------------------------------------
(* A limit check takes no session that is in use.                           *)
SameCall(t) ==
    thread'[t].call = thread[t].call /\ thread'[t].id = thread[t].id

LimitStep(t) ==
    \/ Hold(t) \/ ReadRef(t) \/ MakePlan(t) \/ DropSession(t) \/ DropOrphan(t)
    \/ CancelVictim(t) \/ ReleaseVictim(t)

(* What a step does to the call that a thread is in.                        *)
Calls(t) ==
    \/ thread'[t] = thread[t]
    \/ SameCall(t) /\ (LimitStep(t) \/ thread'[t].pc \notin LimitPoints)
    \/ thread'[t].call \notin {"message", "results"} /\ ~Checking(t)'
    \/ /\ thread'[t].pc \notin LimitPoints
       /\ \E call \in {"message", "results"} : CallPost(t, thread'[t].id, call)

(* A thread that goes on, or returns, keeps its call or ends it.            *)
LEMMA GoesOn ==
    ASSUME IInv, NEW t \in Threads
    PROVE  /\ \A pc : Goto(t, pc) => SameCall(t) /\ thread'[t].pc = pc
           /\ Return(t) \/ Continue(t) =>
                 /\ thread'[t].pc \notin LimitPoints
                 /\ SameCall(t) \/ thread'[t].call = "none"
<1>1. DOMAIN thread[t] = ThreadFields /\ DOMAIN thread = Threads
    BY DEF IInv, Framed
<1>2. ASSUME NEW pc, Goto(t, pc) PROVE SameCall(t) /\ thread'[t].pc = pc
    BY <1>1, <1>2 DEF Goto, Move, SameCall, ThreadFields
<1>3. CASE Return(t)
  <2>1. thread'[t] = Resting
    BY <1>3, MovesTo DEF Return
  <2> QED BY <1>2, <2>1 DEF Resting, LimitPoints
<1>4. CASE Continue(t)
  <2> DEFINE pc == AfterSave(thread[t].call)
             r == [Resting EXCEPT !.pc = pc, !.call = thread[t].call,
                                  !.id = thread[t].id, !.key = thread[t].key]
  <2>1. CASE Return(t)
    BY <1>3, <2>1
  <2>2. CASE Move(t, r)
    <3>1. thread'[t] = r
      BY <2>2, MovesTo
    <3>2. pc \notin LimitPoints
      BY DEF AfterSave, LimitPoints
    <3>3. r.pc = pc /\ r.call = thread[t].call /\ r.id = thread[t].id
      BY DEF Resting
    <3> HIDE DEF r
    <3> QED BY <1>2, <3>1, <3>2, <3>3 DEF SameCall
  <2> QED BY <1>4, <2>1, <2>2 DEF Continue
<1> QED BY <1>2, <1>3, <1>4

(* Every step does one of these to the call of a thread.                    *)
LEMMA CallsLemma ==
    ASSUME IInv, ShapeInv, Next, NEW t \in Threads
    PROVE  Calls(t)
<1>1. DOMAIN thread[t] = ThreadFields /\ DOMAIN thread = Threads
    BY DEF IInv, Framed
<1>2. ASSUME thread'[t] = thread[t] PROVE Calls(t)
    BY <1>2 DEF Calls
<1>3. ASSUME NEW r, Move(t, r), r.call \notin {"message", "results"},
             r.pc \notin LimitPoints \/ r.call = "destroy"
      PROVE  Calls(t)
    BY <1>3, MovesTo DEF Calls, Checking
<1>4. ASSUME NEW pc, Goto(t, pc), pc \notin LimitPoints PROVE Calls(t)
    BY <1>4, GoesOn DEF Calls
<1>5. ASSUME Return(t) \/ Continue(t) PROVE Calls(t)
    BY <1>5, GoesOn DEF Calls, Checking
<1>6. ASSUME LimitStep(t) PROVE Calls(t)
  <2>1. CASE ReleaseVictim(t) /\ Return(t)
    BY <1>5, <2>1
  <2>2. CASE ReleaseVictim(t) /\ ~Return(t)
    <3>1. Move(t, [thread[t] EXCEPT !.pc = "drop", !.victim = 0])
      BY <2>2 DEF ReleaseVictim
    <3>2. SameCall(t)
      BY <1>1, <3>1 DEF Move, SameCall, ThreadFields
    <3> QED BY <1>6, <3>2 DEF Calls
  <2>3. CASE CancelVictim(t)
    BY <1>6, <2>3, GoesOn DEF CancelVictim, Calls
  <2>4. CASE Hold(t)
    <3>1. SameCall(t)
      BY <1>1, <2>4 DEF Hold, Move, SameCall, ThreadFields
    <3> QED BY <1>6, <3>1 DEF Calls
  <2>5. CASE ReadRef(t)
    <3>1. PICK held, refs : Move(t, [thread[t] EXCEPT !.held = held, !.refs = refs])
      BY <1>1, <2>5 DEF ReadRef, ThreadFields
    <3>2. SameCall(t)
      BY <1>1, <3>1 DEF Move, SameCall, ThreadFields
    <3> QED BY <1>6, <3>2 DEF Calls
  <2>6. CASE MakePlan(t)
    <3>1. PICK plan : Move(t, [thread[t] EXCEPT !.pc = "drop", !.refs = {}, !.plan = plan])
      BY <2>6 DEF MakePlan
    <3>2. SameCall(t)
      BY <1>1, <3>1 DEF Move, SameCall, ThreadFields
    <3> QED BY <1>6, <3>2 DEF Calls
  <2>7. CASE DropSession(t)
    <3>1. PICK c, pc : Move(t, [thread[t] EXCEPT !.pc = pc, !.victim = c.id,
                                                 !.plan.sessions = @ \ {c}])
      BY <2>7 DEF DropSession
    <3>2. SameCall(t)
      BY <1>1, <3>1 DEF Move, SameCall, ThreadFields
    <3> QED BY <1>6, <3>2 DEF Calls
  <2>8. CASE DropOrphan(t)
    <3>1. PICK c, pc : Move(t, [thread[t] EXCEPT !.pc = pc, !.victim = c.id,
                                                 !.plan.orphans = @ \ {c}])
      BY <2>8 DEF DropOrphan
    <3>2. SameCall(t)
      BY <1>1, <3>1 DEF Move, SameCall, ThreadFields
    <3> QED BY <1>6, <3>2 DEF Calls
  <2> QED BY <1>6, <2>1, <2>2, <2>3, <2>4, <2>5, <2>6, <2>7, <2>8 DEF LimitStep
<1>7. CASE Waits(t)
  <2>1. ASSUME AcceptPost(t) \/ Peek(t) \/ AskClone(t) \/ Touch(t) \/ LimitDone(t)
        PROVE  Calls(t)
    <3>1. Return(t) \/ Continue(t) \/ Goto(t, "save") \/ Goto(t, "capture")
      BY <2>1 DEF AcceptPost, Peek, AskClone, Touch, LimitDone
    <3>2. "save" \notin LimitPoints /\ "capture" \notin LimitPoints
      BY DEF LimitPoints
    <3> QED BY <1>4, <1>5, <3>1, <3>2
  <2>2. CASE Finished(t)
    <3>1. thread'[t] = [Resting EXCEPT !.pc = "save", !.call = thread[t].call,
                                       !.id = thread[t].id]
      BY <2>2, MovesTo DEF Finished
    <3>2. SameCall(t) /\ thread'[t].pc = "save"
      BY <3>1 DEF Resting, SameCall
    <3> QED BY <3>2 DEF Calls, LimitPoints
  <2>3. ASSUME NEW i \in Ids, NEW call \in {"message", "results"}, CallPost(t, i, call)
        PROVE  Calls(t)
    <3>1. thread'[t] = [Resting EXCEPT !.call = call, !.id = i, !.pc = "accept"]
      BY <2>3, MovesTo DEF CallPost, Calling
    <3>2. thread'[t].id = i /\ thread'[t].pc = "accept"
      BY <3>1 DEF Resting
    <3> QED BY <2>3, <3>2 DEF Calls, LimitPoints
  <2>4. ASSUME NEW i \in Ids, CallSnapshot(t, i) \/ CallResume(t, i) PROVE Calls(t)
    <3>1. \E call \in {"snapshot", "resume"}, pc \in {"peek", "touch"} :
             Move(t, [Resting EXCEPT !.call = call, !.id = i, !.pc = pc])
      BY <2>4 DEF CallSnapshot, CallResume, Calling
    <3> QED BY <1>3, <3>1 DEF Resting, LimitPoints
  <2> QED BY <1>6, <1>7, <2>1, <2>2, <2>3, <2>4 DEF Waits, LimitStep
<1>8. CASE Makes(t)
  <2>1. PICK parent, msgs : NewObject(t, parent, msgs)
    BY <1>8 DEF Makes, CallCreate, Capture
  <2> DEFINE r == [Resting EXCEPT !.pc = "insert", !.id = newest + 1, !.key = parent,
                                  !.call = IF parent = 0 THEN "create" ELSE "snapshot"]
  <2>2. Move(t, r)
    BY <2>1 DEF NewObject
  <2>3. r.call \in {"create", "snapshot"} /\ r.pc = "insert"
    BY DEF Resting
  <2> HIDE DEF r
  <2> QED BY <1>3, <2>2, <2>3 DEF LimitPoints
<1>9. CASE Shelves(t)
  <2>1. CASE Insert(t) \/ Save(t)
    <3>1. Return(t) \/ Continue(t) \/ Goto(t, "save") \/ Goto(t, "hold")
      BY <2>1 DEF Insert, Save, SaveRecord
    <3>2. "save" \notin LimitPoints /\ "hold" \notin LimitPoints
      BY DEF LimitPoints
    <3> QED BY <1>4, <1>5, <3>1, <3>2
  <2>2. ASSUME NEW i \in Ids, CallDestroy(t, i) PROVE Calls(t)
    <3>1. Move(t, [Resting EXCEPT !.pc = "cancelVictim", !.call = "destroy",
                                  !.id = i, !.victim = i])
      BY <2>2 DEF CallDestroy
    <3> QED BY <1>3, <3>1 DEF Resting
  <2> QED BY <1>6, <1>9, <2>1, <2>2 DEF Shelves, LimitStep
<1>10. CASE Begin(t) \/ Enqueue(t)
  <2>1. Return(t) \/ \E k : Move(t, [thread[t] EXCEPT !.pc = "enqueue", !.key = k])
    BY <1>10 DEF Begin, Claim, Enqueue
  <2>2. ASSUME NEW k, Move(t, [thread[t] EXCEPT !.pc = "enqueue", !.key = k])
        PROVE  Calls(t)
    <3>1. SameCall(t) /\ thread'[t].pc = "enqueue"
      BY <1>1, <2>2 DEF Move, SameCall, ThreadFields
    <3> QED BY <3>1 DEF Calls, LimitPoints
  <2> QED BY <1>5, <2>1, <2>2
<1>11. ASSUME NEW u \in Threads, \/ Waits(u) \/ Makes(u) \/ Shelves(u) \/ Begin(u)
                                 \/ Enqueue(u) \/ CancelVictim(u)
       PROVE  Calls(t)
    BY <1>2, <1>6, <1>7, <1>8, <1>9, <1>10, <1>11, OneMoves DEF LimitStep
<1>12. "worker" \in Threads /\ "main" \in Threads /\ Callers \subseteq Threads
    BY DEF Threads
<1>13. ASSUME NEW u \in Threads, NEW k \in DOMAIN jobs,
              CallCancel(u, k) \/ (StartJob(k) /\ u = "worker")
       PROVE  Calls(t)
  <2>1. \/ thread' = thread
        \/ \E r : r.pc \in {"complete", "run"} /\ r.call = "finished" /\ Move(u, r)
    BY <1>13 DEF CallCancel, StartJob, Resting
  <2>2. ASSUME NEW r, r.pc \in {"complete", "run"}, r.call = "finished", Move(u, r)
        PROVE  Calls(t)
    <3>1. CASE u = t
      BY <1>3, <2>2, <3>1 DEF LimitPoints
    <3>2. CASE u # t
      <4>1. thread'[t] = thread[t]
        BY <2>2, <3>2, MovesTo
      <4> QED BY <1>2, <4>1
    <3> QED BY <3>1, <3>2
  <2> QED BY <1>2, <2>1, <2>2
<1>14. ASSUME NEW o, NEW park, EndJob(o, park) PROVE Calls(t)
  <2>1. Move("worker", [thread["worker"] EXCEPT !.pc = "complete", !.outcome = o])
    BY <1>14 DEF EndJob
  <2>2. CASE t = "worker"
    <3>1. SameCall(t) /\ thread'[t].pc = "complete"
      BY <1>1, <2>1, <2>2 DEF Move, SameCall, ThreadFields
    <3> QED BY <3>1 DEF Calls, LimitPoints
  <2>3. CASE t # "worker"
    <3>1. thread'[t] = thread[t]
      BY <1>12, <2>1, <2>3, MovesTo
    <3> QED BY <1>2, <3>1
  <2> QED BY <2>2, <2>3
<1>15. CASE Load
  <2>1. PICK pc \in {"hold", "idle"} : Goto("main", pc)
    BY <1>15 DEF Load
  <2>2. CASE t = "main"
    BY <1>4, <2>1, <2>2 DEF LimitPoints
  <2>3. CASE t # "main"
    <3>1. thread'[t] = thread[t]
      BY <1>12, <2>1, <2>3, MovesTo DEF Goto
    <3> QED BY <1>2, <3>1
  <2> QED BY <2>2, <2>3
<1>16. CASE Crash
  <2>1. thread'[t].pc \in {"idle", "load"} /\ thread'[t].call = "none"
    BY <1>16 DEF Crash, Resting
  <2> QED BY <2>1 DEF Calls, Checking, LimitPoints
<1>17. CASE (\E u \in Callers : CallGc(u)) \/ SessionOps \/ Tick \/ \E i \in Ids : Expire(i)
    BY <1>2, <1>17 DEF CallGc, SessionOps, Tick, Expire
<1> QED BY <1>11, <1>12, <1>13, <1>14, <1>15, <1>16, <1>17, NextCases

(* What a limit check has seen posts to is forgotten when the next begins.  *)
LEMMA TouchedGrows ==
    ASSUME DOMAIN touched = Threads, Next
    PROVE  /\ DOMAIN touched' = Threads
           /\ \A t \in Threads : \/ touched[t] \subseteq touched'[t]
                                 \/ Hold(t) \/ LimitDone(t) \/ Crash
<1>1. CASE touched' = touched
    BY <1>1
<1>2. ASSUME NEW u \in Threads, NEW i, NEW call, CallPost(u, i, call)
      PROVE  /\ DOMAIN touched' = Threads
             /\ \A t \in Threads : touched[t] \subseteq touched'[t]
    BY <1>2 DEF CallPost, NotePost
<1>3. ASSUME NEW u \in Threads, Hold(u) \/ LimitDone(u)
      PROVE  /\ DOMAIN touched' = Threads
             /\ \A t \in Threads \ {u} : touched'[t] = touched[t]
    BY <1>3 DEF Hold, LimitDone
<1>4. CASE Crash
    BY <1>4 DEF Crash
<1>5. ASSUME NEW u \in Threads,
             \/ Waits(u) \/ Makes(u) \/ Shelves(u) \/ Begin(u) \/ Enqueue(u)
             \/ CancelVictim(u),
             ~Hold(u), ~LimitDone(u),
             ~\E i \in Ids, call \in {"message", "results"} : CallPost(u, i, call)
      PROVE  touched' = touched
    BY <1>5 DEF Waits, AcceptPost, Peek, AskClone, Touch, ReadRef, MakePlan,
           DropOrphan, ReleaseVictim, Finished, CallSnapshot, CallResume, Makes,
           CallCreate, Capture, Shelves, Insert, Save, DropSession, CallDestroy,
           Begin, Enqueue, CancelVictim, history
<1>6. ASSUME \/ \E u \in Callers : \/ CallGc(u)
                                  \/ \E k \in DOMAIN jobs : CallCancel(u, k)
             \/ SessionOps \/ \E k \in DOMAIN jobs : StartJob(k)
             \/ \E o \in Answers \cup {Ended("Full"), Failed}, park \in BOOLEAN :
                    EndJob(o, park)
             \/ Load \/ Tick \/ \E i \in Ids : Expire(i)
      PROVE  touched' = touched
    BY <1>6 DEF CallGc, CallCancel, SessionOps, StartJob, EndJob, Load, Tick, Expire,
           history
<1> QED BY <1>1, <1>2, <1>3, <1>4, <1>5, <1>6, NextCases

(* A session comes into use only by a post that the limit checks under way  *)
(* have been told of.                                                       *)
LEMMA UseGrows ==
    ASSUME IInv, ShapeInv, TurnFrame, FreshInv, LimitInv, Next,
           NEW t \in Threads, Checking(t), touched[t] \subseteq touched'[t],
           NEW i, InUse(t, i)'
    PROVE  i \in Ids /\ InUse(t, i)
<1>1. /\ i \in table' /\ i \in Ids /\ i \notin touched[t] /\ sess'[i].state # "Idle"
      /\ SessionShape(sess[i]) /\ DOMAIN sess[i] = SessionFields
  <2>1. IInv'
    BY NextIInv
  <2>2. i \in table' /\ table' \subseteq Ids
    BY <2>1 DEF InUse, IInv, Known
  <2> QED BY <2>2 DEF InUse, ShapeInv, IInv, Framed
<1>2. ~Load
  <2>1. "main" \in Threads
    BY DEF Threads
  <2> QED BY <2>1 DEF Load, IInv, LoadInv, Checking, LimitPoints, At
<1>3. ~Crash
    BY <1>1 DEF Crash
<1>4. ASSUME i \notin table PROVE FALSE
  <2>1. PICK s \in Threads : Insert(s) /\ thread[s].id = i
    BY <1>1, <1>2, <1>4, TableSources
  <2> QED BY <1>1, <2>1 DEF Insert, FreshInv
<1>5. ASSUME sess[i].state = "Idle" PROVE FALSE
  <2>1. ~SameTurn(sess[i], sess'[i])
    BY <1>1, <1>5 DEF SameTurn
  <2>2. ~Accepted(i)
    BY <1>1, AcceptFields DEF Accepted
  <2>3. ~Begun(i)
    <3>1. ASSUME NEW u \in Threads, At(u, "begin"), thread[u].id = i PROVE FALSE
      <4>1. u # t /\ Posting(u)
        BY <3>1 DEF At, Checking, LimitPoints, Posting, ShapeInv, LocalShape
      <4> QED BY <1>1, <3>1, <4>1 DEF LimitInv
    <3> QED BY <3>1 DEF Begun
  <2>4. ~Heard(i)
    BY <1>1, <1>5 DEF Heard, SessionShape
  <2>5. ~Made(i)
    <3>1. i <= newest /\ newest \in Nat
      BY <1>4, NewestGrows DEF IInv, Known
    <3> QED BY <3>1 DEF Made
  <2>6. ~Reloaded(i)
    BY <1>2, <1>3 DEF Reloaded
  <2> QED BY <1>1, <2>1, <2>2, <2>3, <2>4, <2>5, <2>6, SessionSteps DEF SessionStep
<1> QED BY <1>1, <1>4, <1>5 DEF InUse

(* A limit check under way came from a step of its own, or is at rest.      *)
LEMMA ChecksLemma ==
    ASSUME IInv, ShapeInv, LimitInv, Next, NEW t \in Threads, Checking(t)', ~Hold(t)
    PROVE  /\ Checking(t) /\ touched[t] \subseteq touched'[t]
           /\ thread'[t].id = thread[t].id
           /\ thread'[t] = thread[t] \/ LimitStep(t)
<1>1. \/ thread'[t] = thread[t]
      \/ SameCall(t) /\ LimitStep(t)
    BY CallsLemma DEF Calls, Checking
<1>2. Checking(t)
  <2>1. CASE thread'[t] = thread[t]
    BY <2>1 DEF Checking
  <2>2. CASE SameCall(t) /\ LimitStep(t)
    BY <2>2 DEF LimitStep, ReadRef, MakePlan, DropSession, DropOrphan, CancelVictim,
           ReleaseVictim, At, SameCall, Checking, LimitPoints
  <2> QED BY <1>1, <2>1, <2>2
<1>3. ~LimitDone(t)
  <2>1. CASE LimitDone(t)
    <3>1. thread'[t].pc \notin LimitPoints
      BY <2>1, GoesOn DEF LimitDone
    <3> QED BY <3>1 DEF Checking
  <2> QED BY <2>1
<1>4. ~Crash
  <2>1. CASE Crash
    <3>1. thread'[t].pc \in {"idle", "load"}
      BY <2>1 DEF Crash, Resting
    <3> QED BY <3>1 DEF Checking, LimitPoints
  <2> QED BY <2>1
<1>5. touched[t] \subseteq touched'[t]
    BY <1>3, <1>4, TouchedGrows DEF LimitInv
<1> QED BY <1>1, <1>2, <1>5 DEF SameCall

(* Who posts while a limit check is under way is known to it.               *)
LEMMA PostsSeen ==
    ASSUME IInv, ShapeInv, LimitInv, Next, NEW t \in Threads, Checking(t)',
           NEW u \in Threads \ {t}, Posting(u)'
    PROVE  thread'[u].id \in touched'[t]
<1>1. CASE Hold(t)
  <2>1. thread'[u] = thread[u]
    BY <1>1, OneMoves DEF Waits
  <2>2. touched'[t] = PostedBy(Threads \ {t})
    BY <1>1 DEF Hold, LimitInv
  <2> QED BY <2>1, <2>2 DEF PostedBy, Posting
<1>2. CASE ~Hold(t)
  <2>1. Checking(t) /\ touched[t] \subseteq touched'[t]
    BY <1>2, ChecksLemma
  <2>2. CASE Posting(u) /\ thread'[u].id = thread[u].id
    BY <2>1, <2>2 DEF LimitInv
  <2>3. ASSUME NEW call, CallPost(u, thread'[u].id, call)
        PROVE  thread'[u].id \in touched'[t]
    BY <2>1, <2>3 DEF CallPost, NotePost, Checking
  <2>4. \/ Posting(u) /\ thread'[u].id = thread[u].id
        \/ \E call : CallPost(u, thread'[u].id, call)
    BY CallsLemma DEF Calls, SameCall, Posting
  <2> QED BY <2>2, <2>3, <2>4
<1> QED BY <1>1, <1>2

(* While a check gathers, it knows of every session in use.                 *)
Gathered(t) ==
    LET l == thread[t] IN
    /\ l.id \in table => l.id \in l.held \cup IdsOf(l.refs)
    /\ \A r, q \in l.refs : r.id = q.id => r = q
    /\ \A r \in l.refs : r.id \notin l.held /\ (r.id = l.id => r.pinned)
    /\ \A i \in Ids : InUse(t, i) => i \in l.held \/ \E r \in l.refs : r.id = i /\ r.pinned

(* It still does after every step.                                          *)
LEMMA GatherStep ==
    ASSUME IInv, ShapeInv, TurnFrame, FreshInv, LimitInv, Next,
           NEW t \in Threads, At(t, "read")'
    PROVE  Gathered(t)'
<1> DEFINE l == thread[t]
<1>1. DOMAIN l = ThreadFields /\ l.held \subseteq Ids /\ LocalShape(l)
    BY DEF IInv, Framed, ShapeInv, LocalShape
<1>2. CASE Hold(t)
  <2>1. thread'[t] = [l EXCEPT !.pc = "read", !.held = table] /\ l.pc = "hold"
    BY <1>2, MovesTo DEF Hold, At
  <2>2. /\ thread'[t].held = table /\ thread'[t].refs = {} /\ thread'[t].id = l.id
        /\ table' = table
    BY <1>1, <1>2, <2>1 DEF Hold, LocalShape, ThreadFields
  <2> QED BY <2>2 DEF Gathered, InUse
<1>3. CASE ~Hold(t)
  <2>0. /\ thread'[t].call # "destroy" /\ thread'[t].pc = "read"
    <3>1. LocalShape(thread'[t])
      BY LocalsKept
    <3> QED BY <3>1 DEF LocalShape, At
  <2>1. /\ Checking(t) /\ touched[t] \subseteq touched'[t] /\ thread'[t].id = l.id
        /\ thread'[t] = l \/ LimitStep(t)
    BY <1>3, <2>0, ChecksLemma DEF Checking, LimitPoints
  <2>2. thread'[t] = l \/ ReadRef(t)
    <3>1. ASSUME \/ MakePlan(t) \/ DropSession(t) \/ DropOrphan(t)
                 \/ CancelVictim(t) \/ ReleaseVictim(t)
          PROVE  thread'[t].pc # "read"
      <4>1. CASE MakePlan(t)
        <5>1. PICK plan : Move(t, [l EXCEPT !.pc = "drop", !.refs = {}, !.plan = plan])
          BY <4>1 DEF MakePlan
        <5>2. thread'[t] = [l EXCEPT !.pc = "drop", !.refs = {}, !.plan = plan]
          BY <5>1, MovesTo, Zenon
        <5> QED BY <1>1, <5>2 DEF ThreadFields
      <4>2. CASE DropSession(t)
        <5>1. PICK c \in l.plan.sessions, pc \in {"cancelVictim", "release"} :
                 Move(t, [l EXCEPT !.pc = pc, !.victim = c.id, !.plan.sessions = @ \ {c}])
          BY <4>2 DEF DropSession
        <5>2. thread'[t].pc = pc
          BY <1>1, <5>1 DEF Move, IInv, Framed, ThreadFields
        <5> QED BY <5>2
      <4>3. CASE DropOrphan(t)
        <5>1. PICK c : Move(t, [l EXCEPT !.pc = "release", !.victim = c.id,
                                         !.plan.orphans = @ \ {c}])
          BY <4>3 DEF DropOrphan
        <5>2. thread'[t].pc = "release"
          BY <1>1, <5>1 DEF Move, IInv, Framed, ThreadFields
        <5> QED BY <5>2
      <4>4. CASE CancelVictim(t)
        BY <4>4, GoesOn DEF CancelVictim
      <4>5. CASE ReleaseVictim(t)
        <5>1. Return(t) \/ Move(t, [l EXCEPT !.pc = "drop", !.victim = 0])
          BY <4>5 DEF ReleaseVictim
        <5>2. CASE Return(t)
          BY <5>2, ReturnLemma
        <5>3. CASE Move(t, [l EXCEPT !.pc = "drop", !.victim = 0])
          BY <1>1, <5>3 DEF Move, IInv, Framed, ThreadFields
        <5> QED BY <5>1, <5>2, <5>3
      <4> QED BY <3>1, <4>1, <4>2, <4>3, <4>4, <4>5
    <3> QED BY <1>3, <2>0, <2>1, <3>1 DEF LimitStep
  <2>3. l.pc = "read"
    BY <2>0, <2>2 DEF ReadRef, At
  <2>4. Gathered(t)
    BY <2>3 DEF LimitInv, Gathered, At
  <2>5. \A i : InUse(t, i)' => i \in Ids /\ InUse(t, i)
    BY <2>1, UseGrows
  <2>6. l.id \in table' => l.id \in table
    <3>1. ~Load
      <4>1. "main" \in Threads
        BY DEF Threads
      <4> QED BY <2>3, <4>1 DEF Load, IInv, LoadInv, At
    <3>2. ASSUME NEW s \in Threads, Insert(s), thread[s].id = l.id PROVE FALSE
      BY <2>3, <3>2 DEF Insert, FreshInv, At
    <3> QED BY <3>1, <3>2, TableSources
  <2>7. CASE thread'[t] = l
    BY <2>4, <2>5, <2>6, <2>7 DEF Gathered
  <2>8. CASE ReadRef(t)
    <3>1. PICK i \in l.held, b \in BOOLEAN :
             /\ Move(t, [l EXCEPT !.held = @ \ {i},
                                  !.refs = @ \cup {Ref(i, sess[i].updated, b)}])
             /\ Pinned(t, i) => b
      BY <2>8 DEF ReadRef
    <3> DEFINE new == Ref(i, sess[i].updated, b)
               r == [l EXCEPT !.held = @ \ {i}, !.refs = @ \cup {new}]
    <3>2. thread'[t] = r
      BY <3>1, MovesTo
    <3>3. new.id = i /\ (Pinned(t, i) => new.pinned)
      BY <3>1 DEF Ref
    <3>4. r.held = l.held \ {i} /\ r.refs = l.refs \cup {new} /\ r.id = l.id
      BY <1>1 DEF ThreadFields
    <3> HIDE DEF r, new
    <3>5. r.held \cup IdsOf(r.refs) = l.held \cup IdsOf(l.refs)
      BY <3>1, <3>3, <3>4 DEF IdsOf
    <3>6. \A q \in l.refs : q.id # i
      BY <2>4, <3>1 DEF Gathered
    <3>7. \A q, p \in r.refs : q.id = p.id => q = p
      BY <2>4, <3>3, <3>4, <3>6 DEF Gathered
    <3>8. \A q \in r.refs : q.id \notin r.held /\ (q.id = l.id => q.pinned)
      BY <2>4, <3>3, <3>4 DEF Gathered, Pinned
    <3>9. InUse(t, i) => Pinned(t, i)
      <4>1. SessionShape(sess[i])
        BY <1>1, <3>1 DEF ShapeInv
      <4> QED BY <4>1 DEF InUse, Pinned, IsGcIdle, Active, SessionShape, AtRest
    <3>10. \A j \in Ids : InUse(t, j) =>
               j \in r.held \/ \E q \in r.refs : q.id = j /\ q.pinned
      BY <2>4, <3>3, <3>4, <3>9 DEF Gathered
    <3> QED BY <2>4, <2>5, <2>6, <3>2, <3>4, <3>5, <3>7, <3>8, <3>10 DEF Gathered
  <2> QED BY <2>2, <2>7, <2>8
<1> QED BY <1>2, <1>3

(* What a check is about to drop is in nobody's use that it was not told of,*)
(* and never the session it runs for.                                       *)
Harmless(t) ==
    \A c \in thread[t].plan.sessions : c.id # thread[t].id /\ ~InUse(t, c.id)

(* A plan is harmless when it is made, and stays so.                        *)
LEMMA HarmlessStep ==
    ASSUME IInv, ShapeInv, TurnFrame, FreshInv, LimitInv, Next,
           NEW t \in Threads, Checking(t)', ~At(t, "read")'
    PROVE  Harmless(t)'
<1> DEFINE l == thread[t]
<1>1. DOMAIN l = ThreadFields /\ LocalShape(l)
    BY DEF IInv, Framed, ShapeInv
<1>2. ~Hold(t)
  <2>1. CASE Hold(t)
    <3>1. thread'[t].pc = "read"
      BY <1>1, <2>1 DEF Hold, Move, IInv, Framed, ThreadFields
    <3> QED BY <3>1 DEF At
  <2> QED BY <2>1
<1>3. /\ Checking(t) /\ touched[t] \subseteq touched'[t] /\ thread'[t].id = l.id
      /\ thread'[t] = l \/ LimitStep(t)
    BY <1>2, ChecksLemma
<1>4. \A i : InUse(t, i)' => i \in Ids /\ InUse(t, i)
    BY <1>3, UseGrows
<1>5. ASSUME thread'[t].plan.sessions \subseteq l.plan.sessions, ~At(t, "read")
      PROVE  Harmless(t)'
  <2>1. Harmless(t)
    BY <1>3, <1>5 DEF LimitInv, Harmless
  <2> QED BY <1>3, <1>4, <1>5, <2>1 DEF Harmless
<1>6. CASE thread'[t] = l
    BY <1>5, <1>6 DEF At
<1>7. CASE ReadRef(t)
  <2>1. thread'[t].pc = "read"
    <3>1. PICK held, refs : Move(t, [l EXCEPT !.held = held, !.refs = refs])
      BY <1>1, <1>7 DEF ReadRef, ThreadFields
    <3> QED BY <1>1, <1>7, <3>1 DEF Move, IInv, Framed, ThreadFields, ReadRef, At
  <2> QED BY <2>1 DEF At
<1>8. CASE MakePlan(t)
  <2> DEFINE plan == PlanSessionCache(DiskRows, l.refs, CacheLimit)
  <2>1. Move(t, [l EXCEPT !.pc = "drop", !.refs = {}, !.plan = plan])
        /\ At(t, "read") /\ l.held = {}
    BY <1>8 DEF MakePlan
  <2>2. thread'[t].plan = plan /\ thread'[t].id = l.id
    BY <1>1, <2>1 DEF Move, IInv, Framed, ThreadFields
  <2>3. Gathered(t)
    BY <2>1 DEF LimitInv, Gathered
  <2>4. ASSUME NEW c \in plan.sessions PROVE c.id # l.id /\ ~InUse(t, c.id)
    <3>1. CASE \E r \in l.refs : c.id = r.id /\ ~r.pinned
      <4>1. PICK r \in l.refs : c.id = r.id /\ ~r.pinned
        BY <3>1
      <4>2. r.id \in Ids
        BY <1>1 DEF LocalShape, IdsOf
      <4>3. ~\E q \in l.refs : q.id = r.id /\ q.pinned
        BY <2>3, <4>1 DEF Gathered
      <4> QED BY <2>1, <2>3, <4>1, <4>2, <4>3 DEF Gathered
    <3>2. CASE c.id \in Ids /\ HasFile(c.id) /\ c.id \notin IdsOf(l.refs)
      <4>1. ~At("main", "load")
        BY <2>1 DEF IInv, LoadInv, At, Threads
      <4>2. c.id \in table
        BY <3>2, <4>1 DEF IInv, TableInv, RemovedStaysRemoved
      <4>3. ~\E q \in l.refs : q.id = c.id
        BY <3>2 DEF IdsOf
      <4> QED BY <2>1, <2>3, <3>2, <4>2, <4>3 DEF Gathered
    <3> QED BY <3>1, <3>2, PlanLemma
  <2> HIDE DEF plan
  <2> QED BY <1>4, <2>2, <2>4 DEF Harmless
<1>9. CASE DropSession(t)
  <2>1. PICK c \in l.plan.sessions, pc \in {"cancelVictim", "release"} :
           Move(t, [l EXCEPT !.pc = pc, !.victim = c.id, !.plan.sessions = @ \ {c}])
    BY <1>9 DEF DropSession
  <2>2. thread'[t].plan.sessions = l.plan.sessions \ {c}
    BY <1>1, <2>1 DEF Move, IInv, Framed, ThreadFields, LocalShape, PlanFields
  <2> QED BY <1>5, <1>9, <2>2 DEF DropSession, At
<1>10. CASE DropOrphan(t)
  <2>1. PICK c : Move(t, [l EXCEPT !.pc = "release", !.victim = c.id,
                                   !.plan.orphans = @ \ {c}])
    BY <1>10 DEF DropOrphan
  <2>2. thread'[t].plan.sessions = l.plan.sessions
    BY <1>1, <2>1 DEF Move, IInv, Framed, ThreadFields, LocalShape, PlanFields
  <2> QED BY <1>5, <1>10, <2>2 DEF DropOrphan, At
<1>11. CASE CancelVictim(t)
  <2>1. thread'[t].plan = l.plan
    BY <1>1, <1>11 DEF CancelVictim, Goto, Move, IInv, Framed, ThreadFields
  <2> QED BY <1>5, <1>11, <2>1 DEF CancelVictim, At
<1>12. CASE ReleaseVictim(t)
  <2>1. CASE Return(t)
    <3>1. thread'[t].pc \notin LimitPoints
      BY <2>1, GoesOn
    <3> QED BY <3>1 DEF Checking
  <2>2. CASE Move(t, [l EXCEPT !.pc = "drop", !.victim = 0])
    <3>1. thread'[t].plan = l.plan
      BY <1>1, <2>2 DEF Move, IInv, Framed, ThreadFields
    <3> QED BY <1>5, <1>12, <3>1 DEF ReleaseVictim, At
  <2> QED BY <1>12, <2>1, <2>2 DEF ReleaseVictim
<1> QED BY <1>2, <1>3, <1>6, <1>7, <1>8, <1>9, <1>10, <1>11, <1>12 DEF LimitStep

(* So the limit checks keep what they know.                                 *)
LEMMA LimitInvStep ==
    ASSUME IInv, ShapeInv, TurnFrame, FreshInv, LimitInv, Next
    PROVE  LimitInv'
<1>1. DOMAIN touched' = Threads
    BY TouchedGrows DEF LimitInv
<1> QED BY <1>1, PostsSeen, GatherStep, HarmlessStep DEF LimitInv, Gathered, Harmless

-----------------------------------------------------------------------------
(* The invariant holds when the process starts.                             *)
LEMMA InitSInv ==
    Init => SInv
<1> SUFFICES ASSUME Init PROVE SInv
    OBVIOUS
<1>1. IInv /\ ShapeInv /\ TurnInv
    BY InitIInv, InitShape
<1>2. \A t \in Threads : thread[t].pc \in {"idle", "load"}
    BY DEF Init, Resting
<1>3. FreshInv
    BY <1>2 DEF FreshInv, At
<1>4. Durable
    BY DEF Init, Durable
<1>5. LimitInv
    BY <1>2 DEF LimitInv, Init, Checking, LimitPoints, At
<1> QED BY <1>1, <1>3, <1>4, <1>5 DEF SInv

(* Every step keeps the invariant.                                          *)
LEMMA NextSInv ==
    SInv /\ [Next]_vars => SInv'
<1>1. CASE UNCHANGED vars
  <2>1. IInv => IInv'
    BY <1>1, NextIInv
  <2>2. UNCHANGED <<table, sess, disk, kv, jobs, releases, clones, thread, clock, crashes,
                    newest, unsaved, turn, touched>>
    BY <1>1 DEF vars, store, pending, bounds, history
  <2>3. ShapeInv => ShapeInv'
    BY <2>2 DEF ShapeInv
  <2>4. FreshInv => FreshInv'
    BY <2>2 DEF FreshInv, At
  <2>5. Durable => Durable'
    BY <2>2 DEF Durable, Saving, HasFile, Restore, NewSession, Conversation, At
  <2>6. TurnInv => TurnInv'
    BY <2>2 DEF TurnInv, TurnFrame
  <2>7. LimitInv => LimitInv'
    BY <2>2 DEF LimitInv, Checking, Posting, InUse, At
  <2> QED BY <2>1, <2>3, <2>4, <2>5, <2>6, <2>7 DEF SInv
<1>2. ASSUME SInv, Next PROVE SInv'
    BY <1>2, NextIInv, ShapeStep, FreshStep, DurableStep, TurnStep, LimitInvStep
    DEF SInv, TurnInv
<1> QED BY <1>1, <1>2

(* However calls, tasks, limit checks, kills and restarts interleave, what  *)
(* sessions, files, threads and limit checks know of each other holds.      *)
THEOREM SessionsSound == Spec => []SInv
BY InitSInv, NextSInv, PTL DEF Spec

(* Whatever the callers, the worker and the disk do, and wherever a kill    *)
(* falls, a session waits for what its state says, is registered for a task *)
(* that was made, and has a record with a time.                             *)
THEOREM SessionsTyped == Spec => []TypeOK
<1>1. ASSUME SInv PROVE TypeOK
  <2>1. IInv /\ ShapeInv
    BY <1>1 DEF SInv
  <2>2. table \subseteq Ids
    BY <2>1 DEF IInv, Known
  <2>3. ASSUME NEW i \in Ids
        PROVE  /\ Conversation(sess[i]) \in Conversations /\ Coherent(sess[i])
               /\ sess[i].job \in 0..Len(jobs) /\ disk[i].written \in -1..MaxClock
    <3>1. /\ SessionShape(sess[i]) /\ sess[i].job \in 0..Len(jobs)
          /\ disk[i].written \in -1..MaxClock
      BY <2>1 DEF ShapeInv, FileShape
    <3>2. sess[i].msgs \in Seq(Kinds)
      BY <3>1 DEF SessionShape, Messages
    <3>3. /\ sess[i].state \in {"Idle", "Generating", "AwaitingTools", "AwaitingQuestion"}
          /\ sess[i].wait \subseteq {"tools", "question"} /\ Coherent(sess[i])
      BY <3>1 DEF SessionShape, AtRest, Coherent
    <3> QED BY <3>1, <3>2, <3>3 DEF Conversation, Conversations
  <2>4. jobs \in Seq([session : Ids \cup {0}, cancel : BOOLEAN,
                      phase : {"made", "queued", "running", "ended"}])
    <3> DEFINE Phases == {"made", "queued", "running", "ended"}
               S == [session : 0..newest, cancel : BOOLEAN, phase : Phases]
               T == [session : Ids \cup {0}, cancel : BOOLEAN, phase : Phases]
    <3>1. 0..newest \subseteq Ids \cup {0}
      BY <2>1, SessionsAssumption DEF IInv, Known, Ids
    <3>2. S \subseteq T /\ jobs \in Seq(S)
      BY <2>1, <3>1, JobsLemma
    <3> HIDE DEF S, T
    <3>3. jobs \in Seq(T)
      BY <3>2, SeqLemma
    <3> QED BY <3>3 DEF T
  <2> QED BY <2>1, <2>2, <2>3, <2>4 DEF TypeOK, ShapeInv
<1> QED BY <1>1, SessionsSound, PTL

(* A session that nobody is about to save is on disk as it stands, unless   *)
(* the disk refused its last record: a restart at any moment gives every    *)
(* client the turn it saw.                                                  *)
THEOREM SavedAtRest == Spec => []Durable
<1>1. SInv => Durable
    BY DEF SInv
<1> QED BY <1>1, SessionsSound, PTL

(* A thread that is told of the end of a task tells the session next.       *)
LEMMA CompletionGoesOn ==
    ASSUME IInv, Next, NEW t \in Threads, At(t, "complete")
    PROVE  thread'[t] = thread[t] \/ Finished(t) \/ Crash
<1>1. ASSUME \/ Makes(t) \/ Begin(t) \/ Enqueue(t) \/ CancelVictim(t) \/ Shelves(t)
             \/ (Waits(t) /\ ~Finished(t))
      PROVE  FALSE
    BY <1>1 DEF Waits, AcceptPost, Peek, AskClone, Touch, Hold, ReadRef, MakePlan,
           DropOrphan, LimitDone, ReleaseVictim, CallPost, CallSnapshot,
           CallResume, Makes, CallCreate, Capture, Begin, Enqueue, CancelVictim,
           Shelves, Insert, Save, DropSession, CallDestroy, MayCall, At
<1>2. ASSUME NEW u \in Threads, u # t, \/ Waits(u) \/ Makes(u) \/ Shelves(u) \/ Begin(u)
                                      \/ Enqueue(u) \/ CancelVictim(u)
      PROVE  thread'[t] = thread[t]
    BY <1>2, OneMoves
<1>3. ASSUME NEW u \in Callers, NEW k \in DOMAIN jobs, CallCancel(u, k)
      PROVE  thread'[t] = thread[t]
  <2>1. u # t /\ u \in Threads
    BY <1>3 DEF CallCancel, MayCall, At, Threads
  <2>2. thread' = thread \/ \E r : Move(u, r)
    BY <1>3 DEF CallCancel
  <2> QED BY <2>1, <2>2, MovesTo
<1>4. "worker" \in Threads /\ "main" \in Threads
    BY DEF Threads
<1>5. ASSUME \/ \E k \in DOMAIN jobs : StartJob(k)
             \/ \E o \in Answers \cup {Ended("Full"), Failed}, park \in BOOLEAN :
                    EndJob(o, park)
      PROVE  thread'[t] = thread[t]
  <2>1. t # "worker"
    BY <1>5 DEF StartJob, EndJob, At
  <2>2. \E r : Move("worker", r)
    BY <1>5 DEF StartJob, EndJob
  <2> QED BY <1>4, <2>1, <2>2, MovesTo
<1>6. ASSUME Load PROVE thread'[t] = thread[t]
  <2>1. t # "main" /\ \E r : Move("main", r)
    BY <1>6 DEF Load, Goto, At
  <2> QED BY <1>4, <2>1, MovesTo
<1>7. ASSUME \/ \E u \in Callers : CallGc(u)
             \/ SessionOps \/ Tick \/ \E i \in Ids : Expire(i)
      PROVE  thread'[t] = thread[t]
    BY <1>7 DEF CallGc, SessionOps, Tick, Expire
<1> QED BY <1>1, <1>2, <1>3, <1>5, <1>6, <1>7, NextCases

(* A turn that one post in the user's name alone led to, and that does not  *)
(* fit the context window, is taken back, whatever was posted, begun or     *)
(* reloaded before: the messages are those from before it, but for results  *)
(* that the post after a finished turn has shortened, and the session waits *)
(* for the client work it waited for.                                       *)
THEOREM FullTurnIsTakenBack == Spec => FullContextRestores
<1> DEFINE Restores(t) ==
             LET l == thread[t] IN
             (/\ At(t, "complete") /\ l.outcome.end = "Full"
              /\ sess[l.id].job = l.key /\ turn[l.id].posts = 1
              /\ InUsersName(sess[l.id].msgs)
              /\ thread'[t].pc = "save")
                => Conversation(sess'[l.id]) = Remains(turn[l.id].from)
<1>1. ASSUME SInv, Next, NEW t \in Threads PROVE Restores(t)
  <2> DEFINE l == thread[t]
             i == l.id
             s == sess[i]
             r == CompleteJob(s, s.job, l.outcome)
             from == turn[i].from
  <2> SUFFICES ASSUME At(t, "complete"), l.outcome.end = "Full",
                      s.job = l.key, turn[i].posts = 1, InUsersName(s.msgs),
                      thread'[t].pc = "save"
               PROVE  Conversation(sess'[i]) = Remains(from)
    OBVIOUS
  <2>1. IInv /\ ShapeInv /\ TurnInv
    BY <1>1 DEF SInv
  <2>2. i \in Ids /\ DOMAIN s = SessionFields /\ DOMAIN sess = Ids
    BY <2>1 DEF ShapeInv, LocalShape, At, IInv, Framed
  <2>3. Finished(t)
    <3>1. ~Crash
      BY DEF Crash, Resting
    <3> QED BY <1>1, <2>1, <3>1, CompletionGoesOn DEF At
  <2>4. sess'[i] = r
    BY <2>2, <2>3 DEF Finished, HearOf
  <2>5. /\ s.armed /\ from.msgs \in Messages
        /\ from = [state |-> s.backState, wait |-> s.backWait, msgs |-> from.msgs]
        /\ \E m \in Kinds : s.msgs = Append(Remains(from).msgs, m)
    BY <2>1, <2>2 DEF TurnInv
  <2>6. RollsBack(s, l.outcome)
    BY <2>5 DEF RollsBack
  <2>7. r.state = s.backState /\ r.wait = s.backWait /\ r.msgs = Front(s.msgs)
    BY <2>2, <2>6, CompleteFields DEF Completed
  <2> HIDE DEF r, from
  <2>8. /\ Remains(from).msgs \in Messages
        /\ Remains(from) = [state |-> s.backState, wait |-> s.backWait,
                            msgs |-> Remains(from).msgs]
    BY <2>5, RemainsLemma
  <2>9. Front(s.msgs) = Remains(from).msgs
    BY <2>5, <2>8, MessagesLemma
  <2>10. Conversation(r) = [state |-> s.backState, wait |-> s.backWait,
                            msgs |-> Remains(from).msgs]
    BY <2>7, <2>9 DEF Conversation
  <2> QED BY <2>4, <2>8, <2>10
<1>2. SInv /\ [Next]_vars => [\A t \in Threads : Restores(t)]_vars
    BY <1>1
<1> QED BY <1>2, SessionsSound, PTL DEF Spec, FullContextRestores

(* How a session leaves the table.                                          *)
LEMMA TableLeaves ==
    ASSUME Next, NEW i \in table, i \notin table'
    PROVE  \/ Crash \/ Load
           \/ \E t \in Threads : Insert(t) \/ DropSession(t)
           \/ \E t \in Callers : CallGc(t) \/ CallDestroy(t, i)
<1>1. ASSUME NEW t \in Threads, Shelves(t), ~Insert(t), ~DropSession(t)
      PROVE  t \in Callers /\ CallDestroy(t, i)
  <2>1. ~Save(t)
    BY DEF Save
  <2>2. PICK j \in Ids : CallDestroy(t, j)
    BY <1>1, <2>1 DEF Shelves
  <2> QED BY <2>2 DEF CallDestroy, MayCall
<1>2. ASSUME NEW t \in Threads, \/ Waits(t) \/ Makes(t) \/ Begin(t) \/ Enqueue(t)
                                \/ CancelVictim(t)
      PROVE  table' = table
    BY <1>2 DEF Waits, AcceptPost, Peek, AskClone, Touch, Hold, ReadRef, MakePlan,
           DropOrphan, LimitDone, ReleaseVictim, Finished, CallPost, CallSnapshot,
           CallResume, Makes, CallCreate, Capture, Begin, Enqueue, CancelVictim
<1>3. ASSUME \/ \E t \in Callers, k \in DOMAIN jobs : CallCancel(t, k)
             \/ SessionOps \/ \E k \in DOMAIN jobs : StartJob(k)
             \/ \E o \in Answers \cup {Ended("Full"), Failed}, park \in BOOLEAN :
                    EndJob(o, park)
             \/ Tick \/ \E j \in Ids : Expire(j)
      PROVE  table' = table
    BY <1>3 DEF CallCancel, SessionOps, StartJob, EndJob, Tick, Expire
<1> QED BY <1>1, <1>2, <1>3, NextCases

(* A session that generates, or that waits for the client, is only lost to  *)
(* a destroy, to the end of the process, or to a limit check that somebody  *)
(* posted behind; and no check takes the session it runs for.               *)
THEOREM InUseIsKept == Spec => WaitingIsKept
<1> DEFINE Excused(i) ==
             \/ crashes' # crashes
             \/ \E t \in Callers : thread'[t].call = "destroy" /\ thread'[t].id = i
             \/ \E t \in Threads : thread'[t].victim = i /\ i \in touched[t]
           Kept(i) ==
             /\ sess[i].state # "Idle" => Excused(i)
             /\ \A t \in Threads :
                   At(t, "drop") /\ thread'[t].victim = i => i # thread[t].id
<1>1. ASSUME SInv, Next, NEW i \in table \ table' PROVE Kept(i)
  <2>1. /\ IInv /\ ShapeInv /\ LimitInv /\ i \in Ids /\ i # 0
        /\ DOMAIN sess[i] = SessionFields /\ SessionShape(sess[i])
    <3>1. IInv /\ ShapeInv /\ LimitInv
        BY <1>1 DEF SInv
    <3>2. i \in Ids /\ i # 0
        BY <1>1, <3>1 DEF IInv, Known, Framed, Ids
    <3>3. DOMAIN sess[i] = SessionFields /\ SessionShape(sess[i])
        BY <3>1, <3>2 DEF IInv, Framed, ShapeInv
    <3> QED BY <3>1, <3>2, <3>3
  <2>2. ASSUME NEW t \in Threads, At(t, "drop"), thread'[t] = thread[t]
        PROVE  thread'[t].victim # i
    BY <2>1, <2>2 DEF ShapeInv, LocalShape, At
  <2>3. CASE Crash
    <3>1. crashes' # crashes
      BY <2>1, <2>3, SessionsAssumption DEF Crash, ShapeInv
    <3>2. \A t \in Threads : thread'[t].victim = 0
      BY <2>3 DEF Crash, Resting
    <3> QED BY <2>1, <3>1, <3>2
  <2>4. ~Load
    BY <1>1, <2>1 DEF Load, IInv, LoadInv
  <2>5. i \in Collected => sess[i].state = "Idle"
    BY <2>1 DEF Collected, IsGcIdle, Active, SessionShape, AtRest
  <2>6. ASSUME NEW t \in Threads, Insert(t) PROVE Kept(i)
    <3>1. i \in Collected /\ ~At(t, "drop")
      BY <1>1, <2>6 DEF Insert, At
    <3>2. \A u \in Threads \ {t} : thread'[u] = thread[u]
      BY <2>1, <2>6, OneMoves DEF Shelves
    <3> QED BY <2>2, <2>5, <3>1, <3>2
  <2>7. ASSUME NEW t \in Callers, CallGc(t) PROVE Kept(i)
    <3>1. i \in Collected /\ thread' = thread
      BY <1>1, <2>7 DEF CallGc
    <3> QED BY <2>2, <2>5, <3>1
  <2>8. ASSUME NEW t \in Callers, CallDestroy(t, i) PROVE Kept(i)
    <3>1. t \in Threads /\ ~At(t, "drop")
      BY <2>8 DEF CallDestroy, MayCall, At, Threads
    <3>2. \A u \in Threads \ {t} : thread'[u] = thread[u]
      BY <2>1, <2>8, <3>1, OneMoves DEF Shelves
    <3>3. thread'[t] = [Resting EXCEPT !.pc = "cancelVictim", !.call = "destroy",
                                       !.id = i, !.victim = i]
      BY <2>1, <2>8, <3>1, MovesTo DEF CallDestroy
    <3>4. thread'[t].call = "destroy" /\ thread'[t].id = i
      BY <3>3 DEF Resting
    <3> QED BY <2>2, <3>1, <3>2, <3>4
  <2>9. ASSUME NEW t \in Threads, DropSession(t) PROVE Kept(i)
    <3>1. PICK c \in thread[t].plan.sessions, pc \in {"cancelVictim", "release"} :
            /\ table' = table \ {c.id}
            /\ Move(t, [thread[t] EXCEPT !.pc = pc, !.victim = c.id,
                                         !.plan.sessions = @ \ {c}])
      BY <2>9 DEF DropSession
    <3>2. c.id = i
      BY <1>1, <3>1
    <3>3. thread'[t].victim = i
      BY <2>1, <3>1, <3>2 DEF Move, IInv, Framed, ThreadFields
    <3>4. Checking(t) /\ ~At(t, "read")
      BY <2>1, <2>9 DEF DropSession, At, Checking, LimitPoints, ShapeInv, LocalShape
    <3>5. c.id # thread[t].id /\ ~InUse(t, c.id)
      BY <2>1, <3>1, <3>4 DEF LimitInv
    <3>6. sess[i].state # "Idle" => i \in touched[t]
      BY <1>1, <3>2, <3>5 DEF InUse
    <3>7. \A u \in Threads \ {t} : thread'[u] = thread[u]
      BY <2>1, <2>9, OneMoves DEF Shelves
    <3>8. sess[i].state # "Idle" => Excused(i)
      BY <3>3, <3>6
    <3> QED BY <2>2, <3>2, <3>5, <3>7, <3>8
  <2> QED BY <1>1, <2>3, <2>4, <2>6, <2>7, <2>8, <2>9, TableLeaves
<1>2. SInv /\ [Next]_vars => [\A i \in table \ table' : Kept(i)]_vars
    BY <1>1
<1> QED BY <1>2, SessionsSound, PTL DEF Spec, WaitingIsKept
=============================================================================
