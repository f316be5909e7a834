----------------------------- MODULE JobService -----------------------------
(* What the job runner promises, with no thread, queue or buffer in sight.  *)
(* Requests are taken one at a time, each one reaches one terminal state    *)
(* and keeps it, and a client is only ever told a terminal state.           *)
CONSTANTS Tasks

VARIABLES phase,    \* the state of each request
          answer    \* what its client was told, "none" before that

svcVars == <<phase, answer>>

Finished == {"Done", "Error", "Cancelled"}

SvcInit == /\ phase  = [t \in Tasks |-> "none"]
           /\ answer = [t \in Tasks |-> "none"]

Submit(t) == /\ phase[t] = "none"
             /\ phase' = [phase EXCEPT ![t] = "Queued"]
             /\ UNCHANGED answer

(* Single flight: the model serves one request at a time. *)
Start(t) == /\ phase[t] = "Queued"
            /\ \A u \in Tasks : phase[u] # "Running"
            /\ phase' = [phase EXCEPT ![t] = "Running"]
            /\ UNCHANGED answer

Finish(t, outcome) ==
    /\ \/ phase[t] = "Running"
       \/ phase[t] = "Queued" /\ outcome = "Cancelled"
    /\ phase' = [phase EXCEPT ![t] = outcome]
    /\ UNCHANGED answer

Tell(t) == /\ answer[t] = "none"
           /\ phase[t] \in Finished
           /\ answer' = [answer EXCEPT ![t] = phase[t]]
           /\ UNCHANGED phase

SvcNext == \E t \in Tasks : \/ Submit(t)
                            \/ Start(t)
                            \/ \E outcome \in Finished : Finish(t, outcome)
                            \/ Tell(t)

SvcSpec == SvcInit /\ [][SvcNext]_svcVars
=============================================================================
