---------------------------- MODULE SessionCache ----------------------------
(* What the engine's cache promises about where cached conversations come   *)
(* from, with no context, memory or file in sight.  held[s] are the token   *)
(* sequences session s could be resumed with.  A sequence appears in it     *)
(* only because the session was cut back to a prefix, because a batch was   *)
(* decoded behind a sequence it held, or because a call asked for a clone;  *)
(* anything may be lost.                                                    *)
EXTENDS Sequences, SequencesExt

CONSTANTS Ids, MaxBatch

VARIABLES
    held,
    busy        \* whether a call is in progress

vars == <<held, busy>>

OnlyLoses(s) == held'[s] \subseteq held[s]

Reachable(c, s) ==
    \/ \E h \in held[s] : IsPrefix(c, h)
    \/ \E h \in held[s] \cup {<<>>} : IsPrefix(h, c) /\ Len(c) <= Len(h) + MaxBatch

Evolve(s) ==
    /\ \A c \in held'[s] \ held[s] : Reachable(c, s)
    /\ \A o \in Ids \ {s} : OnlyLoses(o)

(* Nothing but a call can copy one session to another. *)
Clone(from, to) ==
    /\ ~busy
    /\ held'[to] \subseteq held[to] \cup held[from]
    /\ \A o \in Ids \ {to} : OnlyLoses(o)

CacheInit == held = [s \in Ids |-> {}] /\ busy = FALSE

CacheNext ==
    /\ busy' \in BOOLEAN
    /\ \/ \E s \in Ids : Evolve(s)
       \/ \E f, t \in Ids : Clone(f, t)

CacheSpec == CacheInit /\ [][CacheNext]_vars
=============================================================================
