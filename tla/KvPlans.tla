------------------------------ MODULE KvPlans ------------------------------
(* The decisions of the engine's cache that are pure functions: which       *)
(* parked sessions leave RAM, which files leave the disk, how much of the   *)
(* live sequence a prompt can reuse, and where its messages end.            *)
(* src/src/server/llm: session_park.cpp, token_offset.hpp, kv_match.hpp and *)
(* LlamaEngine::message_token_ends.                                         *)
EXTENDS Integers, Sequences, SequencesExt

CONSTANT MaxBytes       \* the largest uint64_t

ASSUME MaxBytesAssumption == MaxBytes \in Nat

(* What the first n of some sizes come to, and all of them.                 *)
Sums(sizes) ==
    LET sum[n \in 0..Len(sizes)] ==
            IF n = 0 THEN 0 ELSE sum[n - 1] + sizes[n]
    IN  sum

Exact(sizes) == Sums(sizes)[Len(sizes)]

(* What is held is added up without wrapping around ...                     *)
Adding(sizes) ==
    LET sum[n \in 0..Len(sizes)] ==
            IF n = 0 THEN 0
            ELSE IF sum[n - 1] > MaxBytes - sizes[n] THEN MaxBytes
            ELSE sum[n - 1] + sizes[n]
    IN  sum

SumOf(sizes) == Adding(sizes)[Len(sizes)]

(* ... and then drop from the front while there is too much.                *)
LeftAfter(sizes, total) ==
    LET left[n \in 0..Len(sizes)] ==
            IF n = 0 THEN total
            ELSE IF left[n - 1] >= sizes[n] THEN left[n - 1] - sizes[n] ELSE 0
    IN  left

DropCount_StopsOneLater(sizes, total, goal) ==
    CHOOSE n \in 0..Len(sizes) :
        /\ n = Len(sizes) \/ LeftAfter(sizes, total)[n] < goal
        /\ \A m \in 0..(n - 1) : LeftAfter(sizes, total)[m] >= goal

DropCount(sizes, total, goal) ==
    CHOOSE n \in 0..Len(sizes) :
        /\ n = Len(sizes) \/ LeftAfter(sizes, total)[n] <= goal
        /\ \A m \in 0..(n - 1) : ~(LeftAfter(sizes, total)[m] <= goal)

-----------------------------------------------------------------------------
(* held: bytes of the parked sessions, oldest first.  spill: how many of    *)
(* them go to disk to make room.                                            *)
PlanMemoryAdmit_IgnoresIncoming(held, incoming, limit) ==
    IF limit = 0 \/ incoming = 0 \/ incoming > limit
    THEN [keep |-> FALSE, spill |-> 0]
    ELSE [keep |-> TRUE, spill |-> DropCount(held, SumOf(held), limit)]

PlanMemoryAdmit(held, incoming, limit) ==
    IF limit = 0 \/ incoming = 0 \/ incoming > limit
    THEN [keep |-> FALSE, spill |-> 0]
    ELSE LET room  == limit - incoming
             total == SumOf(held)
             n     == DropCount(held, total, room)
         IN  [keep |-> LeftAfter(held, total)[n] <= room, spill |-> n]

(* files: a set of [id, bytes, mtime].  Which of them go: down the old      *)
(* ones, oldest first, until the rest fits, so a file goes while what is    *)
(* left without the older ones is too much.                                 *)
Older(f, g) == f.mtime < g.mtime \/ (f.mtime = g.mtime /\ f.id < g.id)

IsOld(f, maxAge, now) == f.mtime < now /\ now - f.mtime > maxAge

SizeOf(files) == MapThenSumSet(LAMBDA f : f.bytes, files)

Capped_Wrapping(bytes) == bytes % (MaxBytes + 1)

Capped(bytes) == IF bytes > MaxBytes THEN MaxBytes ELSE bytes

PlanDiskGc(files, maxAge, limit, now) ==
    LET old   == {f \in files : IsOld(f, maxAge, now)}
        total == Capped(SizeOf(files))
    IN  IF maxAge < 0 THEN {}
        ELSE {f \in old : total - SizeOf({g \in old : Older(g, f)}) > limit}

-----------------------------------------------------------------------------
Prefix(seq, n) == SubSeq(seq, 1, n)

(* a and b agree on the positions from+1..to. *)
Agree(a, b, from, to) ==
    to <= Len(a) /\ to <= Len(b) /\ \A i \in (from + 1)..to : a[i] = b[i]

(* The stored message ends are walked while they hold, then the match goes  *)
(* on token by token.                                                       *)
HeldEnds(active, prompt, ends) ==
    LET at(i) == IF i = 0 THEN 0 ELSE ends[i]
        holds(i) == at(i - 1) <= at(i) /\ Agree(active, prompt, at(i - 1), at(i))
    IN  CHOOSE k \in 0..Len(ends) :
            /\ \A i \in 1..k : holds(i)
            /\ k < Len(ends) => ~holds(k + 1)

CheckpointFromOffsets_TrustsEnds(active, prompt, ends) ==
    LET k == Len(SelectSeq(ends, LAMBDA e : e <= Len(active) /\ e <= Len(prompt)))
        matched == IF k = 0 THEN 0 ELSE ends[k]
    IN  CHOOSE n \in matched..(IF Len(active) < Len(prompt)
                               THEN Len(active) ELSE Len(prompt)) :
            /\ Agree(active, prompt, matched, n)
            /\ ~Agree(active, prompt, matched, n + 1)

CheckpointFromOffsets(active, prompt, ends) ==
    LET k == HeldEnds(active, prompt, ends)
        matched == IF k = 0 THEN 0 ELSE ends[k]
    IN  CHOOSE n \in matched..Len(active) :
            /\ Agree(active, prompt, matched, n)
            /\ ~Agree(active, prompt, matched, n + 1)

(* Is the number of tokens what the cache says its last position is?        *)
KvTailMatches(n, posMax) ==
    IF n = 0 THEN posMax < 0 ELSE posMax >= 0 /\ posMax + 1 = n

(* Where the messages of a prompt end.  renders[i]: the tokens of the first *)
(* i messages.  Stored ends that are still a prefix are not measured again. *)
MessageTokenEnds(stored, active, prompt, renders) ==
    LET reuse == stored # <<>> /\ Agree(active, prompt, 0, Last(stored))
        start == IF reuse THEN Len(stored) ELSE 0
        end(i) == IF i <= start THEN stored[i] ELSE Len(renders[i])
        fits(i) == /\ IsPrefix(renders[i], prompt)
                   /\ i > 1 => end(i - 1) <= end(i)
        all == IF start > Len(renders) THEN start ELSE Len(renders)
        n == CHOOSE n \in start..all :
                 /\ \A i \in (start + 1)..n : fits(i)
                 /\ n < all => ~fits(n + 1)
    IN  [i \in 1..n |-> end(i)]
=============================================================================
