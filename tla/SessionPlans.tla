---------------------------- MODULE SessionPlans ----------------------------
(* plan_session_cache (src/src/server/sessions/session_disk.cpp): which     *)
(* sessions and which stray KV files leave a directory that is over its     *)
(* size limit.  A row is what the scan of the directory found under one id; *)
(* a ref is what the caller knows of a loaded session.                      *)
EXTENDS Integers, SequencesExt

Row(id, bytes, json, mtime) ==
    [id |-> id, bytes |-> bytes, json |-> json, mtime |-> mtime]

Ref(id, updated, pinned) == [id |-> id, updated |-> updated, pinned |-> pinned]

IdsOf(set) == {r.id : r \in set}

BytesUnder(rows, id) ==
    IF id \in IdsOf(rows) THEN (CHOOSE r \in rows : r.id = id).bytes ELSE 0

Candidate(id, updated, bytes, pinned) ==
    [id |-> id, updated |-> updated, bytes |-> bytes, pinned |-> pinned]

(* A session that is not loaded goes by the time of its file and is in      *)
(* nobody's use.                                                            *)
SessionCandidates(rows, refs) ==
    {Candidate(r.id, r.updated, BytesUnder(rows, r.id), r.pinned) : r \in refs}
    \cup {Candidate(r.id, r.mtime, r.bytes, FALSE) :
              r \in {q \in rows : q.json /\ q.id \notin IdsOf(refs)}}

Orphans(rows, refs) ==
    {Candidate(r.id, r.mtime, r.bytes, FALSE) :
         r \in {q \in rows : ~q.json /\ q.id \notin IdsOf(refs)}}

StalestFirst(c, d) ==
    c.updated < d.updated \/ (c.updated = d.updated /\ c.id < d.id)

BytesOf(set) == MapThenSumSet(LAMBDA r : r.bytes, set)

(* Down the candidates, stalest first, until the rest fits: a candidate     *)
(* goes while what is left without the staler ones is too much.             *)
Evict_PinnedToo(candidates, total, limit) ==
    {c \in candidates :
        total - BytesOf({d \in candidates : StalestFirst(d, c)}) > limit}

Evict_UntilBelow(candidates, total, limit) ==
    LET unused == {c \in candidates : ~c.pinned}
    IN  {c \in unused :
            total - BytesOf({d \in unused : StalestFirst(d, c)}) >= limit}

Evict(candidates, total, limit) ==
    LET unused == {c \in candidates : ~c.pinned}
    IN  {c \in unused :
            total - BytesOf({d \in unused : StalestFirst(d, c)}) > limit}

(* The plan names sets, which the caller goes through stalest first.        *)
NextInLine(c, plan) == c \in plan /\ \A d \in plan \ {c} : StalestFirst(c, d)

PlanSessionCache(rows, refs, limit) ==
    LET total    == BytesOf(rows)
        sessions == Evict(SessionCandidates(rows, refs), total, limit)
        left     == total - BytesOf(sessions)
        orphans  == Evict(Orphans(rows, refs), left, limit)
    IN  IF limit = 0 \/ total <= limit
        THEN [sessions |-> {}, orphans |-> {}, over |-> FALSE]
        ELSE [sessions |-> sessions, orphans |-> orphans,
              over |-> left - BytesOf(orphans) > limit]
=============================================================================
