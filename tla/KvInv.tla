------------------------------- MODULE KvInv -------------------------------
(* The inductive invariant behind the safety of KvEngine: what the mirror   *)
(* of the context, the parked copies and the locals of the worker are at    *)
(* every control point, the broken ones included.                           *)
EXTENDS KvEngine

Storing == {"store", "spill", "save"}

Cloning == {"clone", "clone live"}

Unique(entries) ==
    \A i, j \in DOMAIN entries : entries[i].id = entries[j].id => i = j

UniqueInv == Unique(parked) /\ Unique(files)

(* Whose session is being parked or cloned, on behalf of which call, and    *)
(* that it is not in RAM when it is about to go to disk.                    *)
LocalsInv ==
    /\ pc \in Storing => snap \in Entries
    /\ pc \in Storing \cup {"write"} /\ back \notin Cloning => active \in Sessions
    /\ pc \in Storing /\ back = "clone live" => snap.id = target
    /\ pc \in {"park", "write"} => back \notin Cloning
    /\ pc = "copy" => target \in Sessions /\ ~InMemory(target)
    /\ pc = "save" => ~InMemory(snap.id)

(* The sessions still to be spilled or flushed are in RAM.                  *)
SpillInv ==
    pc \in {"spill", "flushing"} =>
        /\ \A i \in DOMAIN spilling : /\ InMemory(spilling[i])
                                      /\ pc = "spill" => spilling[i] # snap.id
        /\ \A i, j \in DOMAIN spilling : spilling[i] = spilling[j] => i = j

(* Between a switch or a failure and the trim that follows, the mirror is a *)
(* prefix of the context, and the tail is where the context ends.           *)
MirrorInv ==
    /\ CacheMirrorsContext
    /\ pc \in {"miss", "rollback"} => tail = Len(cells) /\ IsPrefix(tokens, cells)

ParkedInv == ParkedMatchesState /\ snap.state = snap.tokens

(* What a turn may count on when it goes back, and how far its prompt is.   *)
TurnInv ==
    /\ pc \in {"decode", "sample", "rollback"} =>
           /\ ckpt <= Len(prompt) /\ ckpt <= Len(tokens)
           /\ Prefix(prompt, ckpt) = Prefix(tokens, ckpt)
    /\ pc = "decode" => /\ offset <= Len(prompt)
                        /\ tokens = Prefix(prompt, offset)
    /\ pc = "sample" => IsPrefix(prompt, tokens)

(* Nothing that can come back into the context is larger than it. *)
SizeInv ==
    /\ ContextFits /\ Len(snap.state) <= MaxCtx
    /\ \A i \in DOMAIN parked : Len(parked[i].state) <= MaxCtx
    /\ \A i \in DOMAIN files : Len(files[i].state) <= MaxCtx

CacheInv == /\ TypeOK /\ UniqueInv /\ LocalsInv /\ SpillInv /\ MirrorInv
            /\ ParkedInv /\ TurnInv /\ SizeInv /\ OneParkedCopy

(* Nothing is captured outside of a parking or a clone, and a live session  *)
(* that is being cloned has not gone on.                                    *)
SnapInv ==
    /\ pc \notin Storing => snap = NoSnap
    /\ pc \in Storing /\ back = "clone live" => snap.tokens = tokens

EngineInv == CacheInv /\ SnapInv

(* What the RAM copy of a session takes.                                    *)
Takes(es, s) == IF Has(es, s) THEN ParkedBytes(es[IndexOf(es, s)]) ELSE 0

(* What is parked fits, and once the sessions still to be spilled are out,  *)
(* and the copy that the snapshot replaces, the snapshot fits beside the    *)
(* rest.                                                                    *)
BudgetInv ==
    /\ Exact(Sizes(parked)) <= MemoryLimit
    /\ pc = "spill" =>
           Exact(Sizes(parked)) + ParkedBytes(snap)
               <= MemoryLimit + Takes(parked, snap.id)
                      + Exact([i \in DOMAIN spilling |-> Takes(parked, spilling[i])])

StoreInv == EngineInv /\ BudgetInv

(* The files by age, and the live session safe where the flush may find it. *)
(* Nothing without tokens is ever parked, so no save of what is parked is   *)
(* refused.                                                                 *)
ByAge(fs) == \A i, j \in DOMAIN fs : i < j /\ fs[j].old => fs[i].old

ParkedNonEmpty ==
    /\ \A i \in DOMAIN parked : parked[i].tokens # <<>>
    /\ pc \in Storing => snap.tokens # <<>>

LiveSaved ==
    \/ \E i \in DOMAIN parked : parked[i].id = active /\ parked[i].tokens = tokens
    \/ \E i \in DOMAIN files : /\ files[i].id = active /\ files[i].whole
                               /\ ~files[i].old /\ files[i].tokens = tokens

ShutdownInv ==
    /\ ByAge(files) /\ ParkedNonEmpty
    /\ back = "shutdown" /\ pc \in Storing =>
           snap.id = active /\ snap.tokens = tokens
    /\ pc \in {"flush", "flushing"} /\ active \in Sessions /\ tokens # <<>> => LiveSaved
    /\ pc = "flushing" => \A i \in DOMAIN parked : \E j \in DOMAIN spilling :
                              spilling[j] = parked[i].id
    /\ ShutdownSavesAll
=============================================================================
