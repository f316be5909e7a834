---------------------------- MODULE PlansCheck -----------------------------
(* The pure decisions of KvPlans and SessionPlans, and a conversation sent  *)
(* back through ResponsesItems, asked with every small input, and their     *)
(* answers compared with what they are meant to be.                         *)
EXTENDS KvPlans, SessionPlans, ResponsesItems

CONSTANTS
    MaxSize,    \* bound: bytes of one session, age of one file
    MaxHeld,    \* bound: sessions in RAM or on disk
    Tokens,     \* the vocabulary
    MaxLen,     \* bound: tokens of a prompt
    DeclaredNames,  \* tools of a request: names, some inside namespaces
    CalledNames,    \* names a model may call them by
    MaxCalls        \* bound: calls in one answer

ASSUME BoundsAssumption ==
    MaxSize \in Nat /\ MaxHeld \in Nat /\ MaxLen \in Nat /\ MaxCalls \in Nat

(* A name has its parts between dots, and no two declarations of a request  *)
(* make the same tool.                                                      *)
ASSUME NamesAssumption ==
    /\ IsFiniteSet(DeclaredNames)
    /\ DeclaredNames \subseteq [ns : STRING, name : Seq(STRING)]
    /\ \A d, e \in DeclaredNames : ModelTool(d) = ModelTool(e) => d = e
    /\ CalledNames \subseteq Seq(STRING) \ {<<>>}

VARIABLES ask, answer

vars == <<ask, answer>>

Texts(n) == BoundedSeq(Tokens, n)

(* Offsets as the engine stores them: never decreasing. *)
Offsets == {e \in BoundedSeq(0..MaxLen, 2) : Len(e) = 2 => e[1] <= e[2]}

FileSets ==
    LET Ids == 1..MaxHeld
        Present == [bytes : 0..MaxSize, mtime : 0..MaxSize]
    IN  UNION {{{[id |-> i, bytes |-> f[i].bytes, mtime |-> f[i].mtime]
                     : i \in S} : f \in [S -> Present]} : S \in SUBSET Ids}

(* What the scan may find under an id, and what Sessions may know of it.    *)
Founds == {{}} \cup {{f} : f \in [bytes : 1..2, json : BOOLEAN, mtime : 0..1]}
Knowns == {{}} \cup {{k} : k \in [updated : 0..1, pinned : BOOLEAN]}

RowsOf(found) == UNION {{Row(i, f.bytes, f.json, f.mtime) : f \in found[i]} :
                        i \in DOMAIN found}
RefsOf(known) == UNION {{Ref(i, k.updated, k.pinned) : k \in known[i]} :
                        i \in DOMAIN known}

Calls == [name : CalledNames, id : {0, 2}]

Answers(calls) ==
    [reasoning : {<<>>, <<"why">>}, text : {<<>>, <<"a">>}, calls : calls]

Init ==
    /\ answer = <<>>
    /\ \/ \E held \in BoundedSeq(0..MaxSize, MaxHeld),
             incoming \in 0..MaxSize, limit \in 0..MaxBytes :
              ask = [about |-> "admit", held |-> held, incoming |-> incoming,
                     limit |-> limit]
       \/ \E files \in FileSets, age \in -1..1, limit \in 0..MaxBytes :
              ask = [about |-> "gc", files |-> files, age |-> age,
                     limit |-> limit]
       \/ \E active, prompt \in Texts(MaxLen), ends \in Offsets :
              ask = [about |-> "checkpoint", active |-> active,
                     prompt |-> prompt, ends |-> ends]
       \/ \E active, prompt \in Texts(MaxLen), ends \in Offsets,
             renders \in BoundedSeq(Texts(2), 2) :
              ask = [about |-> "ends", active |-> active, prompt |-> prompt,
                     ends |-> ends, renders |-> renders]
       \/ \E found \in [1..MaxHeld -> Founds], known \in [1..MaxHeld -> Knowns],
             limit \in {0, 1, 3} :
              ask = [about |-> "limit", rows |-> RowsOf(found),
                     refs |-> RefsOf(known), limit |-> limit]
       \/ \E names \in SUBSET DeclaredNames,
             first \in Answers(BoundedSeq(Calls, MaxCalls)),
             second \in Answers({<<>>}) :
              ask = [about |-> "history", declared |-> SetToSeq(names),
                     first |-> first, second |-> second]

Asked(kind) == answer = <<>> /\ ask.about = kind

AskAdmit ==
    /\ Asked("admit")
    /\ answer' = <<PlanMemoryAdmit(ask.held, ask.incoming, ask.limit)>>
    /\ UNCHANGED ask

AskGc ==
    /\ Asked("gc")
    /\ answer' = <<PlanDiskGc(ask.files, ask.age, ask.limit, MaxSize)>>
    /\ UNCHANGED ask

AskCheckpoint ==
    /\ Asked("checkpoint")
    /\ answer' = <<CheckpointFromOffsets(ask.active, ask.prompt, ask.ends)>>
    /\ UNCHANGED ask

AskEnds ==
    /\ Asked("ends")
    /\ answer' = <<MessageTokenEnds(ask.ends, ask.active, ask.prompt,
                                    ask.renders)>>
    /\ UNCHANGED ask

AskLimit ==
    /\ Asked("limit")
    /\ answer' = <<PlanSessionCache(ask.rows, ask.refs, ask.limit)>>
    /\ UNCHANGED ask

(* What the client does between two answers: it runs the calls, or asks on. *)
ToolOutputs(calls) ==
    [i \in DOMAIN calls |-> [type |-> "function_call_output", text |-> <<"out">>,
                             id |-> CallId(calls[i], i)]]

ClientReply(a) ==
    IF a.calls = <<>> THEN <<TextItem("user", <<"more">>)>> ELSE ToolOutputs(a.calls)

ClientInput ==
    <<TextItem("user", <<"ask">>)>> \o OutputItems(ask.first, ask.declared)
        \o ClientReply(ask.first) \o OutputItems(ask.second, ask.declared)

AskHistory ==
    /\ Asked("history")
    /\ answer' = <<MessagesFromInput(ClientInput)>>
    /\ UNCHANGED ask

Next == AskAdmit \/ AskGc \/ AskCheckpoint \/ AskEnds \/ AskLimit \/ AskHistory

Spec == Init /\ [][Next]_vars

-----------------------------------------------------------------------------
Answered(kind) == ask.about = kind /\ answer # <<>>

Result == answer[1]

Remaining(held, n) == SubSeq(held, n + 1, Len(held))

(* plan_memory_admit: a session that fits the budget is kept, the sessions  *)
(* that stay fit with it, and no session is spilled that could have stayed. *)
AdmitIsTight ==
    Answered("admit") /\ Exact(ask.held) <= MaxBytes =>
        LET Fits(n) == Exact(Remaining(ask.held, n)) + ask.incoming <= ask.limit
        IN  /\ Result.keep <=> ask.incoming \in 1..ask.limit
            /\ Result.keep => Fits(Result.spill)
            /\ Result.spill > 0 => ~Fits(Result.spill - 1)

OldFiles == {f \in ask.files : MaxSize - f.mtime > ask.age /\ f.mtime < MaxSize}

(* plan_session_disk_gc: only files over the age go, older ones before      *)
(* younger ones, none once the rest fits, and as long as the rest does not  *)
(* fit all old files go.  A total that does not fit an integer is still too *)
(* much.                                                                    *)
GcIsTight ==
    Answered("gc") /\ ask.age >= 0 =>
        LET before(f) == {g \in Result : Older(g, f)}
        IN  /\ Result \subseteq OldFiles
            /\ \A f \in OldFiles \ Result, g \in Result : Older(g, f)
            /\ \A f \in Result : SizeOf(ask.files \ before(f)) > ask.limit
            /\ (/\ SizeOf(ask.files) > ask.limit /\ ask.limit < MaxBytes
                /\ OldFiles # {}) => Result # {}
            /\ SizeOf(ask.files) <= MaxBytes =>
                   SizeOf(ask.files \ Result) <= ask.limit \/ Result = OldFiles

(* checkpoint_from_offsets: what is reused is the longest common prefix,    *)
(* whatever the stored ends say.                                            *)
CheckpointIsCommonPrefix ==
    Answered("checkpoint") =>
        Result = Len(LongestCommonPrefix({ask.active, ask.prompt}))

(* message_token_ends: ends never decrease, lie inside the prompt, and a    *)
(* new one is the end of a rendering the prompt begins with.                *)
EndsLieInPrompt ==
    Answered("ends") =>
        \A i \in DOMAIN Result :
            /\ Result[i] <= Len(ask.prompt)
            /\ i > 1 => Result[i - 1] <= Result[i]
            /\ \/ i \in DOMAIN ask.ends /\ ask.ends[i] = Result[i]
                  /\ Agree(ask.active, ask.prompt, 0, Result[i])
               \/ i \in DOMAIN ask.renders /\ Len(ask.renders[i]) = Result[i]
                  /\ IsPrefix(ask.renders[i], ask.prompt)

(* The ends of messages a turn stores (token_offset.hpp) are those of its   *)
(* own prompt, and in the next turn they only save comparisons.             *)
EndsOnlySaveWork == CheckpointIsCommonPrefix /\ EndsLieInPrompt

Unused == {c \in SessionCandidates(ask.rows, ask.refs) : ~c.pinned}

(* What remains of the directory without these sessions and files.          *)
Without(gone) == BytesOf({r \in ask.rows : r.id \notin IdsOf(gone)})

(* plan_session_cache: a session in use stays, the stalest of the others go *)
(* first and stray KV files last, nothing goes once the rest fits, and the  *)
(* plan says when what is in use alone does not fit.                        *)
LimitIsTight ==
    Answered("limit") /\ ask.limit > 0 =>
        LET stray     == Orphans(ask.rows, ask.refs)
            gone      == Result.sessions \cup Result.orphans
            staler(c) == {d \in gone : StalestFirst(d, c)}
        IN  /\ Result.sessions \subseteq Unused /\ Result.orphans \subseteq stray
            /\ \A S \in {Unused, stray} : \A c, e \in S :
                   StalestFirst(c, e) /\ e \in gone => c \in gone
            /\ Result.orphans # {} => Unused = Result.sessions
            /\ \A c \in Result.sessions :
                   Without(staler(c) \cap Result.sessions) > ask.limit
            /\ \A c \in Result.orphans :
                   Without(staler(c) \cup Result.sessions) > ask.limit
            /\ Result.over <=> Without(gone) > ask.limit
            /\ Result.over => gone = Unused \cup stray

(* The tool a name means: the one declared by it, or the only member of a   *)
(* declared namespace with that name.                                       *)
ToolNames == {ModelTool(d) : d \in ToSet(ask.declared)}

Members(name) ==
    {t \in ToolNames : /\ Len(t) = 2 /\ t[1] \in Namespaces(ask.declared)
                       /\ <<t[2]>> = name}

Meant(name) ==
    IF name \notin ToolNames /\ Cardinality(Members(name)) = 1
    THEN CHOOSE t \in Members(name) : TRUE ELSE name

AnswerMessage(a) ==
    Assistant(a.text, a.reasoning,
              [i \in DOMAIN a.calls |-> [name |-> Meant(a.calls[i].name),
                                         id |-> CallId(a.calls[i], i)]])

ReplyMessages(a) ==
    IF a.calls = <<>> THEN <<[role |-> "user", content |-> <<"more">>]>>
    ELSE [i \in DOMAIN a.calls |-> [role |-> "tool", content |-> <<"out">>,
                                    id |-> CallId(a.calls[i], i)]]

(* The names that change on the way: one that was declared and also names   *)
(* the one member of a namespace, which emitted_tool_name reports instead,  *)
(* and one that repeats its namespace, which qualify_tool_name then takes   *)
(* for qualified.                                                           *)
Mistaken(name) ==
    \/ name \in ToolNames /\ Cardinality(Members(name)) = 1
    \/ Len(name) > 2 /\ name[1] = name[2] /\ name[1] \in Namespaces(ask.declared)

(* A client that sends the items of earlier answers back gives the model    *)
(* its own conversation: each answer one message with its reasoning, text   *)
(* and calls, each call under the name of the tool that was meant, its      *)
(* output under its id.                                                     *)
HistoryRoundTrips ==
    Answered("history") =>
        \/ \E i \in DOMAIN ask.first.calls : Mistaken(ask.first.calls[i].name)
        \/ Result = <<[role |-> "user", content |-> <<"ask">>],
                      AnswerMessage(ask.first)>>
                    \o ReplyMessages(ask.first)
                    \o <<AnswerMessage(ask.second)>>
=============================================================================
