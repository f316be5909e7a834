# Verification of Callisto

Callisto is a local LLM server: one process, one loaded model, an HTTP API in
the style of the OpenAI Responses API.  This directory holds TLA+ models of its
parts, the TLC runs that check them, and proofs that the TLA+ proof system
checks.  Paths below are those of the repository.

## Inventory

| Component | Source | State it keeps | Operations |
|---|---|---|---|
| Job runner | `server/jobs/jobs.cpp`, `jobs.hpp` | per task: `state_`, `cancelled_`, `full_result_`, `on_finished_`; per runner: `order_`, `tasks_`, `current_task_`, pending releases and clones, all under `mutex_`; the worker's stop token | `enqueue`, `cancel`, `wait_next`, `worker_loop`, `finish_task`, `release_session`, `clone_session`, `gc`, `request_shutdown`, `stop` |
| Token buffer | `server/jobs/token_buffer.hpp` | pieces, `done`, `cancelled`, one mutex and condition variable per task | `push`, `set_done`, `cancel`, `wait_pull`, `pull_available`, `full_result` |
| HTTP handlers | `server/http/routes.cpp` | one thread per request: the task it waits for, whether headers are out, the delta filter | `POST /v1/responses` streaming and not, `GET /v1/models`, health |
| Process start and stop | `server/main.cpp` | the signal flag, the stopper thread, the exit path | signal, `server.stop()`, `jobs.stop()` |
| Inference engine | `server/llm/llm_engine.cpp`, `kv_trim.cpp` | `active_session_id_`, `active_tokens_`, `message_ends_`, and the KV cache inside llama.cpp | `chat`, `activate_session`, `trim_kv_to`, `park_active_session`, `release_session`, `clone_session`, `flush_parked_sessions` |
| Parked sessions | `server/llm/session_park.cpp` | entries oldest first with their bytes, `used_bytes_` | `insert`, `take`, `erase`, `plan_memory_admit`, `plan_session_disk_gc` |
| Session KV store | `server/llm/session_kv_store.cpp` | one file per session, its modification time | `save`, `save_captured`, `load`, `copy`, `remove`, `trim_expired` |
| Sampling and UTF-8 | `server/llm/utf8_stream.hpp`, `context_params.hpp` | bytes of an unfinished character | `process`, `flush` |
| Responses API | `server/responses/responses.cpp` | the delta filter: what was sent, whether a tool call or a thought is open | request parsing, deltas, terminal events, cache key |
| Response parsing | `server/agent/response_parse.cpp`, `model_adapter.cpp` | none | text of the model to message and tool calls, per model family |
| Sessions | `server/sessions/sessions.cpp`, `session_disk.cpp`, `tool_history.cpp` | per session: messages, last task, timestamps; files on disk | `create`, `post_message`, `cancel`, `destroy`, `gc`, cache limits, load and save |
| Options and models | `server/options.cpp`, `api/models.cpp` | none | command line, environment, JSON |
| Tools | `common/tools/*` | none | edit, search, read, run, for a coding agent |
| Logging, XDG | `common/log.cpp`, `common/xdg.cpp` | none | paths and lines |

`Sessions`, `session_disk`, `tool_history` and `common/tools` are linked into
the test binary only; the server proper is HTTP handlers, job runner and engine.

### Interaction

A handler thread turns a request into messages, submits a `Task` with a
callback, and then either pulls the task's token buffer (streaming) or polls a
flag that its callback sets.  One worker thread owns the engine: it takes the
next queued task together with the pending session clones and releases, applies
these, runs `LlamaEngine::chat` with a token callback that pushes into the
buffer, publishes a terminal state, runs the callback and ends the stream.  A
client that disconnects makes its handler cancel the task; so does a shutdown,
which runs on a stopper thread (signal) and again on main after `listen`
returned.  The engine keeps one active session in the KV cache, parks others in
RAM under a byte limit, spills them to files, and reuses the longest prefix of
the prompt that is already cached.

### What is hard here, and what makes a component correct

* *Job runner*: three kinds of threads over two mutexes, two atomics and two
  condition variables.  A cancel may land before the start, during the turn,
  between the last token and the test that decides the outcome, or in the queue.
  Correct means: one request at a time, one terminal state per request, one
  thread that finishes it, a stream that ends only after the callback, no piece
  missing from an answer that is called complete, no lost wake-up, every request
  answered.
* *Engine*: `active_tokens_` is a mirror of a cache it cannot read.  Failing
  decodes, refused trims, stops in the middle of a prompt, and a batch that was
  half accepted must leave the mirror true, or a later turn silently answers
  from another conversation.
* *Parked sessions and store*: one byte budget, eviction to disk, spills that
  fail, a crash in the middle of a save, limits of zero.
* *Responses*: a filter over pieces cut anywhere must never send markup or
  thinking, and must send everything else once.
* *Sessions*: check-then-act around a running turn, snapshots that are stale
  when used, files against memory.

`PROJECT.json` lists such hazards at their lines, with the properties aimed
at them, or why there is none.

## Modules

### Job runner

* `TokenBuffer` — the token buffer as a record; each operator is the body of
  one critical section of the class.  The condition variable is not a state of
  its own: a reader is enabled when the predicate of `wait_pull` holds, and
  every step that changes the predicate notifies under the buffer's mutex.
* `JobService` — what the runner promises, without threads: requests run one at
  a time, reach one terminal state and keep it, and a client is told only a
  terminal state.
* `Jobs` — the runner with the threads around it.  A step is one critical
  section or one access of an atomic.  State and code:

  | Variables | Code |
  |---|---|
  | `state`, `flag`, `buf`, `callback`, `full` | `Task::state_`, `cancelled_`, `tokens_`, `on_finished_`, `full_result_` |
  | `queue`, `tasks`, `current`, `releases`, `clones` | `order_`, `tasks_`, `current_task_`, `pending_releases_`, `pending_clones_` |
  | `stop` | the stop token of the worker's `jthread` |
  | `wpc`, `wtask`, `work`, `sampled`, `outcome` | where `worker_loop` is, and its locals |
  | `hpc`, `own`, `read`, `reply` | where a handler of `routes.cpp` is; whether `Jobs::cancel` found its task in the queue; what the client has received and been told |
  | `spc`, `targets`, `victim` | where a call of `request_shutdown` is, one per calling thread, and its snapshot of tasks |
  | `arrivals`, `applied` | histories, read by properties only (and to make every session call once) |

  `Jobs::mutex_` is not a variable.  Every critical section under it is one
  step, except that the worker keeps it from finding nothing to do until it
  sleeps on `cv_`; this window is the control point `blocking`, and every other
  use of the mutex has the guard `MutexFree`.  The stop callback of
  `condition_variable_any` notifies without the mutex, so `StopCallback` has no
  such guard: it can fall into the window and be lost.
* `JobsInv` — the inductive invariant of the proofs of this part.
* `JobsProofs` — types; the steps of the invariant and what follows from it; the
  order of requests and session calls.

### Inference engine and parked sessions

* `KvPlans` — the decisions that are pure functions: `plan_memory_admit`,
  `plan_session_disk_gc`, `checkpoint_from_offsets`, `kv_tail_matches`,
  `message_token_ends`.  `PlansCheck` puts every small input to them and
  compares the answers with what they are meant to be; so it does with
  `plan_session_cache` of `SessionPlans` and with the conversations of
  `ResponsesItems`.  The files of a directory are a set: the loop
  over the old ones, oldest first, is stated by what it selects, a file goes while what
  is left without the older ones is too much.
* `SessionCache` — what the cache promises, with no context, memory or file: a
  session is resumed with a prefix of its own conversation, or of one it was
  cloned from.
* `KvEngine` — `LlamaEngine` on its one worker thread, with `SessionMemory`,
  `SessionKvStore` and the context of llama.cpp.  A step is one call that can
  fail on its own: a decode, a trim, a save, a restore.  State and code:

  | Variables | Code |
  |---|---|
  | `cells`, `tail`, `fresh` | sequence 0 of the llama context: the tokens whose cells are stored, the last position plus one, whether the logits at hand belong to the last cell |
  | `active`, `tokens` | `active_session_id_`, `active_tokens_` |
  | `parked` | `SessionMemory::entries_`, oldest first |
  | `files` | the session directory, oldest modification first |
  | `pc`, `back` | which call the worker is in, and who called `park_active_session` or `store_snapshot` |
  | `target`, `prompt`, `ckpt`, `offset`, `snap`, `spilling` | locals of these calls |

  A token is a number, a state is the sequence of tokens it was computed from,
  and sizes are counted in tokens.  Of llama.cpp the model knows what the code
  relies on: a decode appends the batch or fails with some of it stored; a
  model with a recurrent part (`Hybrid`) may refuse to drop a suffix, or drop
  it and leave its tail behind; a restore that fails leaves some of the state.
  After a restore the logits count as not fresh, although llama.cpp may restore
  those of the last cell; `kv_retry` does not need a restore.  Removing a
  file is taken to succeed.  `session_disk_max_age_days` is at least 1 when it
  is not negative, so a file just written is never old.  `Sessions::clone`
  clones onto the id of a new session, so the target of a clone is never live
  or in RAM (`Fresh`); it may have a file from another run of the server.
* `KvInv` — the inductive invariant of the proofs of this part.
* `MCKvEngine` — the prompts of the runs.
* `KvLemmas`, `PlansProofs` — what the operators return, and what `PlansCheck`
  asks of them, for every input.
* `KvProofs`, `KvOrigins`, `KvParking` — that every step keeps the invariant, and what
  follows; where conversations come from; what parking keeps within bounds, which files
  expire, and what a shutdown leaves.

### Sessions

* `SessionPlans` — `plan_session_cache`, the pure part of the limit on the session
  directory.  The loops over the candidates, stalest first, are stated by what they
  select: a candidate goes while what is left without the staler ones is too much.  The
  caller goes through the selected ones in the same order (`NextInLine`).
* `Sessions` — the session table, the sessions, and their files.  A step is one
  critical section of `Sessions::mutex_` or of one `Session::mutex_`; no lock is
  held from one to the next, so what was read under one may be stale at the next.
  State and code:

  | Variables | Code |
  |---|---|
  | `table` | the ids in `sessions_` |
  | `sess` | the `Session` objects: state, pending client work, task key, messages, what a rollback restores.  An object outlives its place in the table, as a `shared_ptr` does |
  | `disk`, `kv` | `<id>.json` with its record, `<id>.kv` of the engine, and their modification times |
  | `jobs`, `releases`, `clones` | the tasks given to the job runner and its pending session calls |
  | `thread` | per thread, the call it is in and its locals: the caller's session, a task key, what `enforce_cache_limit` has gathered and planned |
  | `clock`, `newest`, `crashes` | the wall clock, the last id handed out, kills so far |
  | `unsaved`, `turn`, `touched` | histories, read by properties only |

  The threads are `Callers`, any number of client threads, each of which makes one
  call after another; the worker of the job runner, which calls back when a task
  ends; and main, which loads the files.  `CallPost` and the steps after it are
  `post_message` and `post_tool_results` (`AcceptPost`, `Save`, `Begin`, `Enqueue`);
  `CallCreate` and `CallSnapshot` lead to `Insert`; `CallResume`, `CallDestroy`,
  `CallGc`, `CallCancel` are the methods of these names.  Every save goes on to the
  limit check (`Hold`, `ReadRef`, `MakePlan`, `DropSession`, `DropOrphan`,
  `CancelVictim`, `ReleaseVictim`).  `EndJob` is the end of a generation with a free
  choice of outcome, and `Finished` its callback.  Runner and engine appear by their
  interface alone, which `Jobs` and `KvEngine` model in detail: a queued task that
  is cancelled ends on the canceller's thread, a running one on the worker; session
  calls come before the next task.  Files have size one.  Of a message (`Kinds`) there is
  left whether it is in the user's name, for the client chooses the role
  (`sessions.cpp:272`) and the rollback tests it, and whether it is tool results in full,
  for `accept_user_message` shortens the stored ones when the turn before is over
  (`Stored`, `Shortened`).  A client may bring such a conversation along when it creates a
  session.  Texts in another role are taken to hold nothing to shorten, and
  `compress_tools_` to be the same for all sessions; the code keeps it with each.  `Sessions` is linked into the tests only, which call it from one
  thread; its classes lock as for many, and the model takes them at their word.
* `SessionsInv`, `SessionsProofs`, `SessionsTheorems` — the inductive invariant; its
  core and what follows from that; the rest of it, and what that gives.

### Answers

* `ResponsesItems` — the items an answer is turned into and how the same items are
  read back when the client sends the conversation again: names of tools inside
  and outside namespaces, ids of calls, merging of items into messages.
* `AnswerStream` — one answer on its way to the client, streamed and as a whole.
  `Sample` appends a token of any size up to `MaxPiece`, so the text is cut in every
  way; `Utf8Util::StreamBuffer` holds back incomplete code points, the worker puts
  the opener in front, `ResponsesDeltaFilter` takes thinking and tool markup out
  (`Drain`, loop by loop).  `Stop` may happen after any token and computes the final
  items from the whole text with the other parser, `split_thinking_channel`.  The
  alphabet holds one letter per byte that matters: the brackets, the rest of each
  tag's name, and the three bytes of a code point.  Both DeepSeek markers share one
  spelling.  Which calls the parser finds in the visible text is a free choice, their
  arguments are left out.
* `AlgorithmsCheck`, `MCAlgorithms` — one specification over the inputs of
  `PlansCheck` (plans, and conversations of two answers), patches, stored texts, and
  answers of a few words.

### Texts and files

* `EditFile` — `edit_file` from the patch to the new file and the diff it answers
  with: reading the patch, locating each hunk by its old lines, the spans of what
  changes, the test for overlaps, applying the spans from the last to the first,
  and the diff with up to three lines of context.  A line is a value; two of them
  begin like the headers of a patch.  Left out: the names of files, reading and
  writing, the cut of a very long diff.
* `EditMeaning` — what a patch means without an order among its hunks, and the
  patches and files of the run.
* `ToolHistory` — `shrink_tool_responses`, which a message after a finished turn
  applies to all stored messages, with `compress_tools` on.  A text is a sequence of pieces: an opening tag without its
  end, the end of a tag, the closing tag, a line break, a few words, a line of more
  than 240 characters, more than three lines, a record of an earlier pass.

## Runs

| Run | Question | Instance |
|---|---|---|
| `jobs_safety` | does any interleaving break the safety of the runner, its service, or the invariant of the proofs? | a polling and a streaming request, both with callbacks (as `Sessions` submits them), two pieces, shutdown, spurious wake-ups |
| `jobs_answers` | without a shutdown: first in, first served? do releases and clones come before later requests, and are they applied? is every request answered? | a polling and a streaming request, no pieces, a release, a clone |
| `jobs_stop` | does a shutdown answer what runs and wake the worker? | two requests, one piece, shutdown |
| `jobs_shutdown` | does a shutdown end every handler? (It does not.) | the same |
| `algorithms` | are the plans exact, at their limits and with sums that overflow? does a conversation that is sent back read as it was? does a patch do what its hunks say, and its diff again? is a history shortened once and for all? does the stream say what the final items say, however the answer is cut? | up to 3 sessions of up to 3 bytes, the largest integer 5; sequences of up to 3 tokens; five tools, two calls; files of up to 4 lines, two hunks of 2 or one of 3 lines; texts of up to 4 pieces, or a whole block and 2 pieces or a second block; answers of up to 3 words, tokens of 1 or 2 bytes |
| `answer_cut` | does every stream end on a terminal event? (Not when generation stops inside a code point.) | answers of up to 2 words |
| `session_turns` | do a session, its transcript, its file and its task stay consistent, and does every turn settle? | one session that begins with tool results in full, two callers, two tasks, messages in the user's name and in another role, a disk that refuses writes, answers that ask for tool results |
| `session_limit` | does the limit check keep what is in use? | two sessions, room for one file, one caller, the worker, one kill, answers that ask a question |
| `kv_cache` | is what can be resumed always a session's own, with its own state? is the invariant of the proofs one? does the byte limit hold, and who loses a session when something fails? | three sessions, RAM for one or two, failures, kills, restarts |
| `kv_hybrid` | does the mirror of the context stay true, and does a turn see its prompt? | a recurrent model, prompts of two batches, failures |
| `kv_shutdown` | is everything in a file after a shutdown, which files does the disk limit remove, and does every call return? | two sessions, files that age, no failures |
| `kv_retry` | is the first token sampled from the prompt? (Not when the whole prompt is cached.) | one session, one prompt, no failures |

Bounds of the job runner.  `Tasks`: two requests are enough for one to run while
the other waits, is cancelled in the queue, or is collected.  In `jobs_answers` a
release and a clone may be asked for at any moment; pieces play no part in the order,
so there are none.
`MaxPieces`: with two pieces a cancel can fall before, between and after pushes;
order within a stream needs two.
`Signalled` says whether a signal may come; main shuts down in any case once
`listen` has returned, which needs `StopServer`, so without a signal the server
runs on.  `Spurious` allows wake-ups without a notification; it is on for safety
and off for liveness, where it could starve the other threads of the mutex for
ever, which a real condition variable does not do.

Bounds of the engine.  Two sessions are enough for one to be live while the
other is parked or cloned; spilling one of several needs three.  Prompts of up to
three tokens over two letters share a prefix, extend one another or differ at
once; with batches of two, a decode can fail between and inside batches.  In
`kv_cache` batches have one token, so that a conversation of two cannot be a
session's own by a single decode.
`Sampled` is one token, and none where only parking is at stake.  `MaxBytes`, the
largest integer, is 5 in `algorithms`, so that sums overflow, and out of reach
elsewhere.  `Faults` and `Kills` say whether calls may fail and the process may be
killed.  `message_ends_` is left out of `KvEngine`, since `algorithms` shows that
it does not change what is reused (`EndsOnlySaveWork`), and `used_bytes_`,
since it is only logged.

Bounds of the sessions.  Two callers are enough for any two of the calls to be in
progress at once on one session, and the worker makes a third thread.  `MaxJobs` two:
a turn, and a second one that is claimed while the first ends late, is cancelled or
becomes stale.  The limit check needs one session to run for and one to drop, and a
limit of one file; the worker and a caller can both be in it.  `MaxClock` only orders
times, and `Asks` says which client work answers ask for: one kind per run, since the
two kinds differ in name and precedence only.  `Posts` says which kinds of
messages are posted and `Brings` whether a session begins with tool results in full.
`session_turns` has messages in the user's name and in another role, and results that the
next message shortens; results of a later turn would need a third task to be shortened.
`session_limit` is not about messages and has one kind.  A snapshot is begun only
while an id is left (`MaxId`), so that none waits for one for ever.
The kill and the restart are in `session_limit`, where the drop of records and
the end of the process can meet.  `RemovedStaysRemoved` and `OneGeneration` are checked
in `session_turns` and proved for all bounds (see Proofs).

Bounds of the answers.  Three words are enough for a marker, something inside it and
its end, for two markers in a row, and for an end without a begin; with tokens of one
or two bytes every marker is cut at each of its bytes.  A text that spells a marker
only after a thinking block in its middle is taken out cannot be built of these words.
In a conversation that is sent back, two calls (`MaxCalls`) are enough for a second one
to join the message of the first; the five tools have a member name in two namespaces,
one that is also a tool's, and the calls name tools in full, bare, unknown and with the
namespace twice.

Bounds of texts and files.  Two hunks of two lines can touch, overlap, be given in
the wrong order, and match at a place they do not state; a hunk of three lines has
context on both sides of a change.  Four pieces are a block of one piece, or two
opening tags that share an end; a block and two more pieces are a record and what
follows it.

`CHECK_DEADLOCK FALSE` throughout: a server without requests rests, and a
server that was shut down has stopped.  What must not rest is stated as a
liveness property instead.

### Fairness

`FairSpec` assumes weak fairness of each thread separately: the worker, each
handler after its submission, each stopper, main.  The operating system
schedules runnable threads, and a thread with something to do stays enabled
until it does it, with one exception: the mutex is taken while the worker falls
asleep, once per notification, and without spurious wake-ups the worker then
stays asleep until someone else acts.  Submissions, signals and session calls
come from outside and have no fairness.  A turn ends because `MaxPieces` bounds
it; in the code the context size does.

The engine has one thread, and `FairSpec` of `KvEngine` assumes weak fairness of
its steps.  That a request is told to stop (`AbortTurn`) comes from outside and is
not among them, so a turn cannot end only because somebody gives up on it.

In `Sessions` each thread is fair by itself (`Advance`), by the scheduler: its steps
inside a call, the worker's turns and session calls, main's load; client calls, the clock, the expiry of a session and kills are
not.  That a generation ends is part of the worker's fairness: `max_tokens` and the
context bound it.

### Findings

`answer_cut` finds a stream without a terminal event, although of the terminal events
it is said that "the stream ends on one of these" (`responses.hpp:71`).  When generation
stops inside a code point, the deltas leave the incomplete bytes out, but the whole
response keeps them; `sse_frame` (`responses.cpp:798`) dumps it with the strict
handler of nlohmann::json, which throws.  The exception leaves the content provider
and httplib drops the connection: the client gets neither the last deltas nor
`response.completed`.

`kv_retry` finds that a turn whose whole prompt is cached does not sample from its
prompt, although `generate` is declared to "reuse the matching KV prefix, then
sample" (`llm_engine.hpp:163`).  With `checkpoint` equal to the size of the prompt,
`decode_tokens` gets an empty span and returns (`llm_engine.cpp:854`), and
`llama_sampler_sample` uses the logits of the last decode of an earlier turn, those
after the last token of the old answer.  The run has one prompt: a turn with it
samples a token and ends, and the same prompt again is cut back out of the cache and
reaches the sampling without a decode.  A client that repeats a request meets it on
a model that can drop a suffix; when another session was live in between, they are
the logits of that session.
`TurnSeesPrompt` shows that the *context* is right all the same.

`jobs_shutdown` finds that `request_shutdown` does not do for queued tasks what
its declaration says ("Cancel queued and running tasks and wake token streams",
`jobs.hpp:145`).  A queued task gets its flag and its stream ends, but the
worker, once the stop token is set, takes no more work (`jobs.cpp:421`), and
nobody else calls `set_cancelled` or `on_finished` for it.  Its handler polls for
a terminal state for ever, `listen` waits for the handler, and the process does
not exit.  `StartedIsAnswered` shows that a *running* request is answered.

### Cases the properties except

Where code does something surprising the property names the case, and without it TLC
finds it.  Nothing in the repository speaks against these, but for the second of
`FullContextRestores`:

* `WaitingIsKept`: a session somebody posts to after `enforce_cache_limit` looked at
  it is dropped in the middle of its turn; `sessions.cpp:799` does not look again.
* `FullContextRestores`: of two messages accepted before either starts a generation,
  the second call is told Busy, yet its message stays, and a rollback takes one
  message off, whoever wrote it.  The property covers turns of one message.
  "So a context-full failure can remove that message and put the session back", says
  `sessions.hpp:149` of what is kept for the rollback.  But a message after a finished
  turn, with `compress_tools` on, also shortens all tool results that are stored
  (`sessions.cpp:264`), and `rollback_last_turn_unlocked` (`sessions.cpp:506`) has no
  copy of them: they stay short, and are saved so, although the turn did not take
  place.  The property says so (`Remains`).  And the client chooses the role of a
  message (`sessions.cpp:272`); one that is not in the user's name is not taken off
  (`sessions.cpp:508`), and the client work waited for is forgotten with it.
* `Durable`: a record the disk refused is only written with the next save.
* `HistoryRoundTrips`: a tool of its own whose name is also the name of exactly one
  member of a namespace is reported as that member (`responses.cpp:339`).  A call that
  repeats its namespace, `n.n.x`, goes out as member `n.x` of `n` and comes back as
  `n.x`, which `qualify_tool_name` takes for qualified (`responses.cpp:209`).  And a
  client is taken to declare each tool once (`NamesAssumption`): nothing rejects a second
  declaration, but with it a bare name no longer has one owner.
* `EditIsExact`: a removed line that begins with `-- ` is written `--- ` in a patch,
  and an added one that begins with `++ ` is written `+++ `; `parse_patch` takes both
  for headers of a file (`tool_edit_file.cpp:263`), which end the hunk.  The rest of
  the hunk is ignored without an error, or the patch is refused as one for another
  file; the diff that `edit_file` itself answers with can be such a patch.
* `StreamMatchesAnswer`: `split_thinking_channel` takes `<think>` out of tool blocks
  and the filter does not; and when thinking that the template opened is empty, the
  newline of the opener is announced as a reasoning item that never completes.

Seen and not modelled: the final parser knows `<thinking>`, `<thought>`, `<reasoning>`,
capitals and attributes, the filter `<think>` alone; the filter swallows all text after
`[TOOL_CALLS]` for every model family; ids of calls that the model gives can collide with
the numbers given to others; the parser runs outside the `try` of the worker
loop (`jobs.cpp:609`); a kill in the middle of a save leaves a `.kv.tmp` file that
`trim_expired` does not count (`session_kv_store.cpp:100`); a signal that comes
before `listen` has bound its socket is lost, since the stopper thread
(`main.cpp:171`) has nothing to stop yet and ends: `listen` then serves with a worker
that has exited, and `g_stop_flag` makes later signals no-ops.

## Proofs

### Job runner

The theorems hold for any number of requests, session calls and pieces, from
`JobsAssumption` alone: which requests stream, that those which do not have a
callback (`routes.cpp` waits for it), and that the constants are disjoint.

`TypeOK` is inductive by itself (`JobsProofs`).  The safety properties are not:
that the stream of a finished turn is whole depends on who may end it, hence on
who owns the task, hence on what the queue holds.  `IInv` (`JobsInv`) says

* `WorkerInv` — the worker holds a task at known control points; that task is in
  no queue and taken by no handler, and its state follows from where the worker is;
* `QueueInv` — a queued task is in state Queued and queued once;
* `HandlerInv` — a handler that took a task out of the queue is the one to finish
  it, and what it tells the client is the state of the task;
* `CallbackInv` — the callback goes from armed to taken to run by the thread that
  finishes the task;
* `FlagInv` — a stream is closed early only after the flag is up;
* `StreamInv`, `ReaderInv` — read pieces followed by buffered ones count up to what
  was sampled, as long as nobody asked for a cancel, and after Done for good.

`JobsProofs` shows, per part of the code, that each step keeps each conjunct
(`QueueAfterWait`, `QueueAfterCancel`, ...), combines them into
`InductiveInvariant` and derives `EndsAfterCallback`, `CompletedIsWhole`, `Tracked`
and `Refinement`: every step of the threads is a step of `JobService` or a stutter.

`FifoStart` and `SessionOpsFirst` relate the history of arrivals to the states of
tasks, and what lies between them is who has what: a queue that is in order proves
nothing about a request that is in no queue.  `OrderInv` (`JobsInv`) says

* `ArrivalInv` — a request arrives once, and no task is in the queue behind one that
  arrived later;
* `WaitingInv` — a waiting task is in the queue, or the worker's, or taken by a handler
  that is about to cancel it, unless the worker has left its loop;
* `PassedInv` — behind a task that was taken only such cancelled ones still wait;
* `OpsInv` — a session call that arrived is in its list, in the round at hand, or made;
* `OpsFirstInv` — those ahead of the worker's task are in the round of that task, and
  made before it begins.

It is inductive with `TypeOK` and `IInv`: first comes what the steps do to
the sequences (`AheadAfterPop`, `AheadAfterErase`, `ArrivalStep`, `PendingStep`), then
each conjunct.  Only `wait_next` can let a task pass another, and it pops the first
(`Popped`).  `JobsInvariantHolds` puts the three together: `jobs_safety` checks the
same formula, `JobsInvariant`, without session calls (for these `jobs_answers` checks
`SessionOpsFirst` itself).

### Engine

The theorems hold for any sessions, prompts, batch and context sizes and limits,
with any mixture of failures, kills and restarts, from `KvAssumption`: prompts are
not empty and made of the vocabulary, the context and the batch hold at least one
token, and the anonymous session is not one of the others.

That `active_tokens_` mirrors the context is not inductive: it is false after a
failed decode and after a switch of sessions, until the trim that follows.  And it
depends on everything else, since what is parked comes back.  `CacheInv` (`KvInv`)
says, besides types,

* `MirrorInv` — where the mirror is broken, it is still a prefix of the context,
  and the tail is where the context ends; this is what `trim_kv_to` can repair;
* `ParkedInv`, `SizeInv` — whatever can come back into the context is a state
  after its own tokens, and fits;
* `TurnInv` — prompt and mirror agree up to the checkpoint, and while the prompt is
  decoded the mirror is the prompt up to the offset;
* `LocalsInv` — whose copy is under way, for which call, and that it is not in RAM
  when it goes to disk;
* `SpillInv` — the sessions still to be spilled or flushed are in RAM, once each,
  without the one that is being stored;
* `UniqueInv`, `OneParkedCopy` — one entry per id, and RAM or a file, not both.

`KvLemmas` says what the operators of `KvPlans` return for every input
(`DropCountLemma`, `CheckpointLemma`, `AdmitPlan`).  Sums over sequences are recursive
functions; that these recursions have a solution is itself proved (`Recursion`, from
`SmallestOf`: of some natural numbers one is the smallest), and `SumsLemma`,
`SumOfRest`, `SumOfErased` and `SumOfLemma` say how they grow, what is left of them and
that the saturating ones are the exact ones up to the limit.

`KvProofs` begins with the operators of the engine: `WithoutLemma`, `InsertedLemma`,
`TrimDiskLemma`, and `TrimLemma`, the one that carries the mirror: from a prefix,
whatever the tail does, a trim leaves tokens that are exactly the cells.  It regroups
the invariant by the state that a step changes, the context (`ContextStep`), the turn
(`TurnStep`), RAM and files (`ShelvesStep`), the copy under way (`LocalsStep`), the
ids to spill (`SpillingStep`), and goes through the actions for each.  It
puts the parts together (`CacheInvariant`) and derives `MirrorIsTrue`,
`SampledOnPrompt`, `ParkedIsSound`, `ParkedOnce`, `FitsContext` and the action
property `FailureLeavesPrefix`.

`KvOrigins` is about where conversations come from and go.  `SnapInv` (`KvInv`) says
that nothing is captured outside of a parking or a clone, and that a live session does
not go on while it is being cloned: without it, a clone whose snapshot cannot be stored
and is streamed to disk instead could get another conversation than was asked for.
`EngineInv` is `CacheInv` and `SnapInv`; `EngineInvariant` proves it inductive.  `HeldAs` lists the places a conversation can be in, and every
action is shown to fill one only from another of the same session (`Loses`), from the
live sequence cut back or one batch longer (`Grows`), or, for a clone, from the session
it names (`Copied`).  These are the three steps of `SessionCache`: `OwnConversations`
is the refinement.  `ReleaseIsFinal` and `OthersAreSafe` are action properties about the
same places; the second assumes `~DiskGc`, because with it a save may expire the file
of any session.

`KvParking` is about amounts and times.

* `MemoryIsBounded`.  That RAM is within its limit is not inductive, since a spill is a
  loop: ids are chosen at once, each is taken out, saved, and put back when the save
  fails, and only then the snapshot goes in.  `BudgetInv` (`KvInv`) says what each round
  relies on: what is parked and the snapshot together exceed the limit at most by what
  the snapshot replaces and by what is still to be spilled.  When nothing is left to be
  spilled, the snapshot fits (`BudgetInKeep`); a spilled id takes its bytes from both
  sides (`BudgetInSpillOk`); and `AdmitPlan`, what `plan_memory_admit` returns,
  establishes it (`BudgetInStore`).  `StoreInv` is `EngineInv` and `BudgetInv`, and is
  what `kv_cache` checks.
* `ExpiryIsByAge`.  `ByAge`: the files that are old come before those that are not.
  Writing a file moves it to the end and removing one keeps the order, so a trim, which
  drops from the front (`TrimIsSuffix`), meets no young file before an old one.
* `ShutdownIsSafe`, where no call fails (`~Faults`; kills are allowed): the code logs a
  failed save and goes on.  `ShutdownInv` follows the live sequence from the capture
  through RAM or a file that is whole and not old (`LiveSaved`), through the flush, whose
  list names everything in RAM, to the end.  It needs `ByAge`, for a save must not drop
  the file just written, and that nothing empty is ever parked.

`PlansProofs` goes back to `PlansCheck`, whose bounds are then those of a run only:
what `algorithms` tries out, `AdmitIsTightAlways` says of every list of sizes,
`EndsSaveWorkAlways` of every pair of sequences and all stored ends,
`GcIsTightAlways` of every set of files and every limit, and `LimitIsTightAlways` of
every directory and whatever is loaded.  The rows, refs and files are any that have one
entry per id (`Files`, `Rows`, `Refs`); `PlansInv` says that what is asked is of this
kind and that the answer is the plan's.

The last two go down an order until the rest fits, which is stated once
(`DroppedIsTight`): those that go are the first in line, the last of them was still too
much, and either the rest fits or all have gone.  It needs that some member of every
part is first (`FirstInLine`) and sums over sets.  The library adds up a set in an order
of its own choice.  That this is a function at all (`SetSumsExist`), and that any member
may be taken out first (`SizeOfRest`), are inductions over the subsets of a finite set;
`BySubsets` states that induction with a set of subsets in place of a predicate.
`WeightIsRows` relates what the candidates weigh to what the directory holds: a session
without a file weighs nothing, and no file is counted twice.

`HistoryRoundTripsAlways` speaks of every set of declared tools, any number of calls
under any names, with and without reasoning and text; `NamesAssumption` says what a name
is and that no two declarations make the same tool.  `MessagesFromInput` is a fold of the
library, a recursion over sets of positions: `ReadingIsFold` finds it among the functions
that satisfy its equation (`ReadingsExist` shows that there is one, again by an induction
over a finite set), and `ReadStep` unfolds it by one item.  From there the input is walked
through: the items of an answer become one message (`ReadsOutput`; `MergeFirst` starts it,
`MergeNext` goes on, and `CallsGrow` follows the calls), what the client adds is read
as it stands and ends that message (`ReadsReply`), and `ConversationIsRead` puts the four
parts of the input together.  What is left are names: `BareNameReturns` and
`QualifiedNameReturns` follow one through `emitted_tool_name` and back through
`qualify_tool_name`, the first by showing that there are as many owners of a bare name as
members it can mean (`OwnersAreMembers`).  The second proof found the name that repeats
its namespace, which the run had not tried; `MCCalled` has one now.

### Sessions

The theorems hold for any number of callers, sessions, tasks and kills and for every
limit, whatever kinds of messages are posted and whether results are shortened, from
`SessionsAssumption`: the bounds are natural numbers or small sets and the names of the
threads are distinct.

Neither `RemovedStaysRemoved` nor `OneGeneration` is inductive.  That a record never
outlives its session depends on the load, which takes up at most `MaxSessions` records:
a restart would leave files without a session if there were more.  That a session has
one generation depends on where its task is between the claim and the enqueue, and
between its end and the callback.  `IInv` (`SessionsInv`) says

* `Framed`, `Known` — shapes; and no thread, task or file names a session that the
  clock has not handed out yet, so a new session has no task;
* `LoadInv` — while main loads, every other thread rests, nothing is pending, and the
  records fit the table;
* `TableInv` — the table is within its limit and holds every session with a record;
* `TaskInv` — a task at `enqueue` is held by the one thread that made it, a running one
  by the worker, and a thread that is about to tell a session has a task that is over;
* `OneTask` — a task that is not over is the one of its session, in the table or not.

`SessionsProofs` groups the steps: those that move one thread and leave table and tasks
(`WaitsInv`), new sessions (`MakesInv`), table and files (`ShelvesInv`), one lemma for
each step on a task, and load and kill.  `SessionsInvariant` combines them;
`RemovedForGood` and `OneAtATime` follow.

`Durable`, `FullContextRestores` and `WaitingIsKept` speak of what is in sessions, files
and plans.  `SInv`, which `session_turns` checks, adds to `IInv`

* `ShapeInv` — what the variables hold, and which locals a thread has at which control
  point: a session without a task waits for exactly what its state says, and one with a
  task for nothing;
* `FreshInv` — a session that is not in the table yet is known to its maker alone, and a
  victim that is being cancelled has left the table: neither is saved by anybody;
* `Durable` itself, inductive with these: a session that differs from its record is at
  the save of some thread, or generates, or the disk refused it;
* `TurnInv` — while one post alone has led to the turn, the rollback is armed with the
  state and the client work from before it, and the messages are those from before it,
  their results shortened if the turn before was over, and the post;
* `LimitInv` — what a limit check has noted: a session that its plan may drop is not the
  one it runs for and is in nobody's use, unless somebody posted to it after it was
  read.  While it reads, all sessions in use are noted as such or still to be read.

`SessionsTheorems` goes through the steps for each part (`DurableStep`, `TurnStep`,
`LimitInvStep`, ...).  Of `plan_session_cache` the proof needs which candidates can be
in a plan, not what they add up to.  `SessionsSound` is the invariant; `SavedAtRest`,
`FullTurnIsTakenBack` and `InUseIsKept` follow, and so does `SessionsTyped`, the type
invariant.  `FullTurnIsTakenBack` needs that results are posted only when they are asked
for, and then the turn is not over: so the post shortens exactly what `Remains` says
(`StoredLemma`).

### Model-checked only

* All liveness (`Answered`, `StartedIsAnswered`, `WorkerEnds`, `OpsApplied`,
  `CallsReturn`, `TurnSettles`): fairness and ENABLED are out of the prover's reach.
* `AnswerStream`: the filter is recursive, and so is the reading it is compared with.
  `EditIsExact`: folds over lines and hunks.  `ShrinkIsStable`: the shortening is
  recursive.

## Plan

In this order, the behaviour that matters most first.

1. Job runner: `TokenBuffer`, `JobService`, `Jobs`, with proofs.  Done.
2. Engine: `KvPlans`, `SessionCache`, `KvEngine`, with proofs of its invariant, of the
   refinement of `SessionCache`, of `ReleaseForgets` and, without expiry, of
   `OthersStayParked`, of the memory limit, of expiry by age and of shutdown.  Done.
3. `Sessions`: the session table over an abstract runner, with callbacks, cache
   limit, garbage collection, files, kill and restart, with proofs.  Done.
4. `AnswerStream`, `ResponsesItems`: the delta filter and `StreamBuffer` over pieces
   cut anywhere, the final items, the conversation sent back.  Done.
5. `Composition`: the job runner over the engine, with session releases and
   clones that reach the engine through the runner.
6. The small grammars of tool calls in `response_parse.cpp`, and what each model
   family of `model_adapter.cpp` makes of them; `options.cpp`, where its results
   can be compared with a definition.
7. `EditFile`, `ToolHistory`: functions of texts compared with what they mean.  Done.

## Not modelled

The grammars of tool calls per model family: functions of a text, without state.
Option parsing, JSON records, logging, XDG paths, and the tools of the coding agent
other than `edit_file`:
sequential conversions and I/O without state that outlives a call.  Model loading,
chat templates and the sampler's settings are left to llama.cpp.  llama.cpp and
httplib are external; what the engine relies on is stated above, and the job
runner relies on two facts about httplib: `listen`
returns only after every handler has, and a content provider is not called again
once the server stops.  Status queries of the runner change nothing and are
left out.
Most lines of the repository are httplib (23,000 of 37,000), which is third-party
and stays external.
