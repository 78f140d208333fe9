# A TLA+ model of qa_STT

qa_STT transcribes and scores call recordings. It has two halves that share a GPU pipeline: a
**local server** (`server/`, FastAPI, SQLite, worker threads) with its dashboard, and a **portal**
(`web_app/`, a NestJS backend with Postgres and object storage) that hands recordings to the same
server over HTTP. This directory holds TLA+ modules of the parts of it that are hard to test, TLC
configurations that check them on small instances, and TLAPS proofs for instances of any size.

- [1. Inventory](#1-inventory)
- [2. Modules and how they correspond to the code](#2-modules-and-how-they-correspond-to-the-code)
- [3. Runs, bounds and what they show](#3-runs-bounds-and-what-they-show)
- [4. Fairness](#4-fairness)
- [5. Proofs](#5-proofs)
- [6. Where the code departs from its documents](#6-where-the-code-departs-from-its-documents)
- [7. What is not modelled](#7-what-is-not-modelled)
- [8. Plan](#8-plan)

## 1. Inventory

| component | state it keeps | operations | what makes it correct |
|---|---|---|---|
| job queue and workers: `server/jobs.py`, `server/pipeline/run.py` | `_queue`, `_retries`, `_active`; threads; per-call temp files | submit, take, stages, save, retry on CUDA OOM, fail | every accepted call ends, once per request; no two jobs share files; retries are bounded |
| call store: `server/db.py` | tables calls, transcript, metrics, qa, ...; connection per thread | create, set status, save results, delete, reset, find by hash | nothing of a deleted call remains or returns; a completed call has one run's results |
| local API: `server/app.py` | none of its own | upload, delete, reprocess, waveform, remote jobs, startup | handlers on other threads do not disturb jobs |
| ingest: `server/uploads.py` | partial files in `.incoming` | stream, deduplicate, probe, move, insert | nothing is left behind; one call per recording; the backlog is bounded |
| pruner: `server/clean_uploads.py` | none | every five minutes: scan, delete oldest | keeps the newest, catches up |
| remote worker: `server/worker_jobs.py`, `server/worker_api.py` | in-memory queue; one thread; files in `outputs/_remote` | take, fetch, process, report | every job is reported on; a lost report does not stop it |
| portal calls: `web_app/backend/src/calls`, `worker`, `storage` | Call rows, objects | upload, remove, applyProgress, dispatch | rows, objects, jobs and charges agree, whatever fails half-way |
| bot quota: `web_app/backend/src/bots` | BotUsage rows, one a day | checkQuota, consume | limits hold on the bot's own day |
| ASR, diarization: `server/pipeline/asr.py`, `diarize.py` | models, decoder settings, one lock each; words and turns of a long call as they grow | decode, switch decoder, chunk and stitch | no decoding under the wrong settings; no word lost or doubled at a seam; one label, one voice |
| transcript assembly: `align.py`, `metrics.py`, `recover.py`, `verify.py`, `reliability.py`, `prosody.py` | the words, turns, spans and segments of the call at hand | recover, mark, check again, align, count | each word with who said it; no doubt lost on the way to the reader; counts agree with roles |
| QA: `server/pipeline/qa.py` | none | call the LLM, check its quotes, override roles | no finding without a quote, each with its doubts |
| login, limits: `server/auth.py`, `security.py` | three dicts: sessions, failed attempts, lockouts | login, logout, middleware | a bounded session table; no lockout that was not earned |
| start, stop, warm-up: `server/start_server.py`, `stop_server.py`, `warmup.py` | `.server.pid`, the port, server processes | launch, stop, load, serve, drain | one server at a time has models and database; a stop stops; a launch serves |
| tunnels: `server/tunnel.py`, `tunnel_cf.py` | a child process | open, close on a signal | no tunnel outlives a script that closes it |
| portal sessions, admin: `web_app/backend/src/auth`, `users` | Session, User, Payment, AuditLog | login, suspend, CRUD | a suspended user has no session |
| front ends, shell scripts | browser and process state | - | not modelled |

**How they interact.** An upload coroutine on the event loop puts a call id into `_queue`; worker
threads take ids from it and write rows and files; DELETE, reprocess and waveform requests run in
the thread pool beside them, as does the pruner. All share SQLite, `uploads/` and `outputs/`, and
no lock but those around the models. The portal's handlers interleave at every `await`; they and
the remote worker talk by HTTP both ways (a job one way, reports the other), and object storage is
written by both. Commands, servers and tunnels know of each other by the PID file, process names and
the port only.

**What is hard here.** Reprocessing or deleting a call under the worker that has it. A crash
between any two writes, and the restart. An exception in the exception handler. Two uploads of one
recording. Depths, hashes and directory listings read before an `await` or a sleep and used after
it. Reports that are lost, late or out of order. Quotas checked and consumed at different times,
on different clocks. Words and turns at the edges of windows, turns that overlap or nest, and marks
that pass through five stages of which each may fail. A launch that meets its predecessor before it
listens, while it drains, or twice. Dicts that threads test and change without a lock. `hazards` in
`PROJECT.json` lists each at its line, with the properties that would notice.

## 2. Modules and how they correspond to the code

| module | role |
|---|---|
| `CallLifecycle` | abstract specification: clients ask for a call, the server owes one answer for each time they do |
| `JobQueue` | queue, workers, pipeline stages, rows and files, handlers, pruner, startup, crashes |
| `JobQueueRefinement` | `JobQueue` with what clients asked and what was answered counted, and the refinement mapping; `ImplementsLifecycle` says it implements `CallLifecycle` |
| `Ingest` | uploads, duplicates, partial files, the pruner by file time, startup sweep; a job queue is assumed |
| `Ingest_proofs` | theorems about `Ingest` |
| `LocalServer` | `JobQueue` and the uploads of `Ingest` composed; `ImplementsIngest` says the real job queue is the assumed one |
| `LocalServer_proofs` | theorems about `JobQueue`, its refinement of `CallLifecycle`, and `LocalServer` |
| `PortalCalls` | the portal's calls, the remote worker and the HTTP between them |
| `PortalCalls_proofs` | theorems about `PortalCalls` |
| `BotQuota` | a bot's daily quota and its two clocks |
| `BotQuota_proofs` | theorems about `BotQuota` |
| `AsrDecoder` | the one speech model, its lock and the decoder settings jobs switch between |
| `Windows` | the loop in which a long recording is read in overlapping windows |
| `Timeline` | intervals of a recording and lists of them, as `Chunking` and `Transcript` use them |
| `Timeline_proofs` | lemmas about the lists of `Timeline`, for the two modules of proofs that follow |
| `Chunking` | how the words and the speaker turns of the windows are joined; extends `Windows` |
| `Chunking_proofs` | theorems about `Windows` and `Chunking` |
| `Transcript` | from words and turns to segments, marks, interruptions and findings |
| `Pipeline_proofs` | theorems about `Transcript` and `AsrDecoder` |
| `Launcher` | start, replacement and stop of the server: PID file, port, processes |
| `Tunnel` | the tunnel scripts beside the server; extends `Launcher` |
| `LoginGate` | the session table and the limiter of failed logins under threads |
| `Server_proofs` | theorems about `Launcher`, `Tunnel` and `LoginGate` |
| `MC*` | the instances TLC checks: symmetry sets and constant values |

### JobQueue

A worker's program counter `pc` follows `_loop` and `process`: `idle`, `start`, the stages, the four
saves, `settling`, `retrying` (between the check and the increment of the retries, which no lock
holds together) and `backoff` (between the handler and `_queue.put`). Stages that act alike are
merged: "checking" is recovery and verification, "analyzing" is alignment, prosody, metrics and QA.
A CUDA OOM escapes only from transcription and diarization; the other stages swallow exceptions. The
content of a transcript is the number of the run that wrote it, which is all the properties need: it
tells whose results are stored with whose. `SaveTranscript` may be torn by an error inside it, since
`set_failed` on the same connection commits what was written. Handlers that run in the thread pool
are split where another thread can see the difference: DELETE removes the recording, the wav, then
the row, and may end at any of them with an exception (`DeleteFails`); reprocess sets the status,
then submits. `phase` follows `startup()`: reset, read the pending rows, submit, serve; uvicorn
answers requests only after it has returned. Which of the recordings the pruner picks is any choice
here, so that whatever `Ingest` does with file times is among it. It takes the rows whose
`audio_path` is the file, and those whose `filename`, which the client chose, is the name of the
file (`RowsOf`); an exception at the rows or at the file is caught, and the next file is taken up
(`PruneRowFails`, `PruneFileFails`). Computing peaks and writing the waveform cache are one step.

`Overlap = FALSE` says that clients reprocess only a call that is completed or failed. Neither the
code nor its documentation asks that of them (no front end sends the request at all; it is an
endpoint of the API), so it is an assumption about clients: `jobs_overlap` and
`MCJobQueue_chunks.cfg` do without, the other runs say what else holds when clients keep to it.

### CallLifecycle and JobQueueRefinement

`CallLifecycle` counts, for each call, how often clients have asked for it (`asked`) and how often
one of these requests was answered (`answered`); `owed` is what the server still owes. Only a client
raises `asked`; an answer takes one from `owed`; progress is shown only for what is owed. A server
that goes down keeps nothing but what it shows: it owes one answer to each call shown as pending and
none to the others. `JobQueueRefinement` adds the two counts to `JobQueue` as history variables that
no action reads: `Asks` is an upload accepted or a reprocess request taken, `Ends` a worker at the
end of a job. The mapping gives `owed` only: the jobs of the call that are queued, held by a
worker, marked or pending. A job that was queued twice, or lost, breaks it: nobody has asked, or
nothing was answered. In numbers: `answered + owed` never exceeds `asked`, and grows with it while
the server is up (`EachAnsweredOnce`, section 5).

### Ingest

Uploads run on one event loop, so `Arrive`, each `Receive` and the end of an upload (`Accept`,
`AnswerDuplicate`, `Reject`, `InsertFails`) are the steps between awaits. `Accept` is the
uninterrupted end: duplicate check, probe, `os.replace`, insert, submit. A crash may cut it after
the move. DELETE is two steps, file and row. The pruner's query by name and its caught exceptions
are as in `JobQueue`, and so is a DELETE that raises. Of the job queue it is assumed only that calls
that have been accepted may be put into it and taken out, and that rows change their status as
`Begin`, `End` and `Reprocess` say. A file found by the pruner in the moment between `os.replace`
and the insert is not modelled: the pruner sleeps 50 ms before each file.

### LocalServer

The rows, recordings, DELETE requests and pruner of `JobQueue` and of `Ingest` are the same
variables; only what an upload holds is added. `Uploading` is `Ingest` with those variables in place
of its own. What involves both sides takes both their actions: the end of an upload is
`JobQueue!Upload` and `Ingest!Accept`, a crash, a restart and a scan of the pruner likewise. The
steps of workers, handlers and startup are those of `JobQueue` alone, and that each of them is a
step `Ingest` allows, or none, is what `ImplementsIngest` checks: what is shown of `Ingest` so holds
of the server, although the queue was left out of it.

### PortalCalls

`upload` and `remove` are split at their awaits, `applyProgress` into `Find`, `Update` and
`ChargeMinutes`. The remote worker is one thread that `report` blocks until it is answered, the
request fails (`Lose`), or ten seconds are over (`TimeOut`, after which the request is still under
way). Nobody looks at the HTTP status of the answer: results the backend does not take are answered
and gone (`Refuse`), be it that their body is over the limit of the JSON parser, which `main.ts`
leaves at its default, or that the QA stage failed and the update throws on its `null`. `happened`
keeps what each call has met, for the conditions of the properties.
The nine stages it reports are two: one before the recording is fetched, one after. One
owner is modelled, since nothing relates the calls of two. A DELETE is sent at most once per call.
Crashes of either side lose what is in memory.

### BotQuota

One bot, time in ticks. `checkQuota` reads the bot and the usage in two awaits, `consume` is an
atomic upsert, the charge of minutes an update that may find no row. `Date(t, o)` is the date on a
clock `o` ticks ahead of UTC. Daylight saving is left out, and so is an admin's change of the bot's
timezone (`PATCH bots/:id` allows it): between check and consume it would move the upload to another
day. `null` limits and windows are empty sets.

### AsrDecoder

`cfg` is `model.cfg.decoding`, which every function changes in place; `decoder` is the settings the
decoder in use was built from. `Build` and `BuildFails` stand for NeMo's
`change_decoding_strategy`, which replaces the decoder or raises: after a failure the settings have
changed and the decoder has not. That the switch stands before the inner `try` in both `decode` and
`verify_spans`, and the restore in its `finally`, is in the actions: `DropConfidence` and `Verify`
end the call when the switch fails, `Retried` and `Verified` put the primary decoder back, or fail
to. What a job decodes after its first window (further windows of a long call, the turns
`recover_dropped` goes back to) is `Proceed`, `MaxPasses` times at most.

### Windows and Chunking

`asr._transcribe_chunked` and `diarize._diarize_chunked` run the same loop, so it is a module of its
own: `ReadWindow` is one turn of it, with the break on a short window. `Chunking` adds what each
appends. The recording is part of the state (`spoken`, or for diarization the ticks in which each
voice speaks), so that the result can be held against it; what a model hears of a window follows
from it: every word inside, any part or none of those an edge cuts, turns numbered by who speaks
first in this window. `Uncovered`, `Stitch`, `Relabel` and `CutOff` are the joining code. The two
loops of `_stitch` add up the seconds in which a turn of the window and one before it overlap;
`Together` is the set of those moments, `Agreement` counts them for each pair of labels. Pairs are
matched longest first; a Python sort is stable, so of equals the one met first in the loops wins
(`Stronger`). What that greedy loop ends with is said without the loop: a pair is taken unless a
stronger one that is taken has one of its labels, which is true of one set of pairs only. Time is in
ticks. A model that mishears is not modelled here: nothing about seams could be said of it.

### Transcript

One call, from what the models return of it to what is saved: one action per stage of `process()`,
in its order. Words and turns are any lists the models may return (words of the first pass in order
and apart; turns sorted by start, those of two people free to overlap and nest). What the second
pass says, what is found in a clip (one word at most; `recover.py` takes several), whom the
heuristic and the language model take for the agent, and what is quoted is any choice. The cutoff
and the median of confidences are those of the whole call, of which the model holds a few words, so
a word's confidence is a class: under the floor, under the cutoff, under the median, fine, or
missing. Any words of a call may lack it: `decode` falls back to no scores window by window, and
`_words_of` drops them window by window. The wording of tags, texts and numbers (talk times, tone,
the reliability score) is left out, and so are the 0.01 s slack of `apply_to_words` and the rounding
of an overlap to 0.01 s before it is counted as an interruption. `MaxListed` is the 50 of
`spans[:50]`, beyond which no span is judged whatever `VERIFY_MAX_SPANS` (`MaxSpans`) is.

What loops over lists end with is said without the loop where there is something to prove of it.
The merging loop of `find_overlaps` takes the regions by start and lengthens the last merged one as
long as the next reaches it; so a merged region starts where no region that starts earlier reaches
(`Reaches`), and ends with the last to end of those that start before the next merged one (`Merged`).
A filter is `Kept`, a list at some of its indices in their order; `group_segments` is `Stretches`.

### Launcher and Tunnel

A process is a command that was typed. `stop_previous` is six steps, as others see them: the PID
file is read and SIGTERM sent, the process is awaited or killed, the file removed, `pkill`, `fuser`,
the wait for the port. A launch goes through it twice, since `bootstrap` replaces the interpreter by
the virtual environment's with `os.execv` and `main` starts over. A server has database and GPU from
the start of its startup hook (`loading`), its port only afterwards, and loses the port first when
it ends (`draining`, as long as clients stay connected). Two things depend on the host and are any
choice at the start: whether `fuser` is installed, and whether uvicorn returns after SIGTERM (before
0.29) or raises the signal again, so that `atexit` does not run. `Overlap = FALSE` says that no two
commands are inside `stop_previous` and `write_pid` at the same time; a person at a terminal types
them one after the other. A process id the system gives away again is not modelled, and a host
without ffmpeg is left out.

A tunnel script checks that a server listens, starts its child (`starting`), enters its `try` (ngrok's
after the wait for the URL), and ends the child in the `finally`. Signals become `KeyboardInterrupt`.
Inside the `try` it is caught; before it, it ends the script with the child as it is (`lost`); once
in the `finally` it does so too (`cut`), before or after `terminate`. `closing` is the way from the
handler to `terminate`, so a signal there may do either.

### LoginGate

`login` runs in the threads of the pool, logout and the check of a session beside it. One operation
on a dict is one step: the loop over a snapshot of expired or oldest entries deletes one at a time
(`todo` is what is left of the list), and a key another thread has deleted meanwhile is `KeyError`.
`record_failure` reads a client's attempts, writes them back, and locks: three steps. An attempt in
the list of a client is a pair of login and time, since two of the same time count twice. What
merges are neighbouring operations of one thread whose order nobody can tell. That `_hits` is
cleared above 10 000 clients is left out, as is an iteration that a resized dict breaks off.

## 3. Runs, bounds and what they show

Deadlock is not checked: in every instance the clients' requests are bounded, and a server with
nothing left to do legitimately stops.

| run | instance | properties |
|---|---|---|
| `jobs_faults` | 2 calls, 2 workers, pruner keeps 1, 1 retry, 1 event | `DeletedLeavesNoData`, `AudioKept`, `NoStrandedCall`, `OneJobPerCall`, `CompletedHasResults`, `RetryBudget`, `NoResurrection` |
| `jobs_overlap` (`JobQueueRefinement`) | 1 call in two jobs, 2 workers, 1 retry, 2 events, `Overlap` | `ImplementsLifecycle`, `EveryCallEnds` |
| `ingest_faults` | 2 uploads of 1 or 2 recordings, queue of 1, pruner keeps 1, 3 events | `RefusedLeavesNothing`, `OneCallPerRecording`, `PrunerKeepsNewest`, `PrunerCatchesUp` |
| `local_server` | 2 uploads of 1 or 2 recordings, 2 workers, queue of 1, pruner keeps 1, 1 event and a failing insert | `FilesHaveCalls`, `ImplementsIngest` |
| `portal_faults` | 2 uploads of 1 or 2 recordings, 2 events | `JobsAreReady`, `StageTruthful`, `MinutesOnce`, `NoGhostRow`, `EveryCallEnds` |
| `quota_limits` | 3 uploads, 2 at a time, limits of 1 and 2, every kind of window, 1 change by the admin, 2 days | `CallsCounted`, `OverrunBounded`, `FreshAllowance`, `WindowKept` |
| `asr_switches` | 3 jobs, 2 further passes each, 2 failed switches | `EachPassItsDecoder`, `EveryJobEnds` |
| `chunking_joints` | recordings of 6 to 8 ticks, windows of 5 that overlap by 2, words of 1 or 2 ticks, 2 voices | `HeardWhole`, `EachWordOnce`, `SpeechCovered`, `LabelsAreVoices` |
| `transcript_marks` | 3 ticks, 2 people, 4 words and turns, 2 of them words, 1 span checked again, 1 turn recovered | `WordsPlaced`, `RegionsRight`, `DoubtReachesFindings`, `MetricsMatchRoles` |
| `tunnel_commands` | 2 commands, 1 tunnel script with 2 signals, 1 fault | `OneAtWork`, `TunnelClosed`, `StoppedMeansStopped`, `LaunchServes` |
| `login_threads` | 4 logins from one address by 2 threads, 2 sessions, 2 attempts, 5 ticks | `SessionsBounded`, `BlockedEarned` |
| `jobs_stale_qa` | 1 call, 2 workers, 1 event | ends with a counterexample (section 6) |

Type invariants (`TypeOK`) are theorems for `JobQueue`, `Ingest`, `PortalCalls`, `BotQuota` and
`AsrDecoder` (section 5). Any of them may be added to the INVARIANTS of its run.

An *event* is something the clients or the environment do to a run that needs none: in
`JobQueue` a crash, a DELETE, a reprocess or waveform request, an exception inside a worker's exception
handler, in a DELETE or in the pruner, or an upload named like a stored file; in `Ingest` the same but
for the waveform and the handler, and a failing insert; in `PortalCalls` a DELETE, a crash of
either side, an unreachable GPU service, a storage fault, a lost report or a time-out. That results are
refused there is no event: it may befall every call. `MaxEvents`
bounds how many there are together, of any kinds (a DELETE that raises was counted when it came); TLC tries every choice and every place for them.

Two calls and two workers are enough for the conflicts of `JobQueue`: a file, a row and a retry
count belong to one call, a model lock is not modelled there, and what two jobs can do to each other
they do over one call (`jobs_overlap`) or through the queue and the pruner (`jobs_faults`). A crash
reaches every state a restart can find, since a restart clears everything in memory. Two events let
a crash, a DELETE and a reprocess request cut into each other; that takes one call only. In `Ingest`
two uploads meet over one recording, over the queue's one place and over the pruner's; a third, so
that the pruner can take a call between two uploads of one recording, is in `MCIngest_races.cfg`,
which passes too but leaves no room for more than one event. `LocalServer` has two calls, so that an
upload meets another's job, restart and pruning. Two commands are enough for `Launcher`, whose mutual effects are of one process
on another, and whose theorems hold for any number. Four logins fill the session table of
`LoginGate` and overrun it by one. In `BotQuota` a day of four ticks has a middle and both ends, and
an offset of one tick gives an hour where the two dates differ and hours where they agree. In
`Chunking` windows start at 0, 3 and 6, so the recordings have two or three windows, the last of
them cut short, and every position of a word or of a change of speaker against both seams occurs. In
`Transcript` three ticks are room for two words, two turns that overlap partly, nest or touch, and a
clip that reaches beyond its turn; one span checked of two leaves one unchecked.
`MCTranscript_three.cfg` is the same with a third person, fewer classes of confidence and a list of
spans that is shorter than what may be checked, and passes.

The properties in one sentence each are the comments above their definitions. The ones to look at
first: `ImplementsLifecycle` (one answer per request, through everything), `NoStrandedCall` and
`EveryCallEnds` (nothing accepted is forgotten, safety and liveness), `CompletedHasResults` (the
stored transcript and metrics come from one run), `OneCallPerRecording`, `JobsAreReady`,
`MinutesOnce`, `OverrunBounded`, `ImplementsIngest` and `OneAtWork`.

Some properties have a condition, because without it they are false, as section 6 shows.
`OneCallPerRecording` and `PrunerKeepsNewest` speak of behaviours without a DELETE; the former also
of calls that have their recording. In `PortalCalls` the conditions are those of one call:
`EveryCallEnds` leaves out a call whose own dispatch did not arrive, whose own job or last report
died in a crash or was lost, whose own report timed out, or whose own results were refused
(`Fatal`); `StageTruthful` one for whose report or dispatch somebody gave up waiting. Both hold
through whatever other calls meet, DELETEs, storage faults, lost reports on the way, and a dispatch
that arrived unanswered. `FilesHaveCalls` leaves out calls named like a stored file, and allows one
stray recording for each failing insert or removal and two for each crash. `TunnelClosed` speaks of
scripts that have entered their `try`. `RetryBudget` is checked with `Overlap = FALSE`.
`EveryCallEnds` of `JobQueue` speaks of behaviours in which no exception handler failed: one that
does ends the worker thread, and its call waits for the next restart (`NoStrandedCall` still holds:
the row is not forgotten). The first passes in `EachPassItsDecoder` are those of behaviours in which
no switch failed. `LaunchServes` speaks of behaviours without faults, stops and servers started by
hand, and of a uvicorn since 0.29 (`requirements.txt` allows 0.28, whose exit removes the PID file
under the hands of `stop_previous`); `OneAtWork` and `StoppedMeansStopped` of commands that come one
after the other. `OneAtWork` counts the servers of kind "dev", those a launch started, and not a
uvicorn somebody started by hand.

## 4. Fairness

`JobQueue`: weak fairness of each worker thread's steps, of startup and of the second half of a
reprocess request: the operating system schedules runnable threads, `_queue.get()` returns when
there is a job, and a handler that has begun runs on. Retries are bounded by `MAX_OOM_RETRIES`, so
none is needed of outcomes. Clients, crashes, faults and the pruner are not fair. `Ingest`: weak
fairness of the pruner (its task sleeps five minutes and runs again; its exceptions are caught) and
of the restart. `PortalCalls`: weak fairness of each upload handler once it has begun, of the worker
thread, and of the handling of reports, since Node's event loop serves every settled promise.
Arrivals, losses and time-outs are not fair. `AsrDecoder`: weak fairness of each job's steps. A job
that waits for the lock is enabled only while the lock is free; weak fairness is enough because
every job takes it finitely often, so in the end it stays free for whoever waits. `Launcher` (in
`Tunnel`'s `TSpec`): weak fairness of each process's own steps. A draining server owes nothing, as
its clients need not hang up; nor do commands, signals and faults.

## 5. Proofs

`LocalServer_proofs` has three parts. The first is about `JobQueue`, for any finite set of calls,
any workers and any bounds:

- `TypeCorrect`: `Spec => []TypeOK`. The inductive invariant `TypeInv` adds `HoldsJob`: a worker
  that is not idle holds a call (otherwise `row[call[w]]` is not typed).
- `NothingStranded`: `Spec => []NoStrandedCall`. The invariant is not inductive: while the server
  is down nobody holds a job, so one has to know what startup finds. `StrandInv` adds `Quiet` (no
  job, request or pending id exists while the server is down) and `ResetDone` (once
  `reset_stuck_jobs` has run, no row says "processing", so the rows startup reads are all the
  unfinished ones). Each action then keeps a job for every call it leaves unfinished.
- `DeletedStaysDeleted`: `Spec => NoResurrection`, from one lemma that no step writes to a row
  that is absent, except the upload of a call never seen before.
- `DeletionIsComplete`: `Spec => []DeletedLeavesNoData`: the saves of a deleted call fail on their
  foreign key, so what `DropRows` cascaded stays gone.
- `AudioIsKept`: `Spec => []AudioKept`. The pruner holds a recording whose row it has deleted, and
  ids are not used twice: `PrunedAreGone` says that row stays gone until the file is.
- `OneJobAtATime`: `~Overlap => (Spec => []OneJobPerCall)`. A job is in one of four places: the
  queue, a worker, a reprocess request about to submit, what startup read and has not submitted.
  `OnceInv` says that it is in one of them only (`OnePlace`) and there once (`QueuedOnce`,
  `DoneOnce`), and that what has a job has been uploaded (`BornFirst`), so an upload adds a new one.
- `RetriesAreBounded`: `~Overlap => (Spec => []RetryBudget)`. A worker between check and increment is
  within the budget (`RetryingInBudget`), and by `OneJobAtATime` nobody else raises the count meanwhile;
  what ends a job clears it.
- `CompletedIsWhole`: `~Overlap => (Spec => []CompletedHasResults)`. `ResultsInv` adds that a call
  with a job is not completed yet, and that what a worker has saved so far is of its own run
  (`OwnResults`), which rests on `OneJobAtATime`.

The second is the refinement, for any finite sets of calls and workers and any bounds:

- `QueueKeepsItsPromises`: `HSpec => ImplementsLifecycle`, where `HSpec` is `Spec` with the counts of
  requests and answers. The answers owed to a call are counted over
  the places its jobs can be in: the queue, the workers, the requests about to submit, and what
  startup has read. The handlers move a job from one place to another (`HandedOver`), which leaves the
  sum alone (`Balance`), until one of the ways out of `_run` answers it. While the server is down the
  rows are all there is; `Quiet` and `ResetDone` from `StrandInv` say that what startup reads is
  exactly what they owe. `Known` (a call with a row has been uploaded) makes the first upload the
  only step that shows a call from nothing. There is one lemma per handler.
- `EachAnsweredOnce`: `HSpec => []AnsweredAtMostOnce /\ [][NoneForgotten]_hvars`, the promises of
  `CallLifecycle` as numbers, from its steps alone: answers given and owed are never more than requests
  made, also over a crash, since a call shown as pending was owed an answer; and while the server is up
  their sum grows exactly with the requests.

The third is about the composition, for any finite set of uploads besides:

- `RecordingsHaveCalls`: `ServerSpec => []FilesHaveCalls`. Steps of the composition are steps of
  the queue or leave its variables alone, so the invariants above hold in it (`QueueInv`). `FilesInv`
  counts: each step that makes a recording unreachable is one of the faults, or what a crash cuts short;
  a call the pruner or a DELETE is at is not yet one (`Stray`).
- `ServerKeepsToIngest`: `~Overlap => (ServerSpec => ImplementsIngest)`. Step by step, the real
  queue and its workers do to rows and recordings what `Ingest` assumes. `MappedInv` says why: a job
  is at work only while its row reads "processing" (`ShownAtWork`), which rests on `OnceInv` and
  `ResultsInv`. With `Overlap` a job may begin on a call that another has just completed; `Ingest`
  has no such step.
- `ServerHasOneCallEach`, `ServerLeavesNothing`, `ServerKeepsNewest`: what `Ingest_proofs` shows of
  uploads beside an assumed queue holds beside the real one. They follow from the refinement and from
  `INSTANCE Ingest_proofs`, whose assumptions are shown of the constants of the composition.

`Ingest_proofs`, for any set of uploads, finite or not, any recordings and any bounds:

- `TypeCorrect`: `Spec => []TypeOK`. `TypeInv` adds that only finitely many calls have been created so far.
- `RefusedLeaveNothing`: `Spec => []RefusedLeavesNothing`. A row belongs to an accepted upload
  (`NoRowYet`), a recording to one accepted, cut off, or refused because its insert failed
  (`NoFileYet`, `NoFileAfter`), a partial file to a request that streams or a crash not yet swept up
  (`TmpOwned`).
- `OneCallForEach`: `Spec => []OneCallPerRecording`. The duplicate check looks at the oldest row of
  a content only and lets an upload in if that row has lost its recording. `RowsHaveFiles`
  excludes that as long as there is no DELETE: the pruner deletes the row first, and what it has on its
  list is over (`ListInv`), so no recording that is being written is taken away.
- `NewestAreKept`: `Spec => PrunerKeepsNewest`. `ListIsFresh`: a file on the pruner's list has
  `MaxFiles` newer ones that are kept, not only at the scan but until its turn comes, although others of
  the list go meanwhile and uploads arrive.

`PortalCalls_proofs`, for any sets of uploads and recordings and any bounds:

- `TypeCorrect`: `Spec => []TypeOK`.
- `JobsCanRun`: `Spec => []JobsAreReady`. An upload passes its stages once, so a call has a job only
  after it was counted (`CountedOnce`); what a stage has put in place stays until a removal begins
  (`InPlace`), and a removal that has begun, or was cut off by a crash, never looks like none.
- `RemovedStaysRemoved`: `Spec => NoGhostRow`. Only `Create` brings a row into being, before there is
  anything to remove (`GoneInv`); the update of a slow report finds no row.
- `MinutesCountOnce`: `Spec => []MinutesOnce`. `OnceInv`: a call has one job at most; while that is
  still to say "done", no such report is under way and nothing is counted (`NotYet`), afterwards
  there is at most one, and none once it is counted (`DoneOnce`).
- `StagesAreTruthful`: `Spec => []StageTruthful`. `OrderInv`: as long as the worker has waited for
  every answer to the reports of a call, that call has one report under way at most, and if it still
  has its job, that is the report the worker waits for; so nothing can follow "done" (`DoneIsLast`).

`BotQuota_proofs`, for any finite set of uploads, any settings, any length of the day, any offset of
the bot's clock and any bounds:

- `QuotaTyped`, `EveryCallCounted` (`CallsCounted`), `AllowanceIsFresh` (`FreshAllowance`).
- `OverrunIsBounded`: `Spec => []OverrunBounded`. What is inductive is the stronger bound on the
  calls of a day plus `Owed(d)`, the uploads that have passed the check for the day and are not
  counted yet: an upload joins `Owed` only while the count is below the limit, and no more than
  `MaxConcurrent` are under way, so the sum stays below limit plus `MaxConcurrent`.
- `WindowsAreKept`: `Spec => WindowKept`. The code compares minutes since midnight in two ways, for
  windows that wrap and windows that do not; the lemmas `WholeDays`, `TimeOfDay` and `WrapsRight`
  show both to be one comparison modulo the length of the day.

`Chunking_proofs`, for any length of window, overlap and recording:

- `NothingIsCut`: `LoopSpec => []HeardWhole`, whatever lasts no longer than the overlap is whole in
  some window. Inductive is `LoopInv`: the windows so far hold whole every such interval up to one
  overlap beyond the start of the next window (`HeardUpTo`), and one further window keeps that
  because an interval that reaches further starts behind its left edge (`OneMoreWindow`). When the
  loop breaks off, on a short window or at the end, the interval reached is the whole recording.
- `WordsAndTurnsAreHeardWhole`: the same of `Chunking`, whose words and turns both are runs of that
  loop: `Spec => LoopSpec`, step by step.
- `WordsAreThereOnce`: `Spec => []EachWordOnce`, for any words. `WordsInv`: the words so far are an
  initial stretch of those spoken, each once: all that end within the windows read (`WordsThere`) and
  one more at most, the one the last edge cut. `LastWord` says where that one can end, so that its
  rest, heard again in the next window, starts before what is covered and is dropped.
- `SpeechIsCovered`: `Spec => []SpeechCovered`, for any speech of any number of voices.
  `TurnsInv`: up to where the windows reach, the turns say of each voice exactly when it speaks. What
  `CutOff` removes ends before the last turn does, so the windows before have said it.
- `LabelsAreThePeople`: `Spec => []LabelsAreVoices`. `LabelsInv`: labels that were given out are
  told apart by number (`Numbered`), the turns that reach into the next overlap have one label for
  each voice (`RecentLabels`) and each moment once (`SaidOnce`), and unless two voices cannot be
  told apart (`Indistinct`), a label is one voice (`OneVoice`) and keeps to it (`Steady`). One
  window more keeps that because of what `Stitch` promises (`StitchIs`, `MatchedLabels`): take, of
  the pairs of two different voices that it matches, the one that agrees longest. The pair of either
  voice with itself agrees at least as long, and one of the two longer, as they do not speak at the
  very same moments; so a stronger pair has been taken in its place, which by the choice pairs a
  voice with itself and leaves neither label to the wrong pair. Times of agreement are compared as
  cardinalities of sets of moments (`AgreementIs`), for which the sums of the code are needed as
  sets.

The first part of `Pipeline_proofs` is about `Transcript`, for a recording of any length, any number
of people, words and turns, and any settings. `TranscriptIsTyped` is `Spec => []TranscriptInv`: at each
stage, what the stages before it have left.

- `CrosstalkIsRight`: `Spec => []RegionsRight`. Turns are sorted by start, so a loop that breaks
  off at the first turn that starts too late has met every turn that overlaps (`TalkOverIs`).
  `MergedIs`: merging loses no tick and adds none. A region belongs to the last merged region that
  starts no later than it does (`EveryPart`); and if a tick of a merged region lay in none of the
  regions, the first region to start after it would be reached by no other, and would start a merged
  region of its own (`NoHoles`).
- `WordsArePlaced`: `Spec => []WordsPlaced`. `PartsAre` says what it is to cut a list before some of
  its indices; a segment is such a part, and all words in it are given to one speaker, as the first
  word that was not would start a segment (`OneSpeaker`). Of the turns that overlap a word none
  starts after it ends, so the one that does longest is among those looked at (`GivenToLongest`).
- `FindingsCarryDoubt`: `Spec => []DoubtReachesFindings`. Doubt is handed from stage to stage:
  `analyse` marks just the doubtful words (`MarkedDoubtful`); after the second pass a word that is still
  doubted has a mark that counts (`DoubtIsMarked`), whatever spans were judged; a segment
  with such a word or under cross-talk is uncertain (`Warns`), and a finding says so of its segment
  (`FindingsTell`). That talk over it is known from `regions` is `RegionsRight`.
- `MetricsMatch`: `Spec => []MetricsMatchRoles`. All segments of a speaker have one role (`OneRole`),
  before and after the language model is heard (`WithRolesIs`), so that it does not matter from
  which of them `interruption_events` reads it (`InterruptionsAre`).

The second part of `Pipeline_proofs` is about `AsrDecoder`, for any set of jobs and any bounds:

- `DecoderInvariant`: `DecoderSpec => []DecoderInv`, the conjunction of `TypeOK`,
  `SecondPassIsBeam`, `LockHeld` (a job that is decoding holds the lock, so two never are) and
  `SettingsKept` (while the lock is free and the model is loaded, the decoder is the primary one,
  unless a switch failed).
- `FirstPassesAreGreedy`, `SecondPassesAreBeam`, and of both `PassesKeepTheirDecoder`
  (`EachPassItsDecoder`) follow from it.

The first part of `Server_proofs` is about `Launcher` and `Tunnel`, for any finite set of commands, any
tunnel scripts and any bounds:

- `OneServerAtWork`: `~Overlap => (Spec => []OneAtWork)`. `LInv` says why the PID file is enough: it
  names every process that has written it and still lives (`Known`), so there is one at most; the
  command that goes to kill one has just that one in hand, and once it is past that no such process
  exists (`Handled`) until it writes the file itself. `Apart` keeps commands from doing so together.
- `StoppedIsStopped`: `~Overlap => (Spec => StoppedMeansStopped)`, from `Handled`.
- `TunnelsAreClosed`: `TSpec => []TunnelClosed`. `Children`: a script that is closing with its child up
  has had a signal, so the one that cuts it short is the second.
  `ServersUndisturbed` (`TSpec => Spec`) carries the two theorems above over to the composition.

Its second part is about `LoginGate`, for any number of logins and clients and any limits:

- `LockoutsAreEarned`: `GateSpec => []BlockedEarned`. The lists of attempts are no truth: threads
  overwrite each other's, and a success that clears a list may be undone by a thread that has read
  it before. `EarnInv` keeps what remains: every attempt in a list was made (`HitsMade`), a login
  fails once (`FailedOnce`), a thread counts its own failure and such as are recent at that moment
  (`CountsMade`), so a lockout in the table stands on `MaxAttempts` failures within one window
  (`LockedEarned`).
- `SessionsAreBounded`: `GateSpec => []SessionsBounded`. The table alone may be at its bound when a
  thread adds a session; `Room` therefore counts the threads that have made room and not added
  yet as if they had. A thread gets there only when the table had room or by deleting an entry.

Assumptions: `WindowsAssumption` (an overlap is not empty and less than half a window; the code has
15 s of 180 s for words, 45 s of 300 s for turns), `WordsAssumption` (a word is no longer than the
overlap nor than what a window shares with neither neighbour, and a tick), `VoicesAssumption`,
`ProcsAssumption`, `ScriptsAssumption`, `SetsAssumption` and `WorkersAssumption` (voices, commands,
scripts, logins, clients and workers are finitely many), `CallsAssumption` (calls are finitely many,
"no call" is not one), `JobsAssumption` ("no job" is not one), the `UploadsAssumption` of
`PortalCalls` and of `Ingest` ("no upload" is not one), `QuotaAssumption` (uploads are finitely
many, lengths are numbers, a day is not empty, clocks differ by a day at most, the bounded clock
lasts two days), `SettingsAssumption` (limits are numbers, windows lie in a day),
`TranscriptAssumption` (bounds are numbers, there is somebody on the call, and an overlap that
counts is not empty: the code has 0.25 s for cross-talk and 0.3 s for interruptions), and the
`BoundsAssumption`, `LimitsAssumption`, `GateAssumption` and `IngestAssumption` of each module
(bounds are numbers). The constants stay symbolic everywhere; that `Overlap` is `FALSE` is a
hypothesis of the theorems that need it.

The second half of `WordsAssumption`, `2 * ChunkOverlap + MaxWord =< ChunkLength + 1`, is needed:
without it TLC finds a window of 7 ticks that overlaps by 3, in a recording of 11, in which the
word from 6 to 9 is cut at the end of the first window, heard in the second, and cut again at the start of
the third: it stands in the transcript twice. The code's 15 s and 180 s leave room for it.

Only model-checked is liveness (`EveryCallEnds`, `PrunerCatchesUp`, `EveryJobEnds`, `LaunchServes`),
since the prover has neither fairness nor `ENABLED`. Every other property of a passing run is a theorem.

No recursive operator is used, and nothing is proved by induction over data: where a loop over a
list had to be proved about, as in `Chunking` and `Transcript`, the model says by a set what the loop
ends with, and a proof takes the first index at which something would be wrong (`LeastNumber` of
`Timeline_proofs`).

## 6. Where the code departs from its documents

One is a run that TLC ends with a counterexample, and `findings` quotes the sentence: `jobs_stale_qa`,
whose property `QaMatchesTranscript` a reprocess violates if its QA stage fails, since the call
keeps the QA findings quoted from the transcript it replaced.

The others are reproduced by a configuration kept beside the runs, for instance
`tlc -continue -config MCIngest_departures.cfg MCIngest.tla` (with `-continue`, since each may hold
several properties, and TLC otherwise ends with the first one violated):

| configuration (module) | property | what happens |
|---|---|---|
| `MCJobQueue_chunks` | `PartsPrivate` | reprocess of a call in flight puts two workers into one temp directory, and one deletes the chunk the other has open |
| | `RetryBudget` with `Overlap = TRUE` | two jobs of one call pass the check of the retries before either counts (`jobs.py:62-63`), or a job that ends leaves the count of the other |
| `MCJobQueue_orphans` | `NoOrphanFiles` | DELETE leaves the waveform cache, and a wav that a running job writes later |
| `MCJobQueue_pruned` | `AcceptedIsProcessed` | the pruner keeps 30 recordings, the queue may hold 50: accepted calls are dropped |
| | `RemovedForItself` | the pruner takes a call whose client named its recording like a file it prunes ("deletes older files and DB records", `clean_uploads.py:24`); that recording stays |
| `MCIngest_departures` | `BacklogBounded` | uploads in flight together pass one stale depth check |
| | `NothingLeftBehind` | a failing insert leaves the moved recording without a row |
| | `KnownIsDuplicate` | a call without its recording hides a newer duplicate |
| | `KeepsMaxFiles` | a DELETE while the pruner works makes it delete too many |
| `MCPortalCalls_departures` | `AlwaysTruthful` | a late report overwrites a completed call |
| | `PlaysConverted` | `audioKey` is never written |
| | `DuplicateIsOriginal` | a duplicate is answered with a call whose own upload then fails |
| | `UnsentAreRetried` | a failed dispatch is never repeated, though "the call stays queued and can be retried" (`worker.service.ts:39`) |
| | `ResultsArrive` | results without QA are refused by the backend and not sent again, though "a failed QA pass must not lose the transcript" (`worker_jobs.py:145-146`); so are results over 100 kB |
| `MCBotQuota_departures` | `CallLimitKept` | overlapping uploads all pass the check of a limit, though calls are counted early to prevent that (`bots.service.ts:94-95`) |
| | `NoUploadWithoutMinutes` | an upload passes when the minutes are exactly used up |
| | `MinutesOnBotsDay` | minutes go to UTC's day, calls to the bot's |
| | `NoMinutesLost` | minutes of a UTC day without a usage row are dropped |
| `MCTunnel_departures` (`Tunnel`) | `StopReleases` | `npm run stop` finds no port and does nothing while the server loads ("Stop the server and release its VRAM", `README.md:207`) |
| | `OneAtWork` with `Overlap = TRUE` | two launches at once find no predecessor and both load the models ("Two servers never contend for the GPU", `README.md:215-216`) |
| | `AlwaysTakenDown` | a signal between `Popen` and the `try` (for ngrok the whole wait for its URL), or a second one in the `finally` before `terminate`, leaves the tunnel open (`tunnel.py:96-98`, `README.md:348-349`) |
| `MCAsrDecoder_poisoned` | `FaultsAreContained` | a switch that fails half-way leaves its settings to later calls: their first pass runs with beam search |
| `MCChunking_cut` | `WordsWhole` | the part of a word that a window's end cuts off stands, the next window's whole word is dropped as covered |
| `MCTranscript_recovered` | `RecoveredStaysUncertain` | recovered words of a call without confidences, or which the second pass confirms, are not marked |
| `MCTranscript_overruled` | `FindingNamesSpeaker` | findings keep the roles from before the language model overruled them |
| `MCTranscript_overlap` | `SegmentsApart` | a recovered word overlaps the words around its turn, and so do the segments |

## 7. What is not modelled

The models and ffmpeg; the text and numbers of transcripts, prompts and scores; read-only endpoints
and search; cookies, passwords and the middlewares of `security.py`, each of which decides about one
request from that request alone; the clearing of `_hits` above 10 000 clients; `config.py`; a process
id that the system gives away again; the shell scripts of the web parts; the front ends; portal
sessions, payments and the audit log. `components` in `PROJECT.json` says why for each. SQLite is
taken to be serialisable per statement or transaction, with writers waiting for each other; Postgres
updates of one row are atomic; object storage is strongly consistent.

## 8. Plan

Modelled first was what the system must not get wrong, the life of a call on the server
(`JobQueue`), then each neighbour of it: `Ingest`, `PortalCalls`, `BotQuota`, `AsrDecoder`, the two
long computations, `Chunking` and `Transcript`, the composition `LocalServer`, and what is around
the server, `Launcher`, `Tunnel` and `LoginGate`. Every safety property of these has its theorem. What
is left:

- the numbers of `metrics.py` and `prosody.py`, as far as documents say what they mean.
