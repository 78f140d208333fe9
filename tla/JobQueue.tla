------------------------------ MODULE JobQueue ------------------------------
(***************************************************************************)
(* The local transcription server's background processing: the in-memory   *)
(* job queue and its worker threads (server/jobs.py), the pipeline a       *)
(* worker runs (server/pipeline/run.py), the rows it updates               *)
(* (server/db.py), and everything that runs beside it: the upload, delete, *)
(* reprocess and waveform handlers and the startup hook (server/app.py),   *)
(* the upload pruner (server/clean_uploads.py), and crashes of the process.*)
(*                                                                         *)
(* What a transcript says is abstracted to the number of the pipeline run  *)
(* that wrote it (0: no transcript, or one torn by a failing save).        *)
(***************************************************************************)
EXTENDS Naturals, Sequences, FiniteSets

CONSTANTS
    Calls,          \* call ids
    Workers,        \* worker threads, WORKER_THREADS of them
    NoCall,         \* "no call": the id held by an idle worker or pruner
    MaxOomRetries,  \* MAX_OOM_RETRIES
    MaxFiles,       \* MAX_FILES: recordings the pruner keeps
    Overlap,        \* TRUE: a client may ask to reprocess a call in flight
    MaxEvents       \* bound: crashes, reprocess, DELETE and waveform requests, uploads
                    \* named like a stored file, exceptions in a worker's exception
                    \* handler, in a DELETE and in the pruner, together

ASSUME CallsAssumption == IsFiniteSet(Calls) /\ NoCall \notin Calls
ASSUME BoundsAssumption ==
    /\ {MaxOomRetries, MaxFiles, MaxEvents} \subseteq Nat
    /\ Overlap \in BOOLEAN

VARIABLES
    (* SQLite and the file system: survive a crash *)
    row,         \* status column of the calls row; "absent" when there is none
    born,        \* created_at, as a rank; 0 for a call not uploaded yet
    filename,    \* whose stored file has the name c was uploaded under, NoCall: nobody's
    transcript,  \* run that wrote the segments, words and FTS rows
    metrics,     \* run that wrote the metrics row
    qa,          \* run that wrote the qa row
    audio,       \* uploads/{id}.{ext} exists
    wav,         \* outputs/{id}.wav exists
    wform,       \* outputs/{id}_waveform.json exists
    (* the server process: lost in a crash *)
    phase,       \* how far startup() has come
    pending,     \* ids startup() has read and still has to submit
    queue,       \* jobs._queue
    retries,     \* jobs._retries
    pc,          \* what each worker is doing
    call,        \* the job each worker holds
    run,         \* the number of the run each worker is in
    part,        \* the chunk file a worker has open in its temp directory
    marked,      \* reprocess requests between set_progress and submit
    deleting,    \* how far a DELETE request has come
    doomed,      \* files the pruner has decided to delete
    pruning,     \* the file the pruner is deleting
    (* bookkeeping *)
    runs,        \* pipeline runs started for each call
    used         \* those events so far, by kind

store == <<row, born, filename, transcript, metrics, qa>>
files == <<audio, wav, wform>>
boot == <<phase, pending>>
worker == <<pc, call, run, part>>
requests == <<marked, deleting>>
pruner == <<doomed, pruning>>
vars == <<store, files, boot, queue, retries, worker, requests, pruner, runs, used>>

-----------------------------------------------------------------------------
Statuses == {"queued", "processing", "completed", "failed"}

(* run.process by what can happen during its stages: "checking" is recovery and
   verification, "analyzing" is alignment, prosody, metrics and QA *)
Stages == {"converting", "transcribing", "diarizing", "checking", "analyzing"}
SaveSteps == {"saving", "savingMetrics", "savingQa", "completing"}

(* the stages that cut the wav into files of a directory named after the call *)
ChunkStages == {"transcribing", "diarizing", "checking"}

(* recover_dropped and verify_spans swallow the exception a lost file raises,
   transcribe and diarize do not; only these two let a CUDA OOM escape *)
FatalStages == {"transcribing", "diarizing"}

NextStage_SkipSave == [s \in Stages \ {"converting"} |->
    CASE s = "transcribing" -> "diarizing"
      [] s = "diarizing"    -> "checking"
      [] s = "checking"     -> "analyzing"
      [] s = "analyzing"    -> "completing"]
NextStage == [s \in Stages \ {"converting"} |->
    CASE s = "transcribing" -> "diarizing"
      [] s = "diarizing"    -> "checking"
      [] s = "checking"     -> "analyzing"
      [] s = "analyzing"    -> "saving"]

Live(c) == row[c] # "absent"

(* UPDATE calls SET status = s WHERE id = c: no effect on a deleted row *)
SetStatus_Upsert(c, s) == row' = [row EXCEPT ![c] = s]
SetStatus(c, s) == row' = [row EXCEPT ![c] = IF Live(c) THEN s ELSE @]

Queued(c) == \E i \in DOMAIN queue : queue[i] = c

(* the workers that hold a job of c they have not finished with *)
InFlight(c) == {w \in Workers : call[w] = c /\ pc[w] \notin {"settling", "dead"}}

-----------------------------------------------------------------------------
Note(event) == used' = [used EXCEPT ![event] = @ + 1]

(* One of the MaxEvents requests, crashes and faults happens. *)
Use(event) ==
    /\ used.crash + used.reprocess + used.delete + used.waveform
           + used.fault + used.error + used.named < MaxEvents
    /\ Note(event)

Init ==
    /\ row = [c \in Calls |-> "absent"]
    /\ born = [c \in Calls |-> 0]
    /\ filename = [c \in Calls |-> NoCall]
    /\ transcript = [c \in Calls |-> 0]
    /\ metrics = [c \in Calls |-> 0]
    /\ qa = [c \in Calls |-> 0]
    /\ audio = [c \in Calls |-> FALSE]
    /\ wav = [c \in Calls |-> FALSE]
    /\ wform = [c \in Calls |-> FALSE]
    /\ phase = "down"
    /\ pending = {}
    /\ queue = <<>>
    /\ retries = [c \in Calls |-> 0]
    /\ pc = [w \in Workers |-> "idle"]
    /\ call = [w \in Workers |-> NoCall]
    /\ run = [w \in Workers |-> 0]
    /\ part = [w \in Workers |-> "none"]
    /\ marked = {}
    /\ deleting = [c \in Calls |-> "no"]
    /\ doomed = {}
    /\ pruning = NoCall
    /\ runs = [c \in Calls |-> 0]
    /\ used = [crash |-> 0, reprocess |-> 0, delete |-> 0, waveform |-> 0, fault |-> 0,
               error |-> 0, named |-> 0]

-----------------------------------------------------------------------------
(* A worker thread: jobs._loop around run.process                          *)

(* _queue.get() *)
Take(w) ==
    /\ phase # "down"
    /\ pc[w] = "idle"
    /\ queue # <<>>
    /\ queue' = Tail(queue)
    /\ pc' = [pc EXCEPT ![w] = "start"]
    /\ call' = [call EXCEPT ![w] = Head(queue)]
    /\ UNCHANGED <<store, files, boot, retries, run, part, requests, pruner, runs, used>>

(* process() looks the call up and returns at once if it has been deleted *)
Skip(w) ==
    /\ pc[w] = "start"
    /\ ~Live(call[w])
    /\ pc' = [pc EXCEPT ![w] = "settling"]
    /\ UNCHANGED <<store, files, boot, queue, retries, call, run, part, requests, pruner, runs,
                   used>>

Begin(w) ==
    LET c == call[w] IN
    /\ pc[w] = "start"
    /\ Live(c)
    /\ SetStatus(c, "processing")
    /\ runs' = [runs EXCEPT ![c] = @ + 1]
    /\ run' = [run EXCEPT ![w] = runs[c] + 1]
    /\ pc' = [pc EXCEPT ![w] = "converting"]
    /\ UNCHANGED <<born, filename, transcript, metrics, qa, files, boot, queue, retries, call, part,
                   requests, pruner, used>>

(* to_wav() reads the upload and writes outputs/{id}.wav *)
Convert(w) ==
    LET c == call[w] IN
    /\ pc[w] = "converting"
    /\ audio[c]
    /\ wav' = [wav EXCEPT ![c] = TRUE]
    /\ SetStatus(c, "processing")
    /\ pc' = [pc EXCEPT ![w] = "transcribing"]
    /\ UNCHANGED <<born, filename, transcript, metrics, qa, audio, wform, boot, queue, retries,
                   call,
                   run, part, requests, pruner, runs, used>>

(* A long recording is worked through chunk by chunk; the chunk file lies in
   a directory that the jobs of this call share. *)
OpenPart(w) ==
    /\ pc[w] \in ChunkStages
    /\ part[w] = "none"
    /\ part' = [part EXCEPT ![w] = "open"]
    /\ UNCHANGED <<store, files, boot, queue, retries, pc, call, run, requests, pruner, runs, used>>

(* The finally blocks: whoever leaves a chunk stage empties its directory. *)
CleanChunks(w) ==
    part' = [v \in Workers |->
                IF v = w THEN "none"
                ELSE IF call[v] = call[w] /\ pc[v] = pc[w] /\ part[v] = "open" THEN "gone"
                ELSE part[v]]

(* One stage ends and set_progress() announces the next. *)
Advance(w) ==
    LET c == call[w] IN
    /\ pc[w] \in Stages \ {"converting"}
    /\ pc[w] \in FatalStages => wav[c] /\ part[w] # "gone"
    /\ CleanChunks(w)
    /\ SetStatus(c, "processing")
    /\ pc' = [pc EXCEPT ![w] = NextStage[pc[w]]]
    /\ UNCHANGED <<born, filename, transcript, metrics, qa, files, boot, queue, retries, call, run,
                   requests, pruner, runs, used>>

(* Foreign keys refuse the transcript of a deleted call. *)
SaveTranscript_NoKey(w) ==
    LET c == call[w] IN
    /\ pc[w] = "saving"
    /\ transcript' = [transcript EXCEPT ![c] = run[w]]
    /\ pc' = [pc EXCEPT ![w] = "savingMetrics"]
    /\ UNCHANGED <<row, born, filename, metrics, qa, files, boot, queue, retries, call, run, part,
                   requests, pruner, runs, used>>
SaveTranscript(w) ==
    LET c == call[w] IN
    /\ pc[w] = "saving"
    /\ Live(c)
    /\ transcript' = [transcript EXCEPT ![c] = run[w]]
    /\ pc' = [pc EXCEPT ![w] = "savingMetrics"]
    /\ UNCHANGED <<row, born, filename, metrics, qa, files, boot, queue, retries, call, run, part,
                   requests, pruner, runs, used>>

(* save_metrics, then save_reliability and save_prosody (columns of the row).
   save_qa follows only if the QA stage produced a result. *)
SaveMetrics(w) ==
    LET c == call[w] IN
    /\ pc[w] = "savingMetrics"
    /\ Live(c)
    /\ metrics' = [metrics EXCEPT ![c] = run[w]]
    /\ \E next \in {"savingQa", "completing"} : pc' = [pc EXCEPT ![w] = next]
    /\ UNCHANGED <<row, born, filename, transcript, qa, files, boot, queue, retries, call, run,
                   part,
                   requests, pruner, runs, used>>

SaveQa(w) ==
    LET c == call[w] IN
    /\ pc[w] = "savingQa"
    /\ Live(c)
    /\ qa' = [qa EXCEPT ![c] = run[w]]
    /\ pc' = [pc EXCEPT ![w] = "completing"]
    /\ UNCHANGED <<row, born, filename, transcript, metrics, files, boot, queue, retries, call, run,
                   part, requests, pruner, runs, used>>

Complete(w) ==
    /\ pc[w] = "completing"
    /\ SetStatus(call[w], "completed")
    /\ pc' = [pc EXCEPT ![w] = "settling"]
    /\ UNCHANGED <<born, filename, transcript, metrics, qa, files, boot, queue, retries, call,
                   run, part,
                   requests, pruner, runs, used>>

(* _retries.pop(), and the finally block frees the worker *)
Settle_KeepRetries(w) ==
    /\ pc[w] = "settling"
    /\ pc' = [pc EXCEPT ![w] = "idle"]
    /\ call' = [call EXCEPT ![w] = NoCall]
    /\ run' = [run EXCEPT ![w] = 0]
    /\ UNCHANGED <<store, files, boot, queue, retries, part, requests, pruner, runs, used>>
Settle(w) ==
    /\ pc[w] = "settling"
    /\ retries' = [retries EXCEPT ![call[w]] = 0]
    /\ pc' = [pc EXCEPT ![w] = "idle"]
    /\ call' = [call EXCEPT ![w] = NoCall]
    /\ run' = [run EXCEPT ![w] = 0]
    /\ UNCHANGED <<store, files, boot, queue, part, requests, pruner, runs, used>>

-----------------------------------------------------------------------------
(* The exception handler of jobs._loop                                     *)

Working(w) == pc[w] \in {"start"} \cup Stages \cup SaveSteps

(* ffmpeg -y may have begun the wav before it failed *)
WavAfterFailure(w) ==
    \/ UNCHANGED wav
    \/ pc[w] = "converting" /\ wav' = [wav EXCEPT ![call[w]] = TRUE]

(* Any other exception. set_failed() commits whatever transaction the thread
   left open: a save_transcript that fails half-way loses the old transcript. *)
Fail(w) ==
    LET c == call[w] IN
    /\ Working(w)
    /\ SetStatus(c, "failed")
    /\ \/ UNCHANGED transcript
       \/ pc[w] = "saving" /\ Live(c) /\ transcript' = [transcript EXCEPT ![c] = 0]
    /\ WavAfterFailure(w)
    /\ CleanChunks(w)
    /\ pc' = [pc EXCEPT ![w] = "settling"]
    /\ UNCHANGED <<born, filename, metrics, qa, audio, wform, boot, queue, retries, call, run,
                   requests,
                   pruner, runs, used>>

(* CUDA OOM with retries left *)
OomCheck(w) ==
    /\ pc[w] \in FatalStages
    /\ retries[call[w]] < MaxOomRetries
    /\ CleanChunks(w)
    /\ pc' = [pc EXCEPT ![w] = "retrying"]
    /\ UNCHANGED <<store, files, boot, queue, retries, call, run, requests, pruner, runs, used>>

(* No lock is held since the check: count the retry, show "queued", sleep. *)
OomRetry(w) ==
    LET c == call[w] IN
    /\ pc[w] = "retrying"
    /\ retries' = [retries EXCEPT ![c] = @ + 1]
    /\ SetStatus(c, "processing")
    /\ pc' = [pc EXCEPT ![w] = "backoff"]
    /\ UNCHANGED <<born, filename, transcript, metrics, qa, files, boot, queue, call, run, part,
                   requests, pruner, runs, used>>

OomGiveUp(w) ==
    LET c == call[w] IN
    /\ pc[w] \in FatalStages
    /\ retries[c] >= MaxOomRetries
    /\ SetStatus(c, "failed")
    /\ CleanChunks(w)
    /\ pc' = [pc EXCEPT ![w] = "settling"]
    /\ UNCHANGED <<born, filename, transcript, metrics, qa, files, boot, queue, retries, call, run,
                   requests, pruner, runs, used>>

(* after the sleep: _queue.put(call_id), and the worker is free *)
Requeue_Forget(w) ==
    /\ pc[w] = "backoff"
    /\ pc' = [pc EXCEPT ![w] = "idle"]
    /\ call' = [call EXCEPT ![w] = NoCall]
    /\ run' = [run EXCEPT ![w] = 0]
    /\ UNCHANGED <<store, files, boot, queue, retries, part, requests, pruner, runs, used>>
Requeue(w) ==
    /\ pc[w] = "backoff"
    /\ queue' = Append(queue, call[w])
    /\ pc' = [pc EXCEPT ![w] = "idle"]
    /\ call' = [call EXCEPT ![w] = NoCall]
    /\ run' = [run EXCEPT ![w] = 0]
    /\ UNCHANGED <<store, files, boot, retries, part, requests, pruner, runs, used>>

(* The handler itself raises ("database is locked" in set_failed or
   set_progress): nothing catches it, the thread ends and is not replaced. *)
HandlerDies(w) ==
    /\ Use("fault")
    /\ \/ Working(w) /\ UNCHANGED retries
       \/ pc[w] = "retrying" /\ retries' = [retries EXCEPT ![call[w]] = @ + 1]
    /\ WavAfterFailure(w)
    /\ CleanChunks(w)
    /\ pc' = [pc EXCEPT ![w] = "dead"]
    /\ UNCHANGED <<store, audio, wform, boot, queue, call, run, requests, pruner, runs>>

WorkerStep(w) ==
    \/ Take(w) \/ Skip(w) \/ Begin(w) \/ Convert(w) \/ OpenPart(w) \/ Advance(w)
    \/ SaveTranscript(w) \/ SaveMetrics(w) \/ SaveQa(w) \/ Complete(w) \/ Settle(w)
    \/ Fail(w) \/ OomCheck(w) \/ OomRetry(w) \/ OomGiveUp(w) \/ Requeue(w)

-----------------------------------------------------------------------------
(* The request handlers: uvicorn answers requests once startup() is done    *)

(* upload_call after ingest() has accepted the file (module Ingest): the row
   and the job appear in one tick of the event loop. The name the recording comes
   under is the client's choice, also that of a file the server has stored. *)
Upload(c) ==
    /\ phase = "serving"
    /\ born[c] = 0
    /\ born' = [born EXCEPT ![c] = 1 + Cardinality({d \in Calls : born[d] # 0})]
    /\ row' = [row EXCEPT ![c] = "queued"]
    /\ audio' = [audio EXCEPT ![c] = TRUE]
    /\ queue' = Append(queue, c)
    /\ \/ UNCHANGED <<filename, used>>
       \/ /\ Use("named")
          /\ \E d \in Calls : born[d] # 0 /\ filename' = [filename EXCEPT ![c] = d]
    /\ UNCHANGED <<transcript, metrics, qa, wav, wform, boot, retries, worker, requests,
                   pruner, runs>>

(* no job of c is waiting, running or about to be submitted *)
Settled(c) == ~Queued(c) /\ InFlight(c) = {} /\ c \notin marked \cup pending

(* reprocess(): the handler asks only whether the row exists. Whether clients
   wait for the call to settle first is the assumption Overlap = FALSE. *)
ReprocessMark(c) ==
    /\ phase = "serving"
    /\ c \notin marked
    /\ Overlap \/ Settled(c)
    /\ Live(c)
    /\ SetStatus(c, "processing")
    /\ marked' = marked \cup {c}
    /\ Use("reprocess")
    /\ UNCHANGED <<born, filename, transcript, metrics, qa, files, boot, queue, retries, worker,
                   deleting,
                   pruner, runs>>

ReprocessSubmit(c) ==
    /\ c \in marked
    /\ marked' = marked \ {c}
    /\ queue' = Append(queue, c)
    /\ UNCHANGED <<store, files, boot, retries, worker, deleting, pruner, runs, used>>

(* DELETE: the recording, then the converted wav, then the row, whose
   dependent rows go with it *)
DeleteRead(c) ==
    /\ phase = "serving"
    /\ deleting[c] = "no"
    /\ Live(c)
    /\ Use("delete")
    /\ deleting' = [deleting EXCEPT ![c] = "audio"]
    /\ UNCHANGED <<store, files, boot, queue, retries, worker, marked, pruner, runs>>

DeleteAudio(c) ==
    /\ deleting[c] = "audio"
    /\ audio' = [audio EXCEPT ![c] = FALSE]
    /\ deleting' = [deleting EXCEPT ![c] = "wav"]
    /\ UNCHANGED <<store, wav, wform, boot, queue, retries, worker, marked, pruner, runs, used>>

DeleteWav(c) ==
    /\ deleting[c] = "wav"
    /\ wav' = [wav EXCEPT ![c] = FALSE]
    /\ deleting' = [deleting EXCEPT ![c] = "row"]
    /\ UNCHANGED <<store, audio, wform, boot, queue, retries, worker, marked, pruner, runs, used>>

(* db.delete_call: ON DELETE CASCADE, and the FTS rows by hand *)
DropRows(S) ==
    /\ row' = [c \in Calls |-> IF c \in S THEN "absent" ELSE row[c]]
    /\ transcript' = [c \in Calls |-> IF c \in S THEN 0 ELSE transcript[c]]
    /\ metrics' = [c \in Calls |-> IF c \in S THEN 0 ELSE metrics[c]]
    /\ qa' = [c \in Calls |-> IF c \in S THEN 0 ELSE qa[c]]

DeleteRow(c) ==
    /\ deleting[c] = "row"
    /\ DropRows({c})
    /\ deleting' = [deleting EXCEPT ![c] = "no"]
    /\ UNCHANGED <<born, filename, files, boot, queue, retries, worker, marked, pruner, runs, used>>

(* os.remove or db.delete_call raises: the request, which took one of the events
   when it came, ends where it is *)
DeleteFails(c) ==
    /\ deleting[c] # "no"
    /\ Note("error")
    /\ deleting' = [deleting EXCEPT ![c] = "no"]
    /\ UNCHANGED <<store, files, boot, queue, retries, worker, marked, pruner, runs>>

(* GET waveform: computes once and caches the answer beside the wav *)
GetWaveform(c) ==
    /\ phase = "serving"
    /\ Live(c) /\ audio[c]
    /\ Use("waveform")
    /\ wform' = [wform EXCEPT ![c] = TRUE]
    /\ UNCHANGED <<store, audio, wav, boot, queue, retries, worker, requests, pruner, runs>>

Request(c) ==
    \/ Upload(c) \/ ReprocessMark(c) \/ ReprocessSubmit(c)
    \/ DeleteRead(c) \/ DeleteAudio(c) \/ DeleteWav(c) \/ DeleteRow(c) \/ DeleteFails(c)
    \/ GetWaveform(c)

-----------------------------------------------------------------------------
(* The pruner: clean_uploads.run_cleanup in a thread of its own            *)

Files == {c \in Calls : audio[c]}

(* scan, and keep MaxFiles of the files: which ones is their mtimes' to say
   (module Ingest) *)
Scan ==
    /\ phase # "down"
    /\ doomed = {} /\ pruning = NoCall
    /\ doomed' \in {S \in SUBSET Files : Cardinality(S) + MaxFiles = Cardinality(Files)}
    /\ doomed' # {}
    /\ UNCHANGED <<store, files, boot, queue, retries, worker, requests, pruning, runs, used>>

(* The rows of a doomed file, whatever their status: WHERE audio_path = ? OR
   filename = ?. The second half finds the calls that were uploaded under the name
   of the stored file; their own recordings stay. *)
RowsOf(c) == {c} \cup {d \in Calls : filename[d] = c}

PruneRow_AudioFirst(c) ==
    /\ pruning = NoCall
    /\ c \in doomed
    /\ doomed' = doomed \ {c}
    /\ pruning' = c
    /\ audio' = [audio EXCEPT ![c] = FALSE]
    /\ UNCHANGED <<store, wav, wform, boot, queue, retries, worker, requests, runs, used>>
PruneRow(c) ==
    /\ pruning = NoCall
    /\ c \in doomed
    /\ doomed' = doomed \ {c}
    /\ pruning' = c
    /\ DropRows(RowsOf(c))
    /\ UNCHANGED <<born, filename, files, boot, queue, retries, worker, requests, runs, used>>

PruneFile_RowOnly ==
    /\ pruning # NoCall
    /\ pruning' = NoCall
    /\ UNCHANGED <<store, files, boot, queue, retries, worker, requests, doomed, runs, used>>
PruneFile ==
    /\ pruning # NoCall
    /\ audio' = [audio EXCEPT ![pruning] = FALSE]
    /\ pruning' = NoCall
    /\ UNCHANGED <<store, wav, wform, boot, queue, retries, worker, requests, doomed, runs, used>>

(* An exception in the middle of it is logged, and the next file is taken up:
   some of the rows may be gone, the file stays. *)
PruneRowFails(c) ==
    /\ pruning = NoCall
    /\ c \in doomed
    /\ Use("error")
    /\ doomed' = doomed \ {c}
    /\ \E S \in SUBSET RowsOf(c) : DropRows(S)
    /\ UNCHANGED <<born, filename, files, boot, queue, retries, worker, requests, pruning, runs>>

PruneFileFails ==
    /\ pruning # NoCall
    /\ Use("error")
    /\ pruning' = NoCall
    /\ UNCHANGED <<store, files, boot, queue, retries, worker, requests, doomed, runs>>

Prune ==
    \/ Scan \/ PruneFile \/ PruneFileFails
    \/ \E c \in Calls : PruneRow(c) \/ PruneRowFails(c)

-----------------------------------------------------------------------------
(* Crash and startup                                                       *)

(* what the process holds is lost *)
Halt ==
    /\ phase # "down"
    /\ Use("crash")
    /\ phase' = "down"
    /\ pending' = {}
    /\ queue' = <<>>
    /\ retries' = [c \in Calls |-> 0]
    /\ pc' = [w \in Workers |-> "idle"]
    /\ call' = [w \in Workers |-> NoCall]
    /\ run' = [w \in Workers |-> 0]
    /\ part' = [w \in Workers |-> "none"]
    /\ marked' = {}
    /\ deleting' = [c \in Calls |-> "no"]
    /\ doomed' = {}
    /\ pruning' = NoCall
    /\ UNCHANGED <<store, wav, wform, runs>>
Crash == Halt /\ UNCHANGED audio

(* reset_stuck_jobs(), then the workers and the pruner are started *)
Boot_NoReset ==
    /\ phase = "down"
    /\ phase' = "booting"
    /\ UNCHANGED <<store, files, pending, queue, retries, worker, requests, pruner, runs, used>>
Boot ==
    /\ phase = "down"
    /\ row' = [c \in Calls |-> IF row[c] = "processing" THEN "queued" ELSE row[c]]
    /\ phase' = "booting"
    /\ UNCHANGED <<born, filename, transcript, metrics, qa, files, pending, queue, retries, worker,
                   requests, pruner, runs, used>>

(* after the warm-up: pending_call_ids() *)
ReadPending ==
    /\ phase = "booting"
    /\ pending' = {c \in Calls : row[c] = "queued"}
    /\ phase' = "submitting"
    /\ UNCHANGED <<store, files, queue, retries, worker, requests, pruner, runs, used>>

(* ORDER BY created_at *)
SubmitPending_Twice(c) ==
    /\ c \in pending
    /\ \A d \in pending : born[c] =< born[d]
    /\ pending' = pending \ {c}
    /\ queue' = queue \o <<c, c>>
    /\ UNCHANGED <<store, files, phase, retries, worker, requests, pruner, runs, used>>
SubmitPending(c) ==
    /\ c \in pending
    /\ \A d \in pending : born[c] =< born[d]
    /\ pending' = pending \ {c}
    /\ queue' = Append(queue, c)
    /\ UNCHANGED <<store, files, phase, retries, worker, requests, pruner, runs, used>>

Serve ==
    /\ phase = "submitting"
    /\ pending = {}
    /\ phase' = "serving"
    /\ UNCHANGED <<store, files, pending, queue, retries, worker, requests, pruner, runs, used>>

Startup == Boot \/ ReadPending \/ (\E c \in Calls : SubmitPending(c)) \/ Serve

-----------------------------------------------------------------------------
Next ==
    \/ \E w \in Workers : WorkerStep(w) \/ HandlerDies(w)
    \/ \E c \in Calls : Request(c)
    \/ Prune
    \/ Startup
    \/ Crash

Spec == Init /\ [][Next]_vars

(* A thread that can run does run, startup() goes on, and a server that went
   down is started again. Clients, the pruner and crashes owe nothing; a
   handler that has begun to answer goes on. *)
Fairness ==
    /\ \A w \in Workers : WF_vars(WorkerStep(w))
    /\ WF_vars(Startup)
    /\ \A c \in Calls : WF_vars(ReprocessSubmit(c))

FairSpec == Spec /\ Fairness

-----------------------------------------------------------------------------
StoreOK ==
    /\ row \in [Calls -> Statuses \cup {"absent"}]
    /\ born \in [Calls -> Nat]
    /\ filename \in [Calls -> Calls \cup {NoCall}]
    /\ transcript \in [Calls -> Nat]
    /\ metrics \in [Calls -> Nat]
    /\ qa \in [Calls -> Nat]
FilesOK ==
    /\ audio \in [Calls -> BOOLEAN]
    /\ wav \in [Calls -> BOOLEAN]
    /\ wform \in [Calls -> BOOLEAN]
QueueOK ==
    /\ phase \in {"down", "booting", "submitting", "serving"}
    /\ pending \subseteq Calls
    /\ queue \in Seq(Calls)
    /\ retries \in [Calls -> Nat]
WorkersOK ==
    /\ pc \in [Workers -> {"idle", "start", "retrying", "backoff", "settling", "dead"}
                               \cup Stages \cup SaveSteps]
    /\ call \in [Workers -> Calls \cup {NoCall}]
    /\ run \in [Workers -> Nat]
    /\ part \in [Workers -> {"none", "open", "gone"}]
RequestsOK ==
    /\ marked \subseteq Calls
    /\ deleting \in [Calls -> {"no", "audio", "wav", "row"}]
    /\ doomed \subseteq Calls
    /\ pruning \in Calls \cup {NoCall}
CountersOK ==
    /\ runs \in [Calls -> Nat]
    /\ used \in [crash : Nat, reprocess : Nat, delete : Nat, waveform : Nat, fault : Nat,
                error : Nat, named : Nat]

(* Every variable holds a value of its declared kind. *)
TypeOK == StoreOK /\ FilesOK /\ QueueOK /\ WorkersOK /\ RequestsOK /\ CountersOK

(* A call the database shows as unfinished is never stranded: while the
   server runs, its job is waiting, being worked on, about to be submitted,
   or died with its worker thread. *)
Unfinished(c) == row[c] \in {"queued", "processing"}
HasJob(c) ==
    \/ Queued(c)
    \/ c \in marked \cup pending
    \/ \E w \in Workers : call[w] = c /\ pc[w] # "settling"
NoStrandedCall ==
    phase \in {"submitting", "serving"} => \A c \in Calls : Unfinished(c) => HasJob(c)

(* When clients wait for a call to settle before they ask for it again, the
   queue, the retries, the restart and the handlers never have two jobs of one
   call at work, so two threads never share a call's files. *)
Jobs(c) == {i \in DOMAIN queue : queue[i] = c}
OneJobPerCall ==
    \A c \in Calls :
        Cardinality(Jobs(c)) + Cardinality(InFlight(c))
            + Cardinality({c} \cap marked) + Cardinality({c} \cap pending) =< 1

(* No job's cleanup deletes a chunk file another job has open. *)
PartsPrivate == \A w \in Workers : part[w] # "gone"

(* A completed call has a transcript and metrics, and both come from one run
   of the pipeline. *)
CompletedHasResults ==
    \A c \in Calls : row[c] = "completed" => transcript[c] # 0 /\ metrics[c] = transcript[c]

(* The QA findings of a completed call were located in the transcript that is
   stored with them. *)
QaMatchesTranscript ==
    \A c \in Calls : row[c] = "completed" => qa[c] \in {0, transcript[c]}

(* Deleting a call in any state, also under a worker that is saving it, leaves
   nothing about it in the database. *)
DeletedLeavesNoData ==
    \A c \in Calls : ~Live(c) => transcript[c] = 0 /\ metrics[c] = 0 /\ qa[c] = 0

(* A call that is over leaves no retries behind: the next job of the call
   starts with the full budget. And the budget is never overdrawn, though
   another job of the call could raise the count between the check and the
   increment of one. *)
RetryBudget ==
    \A c \in Calls :
        /\ retries[c] =< MaxOomRetries
        /\ retries[c] # 0 => \/ Queued(c)
                             \/ \E w \in Workers : call[w] = c

(* The recording of a call is on disk for as long as its row is, unless a
   DELETE is under way, or a crash or an exception cut one short. *)
AudioKept ==
    \A c \in Calls :
        Live(c) /\ ~audio[c] =>
            deleting[c] \in {"wav", "row"} \/ used.crash > 0 \/ used.error > 0

(* Once a call has been deleted and no job or request of it is left, neither
   are files derived from it. *)
NoOrphanFiles ==
    \A c \in Calls :
        (~Live(c) /\ deleting[c] = "no" /\ ~Queued(c) /\ InFlight(c) = {} /\ pruning # c)
            => ~wav[c] /\ ~wform[c]

(* A deleted call never comes back. *)
NoResurrection == [][\A c \in Calls : born[c] # 0 /\ ~Live(c) => row'[c] = "absent"]_vars

(* An accepted recording is not dropped before it has been processed, except
   by a DELETE request. *)
AcceptedIsProcessed ==
    [][\A c \in Calls : Unfinished(c) /\ row'[c] = "absent" => deleting[c] = "row"]_vars

(* A call is removed by a DELETE request or because its own recording is one
   too many. *)
RemovedForItself ==
    [][\A c \in Calls :
          Live(c) /\ row'[c] = "absent" => deleting[c] = "row" \/ c \in doomed]_vars

(* Every unfinished call is eventually completed, failed or deleted, through
   retries, reprocessing, deletions and restarts - unless an error inside an
   exception handler has ended a worker thread, after which no worker may be
   left. *)
EveryCallEnds == \A c \in Calls : Unfinished(c) ~> ~Unfinished(c) \/ used.fault > 0

=============================================================================
