------------------------------- MODULE Ingest -------------------------------
(***************************************************************************)
(* How a recording gets into the local server and out of it again: the     *)
(* upload coroutine (server/uploads.py ingest, called by server/app.py     *)
(* upload_call), the DELETE handler, the pruner (server/clean_uploads.py)  *)
(* and the sweep at startup. Jobs are seen from outside only: they wait,   *)
(* run and end (module JobQueue has the inside).                           *)
(*                                                                         *)
(* Uploads share one event loop: what a coroutine does between two awaits  *)
(* is one step for the other uploads. The handful of statements from       *)
(* os.replace to jobs.submit is one step for the worker and pruner threads *)
(* too; a crash or a failing insert may still come in the middle of it. A  *)
(* call has the name of the upload that created it. Module LocalServer     *)
(* puts the real job queue in the place of the one assumed here.           *)
(***************************************************************************)
EXTENDS Naturals, FiniteSets

CONSTANTS
    Uploads,      \* POST /api/calls requests
    Contents,     \* recordings a client may send
    NoUpload,     \* "none"
    MaxQueue,     \* MAX_QUEUE
    MaxChunks,    \* MAX_BYTES in chunks
    MaxFiles,     \* MAX_FILES of the pruner
    MaxEvents     \* bound: crashes, DELETE and reprocess requests, failing inserts and
                  \* removals, uploads named like a stored file

ASSUME UploadsAssumption == NoUpload \notin Uploads
ASSUME LimitsAssumption ==
    {MaxQueue, MaxChunks, MaxFiles, MaxEvents} \subseteq Nat

VARIABLES
    phase,     \* the server process: "down" or "up"
    pc,        \* each upload request
    content,   \* what it sends
    written,   \* chunks it has written to its temporary file
    tmp,       \* that file exists in .incoming
    answer,    \* the call the client was told
    status,    \* row of the call
    created,   \* rank of created_at
    filename,  \* whose stored file has the name it was uploaded under, NoUpload: nobody's
    audio,     \* uploads/{id}.{ext} exists
    mtime,     \* rank of the file's last write
    waiting,   \* calls in jobs._queue
    deleting,  \* DELETE requests: what each removes next, "no" when there is none
    doomed,    \* files the pruner will delete
    pruning,   \* the file it is deleting
    clock,     \* writes so far
    used       \* those events so far, by kind

upload == <<pc, content, written, tmp, answer>>
store == <<status, created, filename, audio, mtime>>
pruner == <<doomed, pruning>>
vars == <<phase, upload, store, waiting, deleting, pruner, clock, used>>

-----------------------------------------------------------------------------
Live(u) == status[u] # "absent"
Files == {u \in Uploads : audio[u]}

Note(event) == used' = [used EXCEPT ![event] = @ + 1]

Use(event) ==
    /\ used.crash + used.delete + used.reprocess + used.fault + used.error + used.named
           < MaxEvents
    /\ Note(event)

Init ==
    /\ phase = "down"
    /\ pc = [u \in Uploads |-> "idle"]
    /\ content \in [Uploads -> Contents]
    /\ written = [u \in Uploads |-> 0]
    /\ tmp = [u \in Uploads |-> FALSE]
    /\ answer = [u \in Uploads |-> NoUpload]
    /\ status = [u \in Uploads |-> "absent"]
    /\ created = [u \in Uploads |-> 0]
    /\ filename = [u \in Uploads |-> NoUpload]
    /\ audio = [u \in Uploads |-> FALSE]
    /\ mtime = [u \in Uploads |-> 0]
    /\ waiting = {}
    /\ deleting = [u \in Uploads |-> "no"]
    /\ doomed = {}
    /\ pruning = NoUpload
    /\ clock = 0
    /\ used = [crash |-> 0, delete |-> 0, reprocess |-> 0, fault |-> 0, error |-> 0,
               named |-> 0]

-----------------------------------------------------------------------------
(* upload_call and ingest                                                  *)

(* jobs.depth() is read and checked when the request arrives. *)
Arrive(u) ==
    /\ phase = "up"
    /\ pc[u] = "idle"
    /\ IF Cardinality(waiting) >= MaxQueue
       THEN /\ pc' = [pc EXCEPT ![u] = "rejected"]
            /\ UNCHANGED tmp
       ELSE /\ pc' = [pc EXCEPT ![u] = "streaming"]
            /\ tmp' = [tmp EXCEPT ![u] = TRUE]
    /\ UNCHANGED <<phase, content, written, answer, store, waiting, deleting, pruner, clock, used>>

(* stream_to_disk: one chunk per await; the cap is applied before the write. *)
Receive(u) ==
    /\ pc[u] = "streaming"
    /\ written[u] < MaxChunks
    /\ written' = [written EXCEPT ![u] = @ + 1]
    /\ clock' = clock + 1
    /\ mtime' = [mtime EXCEPT ![u] = clock + 1]
    /\ UNCHANGED <<phase, pc, content, tmp, answer, status, created, filename, audio, waiting,
                   deleting, pruner, used>>

(* Too large, empty, not decodable, cancelled, or the disk is full: an
   exception, and the finally block removes the temporary file. *)
Reject_AfterMove(u) ==
    /\ pc[u] = "streaming"
    /\ pc' = [pc EXCEPT ![u] = "rejected"]
    /\ tmp' = [tmp EXCEPT ![u] = FALSE]
    /\ audio' = [audio EXCEPT ![u] = written[u] > 0]
    /\ UNCHANGED <<phase, content, written, answer, status, created, filename, mtime,
                   waiting, deleting, pruner, clock, used>>
Reject(u) ==
    /\ pc[u] = "streaming"
    /\ pc' = [pc EXCEPT ![u] = "rejected"]
    /\ tmp' = [tmp EXCEPT ![u] = FALSE]
    /\ UNCHANGED <<phase, content, written, answer, store, waiting, deleting, pruner, clock, used>>

(* find_by_hash: the oldest call of this content that has not failed;
   _find_duplicate: it counts only if its recording is still there. *)
Candidates(u) == {v \in Uploads : status[v] \notin {"absent", "failed"} /\ content[v] = content[u]}
Oldest(S) == CHOOSE v \in S : \A x \in S : created[v] =< created[x]
FindDuplicate_Never(u) == NoUpload
FindDuplicate(u) ==
    IF Candidates(u) = {} \/ ~audio[Oldest(Candidates(u))] THEN NoUpload
    ELSE Oldest(Candidates(u))

Streamed(u) == pc[u] = "streaming" /\ written[u] > 0

AnswerDuplicate(u) ==
    /\ Streamed(u)
    /\ FindDuplicate(u) # NoUpload
    /\ pc' = [pc EXCEPT ![u] = "duplicate"]
    /\ answer' = [answer EXCEPT ![u] = FindDuplicate(u)]
    /\ tmp' = [tmp EXCEPT ![u] = FALSE]
    /\ UNCHANGED <<phase, content, written, store, waiting, deleting, pruner, clock, used>>

(* From the last await to the answer the coroutine does not yield: duplicate
   check, probe, os.replace, insert and jobs.submit are one step. The client may
   have named its recording like a file the server has stored. *)
Accept(u) ==
    /\ Streamed(u)
    /\ FindDuplicate(u) = NoUpload
    /\ pc' = [pc EXCEPT ![u] = "accepted"]
    /\ answer' = [answer EXCEPT ![u] = u]
    /\ tmp' = [tmp EXCEPT ![u] = FALSE]
    /\ audio' = [audio EXCEPT ![u] = TRUE]
    /\ status' = [status EXCEPT ![u] = "queued"]
    /\ created' = [created EXCEPT ![u] = 1 + Cardinality({v \in Uploads : created[v] # 0})]
    /\ waiting' = waiting \cup {u}
    /\ \/ UNCHANGED <<filename, used>>
       \/ /\ Use("named")
          /\ \E v \in Uploads : created[v] # 0 /\ filename' = [filename EXCEPT ![u] = v]
    /\ UNCHANGED <<phase, content, written, mtime, deleting, pruner, clock>>

(* The insert raises after os.replace has moved the file. *)
InsertFails(u) ==
    /\ Use("fault")
    /\ Streamed(u)
    /\ FindDuplicate(u) = NoUpload
    /\ pc' = [pc EXCEPT ![u] = "rejected"]
    /\ tmp' = [tmp EXCEPT ![u] = FALSE]
    /\ audio' = [audio EXCEPT ![u] = TRUE]
    /\ UNCHANGED <<phase, content, written, answer, status, created, filename, mtime,
                   waiting, deleting, pruner, clock>>

UploadStep(u) ==
    Arrive(u) \/ Receive(u) \/ Reject(u) \/ AnswerDuplicate(u) \/ Accept(u) \/ InsertFails(u)

-----------------------------------------------------------------------------
(* The job queue, from outside: what uploads, DELETE and the pruner need to  *)
(* know of it                                                              *)

(* at startup, after a CUDA OOM, and when a call is asked for again *)
Enqueue(u) ==
    /\ phase = "up"
    /\ created[u] # 0
    /\ waiting' = waiting \cup {u}
    /\ UNCHANGED <<phase, upload, store, deleting, pruner, clock, used>>

Dequeue(u) ==
    /\ u \in waiting
    /\ waiting' = waiting \ {u}
    /\ UNCHANGED <<phase, upload, store, deleting, pruner, clock, used>>

SetStatus(u, s) ==
    /\ status' = [status EXCEPT ![u] = s]
    /\ UNCHANGED <<phase, upload, created, filename, audio, mtime, waiting, deleting, pruner,
                   clock>>

Begin(u) ==
    /\ phase = "up"
    /\ status[u] \in {"queued", "processing"}
    /\ SetStatus(u, "processing")
    /\ UNCHANGED used

(* a job may fail before it has said that it is at work *)
End(u) ==
    /\ phase = "up"
    /\ \/ status[u] = "processing" /\ SetStatus(u, "completed")
       \/ status[u] \in {"queued", "processing"} /\ SetStatus(u, "failed")
    /\ UNCHANGED used

Reprocess(u) ==
    /\ phase = "up"
    /\ Use("reprocess")
    /\ Live(u)
    /\ SetStatus(u, "processing")

JobStep(u) == Enqueue(u) \/ Dequeue(u) \/ Begin(u) \/ End(u) \/ Reprocess(u)

-----------------------------------------------------------------------------
(* DELETE, the pruner, crashes                                             *)

DeleteRead(u) ==
    /\ phase = "up"
    /\ Use("delete")
    /\ Live(u) /\ deleting[u] = "no"
    /\ deleting' = [deleting EXCEPT ![u] = "file"]
    /\ UNCHANGED <<phase, upload, store, waiting, pruner, clock>>

DeleteFile(u) ==
    /\ deleting[u] = "file"
    /\ audio' = [audio EXCEPT ![u] = FALSE]
    /\ deleting' = [deleting EXCEPT ![u] = "row"]
    /\ UNCHANGED <<phase, upload, status, created, filename, mtime, waiting, pruner, clock, used>>

DropRows(S) == status' = [u \in Uploads |-> IF u \in S THEN "absent" ELSE status[u]]

DeleteRow(u) ==
    /\ deleting[u] = "row"
    /\ deleting' = [deleting EXCEPT ![u] = "no"]
    /\ DropRows({u})
    /\ UNCHANGED <<phase, upload, created, filename, audio, mtime, waiting, pruner, clock, used>>

(* os.remove or db.delete_call raises: the request, which took one of the events
   when it came, ends where it is *)
DeleteFails(u) ==
    /\ deleting[u] # "no"
    /\ Note("error")
    /\ deleting' = [deleting EXCEPT ![u] = "no"]
    /\ UNCHANGED <<phase, upload, store, waiting, pruner, clock>>

(* run_cleanup sorts by mtime, newest first, and keeps the first MaxFiles *)
Newer(u) == {v \in Files : mtime[v] > mtime[u]}
Scan_OldestFirst ==
    /\ phase = "up"
    /\ doomed = {} /\ pruning = NoUpload
    /\ Cardinality(Files) > MaxFiles
    /\ doomed' = {u \in Files : Cardinality({v \in Files : mtime[v] < mtime[u]}) >= MaxFiles}
    /\ UNCHANGED <<phase, upload, store, waiting, deleting, pruning, clock, used>>
Scan ==
    /\ phase = "up"
    /\ doomed = {} /\ pruning = NoUpload
    /\ Cardinality(Files) > MaxFiles
    /\ doomed' = {u \in Files : Cardinality(Newer(u)) >= MaxFiles}
    /\ UNCHANGED <<phase, upload, store, waiting, deleting, pruning, clock, used>>

(* WHERE audio_path = ? OR filename = ? *)
RowsOf(u) == {u} \cup {v \in Uploads : filename[v] = u}

PruneRow(u) ==
    /\ pruning = NoUpload
    /\ u \in doomed
    /\ doomed' = doomed \ {u}
    /\ pruning' = u
    /\ DropRows(RowsOf(u))
    /\ UNCHANGED <<phase, upload, created, filename, audio, mtime, waiting, deleting, clock, used>>

PruneFile_RowOnly ==
    /\ pruning # NoUpload
    /\ pruning' = NoUpload
    /\ UNCHANGED <<phase, upload, store, waiting, deleting, doomed, clock, used>>
PruneFile ==
    /\ pruning # NoUpload
    /\ audio' = [audio EXCEPT ![pruning] = FALSE]
    /\ pruning' = NoUpload
    /\ UNCHANGED <<phase, upload, status, created, filename, mtime, waiting, deleting, doomed,
                   clock, used>>

(* An exception is logged, and the next file is taken up: some of the rows may be
   gone, the file stays. *)
PruneRowFails(u) ==
    /\ pruning = NoUpload
    /\ u \in doomed
    /\ Use("error")
    /\ doomed' = doomed \ {u}
    /\ \E S \in SUBSET RowsOf(u) : DropRows(S)
    /\ UNCHANGED <<phase, upload, created, filename, audio, mtime, waiting, deleting, pruning,
                   clock>>

PruneFileFails ==
    /\ pruning # NoUpload
    /\ Use("error")
    /\ pruning' = NoUpload
    /\ UNCHANGED <<phase, upload, store, waiting, deleting, doomed, clock>>

Prune ==
    \/ Scan \/ PruneFile \/ PruneFileFails
    \/ \E u \in Uploads : PruneRow(u) \/ PruneRowFails(u)

(* A coroutine dies where it awaits, or between os.replace and the insert. *)
Crash ==
    /\ phase = "up"
    /\ Use("crash")
    /\ phase' = "down"
    /\ pc' = [u \in Uploads |-> IF pc[u] = "streaming" THEN "lost" ELSE pc[u]]
    /\ waiting' = {}
    /\ deleting' = [u \in Uploads |-> "no"]
    /\ doomed' = {}
    /\ pruning' = NoUpload
    /\ \/ UNCHANGED <<tmp, audio>>
       \/ \E u \in Uploads :
             /\ Streamed(u) /\ FindDuplicate(u) = NoUpload
             /\ tmp' = [tmp EXCEPT ![u] = FALSE]
             /\ audio' = [audio EXCEPT ![u] = TRUE]
    /\ UNCHANGED <<content, written, answer, status, created, filename, mtime, clock>>

(* startup(): reset_stuck_jobs and cleanup_incoming; the pending calls are
   submitted later (Enqueue), its steps are apart in JobQueue (Boot .. Serve) *)
Restart_NoSweep ==
    /\ phase = "down"
    /\ phase' = "up"
    /\ status' = [u \in Uploads |-> IF status[u] = "processing" THEN "queued" ELSE status[u]]
    /\ UNCHANGED <<pc, content, written, tmp, answer, created, filename, audio, mtime, waiting,
                   deleting, pruner, clock, used>>
Restart ==
    /\ phase = "down"
    /\ phase' = "up"
    /\ status' = [u \in Uploads |-> IF status[u] = "processing" THEN "queued" ELSE status[u]]
    /\ tmp' = [u \in Uploads |-> FALSE]
    /\ UNCHANGED <<pc, content, written, answer, created, filename, audio, mtime, waiting,
                   deleting, pruner, clock, used>>

Next ==
    \/ \E u \in Uploads :
          \/ UploadStep(u) \/ JobStep(u)
          \/ DeleteRead(u) \/ DeleteFile(u) \/ DeleteRow(u) \/ DeleteFails(u)
    \/ Prune \/ Crash \/ Restart

Spec == Init /\ [][Next]_vars

(* The pruner wakes every five minutes and works its list off. *)
FairSpec == Spec /\ WF_vars(Prune) /\ WF_vars(Restart)

-----------------------------------------------------------------------------
(* Every variable holds a value of its declared kind, and no temporary file
   is larger than MAX_BYTES. *)
TypeOK ==
    /\ phase \in {"down", "up"}
    /\ pc \in [Uploads -> {"idle", "streaming", "accepted", "rejected", "duplicate", "lost"}]
    /\ content \in [Uploads -> Contents]
    /\ written \in [Uploads -> 0..MaxChunks]
    /\ tmp \in [Uploads -> BOOLEAN]
    /\ answer \in [Uploads -> Uploads \cup {NoUpload}]
    /\ status \in [Uploads -> {"absent", "queued", "processing", "completed", "failed"}]
    /\ created \in [Uploads -> Nat]
    /\ filename \in [Uploads -> Uploads \cup {NoUpload}]
    /\ audio \in [Uploads -> BOOLEAN]
    /\ mtime \in [Uploads -> Nat]
    /\ waiting \subseteq Uploads
    /\ deleting \in [Uploads -> {"no", "file", "row"}]
    /\ doomed \subseteq Uploads
    /\ pruning \in Uploads \cup {NoUpload}
    /\ clock \in Nat
    /\ used \in [crash : Nat, delete : Nat, reprocess : Nat, fault : Nat, error : Nat,
                named : Nat]

(* An upload that was refused, cut off by its client or by a crash leaves
   nothing behind: its partial file is gone by the time requests are served,
   and one that was refused at any point, whatever else went on, has neither
   file nor row, unless its insert failed. *)
LeftBehind(u) == tmp[u] \/ audio[u] \/ Live(u)
RefusedLeavesNothing ==
    phase = "up" => \A u \in Uploads :
        /\ tmp[u] => pc[u] = "streaming"
        /\ pc[u] = "rejected" /\ used.fault = 0 => ~LeftBehind(u)

(* However uploads of one recording overlap, only one call is transcribed for
   it: no two calls that have not failed hold the same content - unless a
   DELETE or a reprocess request came between. *)
OneCallPerRecording ==
    \A u, v \in Uploads :
        /\ u # v
        /\ used.delete = 0 /\ used.reprocess = 0
        /\ {status[u], status[v]} \cap {"absent", "failed"} = {}
        /\ audio[u] /\ audio[v]
        => content[u] # content[v]

(* The pruner removes a recording only while MaxFiles newer ones are kept, as
   long as no DELETE has made its list stale. *)
KeptNewest(u) == Cardinality(Newer(u)) >= MaxFiles
Pruned(u) == u = pruning /\ audio[u] /\ ~audio'[u]
PrunerKeepsNewest ==
    [][\A u \in Uploads : Pruned(u) /\ used.delete = 0 => KeptNewest(u)]_vars

(* Too many recordings do not stay: the pruner gets back to MaxFiles, through
   uploads, deletions and crashes. *)
PrunerCatchesUp == (Cardinality(Files) > MaxFiles) ~> (Cardinality(Files) =< MaxFiles)

-----------------------------------------------------------------------------
(* What the documents say without the conditions above, and the code does not
   do (README, section 6)                                                  *)

(* "Rejected or interrupted uploads leave nothing behind." *)
NothingLeftBehind ==
    phase = "up" => \A u \in Uploads : pc[u] \in {"rejected", "lost"} => ~LeftBehind(u)

(* An upload is taken in as a new call only if no call holds its content. *)
KnownIsDuplicate ==
    [][\A u \in Uploads : pc[u] # "accepted" /\ pc'[u] = "accepted" =>
          \A v \in Uploads : status[v] \notin {"absent", "failed"} /\ audio[v]
                              => content[v] # content[u]]_vars

(* The backlog never grows past MAX_QUEUE. *)
BacklogBounded == Cardinality(waiting) =< MaxQueue

(* The pruner "keeps max_files newest files". *)
KeepsMaxFiles == [][\A u \in Uploads : Pruned(u) => KeptNewest(u)]_vars

=============================================================================
