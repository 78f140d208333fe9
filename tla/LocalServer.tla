------------------------------ MODULE LocalServer ------------------------------
(***************************************************************************)
(* The local server as a whole: the job queue, its workers and requests    *)
(* (module JobQueue) and the uploads that feed it (module Ingest) over one *)
(* database, one upload directory and one process. Ingest assumes a job    *)
(* queue it knows little about; here the real one takes its place, and     *)
(* ImplementsIngest says that it is what Ingest assumed.                   *)
(***************************************************************************)
EXTENDS JobQueue

CONSTANTS
    Contents,    \* recordings a client may send
    MaxQueue,    \* MAX_QUEUE
    MaxChunks,   \* MAX_BYTES in chunks
    MaxInserts   \* bound: inserts of a call that fail

ASSUME IngestAssumption == {MaxQueue, MaxChunks, MaxInserts} \subseteq Nat

VARIABLES
    upc,      \* each upload request, named after the call it may become
    content, written, tmp, answer, mtime, clock,  \* as in Ingest
    inserts   \* inserts that have failed

upload == <<upc, content, written, tmp, answer, mtime, clock, inserts>>
serverVars == <<vars, upload>>

(* What the uploads see of the job queue, and of the rest of the server *)
Waiting == {c \in Calls : Queued(c)}
Removing == [c \in Calls |-> CASE deleting[c] = "no" -> "no"
                               [] deleting[c] = "audio" -> "file"
                               [] OTHER -> "row"]
Events == [crash |-> used.crash, delete |-> used.delete, reprocess |-> used.reprocess,
           fault |-> inserts, error |-> used.error, named |-> used.named]

Uploading == INSTANCE Ingest WITH
    Uploads <- Calls, NoUpload <- NoCall, MaxEvents <- MaxEvents + MaxInserts,
    phase <- IF phase = "down" THEN "down" ELSE "up",
    pc <- upc, status <- row, created <- born, waiting <- Waiting,
    deleting <- Removing, used <- Events

-----------------------------------------------------------------------------
ServerInit ==
    /\ Init
    /\ upc = [c \in Calls |-> "idle"]
    /\ content \in [Calls -> Contents]
    /\ written = [c \in Calls |-> 0]
    /\ tmp = [c \in Calls |-> FALSE]
    /\ answer = [c \in Calls |-> NoCall]
    /\ mtime = [c \in Calls |-> 0]
    /\ clock = 0
    /\ inserts = 0

(* upload_call up to the point where the recording is accepted, or is not *)
Receiving(c) ==
    /\ phase = "serving"
    /\ UNCHANGED <<vars, inserts>>
    /\ \/ Uploading!Arrive(c) \/ Uploading!Receive(c)
       \/ Uploading!Reject(c) \/ Uploading!AnswerDuplicate(c)

(* os.replace, the insert and jobs.submit *)
Accept_Blind(c) ==
    /\ upc[c] = "streaming" /\ written[c] > 0
    /\ Upload(c)
    /\ upc' = [upc EXCEPT ![c] = "accepted"]
    /\ answer' = [answer EXCEPT ![c] = c]
    /\ tmp' = [tmp EXCEPT ![c] = FALSE]
    /\ UNCHANGED <<content, written, mtime, clock, inserts>>
Accept(c) ==
    /\ Upload(c)
    /\ UNCHANGED inserts
    /\ Uploading!Accept(c)

(* os.replace, and the insert raises *)
StoreFails(c) ==
    /\ phase = "serving"
    /\ inserts < MaxInserts
    /\ inserts' = inserts + 1
    /\ UNCHANGED <<store, wav, wform, boot, queue, retries, worker, requests, pruner, runs, used>>
    /\ Uploading!InsertFails(c)

(* The process goes down with the uploads it is receiving, one of them perhaps
   between os.replace and the insert. *)
GoDown == Halt /\ UNCHANGED inserts /\ Uploading!Crash

(* startup(): the rows are reset, the partial uploads swept *)
ComeUp == Boot /\ UNCHANGED inserts /\ Uploading!Restart

(* The pruner goes by the mtimes of the recordings. *)
ScanUploads == Scan /\ UNCHANGED inserts /\ Uploading!Scan

(* Everything else the server does leaves the uploads alone. *)
Elsewhere ==
    /\ UNCHANGED upload
    /\ \/ \E w \in Workers : WorkerStep(w) \/ HandlerDies(w)
       \/ \E c \in Calls :
             \/ ReprocessMark(c) \/ ReprocessSubmit(c) \/ GetWaveform(c)
             \/ DeleteRead(c) \/ DeleteAudio(c) \/ DeleteWav(c) \/ DeleteRow(c)
             \/ DeleteFails(c) \/ PruneRow(c) \/ PruneRowFails(c) \/ SubmitPending(c)
       \/ PruneFile \/ PruneFileFails \/ ReadPending \/ Serve

ServerNext ==
    \/ \E c \in Calls : Receiving(c) \/ Accept(c) \/ StoreFails(c)
    \/ GoDown \/ ComeUp \/ ScanUploads
    \/ Elsewhere

ServerSpec == ServerInit /\ [][ServerNext]_serverVars

-----------------------------------------------------------------------------
(* To the uploads, the server behaves as Ingest has it: the job queue, the
   requests, the pruner and the restarts do to the rows and the recordings
   only what Ingest assumes of them, at the moments it assumes. What is shown
   of Ingest holds of the server. *)
ImplementsIngest == Uploading!Spec

(* No recording stays behind without a call that leads to it: through uploads,
   deletions and the pruner, at once or in a crowd, every file without a row is
   one the pruner is about to remove, or is accounted for by a fault - one by
   each failing insert or failing removal, two by each crash (it may cut an
   upload and the pruner short). Left out are calls named like a stored file,
   whose rows may go with that file. *)
Unreachable == {c \in Calls : audio[c] /\ ~Live(c) /\ pruning # c /\ filename[c] = NoCall}
FilesHaveCalls ==
    Cardinality(Unreachable) =< inserts + 2 * used.crash + used.error

=============================================================================
