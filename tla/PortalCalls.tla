---------------------------- MODULE PortalCalls ----------------------------
(***************************************************************************)
(* The portal's calls of one client: the backend                           *)
(* (web_app/backend/src/calls/calls.service.ts, worker/worker.service.ts)  *)
(* keeps the rows in Postgres and the recordings in object storage, and    *)
(* hands jobs to the GPU service (server/app.py accept_remote_job,         *)
(* server/worker_jobs.py), which reports back over HTTP. Each handler of   *)
(* the backend is split at its awaits. Quotas are module BotQuota's; here  *)
(* the check is answered either way. A call has the name of the upload     *)
(* that created it.                                                        *)
(***************************************************************************)
EXTENDS Naturals, Sequences, FiniteSets

CONSTANTS
    Uploads,        \* POST /api/calls requests
    Contents,       \* recordings the client may send
    NoUpload,       \* "none"
    MaxEvents       \* bound: DELETE requests, crashes and faults, of all kinds together

ASSUME UploadsAssumption == NoUpload \notin Uploads
ASSUME BoundsAssumption == MaxEvents \in Nat

VARIABLES
    content,   \* what each upload sends
    pc,        \* each upload handler
    answer,    \* the call its client was told
    row,       \* the Call rows
    original,  \* recordings/<id>/original.<ext> is stored
    derived,   \* derived/<id>/audio.wav is stored
    counted,   \* times each call was counted against its bot
    minutes,   \* times its minutes were
    removing,  \* each DELETE handler
    queue,     \* worker_jobs._queue
    job,       \* the call the remote worker is at
    step,      \* the stage it reported last
    waits,     \* it waits for the answer to that report
    posts,     \* reports the backend has yet to answer
    events,    \* number of those events so far
    happened   \* which of them each call has met

upload == <<content, pc, answer>>
objects == <<original, derived>>
charges == <<counted, minutes>>
gpu == <<queue, job, step, waits>>
used == <<events, happened>>
vars == <<upload, row, objects, charges, removing, gpu, posts, used>>

-----------------------------------------------------------------------------
NoRow == [status |-> "absent", stage |-> "none", originalKey |-> FALSE, audioKey |-> FALSE,
          transcript |-> FALSE]
NewRow == [NoRow EXCEPT !.status = "QUEUED"]
Live(u) == row[u].status # "absent"

(* Stages the worker reports: STAGE_PROGRESS's nine are two here, one before
   the recording is fetched and one after the pipeline has run. *)
StatusOf(stage) ==
    CASE stage = "done" -> "COMPLETED"
      [] stage = "failed" -> "FAILED"
      [] OTHER -> "PROCESSING"

(* What a call may meet. unreachable: its dispatch is not answered in time, but
   has arrived; undelivered: it has not; crash: its job, or the report that ends
   it, dies with a process; lost: that report does not get through; timeout: a
   report of its job is answered too late; refused: the backend does not take
   its results *)
Kinds == {"unreachable", "undelivered", "crash", "lost", "timeout", "refused"}
Meet(S, kind) ==
    happened' = [u \in Uploads |-> IF u \in S THEN happened[u] \cup {kind} ELSE happened[u]]
Count == events < MaxEvents /\ events' = events + 1
Use == Count /\ UNCHANGED happened

Init ==
    /\ content \in [Uploads -> Contents]
    /\ pc = [u \in Uploads |-> "idle"]
    /\ answer = [u \in Uploads |-> NoUpload]
    /\ row = [u \in Uploads |-> NoRow]
    /\ original = [u \in Uploads |-> FALSE]
    /\ derived = [u \in Uploads |-> FALSE]
    /\ counted = [u \in Uploads |-> 0]
    /\ minutes = [u \in Uploads |-> 0]
    /\ removing = [u \in Uploads |-> "no"]
    /\ queue = <<>>
    /\ job = NoUpload
    /\ step = "idle"
    /\ waits = FALSE
    /\ posts = {}
    /\ events = 0
    /\ happened = [u \in Uploads |-> {}]

-----------------------------------------------------------------------------
(* CallsService.upload                                                     *)

Goto(u, from, to) == pc[u] = from /\ pc' = [pc EXCEPT ![u] = to]

Holders(u) == {v \in Uploads : Live(v) /\ content[v] = content[u]}

Lookup(u) ==
    /\ IF Holders(u) = {}
       THEN Goto(u, "idle", "unseen") /\ UNCHANGED answer
       ELSE /\ Goto(u, "idle", "duplicate")
            /\ answer' = [answer EXCEPT ![u] = CHOOSE v \in Holders(u) : TRUE]
    /\ UNCHANGED <<content, row, objects, charges, removing, gpu, posts, used>>

CheckQuota(u) ==
    /\ Goto(u, "unseen", "allowed") \/ Goto(u, "unseen", "refused")
    /\ UNCHANGED <<content, answer, row, objects, charges, removing, gpu, posts, used>>

(* The unique index on (ownerId, sha256) refuses a second row. *)
Create(u) ==
    /\ IF Holders(u) = {}
       THEN Goto(u, "allowed", "created") /\ row' = [row EXCEPT ![u] = NewRow]
       ELSE Goto(u, "allowed", "error") /\ UNCHANGED row
    /\ UNCHANGED <<content, answer, objects, charges, removing, gpu, posts, used>>

Put(u) ==
    /\ Goto(u, "created", "stored")
    /\ original' = [original EXCEPT ![u] = TRUE]
    /\ UNCHANGED <<content, answer, row, derived, charges, removing, gpu, posts, used>>

PutFails_Ignored(u) ==
    /\ Goto(u, "created", "stored")
    /\ Use
    /\ UNCHANGED <<content, answer, row, objects, charges, removing, gpu, posts>>
PutFails(u) ==
    /\ Goto(u, "created", "dropping")
    /\ Use
    /\ UNCHANGED <<content, answer, row, objects, charges, removing, gpu, posts>>

DropRow(u) ==
    /\ Goto(u, "dropping", "error")
    /\ row' = [row EXCEPT ![u] = NoRow]
    /\ UNCHANGED <<content, answer, objects, charges, removing, gpu, posts, used>>

(* An update of a row that has been deleted throws (P2025). *)
SetKey(u) ==
    /\ IF Live(u)
       THEN /\ Goto(u, "stored", "keyed")
            /\ row' = [row EXCEPT ![u].originalKey = TRUE]
       ELSE Goto(u, "stored", "error") /\ UNCHANGED row
    /\ UNCHANGED <<content, answer, objects, charges, removing, gpu, posts, used>>

Consume(u) ==
    /\ Goto(u, "keyed", "charged")
    /\ counted' = [counted EXCEPT ![u] = @ + 1]
    /\ UNCHANGED <<content, answer, row, objects, minutes, removing, gpu, posts, used>>

(* WorkerService.dispatch and accept_remote_job: answered in time, ... *)
Dispatch(u) ==
    /\ Goto(u, "charged", "done")
    /\ answer' = [answer EXCEPT ![u] = u]
    /\ queue' = Append(queue, u)
    /\ UNCHANGED <<content, row, objects, charges, removing, job, step, waits, posts, used>>

(* ... or not: the job may have been accepted all the same. *)
DispatchUnanswered(u) ==
    /\ Goto(u, "charged", "unsent")
    /\ Count
    /\ \/ queue' = Append(queue, u) /\ Meet({u}, "unreachable")
       \/ UNCHANGED queue /\ Meet({u}, "undelivered")
    /\ UNCHANGED <<content, answer, row, objects, charges, removing, job, step, waits, posts>>

MarkWaiting(u) ==
    /\ IF Live(u)
       THEN /\ Goto(u, "unsent", "done")
            /\ answer' = [answer EXCEPT ![u] = u]
            /\ row' = [row EXCEPT ![u].stage = "waiting for worker"]
       ELSE Goto(u, "unsent", "error") /\ UNCHANGED <<answer, row>>
    /\ UNCHANGED <<content, objects, charges, removing, gpu, posts, used>>

UploadStep(u) ==
    \/ CheckQuota(u) \/ Create(u) \/ Put(u) \/ PutFails(u) \/ DropRow(u) \/ SetKey(u)
    \/ Consume(u) \/ Dispatch(u) \/ DispatchUnanswered(u) \/ MarkWaiting(u)

-----------------------------------------------------------------------------
(* CallsService.remove: both prefixes, then the row; a failing removal of a
   prefix is swallowed.                                                    *)

RemoveStep(u, from, to) == removing[u] = from /\ removing' = [removing EXCEPT ![u] = to]

Remove(u) ==
    /\ Live(u)
    /\ Use
    /\ RemoveStep(u, "no", "original")
    /\ UNCHANGED <<upload, row, objects, charges, gpu, posts>>

RemoveOriginal(u) ==
    /\ RemoveStep(u, "original", "derived")
    /\ \/ original' = [original EXCEPT ![u] = FALSE] /\ UNCHANGED used
       \/ Use /\ UNCHANGED original
    /\ UNCHANGED <<upload, row, derived, charges, gpu, posts>>

RemoveDerived(u) ==
    /\ RemoveStep(u, "derived", "row")
    /\ \/ derived' = [derived EXCEPT ![u] = FALSE] /\ UNCHANGED used
       \/ Use /\ UNCHANGED derived
    /\ UNCHANGED <<upload, row, original, charges, gpu, posts>>

RemoveRow(u) ==
    /\ RemoveStep(u, "row", "done")
    /\ row' = [row EXCEPT ![u] = NoRow]
    /\ UNCHANGED <<upload, objects, charges, gpu, posts, used>>

-----------------------------------------------------------------------------
(* worker_jobs: one thread; worker_api.report blocks it until the backend
   answers, whatever the answer says, or ten seconds have passed, and never
   raises.                                                                 *)

(* Results may be larger than a body the backend reads, or lack the QA. *)
Bodies(stage) == IF stage = "done" THEN {"ok", "large", "no qa"} ELSE {"ok"}

Send(u, stage) ==
    /\ step' = stage
    /\ waits' = TRUE
    /\ \E body \in Bodies(stage) :
          posts' = posts \cup {[call |-> u, stage |-> stage, body |-> body, at |-> "sent"]}

TakeJob ==
    /\ job = NoUpload
    /\ queue # <<>>
    /\ job' = Head(queue)
    /\ queue' = Tail(queue)
    /\ Send(Head(queue), "downloading")
    /\ UNCHANGED <<upload, row, objects, charges, removing, used>>

(* fetch_object and the pipeline: without the recording, or if a stage
   raises, the job has failed. *)
Process_Silent ==
    /\ step = "downloading" /\ ~waits
    /\ \/ original[job] /\ Send(job, "saving") /\ UNCHANGED job
       \/ /\ job' = NoUpload
          /\ step' = "idle"
          /\ UNCHANGED <<waits, posts>>
    /\ UNCHANGED <<upload, row, objects, charges, removing, queue, used>>
Process_NoWait ==
    /\ step = "downloading"
    /\ (original[job] /\ Send(job, "saving")) \/ Send(job, "failed")
    /\ UNCHANGED <<upload, row, objects, charges, removing, queue, job, used>>
Process ==
    /\ step = "downloading" /\ ~waits
    /\ (original[job] /\ Send(job, "saving")) \/ Send(job, "failed")
    /\ UNCHANGED <<upload, row, objects, charges, removing, queue, job, used>>

(* put_object of the converted audio, which may fail, and the results *)
Finish ==
    /\ step = "saving" /\ ~waits
    /\ \/ derived' = [derived EXCEPT ![job] = TRUE] /\ UNCHANGED used
       \/ Use /\ UNCHANGED derived
    /\ Send(job, "done")
    /\ UNCHANGED <<upload, row, original, charges, removing, queue, job>>

(* with a retry of the last report, which the code does not have *)
EndJob_Resend ==
    /\ step \in {"done", "failed"} /\ ~waits
    /\ \/ job' = NoUpload /\ step' = "idle" /\ UNCHANGED <<waits, posts, used>>
       \/ Use /\ Send(job, step) /\ UNCHANGED job
    /\ UNCHANGED <<upload, row, objects, charges, removing, queue>>
EndJob ==
    /\ step \in {"done", "failed"} /\ ~waits
    /\ job' = NoUpload
    /\ step' = "idle"
    /\ UNCHANGED <<upload, row, objects, charges, removing, queue, waits, posts, used>>

Jobs == {queue[i] : i \in DOMAIN queue} \cup ({job} \ {NoUpload})

WorkerStep == TakeJob \/ Process \/ Finish \/ EndJob

-----------------------------------------------------------------------------
(* CallsService.applyProgress, and what HTTP may do to a report            *)

Reaches(p, at) == posts' = (posts \ {p}) \cup {[p EXCEPT !.at = at]}

Answered(p) ==
    /\ posts' = posts \ {p}
    /\ waits' = (waits /\ ~(job = p.call /\ step = p.stage))

(* The body parser's limit, before the handler runs; or the update throws, which
   takes no null for the QA. *)
Refuse(p) ==
    /\ \/ p.at = "sent" /\ p.body = "large"
       \/ p.at = "found" /\ p.body = "no qa"
    /\ Answered(p)
    /\ Meet({p.call}, "refused")
    /\ UNCHANGED <<upload, row, objects, charges, removing, queue, job, step, events>>

Find(p) ==
    /\ p.at = "sent" /\ p.body # "large"
    /\ IF Live(p.call) THEN Reaches(p, "found") /\ UNCHANGED waits ELSE Answered(p)
    /\ UNCHANGED <<upload, row, objects, charges, removing, queue, job, step, used>>

Reported(r, stage) ==
    [r EXCEPT !.status = StatusOf(stage), !.stage = stage, !.transcript = @ \/ stage = "done"]

(* The update names the fields the report has; the row may be gone by now. *)
Update_Upsert(p) ==
    /\ p.at = "found" /\ p.body # "no qa"
    /\ row' = [row EXCEPT ![p.call] = Reported(@, p.stage)]
    /\ IF p.stage = "done" THEN Reaches(p, "charging") /\ UNCHANGED waits ELSE Answered(p)
    /\ UNCHANGED <<upload, objects, charges, removing, queue, job, step, used>>
Update(p) ==
    /\ p.at = "found" /\ p.body # "no qa"
    /\ row' = IF Live(p.call) THEN [row EXCEPT ![p.call] = Reported(@, p.stage)] ELSE row
    /\ IF Live(p.call) /\ p.stage = "done"
       THEN Reaches(p, "charging") /\ UNCHANGED waits
       ELSE Answered(p)
    /\ UNCHANGED <<upload, objects, charges, removing, queue, job, step, used>>

ChargeMinutes(p) ==
    /\ p.at = "charging"
    /\ minutes' = [minutes EXCEPT ![p.call] = @ + 1]
    /\ Answered(p)
    /\ UNCHANGED <<upload, row, objects, counted, removing, queue, job, step, used>>

Handle(p) == Find(p) \/ Refuse(p) \/ Update(p) \/ ChargeMinutes(p)

(* The reports that set a final status *)
Final(p) == p.stage \in {"done", "failed"}

Lose(p) ==
    /\ p.at = "sent"
    /\ Count
    /\ IF Final(p) THEN Meet({p.call}, "lost") ELSE UNCHANGED happened
    /\ Answered(p)
    /\ UNCHANGED <<upload, row, objects, charges, removing, queue, job, step>>

(* The worker gives up; the report it sent is still under way. *)
TimeOut ==
    /\ waits
    /\ Count
    /\ Meet({job}, "timeout")
    /\ waits' = FALSE
    /\ UNCHANGED <<upload, row, objects, charges, removing, queue, job, step, posts>>

-----------------------------------------------------------------------------
Pending == {"unseen", "allowed", "created", "dropping", "stored", "keyed", "charged", "unsent"}

CrashBackend ==
    /\ Count
    /\ Meet({p.call : p \in {q \in posts : Final(q)}}, "crash")
    /\ pc' = [u \in Uploads |-> IF pc[u] \in Pending THEN "lost" ELSE pc[u]]
    /\ removing' = [u \in Uploads |->
          IF removing[u] \in {"original", "derived", "row"} THEN "cut off" ELSE removing[u]]
    /\ posts' = {}
    /\ waits' = FALSE
    /\ UNCHANGED <<content, answer, row, objects, charges, queue, job, step>>

(* The queue is in memory and the files in outputs/_remote are only a copy. *)
CrashGpu ==
    /\ Count
    /\ Meet(Jobs, "crash")
    /\ queue' = <<>>
    /\ job' = NoUpload
    /\ step' = "idle"
    /\ waits' = FALSE
    /\ UNCHANGED <<upload, row, objects, charges, removing, posts>>

Next ==
    \/ \E u \in Uploads :
          \/ Lookup(u) \/ UploadStep(u)
          \/ Remove(u) \/ RemoveOriginal(u) \/ RemoveDerived(u) \/ RemoveRow(u)
    \/ WorkerStep
    \/ \E p \in posts : Handle(p) \/ Lose(p)
    \/ TimeOut
    \/ CrashBackend
    \/ CrashGpu

Spec == Init /\ [][Next]_vars

(* Handlers that have begun and the worker thread run on. *)
Fairness ==
    /\ \A u \in Uploads : WF_vars(UploadStep(u))
    /\ WF_vars(WorkerStep)
    /\ WF_vars(\E p \in posts : Handle(p))
FairSpec == Spec /\ Fairness

-----------------------------------------------------------------------------
Rows == [status : {"absent", "QUEUED", "PROCESSING", "COMPLETED", "FAILED"},
         stage : {"none", "waiting for worker", "downloading", "saving", "done", "failed"},
         originalKey : BOOLEAN, audioKey : BOOLEAN, transcript : BOOLEAN]
Reports == [call : Uploads, stage : {"downloading", "saving", "done", "failed"},
            body : {"ok", "large", "no qa"}, at : {"sent", "found", "charging"}]

HandlersOK ==
    /\ content \in [Uploads -> Contents]
    /\ pc \in [Uploads -> Pending \cup {"idle", "duplicate", "refused", "error", "done", "lost"}]
    /\ answer \in [Uploads -> Uploads \cup {NoUpload}]
    /\ removing \in [Uploads -> {"no", "original", "derived", "row", "done", "cut off"}]
RowsOK == row \in [Uploads -> Rows]
StoreOK ==
    /\ original \in [Uploads -> BOOLEAN]
    /\ derived \in [Uploads -> BOOLEAN]
    /\ counted \in [Uploads -> Nat]
    /\ minutes \in [Uploads -> Nat]
GpuOK ==
    /\ queue \in Seq(Uploads)
    /\ job \in Uploads \cup {NoUpload}
    /\ step \in {"idle", "downloading", "saving", "done", "failed"}
    /\ waits \in BOOLEAN
    /\ job = NoUpload <=> step = "idle"
    /\ waits => job # NoUpload
PostsOK == posts \subseteq Reports
EventsOK == events \in 0..MaxEvents /\ happened \in [Uploads -> SUBSET Kinds]

(* Every variable holds a value of its declared kind; a worker that waits for
   an answer has a job it reported on. *)
TypeOK == HandlersOK /\ RowsOK /\ StoreOK /\ GpuOK /\ PostsOK /\ EventsOK

(* What reaches the GPU is there to be processed and has been counted: a job
   whose call is not being removed has its recording stored, the row says
   where, and the call was counted against its bot once, whatever failed,
   crashed or was retried on the way. *)
JobsAreReady ==
    \A u \in Jobs :
        /\ counted[u] = 1
        /\ Live(u) /\ removing[u] = "no" => original[u] /\ row[u].originalKey

(* A report that was slow between its look-up and its update does not bring
   back the row of a removed call. *)
NoGhostRow ==
    [][\A u \in Uploads : removing[u] = "done" => ~Live(u)']_vars

(* A call has its minutes counted at most once, however late or out of order
   its reports arrive. *)
MinutesOnce == \A u \in Uploads : minutes[u] =< 1

(* The portal shows a completed call as done, and not at some earlier stage:
   the reports of a call take effect in the order they were made, also when the
   backend or the GPU service restarts, reports are lost or refused and other
   calls' reports time out - unless the worker gave up waiting for an answer to
   one of its own, or the upload for its dispatch. *)
Met(u, kinds) == happened[u] \cap kinds # {}
StageTruthful ==
    \A u \in Uploads :
        row[u].transcript /\ ~Met(u, {"timeout", "unreachable"}) => row[u].stage = "done"

(* An upload answered with a call of its own ends, in results, in a failure or
   by being deleted, whatever other calls meet and whichever of its earlier
   reports are lost. What keeps a call for ever at its status is what befell
   the call itself: nothing in the code sends a job or a report again, or looks
   at the answer to one. *)
Ended(u) == row[u].status \in {"COMPLETED", "FAILED", "absent"}
Fatal == {"undelivered", "crash", "lost", "timeout", "refused"}
EveryCallEnds == \A u \in Uploads : pc[u] = "done" ~> Ended(u) \/ Met(u, Fatal)

-----------------------------------------------------------------------------
(* What the documents say and the code does not do (README, section 6)     *)

(* A call whose dispatch failed "stays queued and can be retried". *)
UnsentAreRetried ==
    \A u \in Uploads : pc[u] = "done" ~> Ended(u) \/ Met(u, Fatal \ {"undelivered"})

(* "Progress is reported per stage so the portal can show something truthful" *)
AlwaysTruthful == \A u \in Uploads : row[u].transcript => row[u].stage = "done"

(* "A failed QA pass must not lose the transcript" *)
ResultsArrive == \A u \in Uploads : pc[u] = "done" ~> Ended(u) \/ Met(u, Fatal \ {"refused"})

(* The portal plays the converted audio, which the timestamps of the
   transcript refer to, whenever it is stored. *)
Played(u) == IF row[u].audioKey THEN "derived" ELSE "original"
PlaysConverted ==
    \A u \in Uploads : row[u].status = "COMPLETED" /\ derived[u] => Played(u) = "derived"

(* The call named in the answer to a duplicate upload is one that its client
   has, unless they delete it. *)
DuplicateIsOriginal ==
    \A u \in Uploads :
        pc[u] = "duplicate" => Live(answer[u]) \/ removing[answer[u]] # "no"

=============================================================================
