------------------------- MODULE PortalCalls_proofs -------------------------
(***************************************************************************)
(* Theorems about PortalCalls, for any set of uploads and recordings and   *)
(* any number of removals, crashes, lost reports and time-outs.            *)
(***************************************************************************)
EXTENDS PortalCalls, TLAPS

USE DEF upload, objects, charges, gpu, used

(* Requests of clients, and what the backend does with a report *)
RemoveAction(u) == Remove(u) \/ RemoveOriginal(u) \/ RemoveDerived(u) \/ RemoveRow(u)
ReportAction(p) == Handle(p) \/ Lose(p)

LEMMA StepCases ==
  ASSUME [Next]_vars
  PROVE  \/ \E u \in Uploads : Lookup(u) \/ UploadStep(u)
         \/ \E u \in Uploads : RemoveAction(u)
         \/ WorkerStep
         \/ \E p \in posts : ReportAction(p)
         \/ TimeOut \/ CrashBackend \/ CrashGpu \/ UNCHANGED vars
  BY DEF Next, RemoveAction, ReportAction

-----------------------------------------------------------------------------
(***************************************************************************)
(* Type correctness. That a job is at a stage, and that a worker which     *)
(* waits has a job, is what lets row[job] and original[job] be used.       *)
(***************************************************************************)
LEMMA ReportedIsRow ==
  ASSUME NEW r \in Rows, NEW stage \in {"downloading", "saving", "done", "failed"}
  PROVE  /\ Reported(r, stage) \in Rows
         /\ Reported(r, stage).status = StatusOf(stage)
         /\ Reported(r, stage).status # "absent"
         /\ Reported(r, stage).stage = stage
         /\ Reported(r, stage).originalKey = r.originalKey
         /\ Reported(r, stage).transcript = (r.transcript \/ stage = "done")
  BY DEF Reported, Rows, StatusOf

LEMMA NewRowIsRow ==
  /\ NewRow \in Rows /\ NewRow.status = "QUEUED"
  /\ NoRow \in Rows /\ NoRow.status = "absent"
  BY DEF NewRow, NoRow, Rows

(* The two updates of one field of a row, SetKey's and MarkWaiting's *)
LEMMA KeyOfRow ==
  ASSUME NEW r \in Rows
  PROVE  /\ [r EXCEPT !.originalKey = TRUE] \in Rows
         /\ [r EXCEPT !.originalKey = TRUE].status = r.status
         /\ [r EXCEPT !.originalKey = TRUE].transcript = r.transcript
         /\ [r EXCEPT !.originalKey = TRUE].stage = r.stage
         /\ [r EXCEPT !.originalKey = TRUE].originalKey
  BY DEF Rows

LEMMA StageOfRow ==
  ASSUME NEW r \in Rows
  PROVE  /\ [r EXCEPT !.stage = "waiting for worker"] \in Rows
         /\ [r EXCEPT !.stage = "waiting for worker"].status = r.status
         /\ [r EXCEPT !.stage = "waiting for worker"].transcript = r.transcript
         /\ [r EXCEPT !.stage = "waiting for worker"].originalKey = r.originalKey
  BY DEF Rows

LEMMA KeyNamed ==
  ASSUME RowsOK, NEW u \in Uploads, row' = [row EXCEPT ![u].originalKey = TRUE]
  PROVE  /\ RowsOK'
         /\ row'[u].status = row[u].status /\ row'[u].transcript = row[u].transcript
         /\ row'[u].originalKey /\ row'[u].stage = row[u].stage
<1>1. row \in [Uploads -> Rows] /\ row[u] \in Rows
  BY DEF RowsOK
<1>2. row'[u] = [row[u] EXCEPT !.originalKey = TRUE]
  BY <1>1
<1>3. row' \in [Uploads -> Rows]
  BY <1>1, KeyOfRow
<1>4. QED BY <1>1, <1>2, <1>3, KeyOfRow DEF RowsOK

LEMMA StageShown ==
  ASSUME RowsOK, NEW u \in Uploads, row' = [row EXCEPT ![u].stage = "waiting for worker"]
  PROVE  /\ RowsOK'
         /\ row'[u].status = row[u].status /\ row'[u].transcript = row[u].transcript
         /\ row'[u].originalKey = row[u].originalKey
<1>1. row \in [Uploads -> Rows] /\ row[u] \in Rows
  BY DEF RowsOK
<1>2. row'[u] = [row[u] EXCEPT !.stage = "waiting for worker"]
  BY <1>1
<1>3. row' \in [Uploads -> Rows]
  BY <1>1, StageOfRow
<1>4. QED BY <1>1, <1>2, <1>3, StageOfRow DEF RowsOK

LEMMA ReportFields ==
  ASSUME NEW p \in Reports
  PROVE  p.call \in Uploads /\ p.stage \in {"downloading", "saving", "done", "failed"}
BY Zenon DEF Reports

LEMMA NewReport ==
  ASSUME NEW u \in Uploads, NEW stage \in {"downloading", "saving", "done", "failed"},
         PostsOK, Send(u, stage)
  PROVE  PostsOK'
<1>1. PICK body \in Bodies(stage) :
           posts' = posts \cup {[call |-> u, stage |-> stage, body |-> body, at |-> "sent"]}
  BY DEF Send
<1>2. body \in {"ok", "large", "no qa"}
  BY DEF Bodies
<1>3. [call |-> u, stage |-> stage, body |-> body, at |-> "sent"] \in Reports
  BY <1>2 DEF Reports
<1>4. QED BY <1>1, <1>3 DEF PostsOK

(* What a call has met it keeps. *)
LEMMA MeetTyped ==
  ASSUME EventsOK, NEW S, NEW kind \in Kinds, Meet(S, kind)
  PROVE  /\ happened' \in [Uploads -> SUBSET Kinds]
         /\ \A u \in Uploads : happened[u] \subseteq happened'[u]
         /\ \A u \in Uploads \cap S : kind \in happened'[u]
  BY DEF Meet, EventsOK

LEMMA EventTyped ==
  ASSUME EventsOK, Count \/ UNCHANGED events, happened' \in [Uploads -> SUBSET Kinds]
  PROVE  EventsOK'
<1>1. CASE UNCHANGED events
  BY <1>1 DEF EventsOK
<1>2. CASE Count
  BY <1>2, BoundsAssumption DEF EventsOK, Count
<1>3. QED BY <1>1, <1>2

LEMMA NoJobTyped == queue = <<>> /\ job = NoUpload /\ step = "idle" /\ waits = FALSE => GpuOK
<1>1. <<>> \in Seq(Uploads)
  OBVIOUS
<1>2. QED BY <1>1 DEF GpuOK

LEMMA InitTyped == Init => TypeOK
<1> USE DEF Init
<1>1. Init => HandlersOK
  BY DEF HandlersOK
<1>2. Init => RowsOK
  BY DEF RowsOK, NoRow, Rows
<1>3. Init => StoreOK
  BY DEF StoreOK
<1>4. Init => GpuOK
  BY NoJobTyped
<1>5. Init => PostsOK /\ EventsOK
  BY BoundsAssumption DEF PostsOK, EventsOK
<1>6. QED BY <1>1, <1>2, <1>3, <1>4, <1>5 DEF TypeOK

LEMMA UploadTyped ==
  ASSUME TypeOK, NEW u \in Uploads, Lookup(u) \/ UploadStep(u)
  PROVE  TypeOK'
<1> USE DEF TypeOK, Goto, Pending
<1>1. CASE Lookup(u)
  <2>1. HandlersOK'
    <3>1. \/ answer' = answer
          \/ \E v \in Uploads : answer' = [answer EXCEPT ![u] = v]
      BY <1>1 DEF Lookup, Holders
    <3>2. answer' \in [Uploads -> Uploads \cup {NoUpload}]
      BY <3>1 DEF HandlersOK
    <3>3. QED BY <1>1, <3>2 DEF Lookup, HandlersOK
  <2>2. RowsOK' /\ StoreOK' /\ GpuOK' /\ PostsOK' /\ EventsOK'
    BY <1>1 DEF Lookup, RowsOK, StoreOK, GpuOK, PostsOK, EventsOK
  <2>3. QED BY <2>1, <2>2
<1>2. CASE CheckQuota(u)
  <2>1. HandlersOK'
    BY <1>2 DEF CheckQuota, HandlersOK
  <2>2. RowsOK' /\ StoreOK' /\ GpuOK' /\ PostsOK' /\ EventsOK'
    BY <1>2 DEF CheckQuota, RowsOK, StoreOK, GpuOK, PostsOK, EventsOK
  <2>3. QED BY <2>1, <2>2
<1>3. CASE Create(u)
  <2>1. HandlersOK'
    BY <1>3 DEF Create, HandlersOK
  <2>2. RowsOK'
    BY <1>3, NewRowIsRow DEF Create, RowsOK
  <2>3. StoreOK' /\ GpuOK' /\ PostsOK' /\ EventsOK'
    BY <1>3 DEF Create, StoreOK, GpuOK, PostsOK, EventsOK
  <2>4. QED BY <2>1, <2>2, <2>3
<1>4. CASE Put(u)
  <2>1. HandlersOK'
    BY <1>4 DEF Put, HandlersOK
  <2>2. StoreOK'
    BY <1>4 DEF Put, StoreOK
  <2>3. RowsOK' /\ GpuOK' /\ PostsOK' /\ EventsOK'
    BY <1>4 DEF Put, RowsOK, GpuOK, PostsOK, EventsOK
  <2>4. QED BY <2>1, <2>2, <2>3
<1>5. CASE PutFails(u)
  <2>1. HandlersOK'
    BY <1>5 DEF PutFails, HandlersOK
  <2>2. EventsOK'
    BY <1>5, EventTyped DEF PutFails, Use, EventsOK
  <2>3. RowsOK' /\ StoreOK' /\ GpuOK' /\ PostsOK'
    BY <1>5 DEF PutFails, RowsOK, StoreOK, GpuOK, PostsOK
  <2>4. QED BY <2>1, <2>2, <2>3
<1>6. CASE DropRow(u)
  <2>1. HandlersOK'
    BY <1>6 DEF DropRow, HandlersOK
  <2>2. RowsOK'
    BY <1>6, NewRowIsRow DEF DropRow, RowsOK
  <2>3. StoreOK' /\ GpuOK' /\ PostsOK' /\ EventsOK'
    BY <1>6 DEF DropRow, StoreOK, GpuOK, PostsOK, EventsOK
  <2>4. QED BY <2>1, <2>2, <2>3
<1>7. CASE SetKey(u)
  <2>1. HandlersOK'
    BY <1>7 DEF SetKey, HandlersOK
  <2>2. RowsOK'
    BY <1>7, KeyNamed DEF SetKey, RowsOK
  <2>3. StoreOK' /\ GpuOK' /\ PostsOK' /\ EventsOK'
    BY <1>7 DEF SetKey, StoreOK, GpuOK, PostsOK, EventsOK
  <2>4. QED BY <2>1, <2>2, <2>3
<1>8. CASE Consume(u)
  <2>1. HandlersOK'
    BY <1>8 DEF Consume, HandlersOK
  <2>2. StoreOK'
    BY <1>8 DEF Consume, StoreOK
  <2>3. RowsOK' /\ GpuOK' /\ PostsOK' /\ EventsOK'
    BY <1>8 DEF Consume, RowsOK, GpuOK, PostsOK, EventsOK
  <2>4. QED BY <2>1, <2>2, <2>3
<1>9. CASE Dispatch(u)
  <2>1. HandlersOK'
    BY <1>9 DEF Dispatch, HandlersOK
  <2>2. GpuOK'
    BY <1>9 DEF Dispatch, GpuOK
  <2>3. RowsOK' /\ StoreOK' /\ PostsOK' /\ EventsOK'
    BY <1>9 DEF Dispatch, RowsOK, StoreOK, PostsOK, EventsOK
  <2>4. QED BY <2>1, <2>2, <2>3
<1>10. CASE DispatchUnanswered(u)
  <2>1. HandlersOK'
    BY <1>10 DEF DispatchUnanswered, HandlersOK
  <2>2. GpuOK'
    BY <1>10 DEF DispatchUnanswered, GpuOK
  <2>3. EventsOK'
    BY <1>10, EventTyped, MeetTyped DEF DispatchUnanswered, Kinds, EventsOK
  <2>4. RowsOK' /\ StoreOK' /\ PostsOK'
    BY <1>10 DEF DispatchUnanswered, RowsOK, StoreOK, PostsOK
  <2>5. QED BY <2>1, <2>2, <2>3, <2>4
<1>11. CASE MarkWaiting(u)
  <2>1. HandlersOK'
    <3>1. pc' \in [Uploads -> Pending \cup {"idle", "duplicate", "refused", "error", "done",
          "lost"}]
      BY <1>11 DEF MarkWaiting, HandlersOK
    <3>2. answer' \in [Uploads -> Uploads \cup {NoUpload}]
      BY <1>11 DEF MarkWaiting, HandlersOK
    <3>3. QED BY <1>11, <3>1, <3>2 DEF MarkWaiting, HandlersOK
  <2>2. RowsOK'
    BY <1>11, StageShown DEF MarkWaiting, RowsOK
  <2>3. StoreOK' /\ GpuOK' /\ PostsOK' /\ EventsOK'
    BY <1>11 DEF MarkWaiting, StoreOK, GpuOK, PostsOK, EventsOK
  <2>4. QED BY <2>1, <2>2, <2>3
<1>12. QED
  BY <1>1, <1>2, <1>3, <1>4, <1>5, <1>6, <1>7, <1>8, <1>9, <1>10, <1>11 DEF UploadStep

LEMMA RemoveTyped ==
  ASSUME TypeOK, NEW u \in Uploads, RemoveAction(u)
  PROVE  TypeOK'
<1> USE DEF TypeOK, RemoveStep
<1>1. CASE Remove(u)
  <2>1. HandlersOK'
    BY <1>1 DEF Remove, HandlersOK
  <2>2. EventsOK'
    BY <1>1, EventTyped DEF Remove, Use, EventsOK
  <2>3. RowsOK' /\ StoreOK' /\ GpuOK' /\ PostsOK'
    BY <1>1 DEF Remove, RowsOK, StoreOK, GpuOK, PostsOK
  <2>4. QED BY <2>1, <2>2, <2>3
<1>2. CASE RemoveOriginal(u)
  <2>1. HandlersOK'
    BY <1>2 DEF RemoveOriginal, HandlersOK
  <2>2. StoreOK'
    BY <1>2 DEF RemoveOriginal, StoreOK
  <2>3. EventsOK'
    BY <1>2, EventTyped DEF RemoveOriginal, Use, EventsOK
  <2>4. RowsOK' /\ GpuOK' /\ PostsOK'
    BY <1>2 DEF RemoveOriginal, RowsOK, GpuOK, PostsOK
  <2>5. QED BY <2>1, <2>2, <2>3, <2>4
<1>3. CASE RemoveDerived(u)
  <2>1. HandlersOK'
    BY <1>3 DEF RemoveDerived, HandlersOK
  <2>2. StoreOK'
    BY <1>3 DEF RemoveDerived, StoreOK
  <2>3. EventsOK'
    BY <1>3, EventTyped DEF RemoveDerived, Use, EventsOK
  <2>4. RowsOK' /\ GpuOK' /\ PostsOK'
    BY <1>3 DEF RemoveDerived, RowsOK, GpuOK, PostsOK
  <2>5. QED BY <2>1, <2>2, <2>3, <2>4
<1>4. CASE RemoveRow(u)
  <2>1. HandlersOK'
    BY <1>4 DEF RemoveRow, HandlersOK
  <2>2. RowsOK'
    BY <1>4, NewRowIsRow DEF RemoveRow, RowsOK
  <2>3. StoreOK' /\ GpuOK' /\ PostsOK' /\ EventsOK'
    BY <1>4 DEF RemoveRow, StoreOK, GpuOK, PostsOK, EventsOK
  <2>4. QED BY <2>1, <2>2, <2>3
<1>5. QED
  BY <1>1, <1>2, <1>3, <1>4 DEF RemoveAction

LEMMA WorkerTyped ==
  ASSUME TypeOK, WorkerStep
  PROVE  TypeOK'
<1> USE UploadsAssumption DEF TypeOK
<1>1. CASE TakeJob
  <2>1. Head(queue) \in Uploads /\ Tail(queue) \in Seq(Uploads)
    BY <1>1 DEF TakeJob, GpuOK
  <2>2. GpuOK'
    BY <1>1, <2>1 DEF TakeJob, Send, GpuOK
  <2>3. PostsOK'
    BY <1>1, <2>1, NewReport DEF TakeJob
  <2>4. HandlersOK' /\ RowsOK' /\ StoreOK' /\ EventsOK'
    BY <1>1 DEF TakeJob, HandlersOK, RowsOK, StoreOK, EventsOK
  <2>5. QED BY <2>2, <2>3, <2>4
<1>2. CASE Process
  <2>1. GpuOK'
    BY <1>2 DEF Process, Send, GpuOK
  <2>2. PostsOK'
    BY <1>2, NewReport DEF Process, GpuOK
  <2>3. HandlersOK' /\ RowsOK' /\ StoreOK' /\ EventsOK'
    BY <1>2 DEF Process, HandlersOK, RowsOK, StoreOK, EventsOK
  <2>4. QED BY <2>1, <2>2, <2>3
<1>3. CASE Finish
  <2>1. GpuOK'
    BY <1>3 DEF Finish, Send, GpuOK
  <2>2. PostsOK'
    BY <1>3, NewReport DEF Finish, GpuOK
  <2>3. StoreOK'
    BY <1>3 DEF Finish, StoreOK
  <2>4. EventsOK'
    BY <1>3, EventTyped DEF Finish, Use, EventsOK
  <2>5. HandlersOK' /\ RowsOK'
    BY <1>3 DEF Finish, HandlersOK, RowsOK
  <2>6. QED BY <2>1, <2>2, <2>3, <2>4, <2>5
<1>4. CASE EndJob
  <2>1. GpuOK'
    BY <1>4 DEF EndJob, GpuOK
  <2>2. HandlersOK' /\ RowsOK' /\ StoreOK' /\ PostsOK' /\ EventsOK'
    BY <1>4 DEF EndJob, HandlersOK, RowsOK, StoreOK, PostsOK, EventsOK
  <2>3. QED BY <2>1, <2>2
<1>5. QED
  BY <1>1, <1>2, <1>3, <1>4 DEF WorkerStep

LEMMA ReportTyped ==
  ASSUME TypeOK, NEW p \in posts, ReportAction(p)
  PROVE  TypeOK'
<1> USE DEF TypeOK
<1>1. p \in Reports
  BY DEF PostsOK
<1>2. ASSUME Answered(p) PROVE PostsOK' /\ waits' \in BOOLEAN /\ (waits' => waits)
  BY <1>2 DEF Answered, PostsOK, GpuOK
<1>3. ASSUME NEW at \in {"found", "charging"}, Reaches(p, at) PROVE PostsOK'
  BY <1>1, <1>3 DEF Reaches, Reports, PostsOK
<1>9. CASE Refuse(p)
  <2>1. PostsOK' /\ GpuOK'
    BY <1>2, <1>9 DEF Refuse, GpuOK
  <2>2. EventsOK'
    BY <1>9, EventTyped, MeetTyped DEF Refuse, Kinds, EventsOK
  <2>3. HandlersOK' /\ RowsOK' /\ StoreOK'
    BY <1>9 DEF Refuse, HandlersOK, RowsOK, StoreOK
  <2>4. QED BY <2>1, <2>2, <2>3
<1>4. CASE Find(p)
  <2>1. PostsOK' /\ GpuOK'
    BY <1>2, <1>3, <1>4 DEF Find, GpuOK
  <2>2. HandlersOK' /\ RowsOK' /\ StoreOK' /\ EventsOK'
    BY <1>4 DEF Find, HandlersOK, RowsOK, StoreOK, EventsOK
  <2>3. QED BY <2>1, <2>2
<1>5. CASE Update(p)
  <2>1. PostsOK' /\ GpuOK'
    BY <1>2, <1>3, <1>5 DEF Update, GpuOK
  <2>2. RowsOK'
    <3>1. p.call \in Uploads /\ Reported(row[p.call], p.stage) \in Rows
      BY <1>1, ReportFields, ReportedIsRow DEF RowsOK
    <3>2. QED BY <1>5, <3>1 DEF Update, RowsOK
  <2>3. HandlersOK' /\ StoreOK' /\ EventsOK'
    BY <1>5 DEF Update, HandlersOK, StoreOK, EventsOK
  <2>4. QED BY <2>1, <2>2, <2>3
<1>6. CASE ChargeMinutes(p)
  <2>1. PostsOK' /\ GpuOK'
    BY <1>2, <1>6 DEF ChargeMinutes, GpuOK
  <2>2. StoreOK'
    BY <1>1, <1>6, ReportFields DEF ChargeMinutes, StoreOK
  <2>3. HandlersOK' /\ RowsOK' /\ EventsOK'
    BY <1>6 DEF ChargeMinutes, HandlersOK, RowsOK, EventsOK
  <2>4. QED BY <2>1, <2>2, <2>3
<1>7. CASE Lose(p)
  <2>1. PostsOK' /\ GpuOK'
    BY <1>2, <1>7 DEF Lose, GpuOK
  <2>2. EventsOK'
    BY <1>7, EventTyped, MeetTyped DEF Lose, Kinds, EventsOK
  <2>3. HandlersOK' /\ RowsOK' /\ StoreOK'
    BY <1>7 DEF Lose, HandlersOK, RowsOK, StoreOK
  <2>4. QED BY <2>1, <2>2, <2>3
<1>8. QED
  BY <1>4, <1>5, <1>6, <1>7, <1>9 DEF ReportAction, Handle

LEMMA OtherTyped ==
  ASSUME TypeOK, TimeOut \/ CrashBackend \/ CrashGpu \/ UNCHANGED vars
  PROVE  TypeOK'
<1> USE DEF TypeOK, Pending
<1>1. CASE TimeOut
  <2>1. GpuOK'
    BY <1>1 DEF TimeOut, GpuOK
  <2>2. EventsOK'
    BY <1>1, EventTyped, MeetTyped DEF TimeOut, Kinds, EventsOK
  <2>3. HandlersOK' /\ RowsOK' /\ StoreOK' /\ PostsOK'
    BY <1>1 DEF TimeOut, HandlersOK, RowsOK, StoreOK, PostsOK
  <2>4. QED BY <2>1, <2>2, <2>3
<1>2. CASE CrashBackend
  <2>1. HandlersOK'
    BY <1>2 DEF CrashBackend, HandlersOK
  <2>2. GpuOK'
    BY <1>2 DEF CrashBackend, GpuOK
  <2>3. PostsOK'
    BY <1>2 DEF CrashBackend, PostsOK
  <2>4. EventsOK'
    BY <1>2, EventTyped, MeetTyped DEF CrashBackend, Kinds, EventsOK
  <2>5. RowsOK' /\ StoreOK'
    BY <1>2 DEF CrashBackend, RowsOK, StoreOK
  <2>6. QED BY <2>1, <2>2, <2>3, <2>4, <2>5
<1>3. CASE CrashGpu
  <2>1. GpuOK'
    <3>1. queue' = <<>> /\ job' = NoUpload /\ step' = "idle" /\ waits' = FALSE
      BY <1>3 DEF CrashGpu
    <3>2. <<>> \in Seq(Uploads)
      OBVIOUS
    <3>3. QED BY <3>1, <3>2 DEF GpuOK
  <2>2. EventsOK'
    BY <1>3, EventTyped, MeetTyped DEF CrashGpu, Kinds, EventsOK
  <2>3. HandlersOK' /\ RowsOK' /\ StoreOK' /\ PostsOK'
    BY <1>3 DEF CrashGpu, HandlersOK, RowsOK, StoreOK, PostsOK
  <2>4. QED BY <2>1, <2>2, <2>3
<1>4. CASE UNCHANGED vars
  BY <1>4 DEF vars, HandlersOK, RowsOK, StoreOK, GpuOK, PostsOK, EventsOK
<1>5. QED
  BY <1>1, <1>2, <1>3, <1>4

(* Every variable of the portal's calls keeps its kind, through all handlers
   of CallsService, the worker thread and its reports. *)
THEOREM TypeCorrect == Spec => []TypeOK
<1>1. TypeOK /\ [Next]_vars => TypeOK'
  BY StepCases, UploadTyped, RemoveTyped, WorkerTyped, ReportTyped, OtherTyped
<1>2. QED
  BY <1>1, InitTyped, PTL DEF Spec

-----------------------------------------------------------------------------
(***************************************************************************)
(* What a job can rely on. An upload passes its stages once, so it has one *)
(* job at most, and that only when it has been counted; until a removal    *)
(* begins, the objects and keys it has put in place stay there.            *)
(***************************************************************************)
Coming == {"idle", "unseen", "allowed", "created", "dropping", "stored", "keyed"}
Sent == {"unsent", "done", "error", "lost"}

CountedOnce(u) ==
    /\ pc[u] \in Coming => counted[u] = 0
    /\ pc[u] = "charged" => counted[u] = 1
    /\ u \in Jobs => pc[u] \in Sent /\ counted[u] = 1

InPlace(u) ==
    Live(u) /\ removing[u] = "no" =>
        /\ pc[u] \in {"stored", "keyed", "charged"} \/ u \in Jobs => original[u]
        /\ pc[u] \in {"keyed", "charged"} \/ u \in Jobs => row[u].originalKey

ReadyInv == \A u \in Uploads : CountedOnce(u) /\ InPlace(u)

InQueue == {queue[i] : i \in DOMAIN queue}
QueuedOnce == \A i, j \in DOMAIN queue : queue[i] = queue[j] => i = j

(* Submitting adds a job, taking one moves the head out of the queue. *)
LEMMA QueueGrows ==
  ASSUME queue \in Seq(Uploads), NEW u \in Uploads, queue' = Append(queue, u)
  PROVE  /\ InQueue' = InQueue \cup {u}
         /\ QueuedOnce /\ u \notin InQueue => QueuedOnce'
<1>1. /\ DOMAIN queue = 1..Len(queue) /\ DOMAIN queue' = 1..(Len(queue) + 1) /\ Len(queue) \in Nat
      /\ queue'[Len(queue) + 1] = u /\ \A i \in 1..Len(queue) : queue'[i] = queue[i]
  OBVIOUS
<1>2. \A v : v \in InQueue' <=> v \in InQueue \/ v = u
  BY <1>1 DEF InQueue
<1>3. InQueue' = InQueue \cup {u}
  BY <1>2
<1>4. QueuedOnce /\ u \notin InQueue => QueuedOnce'
  BY <1>1 DEF QueuedOnce, InQueue
<1>5. QED BY <1>3, <1>4

LEMMA HeadLeaves ==
  ASSUME queue \in Seq(Uploads), queue # <<>>, queue' = Tail(queue)
  PROVE  /\ Head(queue) \in Uploads
         /\ InQueue = InQueue' \cup {Head(queue)}
         /\ QueuedOnce => QueuedOnce' /\ Head(queue) \notin InQueue'
<1>1. /\ DOMAIN queue = 1..Len(queue) /\ Len(queue) \in Nat \ {0}
         /\ DOMAIN queue' = 1..(Len(queue) - 1)
      /\ Head(queue) = queue[1] /\ \A i \in 1..(Len(queue) - 1) : queue'[i] = queue[i + 1]
  OBVIOUS
<1>2. \A v : v \in InQueue' \/ v = Head(queue) => v \in InQueue
  BY <1>1 DEF InQueue
<1>3. ASSUME NEW i \in DOMAIN queue PROVE queue[i] \in InQueue' \/ queue[i] = Head(queue)
  <2>1. CASE i = 1
    BY <1>1, <2>1
  <2>2. CASE i # 1
    <3>1. i - 1 \in DOMAIN queue' /\ queue'[i - 1] = queue[i]
      BY <1>1, <2>2
    <3>2. QED BY <3>1 DEF InQueue
  <2>3. QED BY <2>1, <2>2
<1>4. InQueue = InQueue' \cup {Head(queue)}
  BY <1>2, <1>3 DEF InQueue
<1>5. ASSUME QueuedOnce PROVE QueuedOnce' /\ Head(queue) \notin InQueue'
  <2>1. ASSUME NEW i \in 1..(Len(queue) - 1), NEW j \in 1..(Len(queue) - 1), queue'[i] = queue'[j]
        PROVE  i = j
    <3>1. i + 1 \in DOMAIN queue /\ j + 1 \in DOMAIN queue /\ queue[i + 1] = queue[j + 1]
      BY <1>1, <2>1
    <3>2. i + 1 = j + 1
      BY <1>5, <3>1 DEF QueuedOnce
    <3>3. QED BY <3>2
  <2>2. ASSUME NEW i \in 1..(Len(queue) - 1) PROVE queue'[i] # Head(queue)
    <3>1. 1 \in DOMAIN queue /\ i + 1 \in DOMAIN queue /\ i + 1 # 1
      BY <1>1, <2>2
    <3>2. QED BY <1>1, <1>5, <3>1 DEF QueuedOnce
  <2>3. QED BY <1>1, <2>1, <2>2 DEF QueuedOnce, InQueue
<1>6. QED BY <1>1, <1>4, <1>5

LEMMA JobsAre == Jobs = InQueue \cup ({job} \ {NoUpload})
  BY DEF Jobs, InQueue

LEMMA JobsSubmitted ==
  ASSUME GpuOK, NEW u \in Uploads, queue' = Append(queue, u), job' = job
  PROVE  Jobs' = Jobs \cup {u}
<1>1. InQueue' = InQueue \cup {u}
  BY QueueGrows DEF GpuOK
<1>2. QED BY <1>1, JobsAre DEF Jobs, InQueue

LEMMA WorkerJobs ==
  ASSUME TypeOK, WorkerStep
  PROVE  Jobs' \subseteq Jobs
<1>1. CASE TakeJob
  <2>1. queue \in Seq(Uploads) /\ queue # <<>> /\ queue' = Tail(queue) /\ job' = Head(queue)
    BY <1>1 DEF TakeJob, TypeOK, GpuOK
  <2>2. InQueue = InQueue' \cup {Head(queue)}
    BY <2>1, HeadLeaves
  <2>3. QED BY <2>1, <2>2 DEF Jobs, InQueue
<1>2. CASE Process \/ Finish \/ EndJob
  BY <1>2 DEF Process, Finish, EndJob, Send, Jobs, TypeOK, GpuOK
<1>3. QED BY <1>1, <1>2 DEF WorkerStep

LEMMA InitReady == Init => ReadyInv
  BY DEF Init, ReadyInv, CountedOnce, InPlace, Jobs, Live, NoRow, Coming, Sent

LEMMA OwnHandler ==
  ASSUME TypeOK, NEW u \in Uploads, Lookup(u) \/ UploadStep(u), NEW v \in Uploads, v # u
  PROVE  /\ pc'[v] = pc[v] /\ row'[v] = row[v] /\ original'[v] = original[v]
         /\ counted'[v] = counted[v] /\ UNCHANGED <<minutes, removing>>
         /\ v \in Jobs' => v \in Jobs
<1> USE DEF Goto
<1>1. /\ pc \in [Uploads -> Pending \cup {"idle", "duplicate", "refused", "error", "done", "lost"}]
      /\ row \in [Uploads -> Rows] /\ original \in [Uploads -> BOOLEAN]
         /\ counted \in [Uploads -> Nat]
  BY DEF TypeOK, HandlersOK, RowsOK, StoreOK
<1>2. CASE Dispatch(u)
  BY <1>1, <1>2, JobsSubmitted DEF Dispatch, TypeOK
<1>3. CASE DispatchUnanswered(u)
  BY <1>1, <1>3, JobsSubmitted DEF DispatchUnanswered, TypeOK, Jobs
<1>4. CASE Lookup(u) \/ CheckQuota(u) \/ Create(u) \/ Put(u) \/ PutFails(u)
  BY <1>1, <1>4 DEF Lookup, CheckQuota, Create, Put, PutFails, Jobs
<1>5. CASE DropRow(u) \/ SetKey(u) \/ Consume(u) \/ MarkWaiting(u)
  BY <1>1, <1>5 DEF DropRow, SetKey, Consume, MarkWaiting, Jobs
<1>6. QED
  BY <1>2, <1>3, <1>4, <1>5 DEF UploadStep

LEMMA UploadReady ==
  ASSUME TypeOK, ReadyInv, NEW u \in Uploads, Lookup(u) \/ UploadStep(u)
  PROVE  ReadyInv'
<1>1. \A v \in Uploads : v # u => CountedOnce(v)' /\ InPlace(v)'
  BY OwnHandler DEF ReadyInv, CountedOnce, InPlace, Live
<1>2. /\ pc \in [Uploads -> Pending \cup {"idle", "duplicate", "refused", "error", "done", "lost"}]
      /\ row \in [Uploads -> Rows] /\ original \in [Uploads -> BOOLEAN]
         /\ counted \in [Uploads -> Nat]
  BY DEF TypeOK, HandlersOK, RowsOK, StoreOK
<1>3. CountedOnce(u) /\ InPlace(u)
  BY DEF ReadyInv
<1>4. CountedOnce(u)' /\ InPlace(u)'
  <2> USE DEF CountedOnce, InPlace, Goto, Live, Coming, Sent
  <2>1. ASSUME UNCHANGED <<queue, job>> PROVE Jobs' = Jobs
    BY <2>1 DEF Jobs
  <2>2. CASE Lookup(u)
    BY <1>2, <1>3, <2>1, <2>2 DEF Lookup
  <2>3. CASE CheckQuota(u)
    BY <1>2, <1>3, <2>1, <2>3 DEF CheckQuota
  <2>4. CASE Create(u)
    BY <1>2, <1>3, <2>1, <2>4 DEF Create
  <2>5. CASE Put(u)
    BY <1>2, <1>3, <2>1, <2>5 DEF Put
  <2>6. CASE PutFails(u)
    BY <1>2, <1>3, <2>1, <2>6 DEF PutFails
  <2>7. CASE DropRow(u)
    BY <1>2, <1>3, <2>1, <2>7, NewRowIsRow DEF DropRow
  <2>8. CASE SetKey(u)
    <3>1. UNCHANGED <<queue, job, original, counted, removing>> /\ pc[u] = "stored"
      BY <2>8 DEF SetKey
    <3>2. CASE Live(u)
      <4>1. pc'[u] = "keyed" /\ row' = [row EXCEPT ![u].originalKey = TRUE]
        BY <1>2, <2>8, <3>2 DEF SetKey
      <4>2. row'[u].status = row[u].status /\ row'[u].originalKey
        BY <4>1, KeyNamed DEF TypeOK
      <4>3. QED BY <1>3, <2>1, <3>1, <4>1, <4>2
    <3>3. CASE ~Live(u)
      BY <1>2, <1>3, <2>1, <2>8, <3>1, <3>3 DEF SetKey
    <3>4. QED BY <3>2, <3>3
  <2>9. CASE Consume(u)
    BY <1>2, <1>3, <2>1, <2>9 DEF Consume
  <2>10. CASE Dispatch(u) \/ DispatchUnanswered(u)
    BY <1>2, <1>3, <2>10 DEF Dispatch, DispatchUnanswered
  <2>11. CASE MarkWaiting(u)
    <3>1. UNCHANGED <<queue, job, original, counted, removing>> /\ pc[u] = "unsent"
          /\ pc'[u] \in Sent
      BY <1>2, <2>11 DEF MarkWaiting
    <3>2. row'[u].originalKey = row[u].originalKey /\ row'[u].status = row[u].status
      BY <1>2, <2>11, StageShown DEF MarkWaiting, TypeOK
    <3>3. QED BY <1>3, <2>1, <3>1, <3>2
  <2>12. QED
    BY <2>2, <2>3, <2>4, <2>5, <2>6, <2>7, <2>8, <2>9, <2>10, <2>11 DEF UploadStep
<1>5. QED BY <1>1, <1>4 DEF ReadyInv

(* The other steps take nothing away from a call that is not being removed,
   and bring no new jobs. *)
LEMMA KeepsReady ==
  ASSUME TypeOK, ReadyInv, Jobs' \subseteq Jobs, counted' = counted,
         \A u \in Uploads : pc'[u] = pc[u] \/ (pc'[u] = "lost" /\ pc[u] \in Pending),
         \A u \in Uploads : removing'[u] = "no" => removing[u] = "no" /\ original'[u] = original[u],
         \A u \in Uploads : Live(u)' => Live(u) /\ row'[u].originalKey = row[u].originalKey
  PROVE  ReadyInv'
<1> SUFFICES ASSUME NEW u \in Uploads PROVE CountedOnce(u)' /\ InPlace(u)'
  BY DEF ReadyInv
<1>1. CountedOnce(u) /\ InPlace(u) /\ (u \in Jobs' => u \in Jobs)
  BY DEF ReadyInv
<1>2. CountedOnce(u)'
  BY <1>1 DEF CountedOnce, Coming, Sent
<1>3. InPlace(u)'
  BY <1>1 DEF InPlace
<1>4. QED BY <1>2, <1>3

LEMMA RemoveReady ==
  ASSUME TypeOK, ReadyInv, NEW u \in Uploads, RemoveAction(u)
  PROVE  ReadyInv'
<1> USE DEF RemoveStep
<1>1. Jobs' = Jobs /\ counted' = counted /\ pc' = pc
  BY DEF RemoveAction, Remove, RemoveOriginal, RemoveDerived, RemoveRow, Jobs
<1>2. \A v \in Uploads : removing'[v] = "no" => removing[v] = "no" /\ original'[v] = original[v]
  BY DEF RemoveAction, Remove, RemoveOriginal, RemoveDerived, RemoveRow, TypeOK, HandlersOK, StoreOK
<1>3. \A v \in Uploads : Live(v)' => Live(v) /\ row'[v].originalKey = row[v].originalKey
  <2>1. CASE RemoveRow(u)
    BY <2>1, NewRowIsRow DEF RemoveRow, TypeOK, RowsOK, Live
  <2>2. CASE ~RemoveRow(u)
    <3>1. row' = row
      BY <2>2 DEF RemoveAction, Remove, RemoveOriginal, RemoveDerived
    <3>2. QED BY <3>1 DEF Live
  <2>3. QED BY <2>1, <2>2
<1>4. \A v \in Uploads : pc'[v] = pc[v] \/ (pc'[v] = "lost" /\ pc[v] \in Pending)
  BY <1>1
<1>5. QED BY <1>1, <1>2, <1>3, <1>4, KeepsReady

LEMMA WorkerReady ==
  ASSUME TypeOK, ReadyInv, WorkerStep
  PROVE  ReadyInv'
<1>1. UNCHANGED <<counted, pc, removing, original, row>>
  BY DEF WorkerStep, TakeJob, Process, Finish, EndJob
<1>2. \A u \in Uploads : Live(u)' <=> Live(u)
  BY <1>1 DEF Live
<1>3. QED BY <1>1, <1>2, WorkerJobs, KeepsReady

LEMMA ReportRows ==
  ASSUME TypeOK, NEW p \in posts, ReportAction(p), NEW u \in Uploads
  PROVE  Live(u)' => Live(u) /\ row'[u].originalKey = row[u].originalKey
<1>1. CASE Update(p)
  <2>1. p \in Reports
    BY DEF TypeOK, PostsOK
  <2>2. p.call \in Uploads /\ row[p.call] \in Rows
        /\ Reported(row[p.call], p.stage).originalKey = row[p.call].originalKey
    BY <2>1, ReportFields, ReportedIsRow DEF TypeOK, RowsOK
  <2>3. QED BY <1>1, <2>2 DEF Update, Live, TypeOK, RowsOK
<1>2. CASE ~Update(p)
  BY <1>2 DEF ReportAction, Handle, Find, Refuse, ChargeMinutes, Lose, Live
<1>3. QED BY <1>1, <1>2

LEMMA ReportReady ==
  ASSUME TypeOK, ReadyInv, NEW p \in posts, ReportAction(p)
  PROVE  ReadyInv'
<1>1. UNCHANGED <<queue, job, counted, pc, removing, original>>
  BY DEF ReportAction, Handle, Find, Refuse, Update, ChargeMinutes, Lose
<1>2. Jobs' = Jobs
  BY <1>1 DEF Jobs
<1>3. \A u \in Uploads : Live(u)' => Live(u) /\ row'[u].originalKey = row[u].originalKey
  BY ReportRows
<1>4. QED BY <1>1, <1>2, <1>3, KeepsReady

LEMMA OtherReady ==
  ASSUME TypeOK, ReadyInv, TimeOut \/ CrashBackend \/ CrashGpu \/ UNCHANGED vars
  PROVE  ReadyInv'
<1>1. UNCHANGED <<row, original, counted>>
  BY DEF TimeOut, CrashBackend, CrashGpu, vars
<1>2. Jobs' \subseteq Jobs
  <2>1. CASE CrashGpu
    BY <2>1 DEF CrashGpu, Jobs
  <2>2. CASE ~CrashGpu
    BY <2>2 DEF TimeOut, CrashBackend, vars, Jobs
  <2>3. QED BY <2>1, <2>2
<1>3. \A u \in Uploads : /\ pc'[u] = pc[u] \/ (pc'[u] = "lost" /\ pc[u] \in Pending)
                         /\ removing'[u] = "no" => removing[u] = "no"
  <2>1. CASE CrashBackend
    BY <2>1 DEF CrashBackend, Pending
  <2>2. CASE ~CrashBackend
    BY <2>2 DEF TimeOut, CrashGpu, vars
  <2>3. QED BY <2>1, <2>2
<1>4. \A u \in Uploads : Live(u)' <=> Live(u)
  BY <1>1 DEF Live
<1>5. QED BY <1>1, <1>2, <1>3, <1>4, KeepsReady

LEMMA ReadyInvariant == Spec => [](TypeOK /\ ReadyInv)
<1>1. Init => TypeOK /\ ReadyInv
  BY InitTyped, InitReady
<1>2. TypeOK /\ ReadyInv /\ [Next]_vars => (TypeOK /\ ReadyInv)'
  BY StepCases, UploadTyped, RemoveTyped, WorkerTyped, ReportTyped, OtherTyped, UploadReady,
     RemoveReady, WorkerReady, ReportReady, OtherReady
<1>3. QED
  BY <1>1, <1>2, PTL DEF Spec

(* A job the GPU service has belongs to a call that was counted once; its
   recording is stored and the row names it, unless the call is being removed
   (upload, remove, dispatch). *)
THEOREM JobsCanRun == Spec => []JobsAreReady
<1>1. TypeOK /\ ReadyInv => JobsAreReady
  <2>1. TypeOK => Jobs \subseteq Uploads
    BY DEF TypeOK, GpuOK, Jobs
  <2>2. QED BY <2>1 DEF ReadyInv, CountedOnce, InPlace, JobsAreReady
<1>2. QED
  BY <1>1, ReadyInvariant, PTL

-----------------------------------------------------------------------------
(***************************************************************************)
(* A removed call stays removed. Only Create brings a row into being, and  *)
(* it runs once for an upload, before there is a row that could be         *)
(* removed; the update of a report that was slow finds no row.             *)
(***************************************************************************)
GoneInv ==
    \A u \in Uploads :
        /\ pc[u] \in {"idle", "unseen", "allowed"} => ~Live(u) /\ removing[u] = "no"
        /\ removing[u] = "done" => ~Live(u)

LEMMA RowsAppear ==
  ASSUME TypeOK, [Next]_vars, NEW u \in Uploads, Live(u)'
  PROVE  Live(u) \/ (pc[u] = "allowed" /\ pc'[u] \notin {"idle", "unseen", "allowed"})
<1>1. row \in [Uploads -> Rows]
      /\ pc \in [Uploads -> Pending \cup {"idle", "duplicate", "refused", "error", "done", "lost"}]
  BY DEF TypeOK, RowsOK, HandlersOK
<1>2. ASSUME NEW v \in Uploads, Lookup(v) \/ UploadStep(v), v # u PROVE Live(u)
  BY <1>2, OwnHandler DEF Live
<1>3. ASSUME Lookup(u) \/ UploadStep(u)
      PROVE  Live(u) \/ (pc[u] = "allowed" /\ pc'[u] \notin {"idle", "unseen", "allowed"})
  <2>1. CASE Create(u)
    BY <1>1, <2>1 DEF Create, Goto, Live
  <2>2. CASE DropRow(u)
    BY <1>1, <2>2, NewRowIsRow DEF DropRow, Live
  <2>3. CASE SetKey(u) \/ MarkWaiting(u)
    BY <1>1, <2>3 DEF SetKey, MarkWaiting, Live, Rows
  <2>4. QED
    BY <1>3, <2>1, <2>2, <2>3 DEF UploadStep, Lookup, CheckQuota, Put, PutFails, Consume, Dispatch,
       DispatchUnanswered, Live
<1>4. ASSUME NEW v \in Uploads, RemoveAction(v) PROVE Live(u)
  BY <1>1, <1>4, NewRowIsRow
     DEF RemoveAction, Remove, RemoveOriginal, RemoveDerived, RemoveRow, Live
<1>5. ASSUME NEW p \in posts, ReportAction(p) PROVE Live(u)
  BY <1>5, ReportRows
<1>6. ASSUME WorkerStep \/ TimeOut \/ CrashBackend \/ CrashGpu \/ UNCHANGED vars PROVE Live(u)
  <2>1. row' = row
    BY <1>6 DEF WorkerStep, TakeJob, Process, Finish, EndJob, TimeOut, CrashBackend, CrashGpu, vars
  <2>2. QED BY <2>1 DEF Live
<1>7. QED BY <1>2, <1>3, <1>4, <1>5, <1>6, StepCases

LEMMA HandlersMove ==
  ASSUME TypeOK, [Next]_vars, NEW u \in Uploads
  PROVE  /\ pc'[u] \in {"idle", "unseen", "allowed"} => pc[u] \in {"idle", "unseen", "allowed"}
         /\ removing[u] = "no" /\ removing'[u] # "no" => Live(u)
         /\ removing'[u] = "done" => removing[u] = "done" \/ ~Live(u)'
<1>1. /\ row \in [Uploads -> Rows]
      /\ pc \in [Uploads -> Pending \cup {"idle", "duplicate", "refused", "error", "done", "lost"}]
      /\ removing \in [Uploads -> {"no", "original", "derived", "row", "done", "cut off"}]
  BY DEF TypeOK, RowsOK, HandlersOK
<1>2. ASSUME NEW v \in Uploads, Lookup(v) \/ UploadStep(v)
      PROVE  /\ removing' = removing
             /\ pc'[u] \in {"idle", "unseen", "allowed"} => pc[u] \in {"idle", "unseen", "allowed"}
  BY <1>1, <1>2 DEF Lookup, UploadStep, CheckQuota, Create, Put, PutFails, DropRow, SetKey, Consume,
     Dispatch, DispatchUnanswered, MarkWaiting, Goto
<1>3. ASSUME NEW v \in Uploads, RemoveAction(v)
      PROVE  /\ pc' = pc
             /\ removing[u] = "no" /\ removing'[u] # "no" => Live(u)
             /\ removing'[u] = "done" => removing[u] = "done" \/ ~Live(u)'
  BY <1>1, <1>3, NewRowIsRow DEF RemoveAction, Remove, RemoveOriginal, RemoveDerived, RemoveRow,
     RemoveStep, Live
<1>4. ASSUME NEW p \in posts, ReportAction(p) PROVE UNCHANGED <<pc, removing>>
  BY <1>4 DEF ReportAction, Handle, Find, Refuse, Update, ChargeMinutes, Lose
<1>5. ASSUME WorkerStep \/ TimeOut \/ CrashGpu \/ UNCHANGED vars PROVE UNCHANGED <<pc, removing>>
  BY <1>5 DEF WorkerStep, TakeJob, Process, Finish, EndJob, TimeOut, CrashGpu, vars
<1>6. CASE CrashBackend
  BY <1>1, <1>6 DEF CrashBackend
<1>7. QED BY <1>2, <1>3, <1>4, <1>5, <1>6, StepCases

LEMMA GoneKept ==
  ASSUME TypeOK, GoneInv, [Next]_vars
  PROVE  /\ GoneInv'
         /\ \A u \in Uploads : removing[u] = "done" => ~Live(u)'
<1> SUFFICES ASSUME NEW u \in Uploads
             PROVE  /\ pc'[u] \in {"idle", "unseen", "allowed"} => ~Live(u)' /\ removing'[u] = "no"
                    /\ removing'[u] = "done" => ~Live(u)'
                    /\ removing[u] = "done" => ~Live(u)'
  BY DEF GoneInv
<1>1. /\ pc[u] \in {"idle", "unseen", "allowed"} => ~Live(u) /\ removing[u] = "no"
      /\ removing[u] = "done" => ~Live(u)
  BY DEF GoneInv
<1>2. Live(u)' => Live(u) \/ (pc[u] = "allowed" /\ pc'[u] \notin {"idle", "unseen", "allowed"})
  BY RowsAppear
<1>3. QED BY <1>1, <1>2, HandlersMove

(* The row of a removed call does not come back, whatever reports and handlers
   are still under way (remove, applyProgress). *)
THEOREM RemovedStaysRemoved == Spec => NoGhostRow
<1>1. Init => GoneInv
  BY DEF Init, GoneInv, Live, NoRow
<1>2. TypeOK /\ GoneInv /\ [Next]_vars => GoneInv'
  BY GoneKept
<1>3. TypeOK /\ GoneInv
      /\ [Next]_vars => [\A u \in Uploads : removing[u] = "done" => ~Live(u)']_vars
  BY GoneKept
<1>4. QED
  BY <1>1, <1>2, <1>3, TypeCorrect, PTL DEF Spec, NoGhostRow

-----------------------------------------------------------------------------
(***************************************************************************)
(* Minutes are counted once. The report "done" of a call is made once: as  *)
(* long as the call has its job before it, in the queue or at an earlier   *)
(* stage, there is no such report and nothing has been counted; afterwards *)
(* there is at most one under way, and none once it has been counted.      *)
(***************************************************************************)
Early == Coming \cup {"charged"}
ToDo(u) == u \in InQueue \/ (u = job /\ step \in {"downloading", "saving"})

OneJobEach == QueuedOnce /\ job \notin InQueue
NotYet ==
    \A u \in Uploads :
        /\ pc[u] \in Early => minutes[u] = 0 /\ \A p \in posts : p.call # u
        /\ ToDo(u) => minutes[u] = 0 /\ \A p \in posts : p.call = u => p.stage # "done"
DoneOnce ==
    /\ \A p, q \in posts : p.call = q.call /\ p.stage = "done" /\ q.stage = "done" => p = q
    /\ \A p \in posts : p.stage = "done" => minutes[p.call] = 0
    /\ \A p \in posts : p.at = "charging" => p.stage = "done"

OnceInv == OneJobEach /\ NotYet /\ DoneOnce /\ MinutesOnce

LEMMA InitOnce == Init => OnceInv
  BY UploadsAssumption DEF Init, OnceInv, OneJobEach, QueuedOnce, InQueue, NotYet, DoneOnce,
     MinutesOnce, ToDo

(* A step that brings no report, no job and no early handler keeps it all. *)
LEMMA KeepsOnce ==
  ASSUME OnceInv, posts' \subseteq posts, minutes' = minutes, OneJobEach',
         \A u \in Uploads : (pc'[u] \in Early => pc[u] \in Early) /\ (ToDo(u)' => ToDo(u))
  PROVE  OnceInv'
<1>1. NotYet'
  BY DEF OnceInv, NotYet
<1>2. DoneOnce' /\ MinutesOnce'
  BY DEF OnceInv, DoneOnce, MinutesOnce
<1>3. QED BY <1>1, <1>2 DEF OnceInv

LEMMA HandlersGoOn ==
  ASSUME TypeOK, [Next]_vars, NEW u \in Uploads, pc'[u] \in Early
  PROVE  pc[u] \in Early
<1>1. pc \in [Uploads -> Pending \cup {"idle", "duplicate", "refused", "error", "done", "lost"}]
  BY DEF TypeOK, HandlersOK
<1>2. ASSUME NEW v \in Uploads, Lookup(v) \/ UploadStep(v) PROVE pc[u] \in Early
  BY <1>1, <1>2 DEF Lookup, UploadStep, CheckQuota, Create, Put, PutFails, DropRow, SetKey, Consume,
     Dispatch, DispatchUnanswered, MarkWaiting, Goto, Early, Coming
<1>3. ASSUME NEW v \in Uploads, RemoveAction(v) PROVE pc' = pc
  BY <1>3 DEF RemoveAction, Remove, RemoveOriginal, RemoveDerived, RemoveRow
<1>4. ASSUME NEW p \in posts, ReportAction(p) PROVE pc' = pc
  BY <1>4 DEF ReportAction, Handle, Find, Refuse, Update, ChargeMinutes, Lose
<1>5. ASSUME WorkerStep \/ TimeOut \/ CrashGpu \/ UNCHANGED vars PROVE pc' = pc
  BY <1>5 DEF WorkerStep, TakeJob, Process, Finish, EndJob, TimeOut, CrashGpu, vars
<1>6. CASE CrashBackend
  BY <1>1, <1>6 DEF CrashBackend, Early, Coming
<1>7. QED BY <1>2, <1>3, <1>4, <1>5, <1>6, StepCases

LEMMA SameGpu ==
  ASSUME UNCHANGED <<queue, job, step>>
  PROVE  (OneJobEach' <=> OneJobEach) /\ \A u \in Uploads : ToDo(u)' <=> ToDo(u)
  BY DEF OneJobEach, QueuedOnce, InQueue, ToDo

LEMMA UploadOnce ==
  ASSUME TypeOK, ReadyInv, OnceInv, [Next]_vars, NEW u \in Uploads, Lookup(u) \/ UploadStep(u)
  PROVE  OnceInv'
<1>1. UNCHANGED <<posts, minutes, job, step>>
  BY DEF Lookup, UploadStep, CheckQuota, Create, Put, PutFails, DropRow, SetKey, Consume, Dispatch,
     DispatchUnanswered, MarkWaiting
<1>2. \A v \in Uploads : pc'[v] \in Early => pc[v] \in Early
  BY HandlersGoOn
<1>3. CASE UNCHANGED queue
  BY <1>1, <1>2, <1>3, SameGpu, KeepsOnce DEF OnceInv
<1>4. CASE queue' # queue
  <2>1. queue \in Seq(Uploads) /\ queue' = Append(queue, u) /\ pc[u] = "charged"
    BY <1>4 DEF Lookup, UploadStep, CheckQuota, Create, Put, PutFails, DropRow, SetKey, Consume,
       Dispatch, DispatchUnanswered, MarkWaiting, Goto, TypeOK, GpuOK
  <2>2. u \notin InQueue /\ u # job
    BY <2>1, JobsAre, UploadsAssumption DEF ReadyInv, CountedOnce, Sent
  <2>3. InQueue' = InQueue \cup {u} /\ OneJobEach'
    BY <1>1, <2>1, <2>2, QueueGrows DEF OnceInv, OneJobEach
  <2>4. minutes[u] = 0 /\ \A p \in posts : p.call # u
    BY <2>1 DEF OnceInv, NotYet, Early
  <2>5. NotYet'
    BY <1>1, <1>2, <2>3, <2>4 DEF OnceInv, NotYet, ToDo
  <2>6. DoneOnce' /\ MinutesOnce'
    BY <1>1 DEF OnceInv, DoneOnce, MinutesOnce
  <2>7. QED BY <2>3, <2>5, <2>6 DEF OnceInv
<1>5. QED BY <1>3, <1>4

(* A new report: of a call that has been sent and, if it says "done", of the
   only job that still had it to say. *)
LEMMA SendOnce ==
  ASSUME OnceInv, NEW u \in Uploads, NEW stage \in {"downloading", "saving", "done", "failed"},
         Send(u, stage), UNCHANGED <<pc, minutes>>, OneJobEach', pc[u] \notin Early,
         \A v \in Uploads : ToDo(v)' => ToDo(v),
         stage = "done" => ToDo(u) /\ ~ToDo(u)'
  PROVE  OnceInv'
<1>0. PICK body \in Bodies(stage) :
           posts' = posts \cup {[call |-> u, stage |-> stage, body |-> body, at |-> "sent"]}
  BY DEF Send
<1>1. \A p \in posts' : p \in posts \/ (p.call = u /\ p.stage = stage /\ p.at = "sent")
  BY <1>0
<1>2. \A p, q \in posts' : p \notin posts /\ q \notin posts => p = q
  BY <1>0
<1>3. NotYet'
  BY <1>1 DEF OnceInv, NotYet
<1>4. DoneOnce'
  <2>1. stage = "done" => minutes[u] = 0 /\ \A p \in posts : p.call = u => p.stage # "done"
    BY DEF OnceInv, NotYet
  <2>2. QED BY <1>1, <1>2, <2>1 DEF OnceInv, DoneOnce
<1>5. QED BY <1>3, <1>4 DEF OnceInv, MinutesOnce

LEMMA WorkerOnce ==
  ASSUME TypeOK, ReadyInv, OnceInv, WorkerStep
  PROVE  OnceInv'
<1> USE DEF OnceInv
<1>1. UNCHANGED <<pc, minutes>>
  BY DEF WorkerStep, TakeJob, Process, Finish, EndJob
<1>2. \A u \in Jobs \cap Uploads : pc[u] \notin Early
  BY DEF ReadyInv, CountedOnce, Early, Coming, Sent
<1>3. CASE TakeJob
  <2>1. /\ queue \in Seq(Uploads) /\ queue # <<>> /\ queue' = Tail(queue) /\ job' = Head(queue)
        /\ Send(Head(queue), "downloading") /\ step' = "downloading"
    BY <1>3 DEF TakeJob, TypeOK, GpuOK, Send
  <2>2. Head(queue) \in Uploads /\ InQueue = InQueue' \cup {Head(queue)} /\ OneJobEach'
    BY <2>1, HeadLeaves DEF OneJobEach
  <2>3. pc[Head(queue)] \notin Early
    BY <1>2, <2>2, JobsAre
  <2>4. \A v \in Uploads : ToDo(v)' => ToDo(v)
    BY <2>1, <2>2 DEF ToDo
  <2>5. QED BY <1>1, <2>1, <2>2, <2>3, <2>4, SendOnce
<1>4. CASE Process
  <2>1. /\ job \in Uploads /\ UNCHANGED <<queue, job>> /\ step = "downloading"
        /\ Send(job, "saving") \/ Send(job, "failed")
    BY <1>4 DEF Process, TypeOK, GpuOK
  <2>2. OneJobEach' /\ pc[job] \notin Early
    BY <1>2, <2>1, JobsAre, UploadsAssumption DEF OneJobEach, QueuedOnce, InQueue
  <2>3. \A v \in Uploads : ToDo(v)' => ToDo(v)
    BY <2>1 DEF ToDo, InQueue
  <2>4. QED BY <1>1, <2>1, <2>2, <2>3, SendOnce
<1>5. CASE Finish
  <2>1. /\ job \in Uploads /\ UNCHANGED <<queue, job>> /\ step = "saving" /\ step' = "done"
        /\ Send(job, "done")
    BY <1>5 DEF Finish, Send, TypeOK, GpuOK
  <2>2. OneJobEach' /\ pc[job] \notin Early
    BY <1>2, <2>1, JobsAre, UploadsAssumption DEF OneJobEach, QueuedOnce, InQueue
  <2>3. /\ \A v \in Uploads : ToDo(v)' => ToDo(v)
        /\ ToDo(job) /\ ~ToDo(job)'
    BY <2>1 DEF ToDo, InQueue, OneJobEach
  <2>4. QED BY <1>1, <2>1, <2>2, <2>3, SendOnce
<1>6. CASE EndJob
  <2>1. UNCHANGED <<queue, posts>> /\ job' = NoUpload /\ queue \in Seq(Uploads)
    BY <1>6 DEF EndJob, TypeOK, GpuOK
  <2>2. InQueue' = InQueue /\ InQueue \subseteq Uploads
    BY <2>1 DEF InQueue
  <2>3. OneJobEach' /\ \A v \in Uploads : ToDo(v)' => ToDo(v)
    BY <2>1, <2>2, UploadsAssumption DEF OneJobEach, QueuedOnce, ToDo
  <2>4. QED BY <1>1, <2>1, <2>3, KeepsOnce
<1>7. QED BY <1>3, <1>4, <1>5, <1>6 DEF WorkerStep

LEMMA ReportOnce ==
  ASSUME TypeOK, OnceInv, NEW p \in posts, ReportAction(p)
  PROVE  OnceInv'
<1> USE DEF OnceInv
<1>1. UNCHANGED <<queue, job, step, pc>>
  BY DEF ReportAction, Handle, Find, Refuse, Update, ChargeMinutes, Lose
<1>2. OneJobEach' /\ \A u \in Uploads : ToDo(u)' <=> ToDo(u)
  BY <1>1, SameGpu
<1>3. ASSUME posts' \subseteq posts, minutes' = minutes PROVE OnceInv'
  BY <1>1, <1>2, <1>3, KeepsOnce
<1>4. ASSUME NEW at \in {"found", "charging"}, Reaches(p, at), minutes' = minutes,
             at = "charging" => p.stage = "done"
      PROVE  OnceInv'
  <2>1. /\ p \in Reports /\ [p EXCEPT !.at = at].call = p.call
        /\ [p EXCEPT !.at = at].stage = p.stage /\ [p EXCEPT !.at = at].at = at
    BY DEF TypeOK, PostsOK, Reports
  <2>2. \A q \in posts' : (q \in posts /\ q # p) \/ q = [p EXCEPT !.at = at]
    BY <1>4 DEF Reaches
  <2>3. NotYet'
    <3>1. \A q \in posts' : \E r \in posts : q.call = r.call /\ q.stage = r.stage
      BY <2>1, <2>2
    <3>2. QED BY <1>1, <1>2, <1>4, <3>1 DEF NotYet
  <2>4. DoneOnce'
    <3>1. \A q \in posts' : \E r \in posts : q.call = r.call /\ q.stage = r.stage
      BY <2>1, <2>2
    <3>2. \A q \in posts' : q.stage = "done" => minutes'[q.call] = 0
      BY <1>4, <3>1 DEF DoneOnce
    <3>3. \A q \in posts' : q.at = "charging" => q.stage = "done"
      BY <1>4, <2>1, <2>2 DEF DoneOnce
    <3>4. ASSUME NEW q \in posts', NEW r \in posts', q.call = r.call, q.stage = "done",
                r.stage = "done"
          PROVE  q = r
      <4>1. CASE q \in posts /\ q # p /\ r \in posts /\ r # p
        BY <3>4, <4>1 DEF DoneOnce
      <4>2. CASE q = [p EXCEPT !.at = at] /\ r \in posts /\ r # p
        <5>1. r.call = p.call /\ p.stage = "done"
          BY <2>1, <3>4, <4>2
        <5>2. QED BY <3>4, <4>2, <5>1 DEF DoneOnce
      <4>3. CASE r = [p EXCEPT !.at = at] /\ q \in posts /\ q # p
        <5>1. q.call = p.call /\ p.stage = "done"
          BY <2>1, <3>4, <4>3
        <5>2. QED BY <3>4, <4>3, <5>1 DEF DoneOnce
      <4>4. CASE q = [p EXCEPT !.at = at] /\ r = [p EXCEPT !.at = at]
        BY <4>4
      <4>5. QED BY <2>2, <4>1, <4>2, <4>3, <4>4
    <3>5. QED BY <3>2, <3>3, <3>4 DEF DoneOnce
  <2>5. QED BY <1>2, <1>4, <2>3, <2>4 DEF MinutesOnce
<1>5. CASE Find(p)
  BY <1>3, <1>4, <1>5 DEF Find, Answered
<1>6. CASE Update(p)
  BY <1>3, <1>4, <1>6 DEF Update, Answered
<1>7. CASE Lose(p) \/ Refuse(p)
  BY <1>3, <1>7 DEF Lose, Refuse, Answered
<1>8. CASE ChargeMinutes(p)
  <2>1. /\ p.call \in Uploads /\ p.stage = "done" /\ minutes[p.call] = 0
        /\ minutes \in [Uploads -> Nat]
    BY <1>8 DEF ChargeMinutes, TypeOK, PostsOK, Reports, DoneOnce, StoreOK
  <2>2. minutes' = [minutes EXCEPT ![p.call] = 1] /\ posts' = posts \ {p}
    BY <1>8, <2>1 DEF ChargeMinutes, Answered
  <2>3. NotYet'
    BY <1>1, <1>2, <2>1, <2>2 DEF NotYet
  <2>4. DoneOnce'
    <3>1. \A q \in posts' : q \in posts /\ q.call \in Uploads
      BY <2>2 DEF TypeOK, PostsOK, Reports
    <3>2. \A q \in posts' : q.stage = "done" => q.call # p.call
      BY <2>1, <2>2 DEF DoneOnce
    <3>3. QED BY <2>1, <2>2, <3>1, <3>2 DEF DoneOnce
  <2>5. MinutesOnce'
    BY <2>1, <2>2 DEF MinutesOnce
  <2>6. QED BY <1>2, <2>3, <2>4, <2>5
<1>9. QED
  BY <1>5, <1>6, <1>7, <1>8 DEF ReportAction, Handle

LEMMA OtherOnce ==
  ASSUME TypeOK, OnceInv, [Next]_vars,
         (\E u \in Uploads : RemoveAction(u)) \/ TimeOut \/ CrashBackend \/ CrashGpu
         \/ UNCHANGED vars
  PROVE  OnceInv'
<1>1. posts' \subseteq posts /\ minutes' = minutes
  BY DEF RemoveAction, Remove, RemoveOriginal, RemoveDerived, RemoveRow, TimeOut, CrashBackend,
     CrashGpu, vars
<1>2. \A u \in Uploads : pc'[u] \in Early => pc[u] \in Early
  BY HandlersGoOn
<1>3. CASE CrashGpu
  <2>1. InQueue' = {} /\ job' = NoUpload
    BY <1>3 DEF CrashGpu, InQueue
  <2>2. OneJobEach' /\ \A u \in Uploads : ~ToDo(u)'
    BY <1>3, <2>1, UploadsAssumption DEF CrashGpu, OneJobEach, QueuedOnce, ToDo
  <2>3. QED BY <1>1, <1>2, <2>2, KeepsOnce
<1>4. CASE ~CrashGpu
  <2>1. UNCHANGED <<queue, job, step>>
    BY <1>4 DEF RemoveAction, Remove, RemoveOriginal, RemoveDerived, RemoveRow, TimeOut,
       CrashBackend, vars
  <2>2. QED BY <1>1, <1>2, <2>1, SameGpu, KeepsOnce DEF OnceInv
<1>5. QED BY <1>3, <1>4

LEMMA OnceInvariant == Spec => []OnceInv
<1>1. TypeOK /\ ReadyInv /\ OnceInv /\ [Next]_vars => OnceInv'
  BY StepCases, UploadOnce, WorkerOnce, ReportOnce, OtherOnce
<1>2. QED
  BY <1>1, InitOnce, ReadyInvariant, PTL DEF Spec

(* The minutes of a call are counted once at most, however reports are lost,
   late or out of order and whatever restarts (applyProgress). *)
THEOREM MinutesCountOnce == Spec => []MinutesOnce
<1>1. OnceInv => MinutesOnce
  BY DEF OnceInv
<1>2. QED
  BY <1>1, OnceInvariant, PTL

-----------------------------------------------------------------------------
(***************************************************************************)
(* The stage that is shown. As long as the worker waits for every answer   *)
(* to the reports of a call, the call has one report under way at most,    *)
(* and if it still has its job, that is the report the worker waits for.   *)
(* So nothing can come after "done": neither from the job, which is past   *)
(* it, nor from the network.                                               *)
(***************************************************************************)
Punctual(u) == ~Met(u, {"timeout", "unreachable"})

OneReport ==
    /\ \A p, q \in posts : p.call = q.call /\ Punctual(p.call) => p = q
    /\ \A p \in posts :
          p.call \in Jobs /\ Punctual(p.call) => waits /\ p.call = job /\ p.stage = step
DoneIsLast ==
    \A u \in Uploads :
        row[u].transcript /\ Punctual(u) =>
            /\ row[u].stage = "done" /\ pc[u] \notin Early /\ u \notin InQueue
            /\ u = job => step = "done"
            /\ \A p \in posts : p.call = u => p.stage = "done"
UnsentHasNone ==
    \A u \in Uploads :
        pc[u] = "unsent" /\ Punctual(u) =>
            ~row[u].transcript /\ u \notin Jobs /\ \A p \in posts : p.call # u

OrderInv == OneReport /\ DoneIsLast /\ UnsentHasNone

LEMMA InitOrder == Init => OrderInv
  BY DEF Init, OrderInv, OneReport, DoneIsLast, UnsentHasNone, NoRow

LEMMA HappenedGrows ==
  ASSUME TypeOK, [Next]_vars, NEW u \in Uploads
  PROVE  happened[u] \subseteq happened'[u]
<1>1. EventsOK
  BY DEF TypeOK
<1>2. ASSUME NEW S, NEW kind \in Kinds, Meet(S, kind) PROVE happened[u] \subseteq happened'[u]
  BY <1>1, <1>2, MeetTyped
<1>3. ASSUME NEW v \in Uploads, Lookup(v) \/ UploadStep(v) PROVE happened[u] \subseteq happened'[u]
  <2>1. CASE DispatchUnanswered(v)
    BY <1>2, <2>1 DEF DispatchUnanswered, Kinds
  <2>2. CASE ~DispatchUnanswered(v)
    BY <1>3, <2>2 DEF Lookup, UploadStep, CheckQuota, Create, Put, PutFails, DropRow, SetKey,
       Consume, Dispatch, MarkWaiting, Use
  <2>3. QED BY <2>1, <2>2
<1>4. ASSUME NEW v \in Uploads, RemoveAction(v) PROVE happened' = happened
  BY <1>4 DEF RemoveAction, Remove, RemoveOriginal, RemoveDerived, RemoveRow, Use
<1>5. ASSUME NEW p \in posts, ReportAction(p) PROVE happened[u] \subseteq happened'[u]
  <2>1. CASE Lose(p)
    BY <1>2, <2>1 DEF Lose, Kinds
  <2>2. CASE Refuse(p)
    BY <1>2, <2>2 DEF Refuse, Kinds
  <2>3. CASE Find(p) \/ Update(p) \/ ChargeMinutes(p)
    BY <2>3 DEF Find, Update, ChargeMinutes
  <2>4. QED BY <1>5, <2>1, <2>2, <2>3 DEF ReportAction, Handle
<1>6. CASE WorkerStep
  BY <1>6 DEF WorkerStep, TakeJob, Process, Finish, EndJob, Use
<1>7. CASE TimeOut
  BY <1>2, <1>7 DEF TimeOut, Kinds
<1>8. CASE CrashBackend
  BY <1>2, <1>8 DEF CrashBackend, Kinds
<1>9. CASE CrashGpu
  BY <1>2, <1>9 DEF CrashGpu, Kinds
<1>10. CASE UNCHANGED vars
  BY <1>10 DEF vars
<1>11. QED BY <1>3, <1>4, <1>5, <1>6, <1>7, <1>8, <1>9, <1>10, StepCases

LEMMA PunctualBefore ==
  ASSUME TypeOK, [Next]_vars
  PROVE  \A u \in Uploads : Punctual(u)' => Punctual(u)
BY HappenedGrows DEF Punctual, Met

(* A dispatch that was not answered brought a job only to a call that is from
   then on exempt. *)
LEMMA LateDispatch ==
  ASSUME TypeOK, NEW u \in Uploads, DispatchUnanswered(u), Punctual(u)'
  PROVE  queue' = queue
<1>1. EventsOK
  BY DEF TypeOK
<1>2. ~Meet({u}, "unreachable")
  <2>1. ASSUME Meet({u}, "unreachable") PROVE FALSE
    <3>1. "unreachable" \in happened'[u]
      BY <1>1, <2>1, MeetTyped DEF Kinds
    <3>2. QED BY <3>1 DEF Punctual, Met
  <2>2. QED BY <2>1
<1>3. QED BY <1>2 DEF DispatchUnanswered

LEMMA UploadOrder ==
  ASSUME TypeOK, ReadyInv, OnceInv, OrderInv, [Next]_vars,
         NEW u \in Uploads, Lookup(u) \/ UploadStep(u)
  PROVE  OrderInv'
<1>1. OneReport /\ DoneIsLast /\ UnsentHasNone /\ \A v \in Uploads : Punctual(v)' => Punctual(v)
  BY PunctualBefore DEF OrderInv
<1>2. UNCHANGED <<posts, job, step, waits>>
  BY DEF Lookup, UploadStep, CheckQuota, Create, Put, PutFails, DropRow, SetKey, Consume, Dispatch,
     DispatchUnanswered, MarkWaiting
<1>3. /\ pc \in [Uploads -> Pending \cup {"idle", "duplicate", "refused", "error", "done", "lost"}]
      /\ row \in [Uploads -> Rows] /\ posts \subseteq Reports
  BY DEF TypeOK, HandlersOK, RowsOK, PostsOK
<1>4. \A p \in posts : p.call \in Uploads
  BY <1>3 DEF Reports
<1>5. \A v \in Uploads : pc'[v] \in Early => pc[v] \in Early
  BY HandlersGoOn
<1>6. \A v \in Uploads : row'[v].transcript =>
         row[v].transcript /\ (row'[v].stage = row[v].stage \/ (v = u /\ pc[v] = "unsent"))
  <2>1. CASE Create(u)
    BY <1>3, <2>1 DEF Create, NewRow, NoRow
  <2>2. CASE DropRow(u)
    BY <1>3, <2>2 DEF DropRow, NoRow
  <2>3. CASE SetKey(u)
    <3>1. CASE Live(u)
      <4>1. row' = [row EXCEPT ![u].originalKey = TRUE]
        BY <2>3, <3>1 DEF SetKey
      <4>2. row'[u].transcript = row[u].transcript /\ row'[u].stage = row[u].stage
        BY <4>1, KeyNamed DEF TypeOK
      <4>3. QED BY <1>3, <4>1, <4>2
    <3>2. CASE ~Live(u)
      BY <2>3, <3>2 DEF SetKey
    <3>3. QED BY <3>1, <3>2
  <2>4. CASE MarkWaiting(u)
    <3>1. CASE Live(u)
      <4>1. row' = [row EXCEPT ![u].stage = "waiting for worker"] /\ pc[u] = "unsent"
        BY <2>4, <3>1 DEF MarkWaiting, Goto
      <4>2. row'[u].transcript = row[u].transcript
        BY <4>1, StageShown DEF TypeOK
      <4>3. QED BY <1>3, <4>1, <4>2
    <3>2. CASE ~Live(u)
      BY <2>4, <3>2 DEF MarkWaiting
    <3>3. QED BY <3>1, <3>2
  <2>5. QED
    BY <2>1, <2>2, <2>3, <2>4 DEF Lookup, UploadStep, CheckQuota, Put, PutFails, Consume,
       Dispatch, DispatchUnanswered
<1>7. \A v \in Uploads : row'[v].transcript /\ Punctual(v)' =>
         row[v].transcript /\ Punctual(v) /\ row'[v].stage = row[v].stage
  BY <1>1, <1>6 DEF UnsentHasNone
<1>8. CASE queue' = queue
  <2>1. InQueue' = InQueue /\ Jobs' = Jobs
    BY <1>2, <1>8 DEF InQueue, Jobs
  <2>2. OneReport'
    BY <1>1, <1>2, <1>4, <2>1 DEF OneReport
  <2>3. DoneIsLast'
    BY <1>1, <1>2, <1>5, <1>7, <2>1 DEF DoneIsLast
  <2>4. ASSUME NEW v \in Uploads, pc'[v] = "unsent", Punctual(v)'
        PROVE  ~row[v].transcript /\ v \notin Jobs /\ \A p \in posts : p.call # v
    <3>1. CASE pc[v] = "unsent"
      BY <1>1, <2>4, <3>1 DEF UnsentHasNone
    <3>2. CASE pc[v] # "unsent"
      <4>1. pc[v] = "charged"
        BY <1>3, <2>4, <3>2 DEF Lookup, UploadStep, CheckQuota, Create, Put, PutFails, DropRow,
           SetKey, Consume, Dispatch, DispatchUnanswered, MarkWaiting, Goto
      <4>2. ~row[v].transcript
        BY <1>1, <2>4, <4>1 DEF DoneIsLast, Early
      <4>3. v \notin Jobs
        BY <4>1 DEF ReadyInv, CountedOnce, Sent
      <4>4. QED BY <4>1, <4>2, <4>3 DEF OnceInv, NotYet, Early
    <3>3. QED BY <3>1, <3>2
  <2>5. UnsentHasNone'
    BY <1>2, <1>7, <2>1, <2>4 DEF UnsentHasNone
  <2>6. QED BY <2>2, <2>3, <2>5 DEF OrderInv
<1>9. CASE queue' # queue
  <2>1. /\ queue \in Seq(Uploads) /\ queue' = Append(queue, u) /\ pc[u] = "charged" /\ row' = row
        /\ pc'[u] = "unsent" => ~Punctual(u)'
        /\ \A v \in Uploads : v # u => pc'[v] = pc[v]
    BY <1>3, <1>9, LateDispatch DEF Lookup, UploadStep, CheckQuota, Create, Put, PutFails, DropRow,
       SetKey, Consume, Dispatch, DispatchUnanswered, MarkWaiting, Goto, TypeOK, GpuOK
  <2>2. InQueue' = InQueue \cup {u} /\ Jobs' = Jobs \cup {u}
    BY <1>2, <2>1, QueueGrows, JobsSubmitted DEF TypeOK
  <2>3. pc[u] \in Early /\ \A p \in posts : p.call # u
    BY <2>1 DEF OnceInv, NotYet, Early
  <2>4. row[u].transcript => ~Punctual(u)'
    BY <1>1, <2>3 DEF DoneIsLast
  <2>5. OneReport'
    BY <1>1, <1>2, <1>4, <2>2, <2>3 DEF OneReport
  <2>6. DoneIsLast'
    BY <1>1, <1>2, <1>5, <2>1, <2>2, <2>3, <2>4 DEF DoneIsLast
  <2>7. UnsentHasNone'
    BY <1>1, <1>2, <2>1, <2>2 DEF UnsentHasNone
  <2>8. QED BY <2>5, <2>6, <2>7 DEF OrderInv
<1>10. QED BY <1>8, <1>9

(* The worker reports when it does not wait: then its job has no report under
   way, and no transcript unless it has said "done". *)
LEMMA SendOrder ==
  ASSUME OrderInv, OneJobEach, NEW u \in Uploads, u \in Jobs, Send(u, step'), job' = u,
         UNCHANGED <<row, pc, happened>>, Jobs' \subseteq Jobs,
         InQueue' \subseteq InQueue, u \notin InQueue',
         Punctual(u) => \A p \in posts : p.call # u,
         row[u].transcript /\ Punctual(u) => step' = "done"
  PROVE  OrderInv'
<1>0. PICK body \in Bodies(step') :
           posts' = posts \cup {[call |-> u, stage |-> step', body |-> body, at |-> "sent"]}
  BY DEF Send
<1>1. \A p \in posts' : p \in posts \/ (p.call = u /\ p.stage = step')
  BY <1>0
<1>2. \A p, q \in posts' : p \notin posts /\ q \notin posts => p = q
  BY <1>0
<1>3. waits' /\ \A v : Punctual(v)' = Punctual(v)
  BY DEF Send, Punctual, Met
<1>4. OneReport /\ DoneIsLast /\ UnsentHasNone
  BY DEF OrderInv
<1>5. OneReport'
  <2>1. Jobs' \subseteq InQueue' \cup {u}
    BY DEF Jobs, InQueue
  <2>2. \A p \in posts : Punctual(p.call) => p.call \notin InQueue'
    BY <1>4, JobsAre DEF OneReport, OneJobEach
  <2>3. \A p \in posts' : p.call \in Jobs' /\ Punctual(p.call) => p \notin posts
    BY <2>1, <2>2
  <2>4. \A p, q \in posts' : p.call = q.call /\ Punctual(p.call) => p = q
    BY <1>1, <1>2, <1>4 DEF OneReport
  <2>5. QED BY <1>1, <1>3, <2>3, <2>4 DEF OneReport
<1>6. DoneIsLast'
  BY <1>1, <1>3, <1>4 DEF DoneIsLast
<1>7. UnsentHasNone'
  BY <1>1, <1>3, <1>4 DEF UnsentHasNone
<1>8. QED BY <1>5, <1>6, <1>7 DEF OrderInv

LEMMA WorkerOrder ==
  ASSUME TypeOK, ReadyInv, OnceInv, OnceInv', OrderInv, WorkerStep
  PROVE  OrderInv'
<1>1. OneReport /\ DoneIsLast /\ UnsentHasNone /\ OneJobEach /\ OneJobEach'
  BY DEF OrderInv, OnceInv
<1>2. UNCHANGED <<pc, row, happened>>
  BY DEF WorkerStep, TakeJob, Process, Finish, EndJob, Use
<1>3. Jobs' \subseteq Jobs /\ \A u : Punctual(u)' = Punctual(u)
  BY <1>2, WorkerJobs DEF Punctual, Met
<1>5. CASE TakeJob
  <2>1. /\ queue \in Seq(Uploads) /\ queue # <<>> /\ queue' = Tail(queue) /\ job' = Head(queue)
        /\ job = NoUpload /\ Send(Head(queue), step')
    BY <1>5 DEF TakeJob, TypeOK, GpuOK, Send
  <2>2. Head(queue) \in Uploads /\ InQueue = InQueue' \cup {Head(queue)} /\ Head(queue) \in Jobs
    BY <2>1, HeadLeaves, JobsAre
  <2>3. Head(queue) \notin InQueue'
    BY <2>1, HeadLeaves, <1>1 DEF OneJobEach
  <2>4. Punctual(Head(queue)) => \A p \in posts : p.call # Head(queue)
    BY <1>1, <2>1, <2>2, UploadsAssumption DEF OneReport
  <2>5. ~(row[Head(queue)].transcript /\ Punctual(Head(queue)))
    BY <1>1, <2>2 DEF DoneIsLast
  <2>6. QED BY <1>1, <1>2, <1>3, <2>1, <2>2, <2>3, <2>4, <2>5, SendOrder
<1>6. CASE Process \/ Finish
  <2>1. /\ job \in Uploads /\ UNCHANGED <<queue, job>> /\ ~waits /\ Send(job, step')
        /\ step \in {"downloading", "saving"} /\ (Finish => step' = "done")
        /\ (Process => step = "downloading")
    BY <1>6 DEF Process, Finish, Send, TypeOK, GpuOK
  <2>2. InQueue' = InQueue /\ job \in Jobs /\ job \notin InQueue'
    BY <1>1, <2>1, JobsAre, UploadsAssumption DEF InQueue, OneJobEach
  <2>3. Punctual(job) => \A p \in posts : p.call # job
    BY <1>1, <2>1, <2>2 DEF OneReport
  <2>4. ~(row[job].transcript /\ Punctual(job))
    BY <1>1, <2>1 DEF DoneIsLast
  <2>5. QED BY <1>1, <1>2, <1>3, <2>1, <2>2, <2>3, <2>4, SendOrder
<1>7. CASE EndJob
  <2>1. /\ UNCHANGED <<queue, posts, waits>> /\ ~waits /\ job' = NoUpload
    BY <1>7 DEF EndJob
  <2>2. InQueue' = InQueue
    BY <2>1 DEF InQueue
  <2>3. OneReport'
    BY <1>1, <1>3, <2>1 DEF OneReport
  <2>4. DoneIsLast'
    BY <1>1, <1>2, <1>3, <2>1, <2>2, UploadsAssumption DEF DoneIsLast
  <2>5. UnsentHasNone'
    BY <1>1, <1>2, <1>3, <2>1 DEF UnsentHasNone
  <2>6. QED BY <2>3, <2>4, <2>5 DEF OrderInv
<1>8. QED BY <1>5, <1>6, <1>7 DEF WorkerStep

LEMMA ReportOrder ==
  ASSUME TypeOK, OnceInv, OrderInv, [Next]_vars, NEW p \in posts, ReportAction(p)
  PROVE  OrderInv'
<1>1. OneReport /\ DoneIsLast /\ UnsentHasNone /\ \A u \in Uploads : Punctual(u)' => Punctual(u)
  BY PunctualBefore DEF OrderInv
<1>2. UNCHANGED <<queue, job, step, pc>>
  BY DEF ReportAction, Handle, Find, Refuse, Update, ChargeMinutes, Lose
<1>3. Jobs' = Jobs /\ InQueue' = InQueue
  BY <1>2 DEF Jobs, InQueue
<1>4. /\ p \in Reports /\ posts \subseteq Reports /\ waits \in BOOLEAN /\ row \in [Uploads -> Rows]
      /\ \A at : [p EXCEPT !.at = at].call = p.call /\ [p EXCEPT !.at = at].stage = p.stage
      /\ \A q \in posts : q.call \in Uploads
  BY DEF TypeOK, PostsOK, GpuOK, RowsOK, Reports
<1>5. ASSUME Answered(p) PROVE OneReport' /\ posts' \subseteq posts
  <2>1. posts' = posts \ {p} /\ waits' = (waits /\ ~(job = p.call /\ step = p.stage))
    BY <1>5 DEF Answered
  <2>2. \A q \in posts' : q \in posts /\ (Punctual(q.call) => q.call # p.call)
    BY <1>1, <2>1 DEF OneReport
  <2>3. \A q \in posts' : q.call \in Jobs /\ Punctual(q.call) => waits' /\ q.call = job
        /\ q.stage = step
    BY <1>1, <2>1, <2>2 DEF OneReport
  <2>4. QED BY <1>1, <1>2, <1>3, <1>4, <2>1, <2>2, <2>3 DEF OneReport
<1>6. ASSUME NEW at \in {"found", "charging"}, Reaches(p, at), waits' = waits
      PROVE  /\ OneReport'
             /\ \A q \in posts' : \E r \in posts : r.call = q.call /\ r.stage = q.stage
  <2>1. \A q \in posts' : (q \in posts /\ q # p) \/ q = [p EXCEPT !.at = at]
    BY <1>6 DEF Reaches
  <2>2. \A q \in posts' : \E r \in posts : r.call = q.call /\ r.stage = q.stage
    BY <1>4, <2>1
  <2>3. \A q, r \in posts' : q.call = r.call /\ Punctual(q.call) => q = r
    BY <1>1, <1>4, <2>1 DEF OneReport
  <2>4. \A q \in posts' : q.call \in Jobs /\ Punctual(q.call) => waits /\ q.call = job
        /\ q.stage = step
    BY <1>1, <2>2 DEF OneReport
  <2>5. \A q \in posts' : q.call \in Uploads
    BY <1>4, <2>2
  <2>6. QED BY <1>1, <1>2, <1>3, <1>6, <2>2, <2>3, <2>4, <2>5 DEF OneReport
<1>7. ASSUME \A q \in posts' : \E r \in posts : r.call = q.call /\ r.stage = q.stage,
             \A u \in Uploads \ {p.call} : row'[u] = row[u]
      PROVE  UnsentHasNone'
  BY <1>1, <1>2, <1>3, <1>7 DEF UnsentHasNone
<1>8. ASSUME row' = row, \A q \in posts' : \E r \in posts : r.call = q.call /\ r.stage = q.stage
      PROVE  DoneIsLast' /\ UnsentHasNone'
  BY <1>1, <1>2, <1>3, <1>7, <1>8 DEF DoneIsLast
<1>9. CASE Find(p)
  BY <1>5, <1>6, <1>8, <1>9 DEF Find, OrderInv
<1>10. CASE Lose(p) \/ Refuse(p) \/ ChargeMinutes(p)
  BY <1>5, <1>8, <1>10 DEF Lose, Refuse, ChargeMinutes, OrderInv
<1>11. CASE Update(p)
  <2>1. OneReport' /\ \A q \in posts' : \E r \in posts : r.call = q.call /\ r.stage = q.stage
    BY <1>5, <1>6, <1>11 DEF Update
  <2>2. p.call \in Uploads /\ pc[p.call] \notin Early
    BY <1>4 DEF Reports, OnceInv, NotYet
  <2>3. CASE ~Live(p.call)
    BY <1>8, <1>11, <2>1, <2>3 DEF Update, OrderInv
  <2>4. CASE Live(p.call)
    <3>1. /\ row'[p.call] = Reported(row[p.call], p.stage)
          /\ \A u \in Uploads : u # p.call => row'[u] = row[u]
      BY <1>4, <1>11, <2>2, <2>4 DEF Update
    <3>2. /\ row'[p.call].stage = p.stage
          /\ row'[p.call].transcript = (row[p.call].transcript \/ p.stage = "done")
      BY <1>4, <2>2, <3>1, ReportFields, ReportedIsRow
    <3>3. row'[p.call].transcript /\ Punctual(p.call) => p.stage = "done"
      BY <1>1, <2>2, <3>2 DEF DoneIsLast
    <3>4. p.stage = "done" => p.call \notin InQueue
      BY <2>2 DEF OnceInv, NotYet, ToDo
    <3>5. p.call = job /\ Punctual(p.call) => p.stage = step
      BY <1>1, <2>2, JobsAre, UploadsAssumption DEF OneReport
    <3>6. \A q \in posts' : q.call = p.call /\ Punctual(p.call) => q.stage = p.stage
      BY <1>1, <2>1 DEF OneReport
    <3>7. ASSUME NEW u \in Uploads, row'[u].transcript, Punctual(u)'
          PROVE  /\ row'[u].stage = "done" /\ pc'[u] \notin Early /\ u \notin InQueue'
                 /\ u = job' => step' = "done"
                 /\ \A q \in posts' : q.call = u => q.stage = "done"
      <4>0. Punctual(u)
        BY <1>1, <3>7
      <4>1. CASE u = p.call
        BY <1>2, <1>3, <2>2, <3>2, <3>3, <3>4, <3>5, <3>6, <3>7, <4>0, <4>1
      <4>2. CASE u # p.call
        BY <1>1, <1>2, <1>3, <2>1, <3>1, <3>7, <4>0, <4>2 DEF DoneIsLast
      <4>3. QED BY <4>1, <4>2
    <3>8. DoneIsLast'
      BY <3>7 DEF DoneIsLast
    <3>9. UnsentHasNone'
      BY <1>7, <2>1, <3>1
    <3>10. QED BY <2>1, <3>8, <3>9 DEF OrderInv
  <2>5. QED BY <2>3, <2>4
<1>12. QED
  BY <1>9, <1>10, <1>11 DEF ReportAction, Handle

LEMMA OtherOrder ==
  ASSUME TypeOK, OrderInv, [Next]_vars,
         (\E u \in Uploads : RemoveAction(u)) \/ TimeOut \/ CrashBackend \/ CrashGpu
         \/ UNCHANGED vars
  PROVE  OrderInv'
<1>1. OneReport /\ DoneIsLast /\ UnsentHasNone /\ \A u \in Uploads : Punctual(u)' => Punctual(u)
  BY PunctualBefore DEF OrderInv
<1>2. \A u \in Uploads : pc'[u] \in Early => pc[u] \in Early
  BY HandlersGoOn
<1>3. row \in [Uploads -> Rows] /\ \A p \in posts : p.call \in Uploads
  BY DEF TypeOK, RowsOK, PostsOK, Reports
<1>4. CASE UNCHANGED <<queue, job, step, waits, posts, pc>>
  <2>1. \A u \in Uploads : row'[u].transcript => row'[u] = row[u]
    <3>1. ASSUME NEW v \in Uploads, RemoveRow(v)
          PROVE  \A u \in Uploads : row'[u].transcript => row'[u] = row[u]
      BY <1>3, <3>1 DEF RemoveRow, NoRow
    <3>2. CASE row' = row
      BY <3>2
    <3>3. QED
      BY <3>1, <3>2 DEF RemoveAction, Remove, RemoveOriginal, RemoveDerived, TimeOut, CrashBackend,
         CrashGpu, vars
  <2>2. OneReport'
    BY <1>1, <1>3, <1>4 DEF OneReport, Jobs
  <2>3. UnsentHasNone'
    BY <1>1, <1>4, <2>1 DEF UnsentHasNone, Jobs
  <2>4. DoneIsLast'
    BY <1>1, <1>4, <2>1 DEF DoneIsLast, InQueue
  <2>5. QED BY <2>2, <2>3, <2>4 DEF OrderInv
<1>5. CASE TimeOut
  <2>1. UNCHANGED <<queue, job, step, posts, pc, row>> /\ Meet({job}, "timeout")
    BY <1>5 DEF TimeOut
  <2>2. \A u \in Uploads : u = job => ~Punctual(u)'
    <3>1. ASSUME NEW u \in Uploads, u = job PROVE "timeout" \in happened'[u]
      BY <2>1, <3>1, MeetTyped DEF TypeOK, Kinds
    <3>2. QED BY <3>1 DEF Punctual, Met
  <2>3. OneReport'
    BY <1>1, <1>3, <2>1, <2>2 DEF OneReport, Jobs
  <2>4. DoneIsLast' /\ UnsentHasNone'
    BY <1>1, <2>1 DEF DoneIsLast, UnsentHasNone, InQueue, Jobs
  <2>5. QED BY <2>3, <2>4 DEF OrderInv
<1>6. CASE CrashBackend
  <2>1. UNCHANGED <<queue, job, step, row>> /\ posts' = {}
        /\ \A u \in Uploads : pc'[u] = pc[u] \/ pc'[u] = "lost"
    BY <1>6 DEF CrashBackend
  <2>2. OneReport' /\ UnsentHasNone'
    BY <1>1, <2>1 DEF OneReport, UnsentHasNone, Jobs
  <2>3. DoneIsLast'
    BY <1>1, <1>2, <2>1 DEF DoneIsLast, InQueue
  <2>4. QED BY <2>2, <2>3 DEF OrderInv
<1>7. CASE CrashGpu
  <2>1. UNCHANGED <<row, posts, pc>> /\ queue' = <<>> /\ job' = NoUpload
    BY <1>7 DEF CrashGpu
  <2>2. InQueue' = {} /\ Jobs' = {}
    BY <2>1 DEF InQueue, Jobs
  <2>3. OneReport' /\ UnsentHasNone'
    BY <1>1, <1>3, <2>1, <2>2 DEF OneReport, UnsentHasNone
  <2>4. DoneIsLast'
    BY <1>1, <2>1, <2>2, UploadsAssumption DEF DoneIsLast
  <2>5. QED BY <2>3, <2>4 DEF OrderInv
<1>8. QED
  BY <1>4, <1>5, <1>6, <1>7 DEF RemoveAction, Remove, RemoveOriginal, RemoveDerived, RemoveRow, vars

LEMMA OrderInvariant == Spec => []OrderInv
<1>1. TypeOK /\ ReadyInv /\ OnceInv /\ OnceInv' /\ OrderInv /\ [Next]_vars => OrderInv'
  BY StepCases, UploadOrder, WorkerOrder, ReportOrder, OtherOrder
<1>2. QED
  BY <1>1, InitOrder, ReadyInvariant, OnceInvariant, PTL DEF Spec

(* A call that has its transcript is shown as done and at no earlier stage,
   through crashes, lost and refused reports, removals and whatever befalls
   other calls, unless the worker gave up waiting for an answer to one of its
   own reports or the upload for its dispatch (report, applyProgress,
   MarkWaiting). *)
THEOREM StagesAreTruthful == Spec => []StageTruthful
<1>1. OrderInv => StageTruthful
  BY DEF OrderInv, Punctual, DoneIsLast, StageTruthful
<1>2. QED
  BY <1>1, OrderInvariant, PTL

=============================================================================
