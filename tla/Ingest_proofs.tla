---------------------------- MODULE Ingest_proofs ----------------------------
(***************************************************************************)
(* Theorems about Ingest, for any set of uploads and recordings, any       *)
(* limits and any number of crashes, requests and failing inserts.         *)
(***************************************************************************)
EXTENDS Ingest, FiniteSetTheorems, TLAPS

USE DEF upload, store, pruner

(* What a DELETE request and the pruner take off their lists *)
Removal(u) ==
  \/ DeleteRead(u) \/ DeleteFile(u) \/ DeleteRow(u) \/ DeleteFails(u)
  \/ PruneRow(u) \/ PruneRowFails(u)

(* What a DELETE request, the pruner, or a crash does *)
LEMMA StepCases ==
  ASSUME [Next]_vars
  PROVE  \/ \E u \in Uploads : UploadStep(u)
         \/ \E u \in Uploads : JobStep(u)
         \/ \E u \in Uploads : Removal(u)
         \/ Scan \/ PruneFile \/ PruneFileFails \/ Crash \/ Restart \/ UNCHANGED vars
  BY DEF Next, Prune, Removal

-----------------------------------------------------------------------------
(***************************************************************************)
(* Type correctness. That the calls so far are finitely many is what makes *)
(* the next created_at a number.                                           *)
(***************************************************************************)
RequestsTyped ==
  /\ phase \in {"down", "up"}
  /\ pc \in [Uploads -> {"idle", "streaming", "accepted", "rejected", "duplicate", "lost"}]
  /\ content \in [Uploads -> Contents]
  /\ written \in [Uploads -> 0..MaxChunks]
  /\ tmp \in [Uploads -> BOOLEAN]
  /\ answer \in [Uploads -> Uploads \cup {NoUpload}]
StoreTyped ==
  /\ status \in [Uploads -> {"absent", "queued", "processing", "completed", "failed"}]
  /\ created \in [Uploads -> Nat]
  /\ filename \in [Uploads -> Uploads \cup {NoUpload}]
  /\ audio \in [Uploads -> BOOLEAN]
  /\ mtime \in [Uploads -> Nat]
  /\ clock \in Nat
RestTyped ==
  /\ waiting \subseteq Uploads
  /\ deleting \in [Uploads -> {"no", "file", "row"}]
  /\ doomed \subseteq Uploads
  /\ pruning \in Uploads \cup {NoUpload}
UsedTyped ==
  used \in [crash : Nat, delete : Nat, reprocess : Nat, fault : Nat, error : Nat, named : Nat]
Kinds == {"crash", "delete", "reprocess", "fault", "error", "named"}

LEMMA TypeParts == TypeOK <=> RequestsTyped /\ StoreTyped /\ RestTyped /\ UsedTyped
  BY DEF TypeOK, RequestsTyped, StoreTyped, RestTyped, UsedTyped

(* created_at counts the calls there have been: however many uploads may come,
   they are finitely many *)
Ranked == {v \in Uploads : created[v] # 0}

TypeInv == TypeOK /\ IsFiniteSet(Ranked)

(* An event is counted once, and no count goes down. *)
LEMMA UseCounts ==
  ASSUME UsedTyped, NEW event \in Kinds, Use(event) \/ Note(event)
  PROVE  /\ UsedTyped'
         /\ used'[event] # 0
         /\ \A e \in Kinds : used'[e] = 0 => used[e] = 0
<1>1. used' = [used EXCEPT ![event] = used[event] + 1]
  BY DEF Use, Note
<1>2. CASE event = "crash"
  BY <1>1, <1>2 DEF UsedTyped, Kinds
<1>3. CASE event = "delete"
  BY <1>1, <1>3 DEF UsedTyped, Kinds
<1>4. CASE event = "reprocess"
  BY <1>1, <1>4 DEF UsedTyped, Kinds
<1>5. CASE event = "fault"
  BY <1>1, <1>5 DEF UsedTyped, Kinds
<1>6. CASE event = "error"
  BY <1>1, <1>6 DEF UsedTyped, Kinds
<1>7. CASE event = "named"
  BY <1>1, <1>7 DEF UsedTyped, Kinds
<1>8. QED BY <1>2, <1>3, <1>4, <1>5, <1>6, <1>7 DEF Kinds

LEMMA StepUse ==
  ASSUME UsedTyped, [Next]_vars
  PROVE  /\ UsedTyped'
         /\ used'.delete = 0 => used.delete = 0
         /\ used'.reprocess = 0 => used.reprocess = 0
         /\ used'.fault = 0 => used.fault = 0
<1>1. \/ \E event \in Kinds : Use(event) \/ Note(event)
      \/ UNCHANGED used
  <2>1. ASSUME NEW u \in Uploads, UploadStep(u)
        PROVE  Use("fault") \/ Use("named") \/ UNCHANGED used
    BY <2>1 DEF UploadStep, Arrive, Receive, Reject, AnswerDuplicate, Accept, InsertFails
  <2>2. ASSUME NEW u \in Uploads, JobStep(u) PROVE Use("reprocess") \/ UNCHANGED used
    BY <2>2 DEF JobStep, Enqueue, Dequeue, Begin, End, Reprocess
  <2>3. ASSUME NEW u \in Uploads, Removal(u)
        PROVE  Use("delete") \/ Use("error") \/ Note("error") \/ UNCHANGED used
    BY <2>3 DEF Removal, DeleteRead, DeleteFile, DeleteRow, DeleteFails, PruneRow, PruneRowFails
  <2>4. ASSUME Scan \/ PruneFile \/ PruneFileFails \/ Crash \/ Restart \/ UNCHANGED vars
        PROVE  Use("error") \/ Use("crash") \/ UNCHANGED used
    BY <2>4 DEF Scan, PruneFile, PruneFileFails, Crash, Restart, vars
  <2>5. QED BY <2>1, <2>2, <2>3, <2>4, StepCases DEF Kinds
<1>2. UNCHANGED used => UsedTyped'
  BY DEF UsedTyped
<1>3. QED BY <1>1, <1>2, UseCounts DEF Kinds

LEMMA InitTyped == Init => TypeInv
<1> SUFFICES ASSUME Init PROVE TypeInv
  OBVIOUS
<1>1. Ranked = {}
  BY DEF Init, Ranked
<1>2. IsFiniteSet(Ranked)
  BY <1>1, FS_EmptySet
<1>3. RequestsTyped /\ StoreTyped /\ RestTyped /\ UsedTyped
  BY LimitsAssumption DEF Init, RequestsTyped, StoreTyped, RestTyped, UsedTyped
<1>4. QED BY <1>2, <1>3, TypeParts DEF TypeInv

(* Any numbers have a least one. *)
LEMMA LeastNumber ==
  ASSUME NEW T \in SUBSET Nat, T # {}
  PROVE  \E n \in T : \A m \in T : n =< m
<1>1. PICK top \in T : TRUE
  OBVIOUS
<1> DEFINE Low == {m \in T : m =< top}
           Ranges == {0..m : m \in Low}
<1>2. IsFiniteSet(0..top)
  BY FS_Interval
<1>3. IsWellFoundedOn(StrictSubsetOrdering(0..top), SUBSET (0..top))
  BY <1>2, FS_StrictSubsetOrderingWellFounded, FS_FiniteSubsetsOfFinite
<1>4. Ranges \subseteq SUBSET (0..top) /\ Ranges # {}
  BY <1>1
<1>5. PICK least \in Ranges : \A other \in Ranges : <<other, least>>
      \notin StrictSubsetOrdering(0..top)
  <2> HIDE DEF Ranges
  <2>1. QED BY <1>3, <1>4, WFMin
<1>6. PICK n \in Low : least = 0..n
  BY <1>5
<1>7. ASSUME NEW m \in T, m < n PROVE FALSE
  <2>1. m \in Low /\ n \in Nat
    BY <1>6, <1>7, <1>1
  <2>2. 0..m \in Ranges /\ 0..m \subseteq 0..n /\ 0..m # 0..n
    BY <2>1, <1>7
  <2>3. <<0..m, 0..n>> \in StrictSubsetOrdering(0..top)
    BY <2>1, <2>2, <1>4, <1>6 DEF StrictSubsetOrdering
  <2>4. QED BY <1>5, <1>6, <2>2, <2>3
<1>8. QED BY <1>6, <1>7

(* find_by_hash's ORDER BY created_at LIMIT 1 is one of the rows it found. *)
LEMMA OldestIsThere ==
  ASSUME StoreTyped, NEW S \in SUBSET Uploads, S # {}
  PROVE  Oldest(S) \in S
<1>1. {created[v] : v \in S} \in SUBSET Nat /\ {created[v] : v \in S} # {}
  BY DEF StoreTyped
<1>2. PICK n \in {created[v] : v \in S} : \A m \in {created[v] : v \in S} : n =< m
  BY <1>1, LeastNumber
<1>3. PICK v \in S : n = created[v]
  BY <1>2
<1>4. \A x \in S : created[v] =< created[x]
  BY <1>2, <1>3
<1>5. QED BY <1>4 DEF Oldest

LEMMA DuplicateTyped ==
  ASSUME NEW u \in Uploads, FindDuplicate(u) # NoUpload, StoreTyped
  PROVE  FindDuplicate(u) \in Uploads
<1>1. Candidates(u) # {} /\ FindDuplicate(u) = Oldest(Candidates(u))
  BY DEF FindDuplicate
<1>2. Candidates(u) \in SUBSET Uploads
  BY DEF Candidates
<1>3. QED BY <1>1, <1>2, OldestIsThere

LEMMA UploadTyped ==
  ASSUME TypeInv, NEW u \in Uploads, UploadStep(u)
  PROVE  RequestsTyped' /\ StoreTyped' /\ RestTyped' /\ IsFiniteSet(Ranked')
<1> USE TypeParts DEF TypeInv
<1>1. CASE Arrive(u)
  <2>1. RequestsTyped'
    BY <1>1 DEF Arrive, RequestsTyped
  <2>2. StoreTyped' /\ RestTyped' /\ Ranked' = Ranked
    BY <1>1 DEF Arrive, StoreTyped, RestTyped, Ranked
  <2>3. QED BY <2>1, <2>2
<1>2. CASE Receive(u)
  <2>1. written[u] + 1 \in 0..MaxChunks
    BY <1>2, LimitsAssumption DEF Receive, RequestsTyped
  <2>2. RequestsTyped'
    BY <1>2, <2>1 DEF Receive, RequestsTyped
  <2>3. StoreTyped' /\ RestTyped' /\ Ranked' = Ranked
    BY <1>2 DEF Receive, StoreTyped, RestTyped, Ranked
  <2>4. QED BY <2>2, <2>3
<1>3. CASE Reject(u)
  <2>1. RequestsTyped'
    BY <1>3 DEF Reject, RequestsTyped
  <2>2. StoreTyped' /\ RestTyped' /\ Ranked' = Ranked
    BY <1>3 DEF Reject, StoreTyped, RestTyped, Ranked
  <2>3. QED BY <2>1, <2>2
<1>4. CASE AnswerDuplicate(u)
  <2>1. RequestsTyped'
    BY <1>4, DuplicateTyped DEF AnswerDuplicate, RequestsTyped
  <2>2. StoreTyped' /\ RestTyped' /\ Ranked' = Ranked
    BY <1>4 DEF AnswerDuplicate, StoreTyped, RestTyped, Ranked
  <2>3. QED BY <2>1, <2>2
<1>5. CASE Accept(u)
  <2>1. RequestsTyped'
    BY <1>5 DEF Accept, RequestsTyped
  <2>2. Cardinality(Ranked) \in Nat
    BY FS_CardinalityType
  <2>3. created' = [created EXCEPT ![u] = 1 + Cardinality(Ranked)]
    BY <1>5 DEF Accept, Ranked
  <2>4. StoreTyped'
    <3>1. filename' \in [Uploads -> Uploads \cup {NoUpload}]
      BY <1>5 DEF Accept, StoreTyped
    <3>2. created' \in [Uploads -> Nat]
      BY <2>2, <2>3 DEF StoreTyped
    <3>3. QED BY <1>5, <3>1, <3>2 DEF Accept, StoreTyped
  <2>5. RestTyped'
    BY <1>5 DEF Accept, RestTyped
  <2>6. Ranked' = Ranked \cup {u}
    BY <2>2, <2>3 DEF Ranked, StoreTyped
  <2>7. QED BY <2>1, <2>4, <2>5, <2>6, FS_AddElement
<1>6. CASE InsertFails(u)
  <2>1. RequestsTyped'
    BY <1>6 DEF InsertFails, RequestsTyped
  <2>2. StoreTyped' /\ RestTyped' /\ Ranked' = Ranked
    BY <1>6 DEF InsertFails, StoreTyped, RestTyped, Ranked
  <2>3. QED BY <2>1, <2>2
<1>7. QED BY <1>1, <1>2, <1>3, <1>4, <1>5, <1>6 DEF UploadStep

LEMMA JobTyped ==
  ASSUME TypeInv, NEW u \in Uploads, JobStep(u)
  PROVE  RequestsTyped' /\ StoreTyped' /\ RestTyped' /\ IsFiniteSet(Ranked')
<1> USE TypeParts DEF TypeInv
<1>1. RequestsTyped' /\ Ranked' = Ranked
  BY DEF JobStep, Enqueue, Dequeue, Begin, End, Reprocess, SetStatus, RequestsTyped, Ranked
<1>2. StoreTyped'
  BY DEF JobStep, Enqueue, Dequeue, Begin, End, Reprocess, SetStatus, StoreTyped
<1>3. RestTyped'
  BY DEF JobStep, Enqueue, Dequeue, Begin, End, Reprocess, SetStatus, RestTyped
<1>4. QED BY <1>1, <1>2, <1>3

(* Rows that are dropped are gone, the others are as they were. *)
LEMMA DropsRows ==
  ASSUME StoreTyped, NEW S, DropRows(S)
  PROVE  /\ status' \in [Uploads -> {"absent", "queued", "processing", "completed", "failed"}]
         /\ \A v \in Uploads : status'[v] = IF v \in S THEN "absent" ELSE status[v]
  BY DEF DropRows, StoreTyped

LEMMA RemovalDrops ==
  ASSUME StoreTyped, NEW u \in Uploads, Removal(u)
  PROVE  \/ UNCHANGED status
         \/ \E S \in SUBSET Uploads : DropRows(S)
<1>1. {u} \in SUBSET Uploads /\ RowsOf(u) \in SUBSET Uploads
  BY DEF RowsOf
<1>2. CASE PruneRowFails(u)
  BY <1>1, <1>2 DEF PruneRowFails
<1>3. QED
  BY <1>1, <1>2 DEF Removal, DeleteRead, DeleteFile, DeleteRow, DeleteFails, PruneRow

LEMMA RemovalTyped ==
  ASSUME TypeInv, NEW u \in Uploads, Removal(u)
  PROVE  RequestsTyped' /\ StoreTyped' /\ RestTyped' /\ IsFiniteSet(Ranked')
<1> USE TypeParts DEF TypeInv
<1>1. RequestsTyped' /\ Ranked' = Ranked
  BY DEF Removal, DeleteRead, DeleteFile, DeleteRow, DeleteFails, PruneRow, PruneRowFails,
         RequestsTyped, Ranked
<1>2. StoreTyped'
  <2>1. UNCHANGED <<created, filename, mtime, clock>>
    BY DEF Removal, DeleteRead, DeleteFile, DeleteRow, DeleteFails, PruneRow, PruneRowFails
  <2>2. audio' \in [Uploads -> BOOLEAN]
    BY DEF Removal, DeleteRead, DeleteFile, DeleteRow, DeleteFails, PruneRow, PruneRowFails,
           StoreTyped
  <2>3. status' \in [Uploads -> {"absent", "queued", "processing", "completed", "failed"}]
    BY RemovalDrops, DropsRows DEF StoreTyped
  <2>4. QED BY <2>1, <2>2, <2>3 DEF StoreTyped
<1>3. RestTyped'
  BY DEF Removal, DeleteRead, DeleteFile, DeleteRow, DeleteFails, PruneRow, PruneRowFails,
         RestTyped
<1>4. QED BY <1>1, <1>2, <1>3

LEMMA ServerTyped ==
  ASSUME TypeInv, Scan \/ PruneFile \/ PruneFileFails \/ Crash \/ Restart \/ UNCHANGED vars
  PROVE  RequestsTyped' /\ StoreTyped' /\ RestTyped' /\ IsFiniteSet(Ranked')
<1> USE TypeParts DEF TypeInv
<1>1. Ranked' = Ranked
  BY DEF Scan, PruneFile, PruneFileFails, Crash, Restart, vars, Ranked
<1>2. CASE Crash
  <2>1. /\ UNCHANGED tmp \/ \E u \in Uploads : tmp' = [tmp EXCEPT ![u] = FALSE]
        /\ UNCHANGED audio \/ \E u \in Uploads : audio' = [audio EXCEPT ![u] = TRUE]
    BY <1>2 DEF Crash
  <2>2. RequestsTyped'
    BY <1>2, <2>1 DEF Crash, RequestsTyped
  <2>3. StoreTyped'
    BY <1>2, <2>1 DEF Crash, StoreTyped
  <2>4. RestTyped'
    BY <1>2 DEF Crash, RestTyped
  <2>5. QED BY <1>1, <2>2, <2>3, <2>4
<1>3. CASE Restart
  <2>1. RequestsTyped' /\ StoreTyped'
    BY <1>3 DEF Restart, RequestsTyped, StoreTyped
  <2>2. RestTyped'
    BY <1>3 DEF Restart, RestTyped
  <2>3. QED BY <1>1, <2>1, <2>2
<1>4. CASE Scan \/ PruneFile \/ PruneFileFails \/ UNCHANGED vars
  <2>1. RequestsTyped' /\ StoreTyped'
    BY <1>4 DEF Scan, PruneFile, PruneFileFails, vars, RequestsTyped, StoreTyped
  <2>2. RestTyped'
    BY <1>4 DEF Scan, PruneFile, PruneFileFails, vars, RestTyped, Files
  <2>3. QED BY <1>1, <2>1, <2>2
<1>5. QED BY <1>2, <1>3, <1>4

LEMMA TypeInvariant == Spec => []TypeInv
<1>1. ASSUME TypeInv, [Next]_vars PROVE TypeInv'
  <2>1. UsedTyped'
    BY <1>1, StepUse, TypeParts DEF TypeInv
  <2>2. RequestsTyped' /\ StoreTyped' /\ RestTyped' /\ IsFiniteSet(Ranked')
    BY <1>1, StepCases, UploadTyped, JobTyped, RemovalTyped, ServerTyped
  <2>3. (RequestsTyped' /\ StoreTyped' /\ RestTyped' /\ UsedTyped') => TypeOK'
    BY DEF TypeOK, RequestsTyped, StoreTyped, RestTyped, UsedTyped
  <2>4. QED BY <2>1, <2>2, <2>3 DEF TypeInv
<1>2. QED BY <1>1, InitTyped, PTL DEF Spec

(* Every variable of the model of uploads keeps its kind, and no temporary file
   grows past MAX_BYTES, for any number of uploads, requests and crashes. *)
THEOREM TypeCorrect == Spec => []TypeOK
<1>1. TypeInv => TypeOK
  BY DEF TypeInv
<1>2. QED BY <1>1, TypeInvariant, PTL

-----------------------------------------------------------------------------
(***************************************************************************)
(* Most steps only take something away: a row, a recording, or the failure *)
(* of a call that is asked for again.                                      *)
(***************************************************************************)
OnlyLess ==
  /\ UNCHANGED <<phase, pc, content, tmp, mtime>>
  /\ \A u \in Uploads : audio'[u] => audio[u]
  /\ \A u \in Uploads : status[u] = "absent" => status'[u] = "absent"
  /\ used'.reprocess = 0 =>
        \A u \in Uploads : status[u] = "failed" => status'[u] \in {"failed", "absent"}

LEMMA CalmStep ==
  ASSUME TypeInv, [Next]_vars
  PROVE  \/ OnlyLess \/ (\E u \in Uploads : UploadStep(u)) \/ Crash \/ Restart
<1> USE TypeParts DEF TypeInv
<1>1. ASSUME NEW u \in Uploads, JobStep(u) PROVE OnlyLess
  <2>1. UNCHANGED <<phase, pc, content, tmp, mtime, audio>>
    BY <1>1 DEF JobStep, Enqueue, Dequeue, Begin, End, Reprocess, SetStatus
  <2>2. \A v \in Uploads : status[v] = "absent" => status'[v] = "absent"
    BY <1>1 DEF JobStep, Enqueue, Dequeue, Begin, End, Reprocess, SetStatus, Live, StoreTyped
  <2>3. CASE Reprocess(u)
    <3>1. used'.reprocess # 0
      BY <2>3, UseCounts DEF Reprocess, Kinds
    <3>2. QED BY <2>1, <2>2, <3>1 DEF OnlyLess
  <2>4. CASE Enqueue(u) \/ Dequeue(u) \/ Begin(u) \/ End(u)
    <3>1. \A v \in Uploads : status[v] = "failed" => status'[v] = "failed"
      BY <2>4 DEF Enqueue, Dequeue, Begin, End, SetStatus, StoreTyped
    <3>2. QED BY <2>1, <2>2, <3>1 DEF OnlyLess
  <2>5. QED BY <1>1, <2>3, <2>4 DEF JobStep
<1>2. ASSUME NEW u \in Uploads, Removal(u) PROVE OnlyLess
  <2>1. UNCHANGED <<phase, pc, content, tmp, mtime>>
    BY <1>2 DEF Removal, DeleteRead, DeleteFile, DeleteRow, DeleteFails, PruneRow, PruneRowFails
  <2>2. \A v \in Uploads : audio'[v] => audio[v]
    BY <1>2 DEF Removal, DeleteRead, DeleteFile, DeleteRow, DeleteFails, PruneRow, PruneRowFails,
           StoreTyped
  <2>3. \A v \in Uploads : status'[v] \in {status[v], "absent"}
    BY <1>2, RemovalDrops, DropsRows
  <2>4. QED BY <2>1, <2>2, <2>3 DEF OnlyLess
<1>3. CASE Scan \/ PruneFile \/ PruneFileFails \/ UNCHANGED vars
  <2>1. UNCHANGED <<phase, pc, content, tmp, mtime, status>>
    BY <1>3 DEF Scan, PruneFile, PruneFileFails, vars
  <2>2. \A v \in Uploads : audio'[v] => audio[v]
    BY <1>3 DEF Scan, PruneFile, PruneFileFails, vars, StoreTyped, RestTyped
  <2>3. QED BY <2>1, <2>2 DEF OnlyLess
<1>4. QED BY <1>1, <1>2, <1>3, StepCases

(* What an upload does to its own file and row; it touches nobody else's. *)
LEMMA UploadOwn ==
  ASSUME TypeInv, NEW u \in Uploads, UploadStep(u)
  PROVE  /\ UNCHANGED <<phase, content>>
         /\ \A v \in Uploads \ {u} :
               /\ pc'[v] = pc[v] /\ tmp'[v] = tmp[v] /\ audio'[v] = audio[v]
               /\ status'[v] = status[v] /\ mtime'[v] = mtime[v]
         /\ pc[u] \in {"idle", "streaming"}
         /\ \/ /\ pc'[u] = "streaming"
               /\ audio'[u] = audio[u] /\ status'[u] = status[u]
               /\ pc[u] = "idle" => phase = "up"
            \/ /\ pc'[u] \in {"rejected", "duplicate"}
               /\ audio'[u] = audio[u] /\ status'[u] = status[u]
               /\ ~tmp'[u] \/ (tmp'[u] = tmp[u] /\ pc[u] = "idle")
            \/ /\ pc[u] = "streaming"
               /\ pc'[u] = "rejected" /\ used'.fault # 0
               /\ audio'[u] /\ status'[u] = status[u] /\ ~tmp'[u]
            \/ /\ pc[u] = "streaming" /\ FindDuplicate(u) = NoUpload
               /\ pc'[u] = "accepted"
               /\ audio'[u] /\ status'[u] = "queued" /\ ~tmp'[u]
<1> USE TypeParts DEF TypeInv, RequestsTyped, StoreTyped
<1>1. CASE Arrive(u)
  BY <1>1 DEF Arrive
<1>2. CASE Receive(u)
  BY <1>2 DEF Receive
<1>3. CASE Reject(u)
  BY <1>3 DEF Reject
<1>4. CASE AnswerDuplicate(u)
  BY <1>4 DEF AnswerDuplicate, Streamed
<1>5. CASE Accept(u)
  BY <1>5 DEF Accept, Streamed
<1>6. CASE InsertFails(u)
  <2>1. used'.fault # 0
    BY <1>6, UseCounts DEF InsertFails, Kinds
  <2>2. QED BY <1>6, <2>1 DEF InsertFails, Streamed
<1>7. QED BY <1>1, <1>2, <1>3, <1>4, <1>5, <1>6 DEF UploadStep

(* What a crash and the startup after it do to requests and recordings. *)
LEMMA CrashLoses ==
  ASSUME TypeInv, Crash
  PROVE  /\ phase' = "down" /\ UNCHANGED <<content, status, mtime>>
         /\ \A u \in Uploads :
               /\ pc'[u] = IF pc[u] = "streaming" THEN "lost" ELSE pc[u]
               /\ tmp'[u] => tmp[u]
               /\ audio[u] => audio'[u]
               /\ pc[u] # "streaming" => audio'[u] = audio[u]
<1> USE TypeParts DEF TypeInv, RequestsTyped, StoreTyped
<1>1. \/ UNCHANGED <<tmp, audio>>
      \/ \E u \in Uploads : /\ pc[u] = "streaming"
                            /\ tmp' = [tmp EXCEPT ![u] = FALSE]
                            /\ audio' = [audio EXCEPT ![u] = TRUE]
  BY DEF Crash, Streamed
<1>2. phase' = "down" /\ UNCHANGED <<content, status, mtime>>
      /\ pc' = [u \in Uploads |-> IF pc[u] = "streaming" THEN "lost" ELSE pc[u]]
  BY DEF Crash
<1>3. QED BY <1>1, <1>2

LEMMA RestartSweeps ==
  ASSUME TypeInv, Restart
  PROVE  /\ phase' = "up" /\ UNCHANGED <<pc, content, audio, mtime>>
         /\ \A u \in Uploads :
               /\ ~tmp'[u]
               /\ status'[u] = IF status[u] = "processing" THEN "queued" ELSE status[u]
  BY DEF Restart

-----------------------------------------------------------------------------
(***************************************************************************)
(* A refused upload leaves nothing behind. Its row would have to come from *)
(* an accepted one, its recording from an insert that failed, and its      *)
(* partial file from a request that still streams or a crash not yet swept *)
(* up.                                                                     *)
(***************************************************************************)
NoRowYet == \A u \in Uploads : pc[u] # "accepted" => ~Live(u)
NoFileYet == \A u \in Uploads : pc[u] \in {"idle", "streaming", "duplicate"} => ~audio[u]
NoFileAfter == used.fault = 0 => \A u \in Uploads : pc[u] = "rejected" => ~audio[u]
TmpOwned ==
  \A u \in Uploads : tmp[u] => pc[u] = "streaming" \/ (phase = "down" /\ pc[u] = "lost")

RefusedInv == NoRowYet /\ NoFileYet /\ NoFileAfter /\ TmpOwned

LEMMA RefusedStep ==
  ASSUME TypeInv, RefusedInv, [Next]_vars
  PROVE  RefusedInv'
<1> USE DEF RefusedInv, Live
<1>1. used'.fault = 0 => used.fault = 0
  BY StepUse, TypeParts DEF TypeInv
<1>2. CASE OnlyLess
  BY <1>1, <1>2 DEF OnlyLess, NoRowYet, NoFileYet, NoFileAfter, TmpOwned
<1>3. ASSUME NEW u \in Uploads, UploadStep(u) PROVE RefusedInv'
  <2>1. NoRowYet'
    BY <1>3, UploadOwn DEF NoRowYet
  <2>2. NoFileYet'
    BY <1>3, UploadOwn DEF NoFileYet
  <2>3. NoFileAfter'
    BY <1>1, <1>3, UploadOwn DEF NoFileYet, NoFileAfter
  <2>4. TmpOwned'
    BY <1>3, UploadOwn DEF TmpOwned
  <2>5. QED BY <2>1, <2>2, <2>3, <2>4
<1>4. CASE Crash
  <2>1. NoRowYet'
    BY <1>4, CrashLoses DEF NoRowYet
  <2>2. NoFileYet' /\ NoFileAfter'
    BY <1>1, <1>4, CrashLoses DEF NoFileYet, NoFileAfter
  <2>3. TmpOwned'
    BY <1>4, CrashLoses DEF TmpOwned
  <2>4. QED BY <2>1, <2>2, <2>3
<1>5. CASE Restart
  BY <1>1, <1>5, RestartSweeps DEF NoRowYet, NoFileYet, NoFileAfter, TmpOwned
<1>6. QED BY <1>2, <1>3, <1>4, <1>5, CalmStep

LEMMA RefusedInvariant == Spec => []RefusedInv
<1>1. Init => RefusedInv
  BY DEF Init, RefusedInv, NoRowYet, NoFileYet, NoFileAfter, TmpOwned, Live
<1>2. QED BY <1>1, RefusedStep, TypeInvariant, PTL DEF Spec

(* An upload that was refused has neither row nor recording nor partial file,
   whatever else went on, unless its insert failed; one that a crash cut off
   has no partial file once requests are served again. For any number of
   uploads at once. *)
THEOREM RefusedLeaveNothing == Spec => []RefusedLeavesNothing
<1>1. RefusedInv => RefusedLeavesNothing
  BY DEF RefusedInv, NoRowYet, NoFileAfter, TmpOwned, RefusedLeavesNothing, LeftBehind
<1>2. QED BY <1>1, RefusedInvariant, PTL

-----------------------------------------------------------------------------
(***************************************************************************)
(* What the pruner has on its list. Its files belong to uploads that are   *)
(* over, so nothing is written to them any more, and the row of the file   *)
(* it is deleting is gone.                                                 *)
(***************************************************************************)
Listed == doomed \cup ({pruning} \cap Uploads)

ListedAreOver == \A u \in Listed : pc[u] \in {"accepted", "rejected", "lost"}
PrunedHasNoRow == \A u \in Uploads : pruning = u => ~Live(u)
NoDelete == used.delete = 0 => \A u \in Uploads : deleting[u] = "no"

ListInv == ListedAreOver /\ PrunedHasNoRow /\ NoDelete

(* The list grows only when the pruner scans. *)
LEMMA ListMoves ==
  ASSUME TypeInv, [Next]_vars
  PROVE  \/ Scan
         \/ /\ Listed' \subseteq Listed
            /\ \/ \E u \in Uploads : PruneRow(u)
               \/ pruning' = pruning
               \/ pruning' = NoUpload
<1> USE UploadsAssumption DEF Listed
<1>1. ASSUME NEW u \in Uploads, UploadStep(u) PROVE UNCHANGED <<doomed, pruning>>
  BY <1>1 DEF UploadStep, Arrive, Receive, Reject, AnswerDuplicate, Accept, InsertFails
<1>2. ASSUME NEW u \in Uploads, JobStep(u) PROVE UNCHANGED <<doomed, pruning>>
  BY <1>2 DEF JobStep, Enqueue, Dequeue, Begin, End, Reprocess, SetStatus
<1>3. ASSUME NEW u \in Uploads, DeleteRead(u) \/ DeleteFile(u) \/ DeleteRow(u) \/ DeleteFails(u)
      PROVE  UNCHANGED <<doomed, pruning>>
  BY <1>3 DEF DeleteRead, DeleteFile, DeleteRow, DeleteFails
<1>4. ASSUME NEW u \in Uploads, PruneRow(u) PROVE Listed' \subseteq Listed
  BY <1>4 DEF PruneRow
<1>5. ASSUME NEW u \in Uploads, PruneRowFails(u)
      PROVE  Listed' \subseteq Listed /\ pruning' = pruning
  BY <1>5 DEF PruneRowFails
<1>6. CASE PruneFile \/ PruneFileFails \/ Crash \/ Restart \/ UNCHANGED vars
  BY <1>6 DEF PruneFile, PruneFileFails, Crash, Restart, vars
<1>7. QED BY <1>1, <1>2, <1>3, <1>4, <1>5, <1>6, StepCases DEF Removal

(* Without a DELETE request nothing is ever on its way to be deleted. *)
LEMMA NoDeleteStep ==
  ASSUME TypeInv, NoDelete, [Next]_vars
  PROVE  NoDelete'
<1> USE TypeParts DEF TypeInv, NoDelete
<1>1. used'.delete = 0 => used.delete = 0
  BY StepUse
<1>2. ASSUME NEW u \in Uploads, UploadStep(u) PROVE NoDelete'
  BY <1>1, <1>2 DEF UploadStep, Arrive, Receive, Reject, AnswerDuplicate, Accept, InsertFails
<1>3. ASSUME NEW u \in Uploads, JobStep(u) PROVE NoDelete'
  BY <1>1, <1>3 DEF JobStep, Enqueue, Dequeue, Begin, End, Reprocess, SetStatus
<1>4. ASSUME NEW u \in Uploads, DeleteRead(u) PROVE NoDelete'
  BY <1>4, UseCounts DEF DeleteRead, Kinds
<1>5. ASSUME NEW u \in Uploads, Removal(u), ~DeleteRead(u) PROVE NoDelete'
  BY <1>1, <1>5 DEF Removal, DeleteFile, DeleteRow, DeleteFails, PruneRow, PruneRowFails, RestTyped
<1>6. CASE Scan \/ PruneFile \/ PruneFileFails \/ Crash \/ Restart \/ UNCHANGED vars
  BY <1>1, <1>6 DEF Scan, PruneFile, PruneFileFails, Crash, Restart, vars
<1>7. QED BY <1>2, <1>3, <1>4, <1>5, <1>6, StepCases

LEMMA ListStep ==
  ASSUME TypeInv, RefusedInv, ListInv, [Next]_vars
  PROVE  ListInv'
<1> USE TypeParts DEF TypeInv, ListInv
<1>1. NoDelete'
  BY NoDeleteStep
<1>2. \A u \in Uploads : pc[u] \in {"accepted", "rejected", "lost"} => pc'[u] = pc[u]
  BY CalmStep, UploadOwn, CrashLoses, RestartSweeps DEF OnlyLess
<1>3. Listed \subseteq Uploads /\ Listed' \subseteq Uploads
  <2>1. RestTyped /\ RestTyped'
    BY UploadTyped, JobTyped, RemovalTyped, ServerTyped, StepCases
  <2>2. QED BY <2>1 DEF RestTyped, Listed
<1>4. \A u \in Uploads : pc[u] \in {"accepted", "rejected", "lost"} /\ ~Live(u) => ~Live(u)'
  BY CalmStep, UploadOwn, CrashLoses, RestartSweeps DEF OnlyLess, Live
<1>5. ListedAreOver'
  <2>1. CASE Scan
    <3>1. doomed' \subseteq Files /\ pruning' = NoUpload /\ UNCHANGED pc
      BY <2>1 DEF Scan
    <3>2. \A u \in Listed' : audio[u] /\ u \in Uploads
      BY <3>1, UploadsAssumption DEF Listed, Files
    <3>3. QED BY <3>1, <3>2 DEF RefusedInv, NoFileYet, RequestsTyped, ListedAreOver
  <2>2. CASE Listed' \subseteq Listed
    BY <1>2, <1>3, <2>2 DEF ListedAreOver
  <2>3. QED BY <2>1, <2>2, ListMoves
<1>6. PrunedHasNoRow'
  <2>1. ASSUME NEW u \in Uploads, PruneRow(u) PROVE PrunedHasNoRow'
    <3>1. status'[u] = "absent" /\ pruning' = u
      BY <2>1, DropsRows DEF PruneRow, RowsOf
    <3>2. QED BY <3>1 DEF PrunedHasNoRow, Live
  <2>2. CASE pruning' = pruning
    <3>1. \A u \in Uploads : pruning = u => ~Live(u)'
      BY <1>4 DEF Listed, ListedAreOver, PrunedHasNoRow
    <3>2. QED BY <2>2, <3>1 DEF PrunedHasNoRow
  <2>3. CASE pruning' = NoUpload
    BY <2>3, UploadsAssumption DEF PrunedHasNoRow
  <2>4. Scan => pruning' = pruning
    BY DEF Scan
  <2>5. QED BY <2>1, <2>2, <2>3, <2>4, ListMoves
<1>7. QED BY <1>1, <1>5, <1>6

LEMMA ListInvariant == Spec => []ListInv
<1>1. Init => ListInv
  BY UploadsAssumption DEF Init, ListInv, ListedAreOver, PrunedHasNoRow, NoDelete, Listed
<1>2. QED BY <1>1, ListStep, TypeInvariant, RefusedInvariant, PTL DEF Spec

-----------------------------------------------------------------------------
(***************************************************************************)
(* One call for each recording. An upload is let in as a new call when the *)
(* oldest call of its content has lost its recording, even if a younger    *)
(* one has it; what excludes that is that, without a DELETE, the recording *)
(* of a call stays as long as its row.                                     *)
(***************************************************************************)
RowsHaveFiles == used.delete = 0 => \A u \in Uploads : Live(u) => audio[u]

Wanted(u) == status[u] \notin {"absent", "failed"}
OneCall ==
  used.delete = 0 /\ used.reprocess = 0 =>
     \A u, v \in Uploads : u # v /\ Wanted(u) /\ Wanted(v) => content[u] # content[v]

OneInv == RowsHaveFiles /\ OneCall

LEMMA RowsHaveFilesStep ==
  ASSUME TypeInv, ListInv, RowsHaveFiles, [Next]_vars
  PROVE  RowsHaveFiles'
<1> USE TypeParts DEF TypeInv, Live
<1>1. SUFFICES ASSUME used'.delete = 0, NEW u \in Uploads, status'[u] # "absent"
               PROVE  audio'[u]
  BY DEF RowsHaveFiles
<1>2. /\ \A v \in Uploads : deleting[v] = "no" /\ deleting'[v] = "no"
      /\ \A v \in Uploads : status[v] # "absent" => audio[v]
  BY <1>1, StepUse, NoDeleteStep DEF ListInv, NoDelete, RowsHaveFiles
<1>3. ASSUME NEW v \in Uploads, UploadStep(v) PROVE audio'[u]
  BY <1>1, <1>2, <1>3, UploadOwn
<1>4. ASSUME NEW v \in Uploads, JobStep(v) PROVE audio'[u]
  <2>1. audio' = audio
    BY <1>4 DEF JobStep, Enqueue, Dequeue, Begin, End, Reprocess, SetStatus
  <2>2. status[u] # "absent"
    BY <1>1, <1>4 DEF JobStep, Enqueue, Dequeue, Begin, End, Reprocess, SetStatus, StoreTyped
  <2>3. QED BY <1>2, <2>1, <2>2
<1>5. ASSUME NEW v \in Uploads, Removal(v) PROVE audio'[u]
  <2>1. DeleteRead(v) \/ PruneRow(v) \/ PruneRowFails(v)
    BY <1>2, <1>5 DEF Removal, DeleteFile, DeleteRow, DeleteFails
  <2>2. audio' = audio
    BY <2>1 DEF DeleteRead, PruneRow, PruneRowFails
  <2>3. status[u] # "absent"
    BY <1>1, <1>5, RemovalDrops, DropsRows
  <2>4. QED BY <1>2, <2>2, <2>3
<1>6. CASE PruneFile
  <2>1. status[u] # "absent" /\ u # pruning
    BY <1>1, <1>6 DEF PruneFile, ListInv, PrunedHasNoRow
  <2>2. QED BY <1>2, <1>6, <2>1 DEF PruneFile, StoreTyped
<1>7. CASE Crash
  BY <1>1, <1>2, <1>7, CrashLoses
<1>8. CASE Restart
  BY <1>1, <1>2, <1>8, RestartSweeps
<1>9. CASE Scan \/ PruneFileFails \/ UNCHANGED vars
  BY <1>1, <1>2, <1>9 DEF Scan, PruneFileFails, vars
<1>10. QED BY <1>3, <1>4, <1>5, <1>6, <1>7, <1>8, <1>9, StepCases

(* An upload that finds no duplicate has the only wanted call of its content. *)
LEMMA NewContent ==
  ASSUME TypeInv, RowsHaveFiles, used.delete = 0, NEW u \in Uploads, FindDuplicate(u) = NoUpload
  PROVE  \A v \in Uploads : Wanted(v) => content[v] # content[u]
<1>1. Candidates(u) \in SUBSET Uploads /\ \A v \in Candidates(u) : audio[v]
  BY DEF Candidates, RowsHaveFiles, Live
<1>2. Candidates(u) = {}
  <2>1. SUFFICES ASSUME Candidates(u) # {} PROVE FALSE
    OBVIOUS
  <2>2. Oldest(Candidates(u)) \in Candidates(u)
    BY <1>1, <2>1, OldestIsThere, TypeParts DEF TypeInv
  <2>3. FindDuplicate(u) = Oldest(Candidates(u))
    BY <1>1, <2>1, <2>2 DEF FindDuplicate
  <2>4. QED BY <1>1, <2>2, <2>3, UploadsAssumption
<1>3. QED BY <1>2 DEF Candidates, Wanted

LEMMA OneCallStep ==
  ASSUME TypeInv, RowsHaveFiles, OneCall, [Next]_vars
  PROVE  OneCall'
<1> USE TypeParts DEF TypeInv
<1>1. SUFFICES ASSUME used'.delete = 0, used'.reprocess = 0,
                      NEW u \in Uploads, NEW v \in Uploads, u # v, Wanted(u)', Wanted(v)'
               PROVE  content'[u] # content'[v]
  BY DEF OneCall
<1>2. used.delete = 0 /\ used.reprocess = 0
  BY <1>1, StepUse
<1>3. content' = content
  BY CalmStep, UploadOwn, CrashLoses, RestartSweeps DEF OnlyLess
<1>4. CASE Wanted(u) /\ Wanted(v)
  BY <1>1, <1>2, <1>3, <1>4 DEF OneCall
<1>5. ASSUME NEW x \in Uploads, ~Wanted(x), Wanted(x)'
      PROVE  UploadStep(x) /\ FindDuplicate(x) = NoUpload
  <2>1. CASE OnlyLess
    BY <1>1, <1>5, <2>1 DEF OnlyLess, Wanted
  <2>2. CASE Crash \/ Restart
    BY <1>5, <2>2, CrashLoses, RestartSweeps DEF Wanted
  <2>3. ASSUME NEW y \in Uploads, UploadStep(y) PROVE UploadStep(x) /\ FindDuplicate(x) = NoUpload
    BY <1>5, <2>3, UploadOwn DEF Wanted
  <2>4. QED BY <2>1, <2>2, <2>3, CalmStep
<1>6. ASSUME NEW x \in Uploads, NEW y \in Uploads, x # y, ~Wanted(x), Wanted(x)', Wanted(y)'
      PROVE  content[x] # content[y]
  <2>1. UploadStep(x) /\ FindDuplicate(x) = NoUpload
    BY <1>5, <1>6
  <2>2. Wanted(y)
    BY <1>6, <2>1, UploadOwn DEF Wanted
  <2>3. QED BY <1>2, <2>1, <2>2, NewContent
<1>7. QED BY <1>1, <1>3, <1>4, <1>6

LEMMA OneInvariant == Spec => []OneInv
<1>1. Init => OneInv
  BY DEF Init, OneInv, RowsHaveFiles, OneCall, Wanted, Live
<1>2. TypeInv /\ ListInv /\ OneInv /\ [Next]_vars => OneInv'
  BY RowsHaveFilesStep, OneCallStep DEF OneInv
<1>3. QED BY <1>1, <1>2, TypeInvariant, ListInvariant, PTL DEF Spec

(* However many uploads of one recording overlap, no two calls that have not
   failed hold it, through failing inserts, the pruner, crashes and restarts,
   as long as no DELETE or reprocess request comes between. *)
THEOREM OneCallForEach == Spec => []OneCallPerRecording
<1>1. OneInv => OneCallPerRecording
  BY DEF OneInv, OneCall, Wanted, OneCallPerRecording
<1>2. QED BY <1>1, OneInvariant, PTL

-----------------------------------------------------------------------------
(***************************************************************************)
(* The pruner keeps the newest. A file on its list had MaxFiles newer ones *)
(* at the scan; it must still have them when its turn comes, though other  *)
(* files of the list, newer than it perhaps, have gone meanwhile.          *)
(***************************************************************************)
ListIsFresh == used.delete = 0 => \A u \in Listed : KeptNewest(u)

FreshInv == IsFiniteSet(Files) /\ ListIsFresh

LEMMA FilesStayFinite ==
  ASSUME TypeInv, IsFiniteSet(Files), [Next]_vars
  PROVE  IsFiniteSet(Files')
<1> USE TypeParts DEF TypeInv
<1>1. \/ \E u \in Uploads : Files' \subseteq Files \cup {u}
      \/ Files' \subseteq Files
  <2>1. CASE OnlyLess \/ Restart
    BY <2>1, RestartSweeps DEF OnlyLess, Files
  <2>2. ASSUME NEW u \in Uploads, UploadStep(u) PROVE Files' \subseteq Files \cup {u}
    BY <2>2, UploadOwn DEF Files
  <2>3. CASE Crash
    <3>1. \/ UNCHANGED audio
          \/ \E u \in Uploads : audio' = [audio EXCEPT ![u] = TRUE]
      BY <2>3 DEF Crash
    <3>2. QED BY <3>1 DEF Files, StoreTyped
  <2>4. QED BY <2>1, <2>2, <2>3, CalmStep
<1>2. QED BY <1>1, FS_AddElement, FS_Subset

LEMMA MoreIsEnough ==
  ASSUME NEW S, NEW T, IsFiniteSet(T), S \subseteq T, Cardinality(S) >= MaxFiles
  PROVE  Cardinality(T) >= MaxFiles
<1>1. Cardinality(S) =< Cardinality(T) /\ Cardinality(S) \in Nat /\ Cardinality(T) \in Nat
  BY FS_Subset, FS_CardinalityType
<1>2. QED BY <1>1, LimitsAssumption

LEMMA FreshStep ==
  ASSUME TypeInv, RefusedInv, ListInv, FreshInv, [Next]_vars
  PROVE  ListIsFresh'
<1> USE TypeParts DEF TypeInv, FreshInv
<1>1. SUFFICES ASSUME used'.delete = 0, NEW u \in Listed' PROVE KeptNewest(u)'
  BY DEF ListIsFresh
<1>2. IsFiniteSet(Newer(u)') /\ IsFiniteSet(Newer(u))
  <2>1. Newer(u)' \subseteq Files' /\ Newer(u) \subseteq Files
    BY DEF Newer
  <2>2. QED BY <2>1, FilesStayFinite, FS_Subset
<1>3. ListInv' /\ RefusedInv'
  BY ListStep, RefusedStep
<1>4. CASE Scan
  BY <1>1, <1>4, UploadsAssumption DEF Scan, Listed, KeptNewest, Newer, Files
<1>5. CASE u \in Listed
  <2>1. u \in Uploads /\ KeptNewest(u) /\ pc[u] \in {"accepted", "rejected", "lost"}
    BY <1>1, <1>5, StepUse DEF Listed, RestTyped, ListIsFresh, ListInv, ListedAreOver
  <2>2. \A v \in Files : pc[v] \in {"accepted", "rejected", "lost"}
    BY DEF Files, RefusedInv, NoFileYet, RequestsTyped
  <2>3. \A v \in Uploads : pc[v] \in {"accepted", "rejected", "lost"} => mtime'[v] = mtime[v]
    BY CalmStep, UploadOwn, CrashLoses, RestartSweeps DEF OnlyLess
  <2>4. CASE Files \subseteq Files'
    <3>1. Newer(u) \subseteq Newer(u)'
      BY <2>1, <2>2, <2>3, <2>4 DEF Newer, Files
    <3>2. QED BY <1>2, <2>1, <3>1, MoreIsEnough DEF KeptNewest
  <2>5. CASE PruneFile
    <3>1. pruning \in Listed /\ pruning \in Uploads
      BY <2>5 DEF PruneFile, Listed, RestTyped
    <3>2. Files' = Files \ {pruning} /\ mtime' = mtime
      BY <2>5, <3>1 DEF PruneFile, Files, StoreTyped
    <3>3. CASE mtime[pruning] > mtime[u]
      <4>1. Newer(pruning) \subseteq Newer(u)'
        BY <2>1, <3>1, <3>2, <3>3 DEF Newer, Files, StoreTyped
      <4>2. KeptNewest(pruning)
        BY <1>1, <3>1, StepUse DEF ListIsFresh
      <4>3. QED BY <1>2, <4>1, <4>2, MoreIsEnough DEF KeptNewest
    <3>4. CASE ~(mtime[pruning] > mtime[u])
      <4>1. Newer(u) \subseteq Newer(u)'
        BY <3>2, <3>4 DEF Newer, Files
      <4>2. QED BY <1>2, <2>1, <4>1, MoreIsEnough DEF KeptNewest
    <3>5. QED BY <3>3, <3>4
  <2>6. Files \subseteq Files' \/ PruneFile
    <3>1. \A v \in Uploads : deleting[v] = "no"
      BY <1>1, StepUse DEF ListInv, NoDelete
    <3>2. ASSUME NEW v \in Uploads, UploadStep(v) PROVE Files \subseteq Files'
      BY <3>2, UploadOwn DEF Files
    <3>3. ASSUME NEW v \in Uploads, JobStep(v) PROVE audio' = audio
      BY <3>3 DEF JobStep, Enqueue, Dequeue, Begin, End, Reprocess, SetStatus
    <3>4. ASSUME NEW v \in Uploads, Removal(v) PROVE audio' = audio
      BY <3>1, <3>4 DEF Removal, DeleteRead, DeleteFile, DeleteRow, DeleteFails, PruneRow,
             PruneRowFails
    <3>5. CASE Crash
      BY <3>5, CrashLoses DEF Files
    <3>6. Scan \/ PruneFileFails \/ Restart \/ UNCHANGED vars => audio' = audio
      BY DEF Scan, PruneFileFails, Restart, vars
    <3>7. QED BY <3>2, <3>3, <3>4, <3>5, <3>6, StepCases DEF Files
  <2>7. QED BY <2>4, <2>5, <2>6
<1>6. QED BY <1>1, <1>4, <1>5, ListMoves

LEMMA FreshInvariant == Spec => []FreshInv
<1>1. Init => FreshInv
  <2>1. ASSUME Init PROVE Files = {} /\ Listed = {}
    BY <2>1, UploadsAssumption DEF Init, Files, Listed
  <2>2. QED BY <2>1, FS_EmptySet DEF FreshInv, ListIsFresh
<1>2. TypeInv /\ RefusedInv /\ ListInv /\ FreshInv /\ [Next]_vars => FreshInv'
  BY FreshStep, FilesStayFinite DEF FreshInv
<1>3. QED
  BY <1>1, <1>2, TypeInvariant, RefusedInvariant, ListInvariant, PTL DEF Spec

(* For any number of recordings and any MAX_FILES: the pruner deletes a
   recording only while MAX_FILES newer ones are kept, whatever is uploaded
   between its scan and the deletion and in whatever order it works its list
   off, as long as there is no DELETE. *)
THEOREM NewestAreKept == Spec => PrunerKeepsNewest
<1>1. ASSUME TypeInv, FreshInv, [Next]_vars
      PROVE  \A u \in Uploads : Pruned(u) /\ used.delete = 0 => KeptNewest(u)
  BY <1>1 DEF Pruned, FreshInv, ListIsFresh, Listed
<1>2. QED
  BY <1>1, TypeInvariant, FreshInvariant, PTL DEF Spec, PrunerKeepsNewest

=============================================================================
